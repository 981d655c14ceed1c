------------------------ MODULE ControlProtocolProofs ------------------------
(***************************************************************************)
(* For any number of clients, streams and calls of iperf_run_server: a        *)
(* measurement runs only on the streams of the client that negotiated it, a   *)
(* client that reports success has exchanged its results with the server, and *)
(* when nothing is in flight between the two they are in the same state.      *)
(*                                                                         *)
(* What a side believes rests on messages that were sent earlier.  So the     *)
(* invariant says of every message that may still be in flight what the       *)
(* server did before it wrote it (Earned), and of every place the server can  *)
(* be at which client and which streams it holds there (Held).                *)
(*                                                                         *)
(* The agreement needs the whole conversation (TalkInv): which messages are   *)
(* under way at each stage of it (Stage), that a client is told to dial once  *)
(* and has what it dialled in one row of the backlog (Dials, Served), and     *)
(* what may still come from a client nobody has answered (Waits) or one the   *)
(* server has let go (LetGo).                                                *)
(***************************************************************************)
EXTENDS ControlProtocol, SequenceTheorems, TLAPS

Carries(s, m) == \E i \in 1..Len(s) : s[i] = m

\* The client measures, or has measured.
Measures(c) ==
    /\ cpc[c] \in {"loop", "results"}
    /\ cstate[c] \in {"TEST_RUNNING", "TEST_END", "EXCHANGE_RESULTS", "DISPLAY_RESULTS"}

\* What was done before a message was written, or a client came to believe it.
Earned ==
    \A c \in Clients :
        /\ Carries(down[c], "TEST_RUNNING") => c \in started
        /\ Carries(down[c], "EXCHANGE_RESULTS") => c \in started
        /\ Carries(down[c], "DISPLAY_RESULTS") => c \in exchanged
        /\ Carries(up[c], "TEST_END") => c \in started
        /\ Measures(c) => c \in started
        /\ cret[c] = 0 => c \in exchanged
        /\ cpc[c] = "idle" => cstate[c] = "none"

\* Whom the server serves, and with which streams, at each place.
Held ==
    /\ spc \in {"cookie", "params", "starting", "results", "closing"} => sctrl # NoClient
    /\ spc = "returned" => sctrl = NoClient
    /\ spc = "loop" /\ sctrl = NoClient /\ ~sdone => accepted = <<>> /\ sstate = "IPERF_START"
    /\ spc \in {"cookie", "params"} => accepted = <<>>
    /\ spc = "loop" /\ sstate = "CREATE_STREAMS" => Len(accepted) < NumStreams
    /\ spc = "starting" => Len(accepted) = NumStreams
    /\ sctrl # NoClient => \A i \in 1..Len(accepted) : accepted[i] = sctrl
    /\ sctrl # NoClient /\ sstate = "TEST_RUNNING" =>
         sctrl \in started /\ Len(accepted) = NumStreams

ControlInv == TypeOK /\ Earned /\ Held

\* The type invariant, by who writes the variables.
ClientTypes ==
    /\ cpc \in [Clients -> {"idle", "loop", "results", "closing", "returned"}]
    /\ cstate \in [Clients -> States]
    /\ cdone \in [Clients -> BOOLEAN]
    /\ cret \in [Clients -> {-1, 0, 1}]
ServerTypes ==
    /\ spc \in {"returned", "loop", "cookie", "params", "starting", "results", "closing"}
    /\ sstate \in States /\ sdone \in BOOLEAN /\ sret \in {-2, -1, 0, 2}
    /\ sctrl \in Clients \cup {NoClient}
    /\ accepted \in Seq(Clients) /\ Len(accepted) <= NumStreams
    /\ sstop \in BOOLEAN /\ serves \in 0..MaxServes
    /\ exchanged \subseteq Clients /\ started \subseteq Clients /\ finished \subseteq Clients
ListenTypes ==
    /\ listening \in BOOLEAN /\ backlog \in Seq(Pending) /\ (listening \/ backlog = <<>>)
LinkTypes ==
    /\ up \in [Clients -> Seq(Messages)] /\ down \in [Clients -> Seq(Messages)]
    /\ upEnd \in [Clients -> BOOLEAN] /\ downEnd \in [Clients -> BOOLEAN]
    /\ lost \in [Clients -> BOOLEAN] /\ breaks \in 0..MaxBreaks

\* The four parts make up the type invariant.
LEMMA Types == TypeOK <=> ClientTypes /\ ServerTypes /\ ListenTypes /\ LinkTypes
  BY SMTT(30) DEF TypeOK, ClientTypes, ServerTypes, ListenTypes, LinkTypes

\* So they do after a step.
LEMMA TypesPrimed == TypeOK' <=> ClientTypes' /\ ServerTypes' /\ ListenTypes' /\ LinkTypes'
  BY SMTT(30) DEF TypeOK, ClientTypes, ServerTypes, ListenTypes, LinkTypes

-----------------------------------------------------------------------------
\* Sequences.

\* Taking the head of a sequence leaves a sequence, which carries nothing new.
LEMMA TailFacts ==
    ASSUME NEW S, NEW s \in Seq(S), s # <<>>
    PROVE  /\ Tail(s) \in Seq(S) /\ Head(s) \in S
           /\ Len(Tail(s)) = Len(s) - 1
           /\ \A i \in 1..Len(Tail(s)) : Tail(s)[i] = s[i + 1]
           /\ \A m : Carries(Tail(s), m) => Carries(s, m)
           /\ Carries(s, Head(s))
<1>1. Tail(s) \in Seq(S) /\ Head(s) \in S /\ Len(Tail(s)) = Len(s) - 1 /\ Len(s) \in Nat \ {0}
  BY HeadTailProperties, LenProperties, EmptySeq
<1>2. \A i \in 1..Len(Tail(s)) : Tail(s)[i] = s[i + 1]
  BY HeadTailProperties
<1>3. ASSUME NEW m, Carries(Tail(s), m) PROVE Carries(s, m)
  BY <1>1, <1>2, <1>3 DEF Carries
<1>4. Head(s) = s[1]
  OBVIOUS
<1>5. Carries(s, Head(s))
  BY <1>1, <1>4 DEF Carries
<1> QED BY <1>1, <1>2, <1>3, <1>5

\* A concatenation carries what one of its parts carries.
LEMMA ConcatFacts ==
    ASSUME NEW S, NEW s \in Seq(S), NEW t \in Seq(S)
    PROVE  /\ s \o t \in Seq(S)
           /\ \A m : Carries(s \o t, m) => Carries(s, m) \/ Carries(t, m)
<1>1. /\ s \o t \in Seq(S) /\ Len(s \o t) = Len(s) + Len(t)
      /\ \A i \in 1..Len(s) + Len(t) :
            (s \o t)[i] = IF i <= Len(s) THEN s[i] ELSE t[i - Len(s)]
      /\ Len(s) \in Nat /\ Len(t) \in Nat
  BY ConcatProperties, LenProperties
<1>2. ASSUME NEW m, Carries(s \o t, m) PROVE Carries(s, m) \/ Carries(t, m)
  <2>1. PICK i \in 1..Len(s) + Len(t) : (s \o t)[i] = m
    BY <1>1, <1>2 DEF Carries
  <2>2. CASE i <= Len(s)
    BY <1>1, <2>1, <2>2 DEF Carries
  <2>3. CASE ~(i <= Len(s))
    <3>1. i - Len(s) \in 1..Len(t) /\ t[i - Len(s)] = m
      BY <1>1, <2>1, <2>3
    <3> QED BY <3>1 DEF Carries
  <2> QED BY <2>2, <2>3
<1> QED BY <1>1, <1>2

\* What short sequences carry.
LEMMA ShortFacts ==
    ASSUME NEW m
    PROVE  /\ ~Carries(<<>>, m)
           /\ \A x : Carries(<<x>>, m) => m = x
           /\ \A x, y : Carries(<<x, y>>, m) => m = x \/ m = y
  BY DEF Carries

\* One message is a sequence of messages that carries it alone.
LEMMA OneMessage ==
    \A x \in Messages : <<x>> \in Seq(Messages) /\ \A m : Carries(<<x>>, m) => m = x
<1> SUFFICES ASSUME NEW x \in Messages
             PROVE  <<x>> \in Seq(Messages) /\ \A m : Carries(<<x>>, m) => m = x
  OBVIOUS
<1>1. <<x>> \in Seq(Messages)
  OBVIOUS
<1>2. ASSUME NEW m, Carries(<<x>>, m) PROVE m = x
  BY <1>2, ShortFacts
<1> QED BY <1>1, <1>2

\* Writing keeps the types, and adds nothing but what is written, to nobody else.
LEMMA SentDownFacts ==
    ASSUME TypeOK, NEW c \in Clients, NEW msgs \in Seq(Messages)
    PROVE  /\ SentDown(c, msgs) \in [Clients -> Seq(Messages)]
           /\ \A d \in Clients : \A m :
                Carries(SentDown(c, msgs)[d], m) =>
                    Carries(down[d], m) \/ (d = c /\ Carries(msgs, m))
<1>1. down \in [Clients -> Seq(Messages)] /\ down[c] \in Seq(Messages)
  BY DEF TypeOK
<1>2. /\ down[c] \o msgs \in Seq(Messages)
      /\ \A m : Carries(down[c] \o msgs, m) => Carries(down[c], m) \/ Carries(msgs, m)
  BY <1>1, ConcatFacts
<1>3. CASE lost[c] \/ upEnd[c]
  BY <1>1, <1>3 DEF SentDown
<1>4. CASE ~(lost[c] \/ upEnd[c])
  <2>1. SentDown(c, msgs) = [down EXCEPT ![c] = down[c] \o msgs]
    BY <1>4 DEF SentDown
  <2> QED BY <1>1, <1>2, <2>1
<1> QED BY <1>3, <1>4

\* The same for the other direction.
LEMMA SentUpFacts ==
    ASSUME TypeOK, NEW c \in Clients, NEW msgs \in Seq(Messages)
    PROVE  /\ SentUp(c, msgs) \in [Clients -> Seq(Messages)]
           /\ \A d \in Clients : \A m :
                Carries(SentUp(c, msgs)[d], m) =>
                    Carries(up[d], m) \/ (d = c /\ Carries(msgs, m))
<1>1. up \in [Clients -> Seq(Messages)] /\ up[c] \in Seq(Messages)
  BY DEF TypeOK
<1>2. /\ up[c] \o msgs \in Seq(Messages)
      /\ \A m : Carries(up[c] \o msgs, m) => Carries(up[c], m) \/ Carries(msgs, m)
  BY <1>1, ConcatFacts
<1>3. CASE lost[c] \/ downEnd[c]
  BY <1>1, <1>3 DEF SentUp
<1>4. CASE ~(lost[c] \/ downEnd[c])
  <2>1. SentUp(c, msgs) = [up EXCEPT ![c] = up[c] \o msgs]
    BY <1>4 DEF SentUp
  <2> QED BY <1>1, <1>2, <2>1
<1> QED BY <1>3, <1>4

\* Reading takes the first message, and leaves nothing new.
LEMMA ReadFacts ==
    ASSUME NEW q \in [Clients -> Seq(Messages)], NEW c \in Clients, q[c] # <<>>
    PROVE  /\ Set(q, c, Tail(q[c])) \in [Clients -> Seq(Messages)]
           /\ \A d \in Clients : \A m : Carries(Set(q, c, Tail(q[c]))[d], m) => Carries(q[d], m)
           /\ \A m : NextIs(q[c], m) => Carries(q[c], m)
<1>1. q[c] \in Seq(Messages)
  OBVIOUS
<1>2. /\ Tail(q[c]) \in Seq(Messages)
      /\ \A m : Carries(Tail(q[c]), m) => Carries(q[c], m)
      /\ Carries(q[c], Head(q[c]))
  BY <1>1, TailFacts
<1> QED BY <1>2 DEF Set, NextIs

\* Earned survives a step whose new messages and new beliefs are earned.
LEMMA EarnedKept ==
    ASSUME Earned, started \subseteq started', exchanged \subseteq exchanged',
           \A d \in Clients :
             /\ Carries(down'[d], "TEST_RUNNING") => Carries(down[d], "TEST_RUNNING") \/ d \in started'
             /\ Carries(down'[d], "EXCHANGE_RESULTS") =>
                    Carries(down[d], "EXCHANGE_RESULTS") \/ d \in started'
             /\ Carries(down'[d], "DISPLAY_RESULTS") =>
                    Carries(down[d], "DISPLAY_RESULTS") \/ d \in exchanged'
             /\ Carries(up'[d], "TEST_END") => Carries(up[d], "TEST_END") \/ d \in started'
             /\ Measures(d)' => Measures(d) \/ d \in started'
             /\ cret'[d] = 0 => cret[d] = 0 \/ d \in exchanged'
             /\ cpc'[d] = "idle" => cpc[d] = "idle" /\ cstate'[d] = cstate[d]
    PROVE  Earned'
  BY DEF Earned

-----------------------------------------------------------------------------
\* Steps of a client.

\* A client changes nothing the server holds.
LEMMA ServerKept == Held /\ UNCHANGED ServerSide => Held'
  BY DEF Held, ServerSide, serverVars, ghosts

\* iperf_client_end, with whatever state and result, keeps the invariant.
LEMMA ClientEndInv ==
    ASSUME ControlInv, NEW c \in Clients, NEW s \in States, NEW ret \in {-1, 0},
           NEW rest \in Seq(Messages), \A m : Carries(rest, m) => Carries(down[c], m),
           ret = 0 => c \in exchanged, ClientEnd(c, s, ret, rest),
           UNCHANGED <<ClientLinkKeeps, listenVars, ServerSide>>
    PROVE  ControlInv'
<1> USE DEF ControlInv
<1>1. <<"IPERF_DONE">> \in Seq(Messages)
  BY DEF Messages, States
<1>2. /\ up' \in [Clients -> Seq(Messages)]
      /\ \A d \in Clients : Carries(up'[d], "TEST_END") => Carries(up[d], "TEST_END")
  <2>1. CASE up' = up
    BY <2>1 DEF TypeOK
  <2>2. CASE up' = SentUp(c, <<"IPERF_DONE">>)
    <3>1. ~Carries(<<"IPERF_DONE">>, "TEST_END")
      BY ShortFacts
    <3> QED BY <1>1, <2>2, <3>1, SentUpFacts, Zenon
  <2> QED BY <2>1, <2>2 DEF ClientEnd
<1>3. /\ cpc' = [cpc EXCEPT ![c] = "closing"] /\ cstate' = [cstate EXCEPT ![c] = s]
      /\ cret' = [cret EXCEPT ![c] = ret] /\ down' = [down EXCEPT ![c] = rest]
      /\ upEnd' = [upEnd EXCEPT ![c] = TRUE] /\ cdone' = cdone
  BY DEF ClientEnd, Set
<1>4. TypeOK'
  BY <1>2, <1>3 DEF TypeOK, ClientLinkKeeps, listenVars, ServerSide, serverVars, ghosts
<1>5. Earned'
  <2> SUFFICES ASSUME NEW d \in Clients
               PROVE  /\ Carries(down'[d], "TEST_RUNNING") => d \in started
                      /\ Carries(down'[d], "EXCHANGE_RESULTS") => d \in started
                      /\ Carries(down'[d], "DISPLAY_RESULTS") => d \in exchanged
                      /\ Carries(up'[d], "TEST_END") => d \in started
                      /\ Measures(d)' => d \in started
                      /\ cret'[d] = 0 => d \in exchanged
                      /\ cpc'[d] = "idle" => cstate'[d] = "none"
    BY DEF Earned, ServerSide, ghosts
  <2>1. \A m : Carries(down'[d], m) => Carries(down[d], m)
    BY <1>3 DEF TypeOK
  <2>2. Measures(d)' => Measures(d)
    BY <1>3 DEF TypeOK, Measures
  <2>3. cret'[d] = 0 => d \in exchanged
    BY <1>3 DEF TypeOK, Earned
  <2>4. cpc'[d] = "idle" => cstate'[d] = "none"
    BY <1>3 DEF TypeOK, Earned
  <2> QED BY <1>2, <2>1, <2>2, <2>3, <2>4 DEF Earned
<1>6. Held'
  BY ServerKept
<1> QED BY <1>4, <1>5, <1>6

\* So does a step that reads one message, moves to state s and writes u at most,
\* if the test has started before s says that it runs.
LEMMA ClientReads ==
    ASSUME ControlInv, NEW c \in Clients, NEW p \in {"loop", "results"}, NEW s \in States,
           NEW u \in Seq(Messages), ~Carries(u, "TEST_END"),
           cpc[c] \in {"loop", "results"}, down[c] # <<>>,
           down' = Set(down, c, Tail(down[c])), up' = up \/ up' = SentUp(c, u),
           cpc' = cpc \/ cpc' = Set(cpc, c, p), cstate' = cstate \/ cstate' = Set(cstate, c, s),
           s \in {"TEST_RUNNING", "TEST_END", "EXCHANGE_RESULTS", "DISPLAY_RESULTS"} => c \in started,
           cdone' \in [Clients -> BOOLEAN], ListenTypes',
           UNCHANGED <<cret, upEnd, ClientLinkKeeps, ServerSide>>
    PROVE  ControlInv'
<1> USE DEF ControlInv
<1>1. ClientTypes /\ ServerTypes /\ LinkTypes
  BY Types
<1>2. /\ down' \in [Clients -> Seq(Messages)]
      /\ \A d \in Clients : \A m : Carries(down'[d], m) => Carries(down[d], m)
  BY <1>1, ReadFacts, Zenon DEF LinkTypes
<1>3. /\ up' \in [Clients -> Seq(Messages)]
      /\ \A d \in Clients : Carries(up'[d], "TEST_END") => Carries(up[d], "TEST_END")
  <2>1. CASE up' = up
    BY <1>1, <2>1 DEF LinkTypes
  <2>2. CASE up' = SentUp(c, u)
    BY <2>2, SentUpFacts
  <2> QED BY <2>1, <2>2
<1>4. ClientTypes'
  BY <1>1 DEF ClientTypes, Set
<1>5. ServerTypes' /\ LinkTypes'
  BY <1>1, <1>2, <1>3
  DEF ServerTypes, LinkTypes, ClientLinkKeeps, ServerSide, serverVars, ghosts
<1>6. \A d \in Clients : Measures(d)' => Measures(d) \/ d \in started
  BY <1>1 DEF Measures, ClientTypes, Set
<1>7. \A d \in Clients : cpc'[d] = "idle" => cpc[d] = "idle" /\ cstate'[d] = cstate[d]
  BY <1>1 DEF ClientTypes, Set
<1>8. Earned'
  BY <1>2, <1>3, <1>6, <1>7, EarnedKept, Zenon DEF ServerSide, ghosts
<1> QED BY <1>4, <1>5, <1>8, TypesPrimed, ServerKept

\* Every step of a client keeps the invariant.
LEMMA ClientInv ==
    ASSUME ControlInv, NEW c \in Clients,
           Connect(c) \/ ClientStep(c) \/ ClientStop(c) \/ Break(c)
    PROVE  ControlInv'
<1> USE DEF ControlInv
<1> DEFINE Reads == down[c] # <<>> /\ down' = Set(down, c, Tail(down[c]))
<1>1. ASSUME Reads
      PROVE  /\ down' \in [Clients -> Seq(Messages)]
             /\ \A d \in Clients : \A m : Carries(down'[d], m) => Carries(down[d], m)
  BY <1>1, ReadFacts, Zenon DEF TypeOK
<1>2. \A m : Receives(c, m) => down[c] # <<>> /\ Carries(down[c], m)
  <2>1. ASSUME NEW m, Receives(c, m) PROVE down[c] # <<>> /\ Carries(down[c], m)
    BY <2>1, ReadFacts, Zenon DEF TypeOK, Receives, NextIs
  <2> QED BY <2>1
<1>3. \A m \in Messages : <<m>> \in Seq(Messages)
  OBVIOUS
<1>4. down[c] \in Seq(Messages) /\ <<>> \in Seq(Messages) /\ \A m : ~Carries(<<>>, m)
  BY ShortFacts DEF TypeOK
<1>5. cstate[c] \in States
  BY DEF TypeOK
<1> HIDE DEF Reads
<1>6. ClientTypes /\ ServerTypes /\ ListenTypes /\ LinkTypes
  BY Types
<1>7. -1 \in {-1, 0} /\ -1 # 0
  OBVIOUS
<1>10. CASE Connect(c)
  <2>0. /\ cpc[c] = "idle" /\ cstate' = cstate /\ cdone' = cdone /\ listening' = listening
        /\ down' = down /\ upEnd' = upEnd /\ downEnd' = downEnd /\ lost' = lost /\ breaks' = breaks
        /\ UNCHANGED ServerSide
    BY <1>10 DEF Connect
  <2>1. "cookie" \in Messages /\ ~Carries(<<"cookie">>, "TEST_END")
    BY ShortFacts DEF Messages
  <2>2. CASE listening
    <3>1. /\ cpc' = [cpc EXCEPT ![c] = "loop"] /\ cret' = cret
          /\ backlog' = Append(backlog, [client |-> c, kind |-> "control"])
          /\ up' = SentUp(c, <<"cookie">>)
      BY <1>10, <2>2 DEF Connect, Set
    <3>2. /\ up' \in [Clients -> Seq(Messages)]
          /\ \A d \in Clients : Carries(up'[d], "TEST_END") => Carries(up[d], "TEST_END")
      BY <1>3, <2>1, <3>1, SentUpFacts, Zenon
    <3>3. [client |-> c, kind |-> "control"] \in Pending
      BY DEF Pending
    <3>4. backlog' \in Seq(Pending)
      BY <1>6, <3>1, <3>3 DEF ListenTypes
    <3>5. TypeOK'
      BY <1>6, <2>0, <2>2, <3>1, <3>2, <3>4, TypesPrimed
      DEF ClientTypes, ServerTypes, ListenTypes, LinkTypes, ServerSide, serverVars, ghosts
    <3>6. \A d \in Clients : Measures(d)' => Measures(d)
      BY <1>6, <2>0, <3>1 DEF Measures, Earned, ClientTypes
    <3>7. \A d \in Clients : cpc'[d] = "idle" => cpc[d] = "idle"
      BY <1>6, <3>1 DEF ClientTypes
    <3>8. Earned'
      BY <2>0, <3>1, <3>2, <3>6, <3>7, EarnedKept DEF ServerSide, ghosts
    <3> QED BY <2>0, <3>5, <3>8, ServerKept
  <2>3. CASE ~listening
    <3>1. /\ cpc' = [cpc EXCEPT ![c] = "returned"] /\ cret' = [cret EXCEPT ![c] = -1]
          /\ backlog' = backlog /\ up' = up
      BY <1>10, <2>3 DEF Connect, Set
    <3>2. TypeOK'
      BY <1>6, <2>0, <3>1, TypesPrimed
      DEF ClientTypes, ServerTypes, ListenTypes, LinkTypes, ServerSide, serverVars, ghosts
    <3>3. \A d \in Clients : /\ Measures(d)' => Measures(d)
                             /\ cret'[d] = 0 => cret[d] = 0
                             /\ cpc'[d] = "idle" => cpc[d] = "idle"
      BY <1>6, <2>0, <3>1 DEF Measures, ClientTypes
    <3>4. Earned'
      BY <2>0, <3>1, <3>3, EarnedKept DEF ServerSide, ghosts
    <3> QED BY <2>0, <3>2, <3>4, ServerKept
  <2> QED BY <2>2, <2>3
<1>11. CASE ReadParamExchange(c)
  <2>1. <<"params">> \in Seq(Messages) /\ ~Carries(<<"params">>, "TEST_END")
    BY SMTT(30), ShortFacts DEF Messages
  <2>2. ListenTypes' /\ cdone' \in [Clients -> BOOLEAN] /\ "PARAM_EXCHANGE" \in States
    BY <1>6, <1>11 DEF ReadParamExchange, ListenTypes, listenVars, ClientTypes, States
  <2> QED BY <1>2, <1>11, <2>1, <2>2, ClientReads, Zenon DEF ReadParamExchange, Receives
<1>12. CASE ReadCreateStreams(c)
  <2>0. "CREATE_STREAMS" \in States
    BY DEF States
  <2>1. CASE listening
    <3>1. [i \in 1..NumStreams |-> [client |-> c, kind |-> "stream"]] \in Seq(Pending)
      <4>1. [client |-> c, kind |-> "stream"] \in Pending
        BY DEF Pending
      <4> QED BY <4>1, ProtocolConstants
    <3> DEFINE new == [i \in 1..NumStreams |-> [client |-> c, kind |-> "stream"]]
    <3>0. backlog' = backlog \o new /\ listening' = listening
      BY <1>12, <2>1, Zenon DEF ReadCreateStreams
    <3> HIDE DEF new
    <3>4. backlog \in Seq(Pending) /\ new \in Seq(Pending)
      BY <1>6, <3>1 DEF ListenTypes, new
    <3>2. backlog' \in Seq(Pending)
      BY <3>0, <3>4, ConcatFacts
    <3>3. ListenTypes' /\ cdone' \in [Clients -> BOOLEAN]
      BY <1>6, <1>12, <2>1, <3>0, <3>2 DEF ReadCreateStreams, ListenTypes, ClientTypes
    <3> QED BY <1>2, <1>4, <1>12, <2>0, <2>1, <3>3, ClientReads, Zenon DEF ReadCreateStreams, Receives
  <2>2. CASE ~listening
    <3>1. down[c] # <<>>
      BY <1>2, <1>12 DEF ReadCreateStreams
    <3>2. Tail(down[c]) \in Seq(Messages) /\ \A m : Carries(Tail(down[c]), m) => Carries(down[c], m)
      BY <1>4, <3>1, TailFacts
    <3>3. /\ ClientEnd(c, "CREATE_STREAMS", -1, Tail(down[c]))
          /\ UNCHANGED <<ClientLinkKeeps, listenVars, ServerSide>>
      BY <1>12, <2>2 DEF ReadCreateStreams, ClientFails, listenVars
    <3> QED BY <1>7, <2>0, <3>2, <3>3, ClientEndInv, Zenon
  <2> QED BY <2>1, <2>2
<1>13. CASE ReadTestStart(c)
  <2>1. ListenTypes' /\ "TEST_START" \in States
    BY <1>6, <1>13 DEF ReadTestStart, ListenTypes, listenVars, States
  <2>2. cdone' \in [Clients -> BOOLEAN]
    BY <1>6, <1>13, Zenon DEF ReadTestStart, ClientTypes, Set
  <2>3. /\ down[c] # <<>> /\ cpc[c] \in {"loop", "results"} /\ cpc' = cpc /\ up' = up
        /\ down' = Set(down, c, Tail(down[c])) /\ cstate' = Set(cstate, c, "TEST_START")
        /\ UNCHANGED <<cret, upEnd, ClientLinkKeeps, ServerSide>>
    BY <1>2, <1>13 DEF ReadTestStart, Receives
  <2> QED BY <1>4, <2>1, <2>2, <2>3, ClientReads, Zenon
<1>14. CASE ReadTestRunning(c)
  <2>1. ListenTypes' /\ cdone' \in [Clients -> BOOLEAN] /\ "TEST_RUNNING" \in States
    BY <1>6, <1>14 DEF ReadTestRunning, ListenTypes, listenVars, ClientTypes, States
  <2>2. c \in started
    BY <1>2, <1>14 DEF ReadTestRunning, Earned
  <2> QED BY <1>2, <1>4, <1>14, <2>1, <2>2, ClientReads, Zenon DEF ReadTestRunning, Receives
<1>15. CASE ReadExchangeResults(c)
  <2>1. <<"results">> \in Seq(Messages) /\ ~Carries(<<"results">>, "TEST_END")
    BY ShortFacts DEF Messages
  <2>2. ListenTypes' /\ cdone' \in [Clients -> BOOLEAN] /\ "EXCHANGE_RESULTS" \in States
    BY <1>6, <1>15 DEF ReadExchangeResults, ListenTypes, listenVars, ClientTypes, States
  <2>3. c \in started
    BY <1>2, <1>15 DEF ReadExchangeResults, Earned
  <2> QED BY <1>2, <1>15, <2>1, <2>2, <2>3, ClientReads, Zenon DEF ReadExchangeResults, Receives
<1>16. CASE GetResults(c)
  <2>1. ListenTypes' /\ cdone' \in [Clients -> BOOLEAN] /\ "none" \in States
    BY <1>6, <1>16 DEF GetResults, ListenTypes, listenVars, ClientTypes, States
  <2>2. down[c] # <<>>
    BY <1>16 DEF GetResults, NextIs
  <2> QED BY <1>4, <1>16, <2>1, <2>2, ClientReads, Zenon DEF GetResults
<1>17. CASE GetResultsFails(c)
  <2>1. ClientEnd(c, cstate[c], -1, <<>>) /\ UNCHANGED <<ClientLinkKeeps, listenVars, ServerSide>>
    BY <1>17 DEF GetResultsFails, ClientFails
  <2> QED BY <1>4, <1>5, <1>7, <2>1, ClientEndInv, Zenon
<1>18. CASE ReadDisplayResults(c)
  <2>1. down[c] # <<>> /\ c \in exchanged
    BY <1>2, <1>18 DEF ReadDisplayResults, Earned
  <2>2. Tail(down[c]) \in Seq(Messages) /\ \A m : Carries(Tail(down[c]), m) => Carries(down[c], m)
    BY <1>4, <2>1, TailFacts
  <2>3. "IPERF_DONE" \in States /\ 0 \in {-1, 0}
    BY DEF States
  <2>4. /\ ClientEnd(c, "IPERF_DONE", 0, Tail(down[c]))
        /\ UNCHANGED <<ClientLinkKeeps, listenVars, ServerSide>>
    BY <1>18 DEF ReadDisplayResults
  <2> QED BY <2>1, <2>2, <2>3, <2>4, ClientEndInv, Zenon
<1>19. CASE ReadRefusal(c)
  <2>0. UNCHANGED <<ClientLinkKeeps, listenVars, ServerSide>>
    BY <1>19 DEF ReadRefusal
  <2>1. ASSUME NEW msg \in {"SERVER_ERROR", "ACCESS_DENIED"}, Receives(c, msg),
               ClientFails(c, msg, Tail(down[c]))
        PROVE  ControlInv'
    <3>1. down[c] # <<>>
      BY <1>2, <2>1
    <3>2. Tail(down[c]) \in Seq(Messages) /\ \A m : Carries(Tail(down[c]), m) => Carries(down[c], m)
      BY <1>4, <3>1, TailFacts
    <3>3. msg \in States /\ ClientEnd(c, msg, -1, Tail(down[c]))
      BY <2>1 DEF States, ClientFails
    <3> QED BY <1>7, <2>0, <3>2, <3>3, ClientEndInv, Zenon
  <2>2. CASE ClientFails(c, cstate[c], <<>>)
    BY <1>4, <1>5, <1>7, <2>0, <2>2, ClientEndInv, Zenon DEF ClientFails
  <2> QED BY <1>19, <2>1, <2>2 DEF ReadRefusal
<1>20. CASE TestTimer(c) \/ ClientStop(c)
  <2>1. /\ cdone' = [cdone EXCEPT ![c] = TRUE]
        /\ UNCHANGED <<cpc, cstate, cret, linkVars, listenVars, ServerSide>>
    BY <1>20 DEF TestTimer, ClientStop, Set
  <2>2. TypeOK'
    BY <1>6, <2>1, TypesPrimed, Zenon DEF ClientTypes, ServerTypes, ListenTypes, LinkTypes, linkVars,
       listenVars, ServerSide, serverVars, ghosts
  <2>3. Earned'
    BY <2>1 DEF Earned, Measures, linkVars, ServerSide, ghosts
  <2> QED BY <2>1, <2>2, <2>3, ServerKept
<1>21. CASE EndTest(c)
  <2>0. /\ cpc[c] = "loop" /\ cstate[c] = "TEST_RUNNING" /\ cstate' = [cstate EXCEPT ![c] = "TEST_END"]
        /\ cdone' = [cdone EXCEPT ![c] = TRUE]
        /\ UNCHANGED <<down, ClientLinkKeeps, listenVars, ServerSide>>
    BY <1>21 DEF EndTest, Set
  <2>1. c \in started /\ "TEST_END" \in States /\ <<"TEST_END">> \in Seq(Messages)
    BY <2>0 DEF Earned, Measures, Messages, States
  <2>2. \/ /\ cpc' = [cpc EXCEPT ![c] = "closing"] /\ cret' = [cret EXCEPT ![c] = -1]
           /\ upEnd' = [upEnd EXCEPT ![c] = TRUE] /\ up' = up
        \/ up' = SentUp(c, <<"TEST_END">>) /\ UNCHANGED <<cpc, cret, upEnd>>
    BY <1>21 DEF EndTest, Set
  <2>3. /\ up' \in [Clients -> Seq(Messages)]
        /\ \A d \in Clients : Carries(up'[d], "TEST_END") => Carries(up[d], "TEST_END") \/ d = c
    <3>1. CASE up' = up
      BY <1>6, <3>1 DEF LinkTypes
    <3>2. CASE up' = SentUp(c, <<"TEST_END">>)
      BY <2>1, <3>2, SentUpFacts, Zenon
    <3> QED BY <2>2, <3>1, <3>2
  <2>4. ClientTypes'
    BY <1>6, <2>0, <2>1, <2>2 DEF ClientTypes
  <2>5. upEnd' \in [Clients -> BOOLEAN]
    BY <1>6, <2>2, Zenon DEF LinkTypes
  <2>6. ServerTypes' /\ ListenTypes' /\ LinkTypes'
    BY <1>6, <2>0, <2>3, <2>5 DEF ServerTypes, ListenTypes, LinkTypes, ClientLinkKeeps, listenVars,
       ServerSide, serverVars, ghosts
  <2>7. \A d \in Clients : /\ Measures(d)' => Measures(d)
                           /\ cret'[d] = 0 => cret[d] = 0
                           /\ cpc'[d] = "idle" => cpc[d] = "idle" /\ cstate'[d] = cstate[d]
    BY <1>6, <2>0, <2>2 DEF Measures, ClientTypes
  <2>8. Earned'
    BY <2>0, <2>1, <2>3, <2>7, EarnedKept DEF ServerSide, ghosts
  <2> QED BY <2>0, <2>4, <2>6, <2>8, TypesPrimed, ServerKept
<1>22. CASE ClientNoMessage(c)
  <2>1. ClientEnd(c, cstate[c], -1, down[c]) /\ UNCHANGED <<ClientLinkKeeps, listenVars, ServerSide>>
    BY <1>22 DEF ClientNoMessage, ClientFails
  <2> QED BY <1>4, <1>5, <1>7, <2>1, ClientEndInv, Zenon
<1>23. CASE ClientClosed(c)
  <2>1. /\ cpc' = [cpc EXCEPT ![c] = "returned"] /\ down' = [down EXCEPT ![c] = <<>>]
        /\ UNCHANGED <<cstate, cdone, cret, up, upEnd, ClientLinkKeeps, listenVars, ServerSide>>
    BY <1>23 DEF ClientClosed, Set
  <2>2. down' \in [Clients -> Seq(Messages)]
    BY <1>4, <1>6, <2>1 DEF LinkTypes
  <2>3. TypeOK'
    BY <1>6, <2>1, <2>2, TypesPrimed DEF ClientTypes, ServerTypes, ListenTypes, LinkTypes,
       ClientLinkKeeps, listenVars, ServerSide, serverVars, ghosts
  <2>4. \A d \in Clients : /\ \A m : Carries(down'[d], m) => Carries(down[d], m)
                           /\ Measures(d)' => Measures(d)
                           /\ cpc'[d] = "idle" => cpc[d] = "idle"
    BY <1>4, <1>6, <2>1 DEF LinkTypes, Measures, ClientTypes
  <2>5. Earned'
    BY SMTT(30), <2>1, <2>4, EarnedKept DEF ServerSide, ghosts
  <2> QED BY <2>1, <2>3, <2>5, ServerKept
<1>24. CASE Break(c)
  <2>1. /\ up' = [up EXCEPT ![c] = <<>>] /\ down' = [down EXCEPT ![c] = <<>>]
        /\ lost' = [lost EXCEPT ![c] = TRUE] /\ breaks' = breaks + 1 /\ breaks < MaxBreaks
        /\ UNCHANGED <<clientVars, serverVars, listenVars, upEnd, downEnd, ghosts>>
    BY <1>24 DEF Break, Set
  <2>2. up' \in [Clients -> Seq(Messages)] /\ down' \in [Clients -> Seq(Messages)]
    BY <1>4, <1>6, <2>1 DEF LinkTypes
  <2>3. lost' \in [Clients -> BOOLEAN] /\ breaks' \in 0..MaxBreaks
    BY <1>6, <2>1, ProtocolConstants DEF LinkTypes
  <2>4. TypeOK'
    BY <1>6, <2>1, <2>2, <2>3, TypesPrimed DEF ClientTypes, ServerTypes, ListenTypes, LinkTypes,
       clientVars, serverVars, listenVars, ghosts
  <2>5. \A d \in Clients : /\ \A m : Carries(down'[d], m) => Carries(down[d], m)
                           /\ \A m : Carries(up'[d], m) => Carries(up[d], m)
    BY <1>4, <1>6, <2>1 DEF LinkTypes
  <2>6. Earned'
    BY <2>1, <2>5, Zenon DEF Earned, Measures, clientVars, ghosts
  <2> QED BY <2>1, <2>4, <2>6, ServerKept DEF ServerSide
<1> QED BY <1>10, <1>11, <1>12, <1>13, <1>14, <1>15, <1>16, <1>17, <1>18, <1>19, <1>20, <1>21,
           <1>22, <1>23, <1>24 DEF ClientStep

-----------------------------------------------------------------------------
\* Steps of the server.

\* The listener may be closed at any time.
LEMMA CloseListenerTypes ==
    ASSUME LinkTypes, CloseListener
    PROVE  ListenTypes' /\ lost' \in [Clients -> BOOLEAN]
<1>1. listening' = FALSE /\ backlog' = <<>>
  BY DEF CloseListener
<1>2. ListenTypes'
  <2>1. backlog' \in Seq(Pending)
    BY <1>1
  <2> QED BY <1>1, <2>1, Zenon DEF ListenTypes
<1>3. lost' \in [Clients -> BOOLEAN]
  <2> DEFINE resets(c) == \/ lost[c]
                          \/ \E i \in 1..Len(backlog) : backlog[i] = [client |-> c, kind |-> "control"]
  <2>1. lost' = [c \in Clients |-> resets(c)]
    BY DEF CloseListener
  <2>2. \A c \in Clients : resets(c) \in BOOLEAN
    BY Zenon DEF LinkTypes
  <2> QED BY <2>1, <2>2, Zenon
<1> QED BY <1>2, <1>3

\* Earned after a step of the server that writes nothing that must be earned.
LEMMA EarnedByServer ==
    ASSUME Earned, UNCHANGED clientVars, started \subseteq started', exchanged \subseteq exchanged',
           \A d \in Clients :
             /\ Carries(down'[d], "TEST_RUNNING") => Carries(down[d], "TEST_RUNNING") \/ d \in started'
             /\ Carries(down'[d], "EXCHANGE_RESULTS") =>
                    Carries(down[d], "EXCHANGE_RESULTS") \/ d \in started'
             /\ Carries(down'[d], "DISPLAY_RESULTS") =>
                    Carries(down[d], "DISPLAY_RESULTS") \/ d \in exchanged'
             /\ Carries(up'[d], "TEST_END") => Carries(up[d], "TEST_END")
    PROVE  Earned'
<1>1. \A d \in Clients : /\ Measures(d)' <=> Measures(d)
                         /\ cret'[d] = cret[d] /\ cpc'[d] = cpc[d] /\ cstate'[d] = cstate[d]
  BY DEF Measures, clientVars
<1> QED BY <1>1, EarnedKept

\* cleanup_server, wherever it is called, keeps the invariant.
LEMMA CleanupInv ==
    ASSUME ControlInv, NEW err \in BOOLEAN, NEW s \in States, NEW ret \in {-2, -1, 0, 2},
           Cleanup(err, s, ret), s = "TEST_RUNNING" => sstate = "TEST_RUNNING",
           UNCHANGED <<sdone, up, exchanged, started>>, finished' \subseteq Clients
    PROVE  ControlInv'
<1> USE DEF ControlInv
<1>1. ClientTypes /\ ServerTypes /\ ListenTypes /\ LinkTypes
  BY Types
<1>2. /\ sret' = ret /\ sctrl' = sctrl /\ accepted' = accepted /\ sstop' = sstop /\ serves' = serves
      /\ UNCHANGED <<clientVars, upEnd, breaks>>
  BY DEF Cleanup, ClientSide
<1>3. sstate' \in States /\ (sstate' = "TEST_RUNNING" => sstate = "TEST_RUNNING")
  BY DEF Cleanup, States
<1>4. ClientTypes'
  BY <1>1, <1>2 DEF ClientTypes, clientVars
<1>5. CASE sctrl = NoClient
  <2>1. spc' = "returned" /\ CloseListener /\ UNCHANGED <<down, downEnd>>
    BY <1>5 DEF Cleanup
  <2>2. ListenTypes' /\ lost' \in [Clients -> BOOLEAN]
    BY <1>1, <2>1, CloseListenerTypes
  <2>3. ServerTypes' /\ LinkTypes'
    BY <1>1, <1>2, <1>3, <2>1, <2>2 DEF ServerTypes, LinkTypes
  <2>4. Earned'
    BY <1>2, <2>1, EarnedByServer
  <2>5. Held'
    BY <1>2, <1>3, <1>5, <2>1 DEF Held
  <2> QED BY <1>4, <2>2, <2>3, <2>4, <2>5, TypesPrimed
<1>6. CASE sctrl # NoClient
  <2> DEFINE msgs == IF err THEN <<"SERVER_ERROR">> ELSE <<>>
  <2>1. /\ spc' = "closing" /\ down' = SentDown(sctrl, msgs) /\ downEnd' = [downEnd EXCEPT ![sctrl] = TRUE]
        /\ UNCHANGED <<listening, backlog, lost>>
    BY <1>6 DEF Cleanup, Set
  <2>2. /\ msgs \in Seq(Messages) /\ sctrl \in Clients
        /\ \A m \in {"TEST_RUNNING", "EXCHANGE_RESULTS", "DISPLAY_RESULTS"} : ~Carries(msgs, m)
    <3>1. sctrl \in Clients /\ <<"SERVER_ERROR">> \in Seq(Messages) /\ <<>> \in Seq(Messages)
      BY <1>1, <1>6 DEF Messages, States, ServerTypes
    <3>2. \A m \in {"TEST_RUNNING", "EXCHANGE_RESULTS", "DISPLAY_RESULTS"} :
             ~Carries(<<"SERVER_ERROR">>, m) /\ ~Carries(<<>>, m)
      BY ShortFacts
    <3> QED BY <3>1, <3>2
  <2> HIDE DEF msgs
  <2>3. /\ down' \in [Clients -> Seq(Messages)]
        /\ \A d \in Clients : \A m \in {"TEST_RUNNING", "EXCHANGE_RESULTS", "DISPLAY_RESULTS"} :
              Carries(down'[d], m) => Carries(down[d], m)
    BY <2>1, <2>2, SentDownFacts, Zenon
  <2>4. ServerTypes' /\ ListenTypes' /\ LinkTypes'
    BY <1>1, <1>2, <1>3, <2>1, <2>2, <2>3, Zenon DEF ServerTypes, ListenTypes, LinkTypes
  <2>5. Earned'
    BY <1>2, <2>3, EarnedByServer
  <2>6. Held'
    BY <1>2, <1>3, <1>6, <2>1 DEF Held
  <2> QED BY <1>4, <2>4, <2>5, <2>6, TypesPrimed
<1> QED BY <1>5, <1>6

\* The server writes msgs to its client, of which the parts that must be earned are.
LEMMA ServerWrites ==
    ASSUME ControlInv, sctrl \in Clients, NEW msgs \in Seq(Messages),
           down' = SentDown(sctrl, msgs), up' \in [Clients -> Seq(Messages)],
           \A d \in Clients : \A m : Carries(up'[d], m) => Carries(up[d], m),
           Carries(msgs, "TEST_RUNNING") => sctrl \in started',
           Carries(msgs, "EXCHANGE_RESULTS") => sctrl \in started',
           Carries(msgs, "DISPLAY_RESULTS") => sctrl \in exchanged',
           started \subseteq started', exchanged \subseteq exchanged',
           ServerTypes', downEnd' \in [Clients -> BOOLEAN], UNCHANGED <<listenVars, lost, ClientSide>>
    PROVE  TypeOK' /\ Earned'
<1> USE DEF ControlInv
<1>1. ClientTypes /\ ListenTypes /\ LinkTypes
  BY Types
<1>2. /\ down' \in [Clients -> Seq(Messages)]
      /\ \A d \in Clients : \A m :
            Carries(down'[d], m) => Carries(down[d], m) \/ (d = sctrl /\ Carries(msgs, m))
  BY SentDownFacts, Zenon
<1>3. ClientTypes' /\ ListenTypes' /\ LinkTypes'
  BY <1>1, <1>2 DEF ClientTypes, ListenTypes, LinkTypes, ClientSide, clientVars, listenVars
<1>4. Earned'
  BY <1>2, EarnedByServer DEF ClientSide
<1> QED BY <1>3, <1>4, TypesPrimed

\* What a server that cannot start its test writes.
LEMMA FailureMessages ==
    ASSUME NEW sent \in {<<>>, <<"TEST_START", "SERVER_ERROR">>,
                         <<"TEST_START", "TEST_RUNNING", "SERVER_ERROR">>}
    PROVE  /\ sent \in Seq(Messages) /\ (Carries(sent, "TEST_RUNNING") => Len(sent) = 3)
           /\ ~Carries(sent, "EXCHANGE_RESULTS") /\ ~Carries(sent, "DISPLAY_RESULTS")
           /\ ~Carries(sent, "CREATE_STREAMS")
<1>1. CASE sent = <<>>
  BY <1>1, ShortFacts
<1>2. CASE sent = <<"TEST_START", "SERVER_ERROR">>
  <2>1. sent \in Seq(Messages)
    BY <1>2 DEF Messages, States
  <2>2. \A m : Carries(sent, m) => m \in {"TEST_START", "SERVER_ERROR"}
    BY <1>2 DEF Carries
  <2> QED BY <2>1, <2>2
<1>3. CASE sent = <<"TEST_START", "TEST_RUNNING", "SERVER_ERROR">>
  <2>1. sent \in Seq(Messages) /\ Len(sent) = 3
    BY <1>3 DEF Messages, States
  <2>2. \A m : Carries(sent, m) => m \in {"TEST_START", "TEST_RUNNING", "SERVER_ERROR"}
    BY <1>3 DEF Carries
  <2> QED BY <2>1, <2>2
<1> QED BY <1>1, <1>2, <1>3

\* Every step of the server, and every call of it, keeps the invariant.
LEMMA ServerInv ==
    ASSUME ControlInv, ServerStep \/ Listen \/ ServerStop
    PROVE  ControlInv'
<1> USE DEF ControlInv
<1>1. ClientTypes /\ ServerTypes /\ ListenTypes /\ LinkTypes
  BY Types
<1>2. ASSUME UNCHANGED ClientSide PROVE ClientTypes' /\ UNCHANGED clientVars
  BY <1>1, <1>2 DEF ClientSide, ClientTypes, clientVars
<1>3. sstate \in States /\ {-1, 0, 2} \subseteq {-2, -1, 0, 2} /\ "IPERF_DONE" \in States
  BY <1>1 DEF ServerTypes, States
<1>4. ASSUME backlog # <<>>
      PROVE  /\ Tail(backlog) \in Seq(Pending) /\ Head(backlog).client \in Clients /\ listening
    <2>1. Tail(backlog) \in Seq(Pending) /\ Head(backlog) \in Pending
      BY <1>1, <1>4, TailFacts DEF ListenTypes
    <2> QED BY <1>1, <1>4, <2>1 DEF ListenTypes, Pending
<1>5. ASSUME sctrl # NoClient PROVE sctrl \in Clients
  BY <1>1, <1>5 DEF ServerTypes
<1>6. CASE ObserveDone \/ IdleTimeout \/ ReadResultsFails \/ RejectClient \/ AbortTest
  <2>1. \E err \in BOOLEAN, ret \in {-1, 0, 2} : Cleanup(err, sstate, ret)
    BY <1>6, Zenon DEF ObserveDone, IdleTimeout, ReadResultsFails, RejectClient, AbortTest
  <2>2. UNCHANGED <<sdone, up, exchanged, started>> /\ finished' \subseteq Clients
    BY <1>1, <1>6, Zenon DEF ObserveDone, IdleTimeout, ReadResultsFails, RejectClient, AbortTest,
       ghosts,
       ServerTypes
  <2> QED BY <1>3, <2>1, <2>2, CleanupInv
<1>7. CASE ReadDone
  <2>1. sctrl # NoClient /\ \E err \in BOOLEAN : Cleanup(err, "IPERF_DONE", 0)
    BY <1>7, Zenon DEF ReadDone, HasMessage
  <2>2. UNCHANGED <<sdone, up, exchanged, started>> /\ finished' \subseteq Clients
    BY <1>1, <1>5, <1>7, <2>1 DEF ReadDone, ServerTypes
  <2> QED BY <1>3, <2>1, <2>2, CleanupInv
<1>8. CASE AcceptControl
  <2>1. /\ spc = "loop" /\ ~sdone /\ sctrl = NoClient /\ backlog # <<>>
        /\ sctrl' = Head(backlog).client /\ backlog' = Tail(backlog) /\ spc' = "cookie"
        /\ UNCHANGED <<sstate, sdone, sret, accepted, sstop, serves, listening, clientVars,
                       linkVars, ghosts>>
    BY <1>8 DEF AcceptControl, InLoop
  <2>2. sctrl' \in Clients /\ sctrl' # NoClient /\ backlog' \in Seq(Pending) /\ listening
    BY <1>4, <2>1, ProtocolConstants
  <2>3. ServerTypes' /\ ClientTypes' /\ LinkTypes'
    BY <1>1, <2>1, <2>2 DEF ServerTypes, ClientTypes, LinkTypes, clientVars, linkVars, ghosts
  <2>4. ListenTypes'
    BY <1>1, <2>1, <2>2, Zenon DEF ListenTypes
  <2>5. Earned'
    BY <2>1, EarnedByServer DEF linkVars, ghosts
  <2>6. accepted = <<>> /\ sstate = "IPERF_START"
    BY <2>1 DEF Held
  <2>7. Held'
    BY <2>1, <2>2, <2>6 DEF Held
  <2> QED BY <2>3, <2>4, <2>5, <2>7, TypesPrimed
<1>9. CASE DenyControl
  <2> DEFINE c == Head(backlog).client
  <2>1. /\ backlog # <<>> /\ backlog' = Tail(backlog) /\ down' = SentDown(c, <<"ACCESS_DENIED">>)
        /\ downEnd' = [downEnd EXCEPT ![c] = TRUE]
        /\ UNCHANGED <<serverVars, listening, up, lost, ClientSide, ghosts>>
    BY <1>9 DEF DenyControl, Deny, Set
  <2>2. c \in Clients /\ backlog' \in Seq(Pending) /\ listening
    BY <1>4, <2>1
  <2>3. /\ <<"ACCESS_DENIED">> \in Seq(Messages)
        /\ \A m \in {"TEST_RUNNING", "EXCHANGE_RESULTS", "DISPLAY_RESULTS"} :
              ~Carries(<<"ACCESS_DENIED">>, m)
    <3>1. "ACCESS_DENIED" \in Messages
      BY DEF Messages, States
    <3> QED BY <3>1, OneMessage
  <2> HIDE DEF c
  <2>4. /\ down' \in [Clients -> Seq(Messages)]
        /\ \A d \in Clients : \A m \in {"TEST_RUNNING", "EXCHANGE_RESULTS", "DISPLAY_RESULTS"} :
              Carries(down'[d], m) => Carries(down[d], m)
    BY <2>1, <2>2, <2>3, SentDownFacts, ZenonT(30)
  <2>5. ServerTypes' /\ LinkTypes' /\ ClientTypes'
    BY <1>1, <1>2, <2>1, <2>2, <2>4 DEF ServerTypes, LinkTypes, ClientSide, serverVars, ghosts
  <2>6. ListenTypes'
    BY <1>1, <2>1, <2>2, Zenon DEF ListenTypes
  <2>7. Earned'
    BY <1>2, <2>1, <2>4, EarnedByServer DEF ghosts
  <2>8. Held'
    BY <2>1 DEF Held, serverVars, ghosts
  <2> QED BY <2>5, <2>6, <2>7, <2>8, TypesPrimed
<1>10. ASSUME sctrl # NoClient, up[sctrl] # <<>>, up' = Set(up, sctrl, Tail(up[sctrl]))
       PROVE  /\ up' \in [Clients -> Seq(Messages)]
              /\ \A d \in Clients : \A m : Carries(up'[d], m) => Carries(up[d], m)
              /\ \A m : NextIs(up[sctrl], m) => Carries(up[sctrl], m)
  BY <1>1, <1>5, <1>10, ReadFacts, Zenon DEF LinkTypes
<1>11. CASE ReadCookie
  <2>1. sctrl # NoClient /\ sctrl \in Clients /\ accepted = <<>>
    BY <1>5, <1>11 DEF ReadCookie, Held
  <2>2. /\ <<"PARAM_EXCHANGE">> \in Seq(Messages)
        /\ \A m : Carries(<<"PARAM_EXCHANGE">>, m) => m = "PARAM_EXCHANGE"
    <3>1. "PARAM_EXCHANGE" \in Messages
      BY DEF Messages, States
    <3> QED BY <3>1, OneMessage
  <2>3. /\ spc' = "params" /\ sstate' = "PARAM_EXCHANGE"
        /\ UNCHANGED <<sdone, sret, sctrl, accepted, sstop, serves, listenVars, downEnd, lost,
                       ClientSide, ghosts>>
    BY <1>11, Zenon DEF ReadCookie
  <2>4. ServerTypes' /\ downEnd' \in [Clients -> BOOLEAN]
    BY <1>1, <2>3 DEF ServerTypes, LinkTypes, States, ghosts
  <2>5. TypeOK' /\ Earned'
    BY <1>10, <1>11, <2>1, <2>2, <2>3, <2>4, ServerWrites, Zenon DEF ReadCookie, ghosts
  <2>6. Held'
    BY <2>1, <2>3 DEF Held, ghosts
  <2> QED BY <2>5, <2>6
<1>12. CASE ReadParams
  <2>1. sctrl # NoClient /\ sctrl \in Clients /\ accepted = <<>> /\ up[sctrl] # <<>>
    BY <1>5, <1>12, Zenon DEF ReadParams, Held, NextIs
  <2>2. /\ <<"CREATE_STREAMS">> \in Seq(Messages)
        /\ \A m : Carries(<<"CREATE_STREAMS">>, m) => m = "CREATE_STREAMS"
    <3>1. "CREATE_STREAMS" \in Messages
      BY DEF Messages, States
    <3> QED BY <3>1, OneMessage
  <2>3. /\ spc' = "loop" /\ sstate' = "CREATE_STREAMS"
        /\ UNCHANGED <<sdone, sret, sctrl, accepted, sstop, serves, listenVars, downEnd, lost,
                       ClientSide, ghosts>>
    BY <1>12 DEF ReadParams
  <2>4. ServerTypes' /\ downEnd' \in [Clients -> BOOLEAN]
    BY <1>1, <2>3 DEF ServerTypes, LinkTypes, States, ghosts
  <2>5. TypeOK' /\ Earned'
    BY <1>10, <1>12, <2>1, <2>2, <2>3, <2>4, ServerWrites, Zenon DEF ReadParams, ghosts
  <2>6. Len(accepted) < NumStreams
    BY <2>1, ProtocolConstants
  <2>7. Held'
    BY <2>1, <2>3, <2>6 DEF Held, ghosts
  <2> QED BY <2>5, <2>7
<1>13. CASE ReadTestEnd
  <2>1. sctrl # NoClient /\ sctrl \in Clients /\ up[sctrl] # <<>> /\ NextIs(up[sctrl], "TEST_END")
    BY <1>5, <1>13 DEF ReadTestEnd, HasMessage, NextIs
  <2>2. /\ <<"EXCHANGE_RESULTS">> \in Seq(Messages)
        /\ \A m : Carries(<<"EXCHANGE_RESULTS">>, m) => m = "EXCHANGE_RESULTS"
    <3>1. "EXCHANGE_RESULTS" \in Messages
      BY DEF Messages, States
    <3> QED BY <3>1, OneMessage
  <2>3. /\ spc' = "results" /\ sstate' = "EXCHANGE_RESULTS" /\ sdone' = TRUE
        /\ up' = Set(up, sctrl, Tail(up[sctrl])) /\ down' = SentDown(sctrl, <<"EXCHANGE_RESULTS">>)
        /\ UNCHANGED <<sret, sctrl, accepted, sstop, serves, listenVars, downEnd, lost,
                       ClientSide, ghosts>>
    BY <1>13 DEF ReadTestEnd
  <2>4. sctrl \in started
    BY <1>10, <2>1, <2>3 DEF Earned
  <2>5. ServerTypes' /\ downEnd' \in [Clients -> BOOLEAN]
    BY <1>1, <2>3 DEF ServerTypes, LinkTypes, States, ghosts
  <2>6. TypeOK' /\ Earned'
    BY <1>10, <2>1, <2>2, <2>3, <2>4, <2>5, ServerWrites, Zenon DEF ghosts
  <2>7. Held'
    BY <2>1, <2>3 DEF Held, ghosts
  <2> QED BY <2>6, <2>7
<1>14. CASE ReadResults
  <2>1. sctrl # NoClient /\ sctrl \in Clients /\ up[sctrl] # <<>>
    BY <1>5, <1>14 DEF ReadResults, Held, NextIs
  <2>2. /\ <<"results", "DISPLAY_RESULTS">> \in Seq(Messages)
        /\ \A m : Carries(<<"results", "DISPLAY_RESULTS">>, m) => m = "results" \/ m = "DISPLAY_RESULTS"
    BY ShortFacts DEF Messages, States
  <2>3. /\ spc' = "loop" /\ sstate' = "DISPLAY_RESULTS" /\ exchanged' = exchanged \cup {sctrl}
        /\ up' = Set(up, sctrl, Tail(up[sctrl]))
        /\ down' = SentDown(sctrl, <<"results", "DISPLAY_RESULTS">>)
        /\ UNCHANGED <<sdone, sret, sctrl, accepted, sstop, serves, listenVars, downEnd, lost,
                       ClientSide, started, finished>>
    BY <1>14 DEF ReadResults
  <2>4. ServerTypes' /\ downEnd' \in [Clients -> BOOLEAN]
    BY <1>1, <2>1, <2>3 DEF ServerTypes, LinkTypes, States
  <2>5. TypeOK' /\ Earned'
    BY <1>10, <2>1, <2>2, <2>3, <2>4, ServerWrites, Zenon
  <2>6. Held'
    BY <2>1, <2>3 DEF Held
  <2> QED BY <2>5, <2>6
<1>15. CASE AcceptStream
  <2>1. /\ spc = "loop" /\ ~sdone /\ sstate = "CREATE_STREAMS" /\ backlog # <<>>
        /\ Head(backlog).client = sctrl /\ accepted' = Append(accepted, sctrl)
        /\ backlog' = Tail(backlog) /\ spc' = IF Len(accepted') = NumStreams THEN "starting" ELSE spc
        /\ UNCHANGED <<sstate, sdone, sret, sctrl, sstop, serves, listening, clientVars, linkVars, ghosts>>
    BY <1>15 DEF AcceptStream, AcceptingStreams, CookieMatches, InLoop
  <2>2. sctrl # NoClient /\ sctrl \in Clients /\ Len(accepted) < NumStreams
    BY <1>5, <2>1 DEF Held
  <2>3. accepted \in Seq(Clients) /\ Len(accepted) \in Nat
    BY <1>1 DEF ServerTypes
  <2>4. /\ accepted' \in Seq(Clients) /\ Len(accepted') = Len(accepted) + 1
        /\ \A i \in 1..Len(accepted') :
              accepted'[i] = IF i <= Len(accepted) THEN accepted[i] ELSE sctrl
    BY <2>1, <2>2, <2>3
  <2>5. Len(accepted') <= NumStreams /\ (Len(accepted') # NumStreams => Len(accepted') < NumStreams)
    BY <2>2, <2>3, <2>4, ProtocolConstants
  <2>6. ServerTypes' /\ ClientTypes' /\ LinkTypes'
    BY <1>1, <2>1, <2>4, <2>5 DEF ServerTypes, ClientTypes, LinkTypes, clientVars, linkVars, ghosts
  <2>7. ListenTypes'
    BY <1>1, <1>4, <2>1, Zenon DEF ListenTypes
  <2>8. Earned'
    BY <2>1, EarnedByServer DEF linkVars, ghosts
  <2>9. \A i \in 1..Len(accepted') : accepted'[i] = sctrl
    <3> SUFFICES ASSUME NEW i \in 1..Len(accepted') PROVE accepted'[i] = sctrl
      OBVIOUS
    <3>1. CASE i <= Len(accepted)
      BY <2>2, <2>3, <2>4, <3>1 DEF Held
    <3>2. CASE ~(i <= Len(accepted))
      BY <2>4, <3>2
    <3> QED BY <3>1, <3>2
  <2>10. Held'
    BY <2>1, <2>2, <2>5, <2>9 DEF Held, ghosts
  <2> QED BY <2>6, <2>7, <2>8, <2>10, TypesPrimed
<1>16. CASE StartTest
  <2>0. sctrl # NoClient /\ sctrl \in Clients /\ Len(accepted) = NumStreams /\ spc = "starting"
    BY <1>5, <1>16 DEF StartTest, Held
  <2>1. CASE lost[sctrl]
    <3>1. /\ Cleanup(TRUE, sstate, -1) /\ UNCHANGED <<sdone, up, exchanged, started>>
          /\ finished' \subseteq Clients
      BY <1>1, <1>16, <2>1, Zenon DEF StartTest, ServerTypes
    <3> QED BY <1>3, <3>1, CleanupInv, Zenon
  <2>2. CASE ~lost[sctrl]
    <3>1. /\ down' = SentDown(sctrl, <<"TEST_START", "TEST_RUNNING">>) /\ sstate' = "TEST_RUNNING"
          /\ started' = started \cup {sctrl} /\ sdone' = (sdone /\ ~Timed) /\ spc' = "loop"
          /\ UNCHANGED <<sret, sctrl, accepted, sstop, serves, downEnd, listenVars, lost,
                         ClientSide, up, exchanged, finished>>
      BY <1>16, <2>2 DEF StartTest
    <3>2. <<"TEST_START", "TEST_RUNNING">> \in Seq(Messages)
      BY DEF Messages, States
    <3>3. \A m : Carries(<<"TEST_START", "TEST_RUNNING">>, m) => m = "TEST_START" \/ m = "TEST_RUNNING"
      BY ShortFacts
    <3>4. sdone' \in BOOLEAN
      BY <3>1, Zenon
    <3>5. ServerTypes' /\ downEnd' \in [Clients -> BOOLEAN] /\ up' \in [Clients -> Seq(Messages)]
      BY <1>1, <2>0, <3>1, <3>4 DEF ServerTypes, LinkTypes, States
    <3>6. TypeOK' /\ Earned'
      BY <2>0, <3>1, <3>2, <3>3, <3>5, ServerWrites, Zenon
    <3>7. Held'
      BY <2>0, <3>1 DEF Held
    <3> QED BY <3>6, <3>7
  <2> QED BY <2>1, <2>2
<1>22. CASE StartTestFails
  <2>1. /\ spc = "starting" /\ sctrl # NoClient /\ sctrl \in Clients /\ Len(accepted) = NumStreams
        /\ spc' = "closing" /\ sret' = -1 /\ downEnd' = [downEnd EXCEPT ![sctrl] = TRUE]
        /\ UNCHANGED <<sctrl, accepted, sstop, serves, listenVars, lost, ClientSide, up, exchanged,
                       finished>>
    BY <1>5, <1>22, Zenon DEF StartTestFails, Held, Set
  <2>2. PICK sent \in {<<>>, <<"TEST_START", "SERVER_ERROR">>,
                        <<"TEST_START", "TEST_RUNNING", "SERVER_ERROR">>} :
          /\ down' = SentDown(sctrl, sent)
          /\ sstate' = IF sent = <<>> THEN sstate ELSE "SERVER_ERROR"
          /\ started' = IF Len(sent) = 3 THEN started \cup {sctrl} ELSE started
          /\ sdone' \in {sdone, sdone /\ ~(Timed /\ sent # <<>>)}
    BY <1>22, Zenon DEF StartTestFails
  <2>3. /\ sent \in Seq(Messages) /\ (Carries(sent, "TEST_RUNNING") => Len(sent) = 3)
        /\ ~Carries(sent, "EXCHANGE_RESULTS") /\ ~Carries(sent, "DISPLAY_RESULTS")
    BY <2>2, FailureMessages
  <2>4. started \subseteq started' /\ started' \subseteq Clients
    BY <1>1, <2>1, <2>2 DEF ServerTypes
  <2>5. Carries(sent, "TEST_RUNNING") => sctrl \in started'
    BY <2>2, <2>3
  <2>6. sdone' \in BOOLEAN
    BY <1>1, <2>2, Zenon DEF ServerTypes
  <2>7. sstate' \in States /\ (sstate' = "TEST_RUNNING" => sstate = "TEST_RUNNING")
    BY <1>3, <2>2 DEF States
  <2>8. ServerTypes'
    BY <1>1, <2>1, <2>4, <2>6, <2>7 DEF ServerTypes
  <2>9. downEnd' \in [Clients -> BOOLEAN] /\ up' \in [Clients -> Seq(Messages)]
    BY <1>1, <2>1 DEF LinkTypes
  <2>10. TypeOK' /\ Earned'
    BY <2>1, <2>2, <2>3, <2>4, <2>5, <2>8, <2>9, ServerWrites, Zenon
  <2>11. Held'
    BY <2>1, <2>4, <2>7 DEF Held
  <2> QED BY <2>10, <2>11
<1>17. CASE DenyStream
  <2> DEFINE c == Head(backlog).client
             denied == SentDown(c, <<"ACCESS_DENIED">>)
             ended == SentDown(sctrl, <<"SERVER_ERROR">>)
             Due == {"TEST_RUNNING", "EXCHANGE_RESULTS", "DISPLAY_RESULTS"}
  <2>1. /\ spc = "loop" /\ ~sdone /\ sstate = "CREATE_STREAMS" /\ backlog # <<>>
        /\ backlog' = Tail(backlog)
        /\ \/ /\ down' = [denied EXCEPT ![sctrl] = ended[sctrl]]
              /\ downEnd' = [downEnd EXCEPT ![c] = TRUE, ![sctrl] = TRUE]
              /\ spc' = "closing" /\ sret' = -1 /\ sstate' = "SERVER_ERROR"
           \/ /\ down' = denied /\ downEnd' = [downEnd EXCEPT ![c] = TRUE]
              /\ UNCHANGED <<spc, sret, sstate>>
        /\ UNCHANGED <<sdone, sctrl, accepted, sstop, serves, listening, up, lost, ClientSide, ghosts>>
    BY <1>17 DEF DenyStream, AcceptingStreams, InLoop, Deny, Set
  <2>2. sctrl # NoClient /\ sctrl \in Clients /\ c \in Clients /\ backlog' \in Seq(Pending) /\ listening
    BY <1>4, <1>5, <2>1 DEF Held
  <2>3. "ACCESS_DENIED" \in Messages /\ "SERVER_ERROR" \in Messages
    BY DEF Messages, States
  <2>4. /\ denied \in [Clients -> Seq(Messages)] /\ ended \in [Clients -> Seq(Messages)]
        /\ \A d \in Clients : \A m \in Due :
              /\ Carries(denied[d], m) => Carries(down[d], m)
              /\ Carries(ended[d], m) => Carries(down[d], m)
    <3>1. /\ <<"ACCESS_DENIED">> \in Seq(Messages) /\ <<"SERVER_ERROR">> \in Seq(Messages)
          /\ \A m \in Due : ~Carries(<<"ACCESS_DENIED">>, m) /\ ~Carries(<<"SERVER_ERROR">>, m)
      BY <2>3, OneMessage
    <3> HIDE DEF c, Due
    <3>2. /\ denied \in [Clients -> Seq(Messages)]
          /\ \A d \in Clients : \A m \in Due : Carries(denied[d], m) => Carries(down[d], m)
      BY <2>2, <3>1, SentDownFacts, ZenonT(30)
    <3>3. /\ ended \in [Clients -> Seq(Messages)]
          /\ \A d \in Clients : \A m \in Due : Carries(ended[d], m) => Carries(down[d], m)
      BY <2>2, <3>1, SentDownFacts, Zenon
    <3> QED BY <3>2, <3>3
  <2> HIDE DEF c, denied, ended
  <2>5. /\ down' \in [Clients -> Seq(Messages)]
        /\ \A d \in Clients : \A m \in Due : Carries(down'[d], m) => Carries(down[d], m)
    BY <2>1, <2>2, <2>4, Zenon
  <2>6. downEnd' \in [Clients -> BOOLEAN]
    BY <1>1, <2>1, Zenon DEF LinkTypes
  <2>7. ServerTypes' /\ LinkTypes' /\ ClientTypes'
    BY <1>1, <1>2, <2>1, <2>5, <2>6 DEF ServerTypes, LinkTypes, ClientSide, States, ghosts
  <2>8. ListenTypes'
    BY <1>1, <2>1, <2>2, Zenon DEF ListenTypes
  <2>9. Earned'
    BY <1>2, <2>1, <2>5, EarnedByServer DEF ghosts
  <2>10. Held'
    BY <2>1, <2>2 DEF Held, ghosts
  <2> QED BY <2>7, <2>8, <2>9, <2>10, TypesPrimed
<1>18. CASE ServerTimer
  <2>1. /\ spc = "loop" /\ sctrl # NoClient /\ sdone' = TRUE
        /\ down' = SentDown(sctrl, <<"SERVER_ERROR">>) /\ downEnd' = [downEnd EXCEPT ![sctrl] = TRUE]
        /\ up' = [up EXCEPT ![sctrl] = <<>>] /\ sstate' = "SERVER_ERROR" /\ sctrl' = NoClient
        /\ UNCHANGED <<spc, sret, accepted, sstop, serves, listenVars, lost, ClientSide, ghosts>>
    BY <1>18 DEF ServerTimer, InLoop, Set
  <2>2. sctrl \in Clients /\ "SERVER_ERROR" \in Messages
    BY <1>5, <2>1 DEF Messages, States
  <2>3. up' \in [Clients -> Seq(Messages)] /\ \A m : ~Carries(<<>>, m)
    <3>1. <<>> \in Seq(Messages) /\ up \in [Clients -> Seq(Messages)]
      BY <1>1 DEF LinkTypes
    <3>2. up' \in [Clients -> Seq(Messages)]
      BY <2>1, <3>1, Zenon
    <3> QED BY <3>2, ShortFacts
  <2>4. \A d \in Clients : \A m : Carries(up'[d], m) => Carries(up[d], m)
    BY <1>1, <2>1, <2>3 DEF LinkTypes
  <2>5. ServerTypes' /\ downEnd' \in [Clients -> BOOLEAN]
    BY <1>1, <2>1 DEF ServerTypes, LinkTypes, States, ghosts
  <2>6. TypeOK' /\ Earned'
    BY <2>1, <2>2, <2>3, <2>4, <2>5, OneMessage, ServerWrites, Zenon DEF ghosts
  <2>7. Held'
    BY <2>1 DEF Held, ghosts
  <2> QED BY <2>6, <2>7
<1>19. CASE ServerClosed
  <2>1. /\ sctrl # NoClient /\ sctrl \in Clients /\ spc' = "returned" /\ sctrl' = NoClient
        /\ up' = [up EXCEPT ![sctrl] = <<>>] /\ CloseListener
        /\ UNCHANGED <<sstate, sdone, sret, accepted, sstop, serves, down, downEnd, ClientSide, ghosts>>
    BY <1>5, <1>19 DEF ServerClosed, Set, Held
  <2>2. ListenTypes' /\ lost' \in [Clients -> BOOLEAN]
    BY <1>1, <2>1, CloseListenerTypes
  <2>3. up' \in [Clients -> Seq(Messages)] /\ \A m : ~Carries(<<>>, m)
    <3>1. <<>> \in Seq(Messages) /\ up \in [Clients -> Seq(Messages)]
      BY <1>1 DEF LinkTypes
    <3>2. up' \in [Clients -> Seq(Messages)]
      BY <2>1, <3>1
    <3> QED BY <3>2, ShortFacts
  <2>4. \A d \in Clients : \A m : Carries(up'[d], m) => Carries(up[d], m)
    BY <1>1, <2>1, <2>3 DEF LinkTypes
  <2>5. ServerTypes' /\ LinkTypes' /\ ClientTypes'
    BY <1>1, <1>2, <2>1, <2>2, <2>3 DEF ServerTypes, LinkTypes, ClientSide, ghosts
  <2>6. Earned'
    BY <1>2, <2>1, <2>4, EarnedByServer DEF ghosts
  <2>7. Held'
    BY <2>1 DEF Held
  <2> QED BY <2>2, <2>5, <2>6, <2>7, TypesPrimed
<1>20. CASE Listen
  <2>1. /\ spc = "returned" /\ serves < MaxServes /\ serves' = serves + 1 /\ sdone' = FALSE
        /\ accepted' = <<>>
        /\ \/ spc' = "loop" /\ sstate' = "IPERF_START" /\ listening' = TRUE /\ sret' = sret
           \/ sret' = -2 /\ sstate' = "none" /\ UNCHANGED <<spc, listening>>
        /\ UNCHANGED <<sctrl, sstop, backlog, clientVars, linkVars, ghosts>>
    BY <1>20 DEF Listen
  <2>2. /\ serves' \in 0..MaxServes /\ accepted' \in Seq(Clients) /\ Len(accepted') = 0
        /\ Len(accepted') <= NumStreams /\ Len(accepted') < NumStreams
    BY <1>1, <2>1, ProtocolConstants DEF ServerTypes
  <2>3. ServerTypes' /\ ClientTypes' /\ LinkTypes'
    BY <1>1, <2>1, <2>2, Zenon DEF ServerTypes, ClientTypes, LinkTypes, States, clientVars, linkVars,
       ghosts
  <2>4. ListenTypes'
    <3>1. CASE listening' = TRUE /\ backlog' = backlog
      BY <1>1, <3>1, Zenon DEF ListenTypes
    <3>2. CASE listening' = listening /\ backlog' = backlog
      BY <1>1, <3>2 DEF ListenTypes
    <3> QED BY <2>1, <3>1, <3>2, Zenon
  <2>5. Earned'
    BY <2>1, EarnedByServer DEF linkVars, ghosts
  <2>6. sctrl = NoClient
    BY <2>1 DEF Held
  <2>7. Held'
    BY <2>1, <2>2, <2>6 DEF Held
  <2> QED BY <2>3, <2>4, <2>5, <2>7, TypesPrimed
<1>21. CASE ServerStop
  <2>1. /\ sstop' = TRUE /\ sdone' = TRUE
        /\ UNCHANGED <<spc, sstate, sret, sctrl, accepted, serves, listenVars, clientVars, linkVars, ghosts>>
    BY <1>21 DEF ServerStop
  <2>2. TypeOK'
    BY <1>1, <2>1, TypesPrimed DEF ClientTypes, ServerTypes, ListenTypes, LinkTypes, clientVars,
       listenVars, linkVars, ghosts
  <2>3. Earned'
    BY <2>1, EarnedByServer DEF linkVars, ghosts
  <2>4. Held'
    BY <2>1 DEF Held, ghosts
  <2> QED BY <2>2, <2>3, <2>4
<1> QED BY <1>6, <1>7, <1>8, <1>9, <1>11, <1>12, <1>13, <1>14, <1>15, <1>16, <1>17, <1>18, <1>19,
           <1>20, <1>21, <1>22 DEF ServerStep

-----------------------------------------------------------------------------
\* Nobody has connected and nothing was sent when the program starts.
LEMMA InitInv == Init => ControlInv
<1> SUFFICES ASSUME Init PROVE ControlInv
  OBVIOUS
<1>1. ClientTypes
  BY DEF Init, ClientTypes, States
<1>2. ServerTypes
  <2>1. accepted \in Seq(Clients) /\ Len(accepted) <= NumStreams /\ serves \in 0..MaxServes
    BY ProtocolConstants DEF Init
  <2>2. sstate \in States /\ sctrl \in Clients \cup {NoClient} /\ sret \in {-2, -1, 0, 2}
    BY DEF Init, States
  <2> QED BY <2>1, <2>2, Zenon DEF Init, ServerTypes
<1>3. ListenTypes
  <2>1. backlog \in Seq(Pending) /\ backlog = <<>>
    BY DEF Init
  <2> QED BY <2>1, Zenon DEF Init, ListenTypes
<1>4. LinkTypes
  BY ProtocolConstants DEF Init, LinkTypes
<1>5. Earned
  <2>1. \A m : ~Carries(<<>>, m)
    BY ShortFacts
  <2>2. \A c \in Clients : /\ up[c] = <<>> /\ down[c] = <<>> /\ cpc[c] = "idle"
                           /\ cstate[c] = "none" /\ cret[c] = 1
    BY Zenon DEF Init
  <2>3. 1 # 0
    OBVIOUS
  <2> QED BY <2>1, <2>2, <2>3, Zenon DEF Earned, Measures
<1>6. Held
  BY DEF Init, Held
<1> QED BY <1>1, <1>2, <1>3, <1>4, <1>5, <1>6, Types DEF ControlInv

\* The invariant is inductive.
LEMMA StepInv == ControlInv /\ [Next]_vars => ControlInv'
<1> SUFFICES ASSUME ControlInv, [Next]_vars PROVE ControlInv'
  OBVIOUS
<1>1. CASE ServerStep \/ Listen \/ ServerStop
  BY <1>1, ServerInv
<1>2. ASSUME NEW c \in Clients, Connect(c) \/ ClientStep(c) \/ ClientStop(c) \/ Break(c)
      PROVE  ControlInv'
  BY <1>2, ClientInv
<1>3. CASE UNCHANGED vars
  <2>1. TypeOK'
    BY <1>3 DEF ControlInv, TypeOK, vars, clientVars, serverVars, listenVars, linkVars, ghosts
  <2>2. Earned' /\ Held'
    BY <1>3 DEF ControlInv, Earned, Measures, Held, vars, clientVars, serverVars, linkVars, ghosts
  <2> QED BY <2>1, <2>2 DEF ControlInv
<1> QED BY <1>1, <1>2, <1>3 DEF Next

\* Every variable of the two sides and of the connections between them keeps its
\* type; the server never accepts more than NumStreams connections for a test.
THEOREM ControlTypes == Spec => []TypeOK
<1>1. ControlInv => TypeOK
  BY DEF ControlInv
<1> QED BY InitInv, StepInv, <1>1, PTL DEF Spec

\* For any number of clients, of streams and of resets: a client that returns
\* success has exchanged its results with the server, whose DISPLAY_RESULTS follows
\* get_results (iperf_exchange_results).
THEOREM SuccessIsEarned == Spec => []SuccessMeansExchanged
<1>1. ControlInv => SuccessMeansExchanged
  BY DEF ControlInv, Earned, SuccessMeansExchanged
<1> QED BY InitInv, StepInv, <1>1, PTL DEF Spec

\* For any number of clients and streams: no side measures before the server has
\* accepted all streams of the client it serves, and those alone (iperf_tcp_accept).
THEOREM StreamsAreOwn == Spec => []StreamsBelongToClient
<1>1. ControlInv => StreamsBelongToClient
  BY DEF ControlInv, Earned, Held, Measures, StreamsBelongToClient
<1> QED BY InitInv, StepInv, <1>1, PTL DEF Spec

-----------------------------------------------------------------------------
(* The two sides agree *)

\* Client c has no connection in the backlog b, or k of them, one after the other.
NoneOf(c, b) == \A i \in 1..Len(b) : b[i].client # c
InRow(c, b, k) ==
    \E p \in Nat : p + k <= Len(b) /\ \A i \in 1..Len(b) : b[i].client = c <=> (p < i /\ i <= p + k)

\* What is in flight either way, and where the client is.
Says(c, u, d, p, s) == up[c] = u /\ down[c] = d /\ cpc[c] = p /\ cstate[c] = s

\* The conversation of the server with a client that has not left.
Stage(c) ==
    \/ spc = "cookie" /\ Says(c, <<"cookie">>, <<>>, "loop", "none")
    \/ spc = "params" /\ \/ Says(c, <<>>, <<"PARAM_EXCHANGE">>, "loop", "none")
                         \/ Says(c, <<"params">>, <<>>, "loop", "PARAM_EXCHANGE")
    \/ /\ spc = "loop" /\ sstate = "CREATE_STREAMS"
       /\ Says(c, <<>>, <<"CREATE_STREAMS">>, "loop", "PARAM_EXCHANGE")
    \/ /\ spc \in {"loop", "starting"} /\ sstate = "CREATE_STREAMS"
       /\ Says(c, <<>>, <<>>, "loop", "CREATE_STREAMS")
    \/ /\ spc = "loop" /\ sstate = "TEST_RUNNING"
       /\ \/ Says(c, <<>>, <<"TEST_START", "TEST_RUNNING">>, "loop", "CREATE_STREAMS")
          \/ Says(c, <<>>, <<"TEST_RUNNING">>, "loop", "TEST_START")
          \/ Says(c, <<>>, <<>>, "loop", "TEST_RUNNING")
          \/ Says(c, <<"TEST_END">>, <<>>, "loop", "TEST_END")
    \/ spc = "results" /\ \/ Says(c, <<>>, <<"EXCHANGE_RESULTS">>, "loop", "TEST_END")
                          \/ Says(c, <<"results">>, <<>>, "results", "EXCHANGE_RESULTS")
    \/ /\ spc = "loop" /\ sstate = "DISPLAY_RESULTS"
       /\ \/ Says(c, <<>>, <<"results", "DISPLAY_RESULTS">>, "results", "EXCHANGE_RESULTS")
          \/ Says(c, <<>>, <<"DISPLAY_RESULTS">>, "loop", "EXCHANGE_RESULTS")

\* A client that has not connected, or has not left.
Fresh(c) ==
    /\ cpc[c] = "idle" => /\ NoneOf(c, backlog) /\ sctrl # c /\ c \notin started
                          /\ up[c] = <<>> /\ down[c] = <<>> /\ ~downEnd[c]
    /\ cpc[c] \in {"idle", "loop", "results"} => ~upEnd[c]

\* A test that was started has all its streams, and its client dials no more.
Begun(c) == c \in started => NoneOf(c, backlog) /\ (sctrl = c => Len(accepted) = NumStreams)

\* A client that is told to dial has not dialled, and is told so first and once.
Told(s) == \A i \in 1..Len(s) : s[i] = "CREATE_STREAMS" => i = 1
Dials(c) ==
    /\ Told(down[c])
    /\ Carries(down[c], "CREATE_STREAMS") =>
          NoneOf(c, backlog) /\ c \notin started /\ (sctrl = c => accepted = <<>>)

\* A client that nobody has answered.
Waits(c) ==
    sctrl # c /\ ~downEnd[c] =>
        /\ down[c] = <<>>
        /\ \/ NoneOf(c, backlog)
           \/ /\ InRow(c, backlog, 1)
              /\ lost[c] \/ upEnd[c] \/ Says(c, <<"cookie">>, <<>>, "loop", "none")

\* A client that the server let go: what it dials late has no cookie to read.
LetGo(c) ==
    downEnd[c] /\ ~(sctrl = c /\ spc = "closing") =>
        up[c] = <<>> \/ (NoneOf(c, backlog) /\ sctrl # c /\ ~Carries(down[c], "CREATE_STREAMS"))

\* Nothing comes from a connection that was reset.
Silent(c) == lost[c] /\ ~downEnd[c] => down[c] = <<>>

\* The client that is served.
Served(c) ==
    sctrl = c =>
        /\ spc = "closing" => downEnd[c]
        /\ spc \in {"params", "loop", "starting", "results"} => ~downEnd[c]
        /\ spc \in {"cookie", "params"} /\ ~downEnd[c] => NoneOf(c, backlog) /\ c \notin started
        /\ spc = "loop" => sstate \in {"CREATE_STREAMS", "TEST_RUNNING", "DISPLAY_RESULTS"}
        /\ spc = "starting" => sstate = "CREATE_STREAMS"
        /\ spc = "results" \/ (spc = "loop" /\ sstate \in {"TEST_RUNNING", "DISPLAY_RESULTS"}) => c \in started
        /\ spc \in {"loop", "starting"} /\ sstate = "CREATE_STREAMS" =>
              /\ c \notin started
              /\ InRow(c, backlog, NumStreams - Len(accepted)) \/ (accepted = <<>> /\ NoneOf(c, backlog))
        /\ ~downEnd[c] /\ ~lost[c] /\ ~upEnd[c] => Stage(c)

Talk(c) == Fresh(c) /\ Begun(c) /\ Dials(c) /\ Waits(c) /\ LetGo(c) /\ Silent(c) /\ Served(c)
TalkInv == \A c \in Clients : Talk(c)

\* Nothing happens to a client, or to what it has in the backlog.
Same(c) ==
    /\ up'[c] = up[c] /\ down'[c] = down[c] /\ cpc'[c] = cpc[c] /\ cstate'[c] = cstate[c]
    /\ upEnd'[c] = upEnd[c] /\ downEnd'[c] = downEnd[c]
Row(c) ==
    /\ NoneOf(c, backlog) => NoneOf(c, backlog')
    /\ \A k \in Nat : InRow(c, backlog, k) => InRow(c, backlog', k)

\* Accepting the connection at the head of the backlog.
LEMMA RowTail ==
    ASSUME NEW c, NEW b \in Seq(Pending), b # <<>>
    PROVE  /\ NoneOf(c, b) => Head(b).client # c /\ NoneOf(c, Tail(b))
           /\ Head(b).client # c => \A k \in Nat : InRow(c, b, k) => InRow(c, Tail(b), k)
           /\ Head(b).client = c => \A k \in Nat : InRow(c, b, k) => k > 0 /\ InRow(c, Tail(b), k - 1)
<1>1. /\ Len(b) \in Nat \ {0} /\ Len(Tail(b)) = Len(b) - 1 /\ Head(b) = b[1]
      /\ \A i \in 1..Len(Tail(b)) : Tail(b)[i] = b[i + 1]
  BY TailFacts, LenProperties, EmptySeq
<1>2. NoneOf(c, b) => Head(b).client # c /\ NoneOf(c, Tail(b))
  BY <1>1 DEF NoneOf
<1>3. ASSUME Head(b).client # c, NEW k \in Nat, InRow(c, b, k) PROVE InRow(c, Tail(b), k)
  <2>1. PICK p \in Nat : /\ p + k <= Len(b)
                         /\ \A i \in 1..Len(b) : b[i].client = c <=> (p < i /\ i <= p + k)
    BY <1>3, Zenon DEF InRow
  <2>2. ~(p < 1 /\ 1 <= p + k)
    BY <1>1, <1>3, <2>1
  <2>3. CASE p > 0
    <3>1. p - 1 \in Nat /\ p - 1 + k <= Len(Tail(b))
      BY <1>1, <2>1, <2>3
    <3>2. \A i \in 1..Len(Tail(b)) : Tail(b)[i].client = c <=> (p - 1 < i /\ i <= p - 1 + k)
      BY <1>1, <2>1
    <3> QED BY <3>1, <3>2, Zenon DEF InRow
  <2>4. CASE p = 0
    <3>1. k = 0
      BY <2>2, <2>4
    <3>2. \A i \in 1..Len(Tail(b)) : Tail(b)[i].client = c <=> (0 < i /\ i <= 0 + k)
      BY <1>1, <2>1, <2>4, <3>1
    <3>3. 0 + k <= Len(Tail(b))
      BY <1>1, <3>1
    <3> QED BY <3>2, <3>3, Zenon DEF InRow
  <2> QED BY <2>3, <2>4
<1>4. ASSUME Head(b).client = c, NEW k \in Nat, InRow(c, b, k) PROVE k > 0 /\ InRow(c, Tail(b), k - 1)
  <2>1. PICK p \in Nat : /\ p + k <= Len(b)
                         /\ \A i \in 1..Len(b) : b[i].client = c <=> (p < i /\ i <= p + k)
    BY <1>4 DEF InRow
  <2>2. p = 0 /\ k > 0
    BY <1>1, <1>4, <2>1
  <2>3. \A i \in 1..Len(Tail(b)) : Tail(b)[i].client = c <=> (0 < i /\ i <= 0 + (k - 1))
    BY <1>1, <2>1, <2>2
  <2>4. 0 + (k - 1) <= Len(Tail(b))
    BY <1>1, <2>1, <2>2
  <2> QED BY <2>2, <2>3, <2>4 DEF InRow
<1> QED BY <1>2, <1>3, <1>4

\* No connection in a row is none, and an empty backlog has none.
LEMMA RowEmpty ==
    ASSUME NEW c
    PROVE  NoneOf(c, <<>>) /\ \A b : InRow(c, b, 0) => NoneOf(c, b)
<1>1. NoneOf(c, <<>>)
  BY DEF NoneOf
<1>2. ASSUME NEW b, InRow(c, b, 0) PROVE NoneOf(c, b)
  <2>1. PICK p \in Nat : \A i \in 1..Len(b) : b[i].client = c <=> (p < i /\ i <= p + 0)
    BY <1>2 DEF InRow
  <2>2. \A i \in 1..Len(b) : ~(p < i /\ i <= p + 0)
    OBVIOUS
  <2> QED BY <2>1, <2>2 DEF NoneOf
<1> QED BY <1>1, <1>2

\* Dialling: n connections of client d join the backlog.
LEMMA RowConcat ==
    ASSUME NEW c, NEW d, NEW b \in Seq(Pending), NEW t \in Seq(Pending),
           \A i \in 1..Len(t) : t[i].client = d
    PROVE  /\ c # d => /\ NoneOf(c, b) => NoneOf(c, b \o t)
                       /\ \A k \in Nat : InRow(c, b, k) => InRow(c, b \o t, k)
           /\ NoneOf(d, b) => InRow(d, b \o t, Len(t))
<1>1. /\ Len(b \o t) = Len(b) + Len(t) /\ Len(b) \in Nat /\ Len(t) \in Nat
      /\ \A i \in 1..Len(b) + Len(t) : (b \o t)[i] = IF i <= Len(b) THEN b[i] ELSE t[i - Len(b)]
  BY ConcatProperties, LenProperties
<1>2. /\ \A i \in 1..Len(b) : (b \o t)[i] = b[i]
      /\ \A i \in 1..Len(b \o t) : i > Len(b) => (b \o t)[i].client = d
      /\ \A i \in 1..Len(b \o t) : i <= Len(b) => i \in 1..Len(b)
  BY <1>1
<1>3. ASSUME c # d, NoneOf(c, b) PROVE NoneOf(c, b \o t)
  BY <1>1, <1>2, <1>3 DEF NoneOf
<1>4. ASSUME c # d, NEW k \in Nat, InRow(c, b, k) PROVE InRow(c, b \o t, k)
  <2>1. PICK p \in Nat : /\ p + k <= Len(b)
                         /\ \A i \in 1..Len(b) : b[i].client = c <=> (p < i /\ i <= p + k)
    BY <1>4, Zenon DEF InRow
  <2>2. ASSUME NEW i \in 1..Len(b \o t) PROVE (b \o t)[i].client = c <=> (p < i /\ i <= p + k)
    <3>1. CASE i <= Len(b)
      BY <1>2, <2>1, <3>1
    <3>2. CASE i > Len(b)
      BY <1>1, <1>2, <1>4, <2>1, <3>2
    <3> QED BY <1>1, <3>1, <3>2
  <2>3. p + k <= Len(b \o t)
    BY <1>1, <2>1
  <2> QED BY <2>2, <2>3, Zenon DEF InRow
<1>5. ASSUME NoneOf(d, b) PROVE InRow(d, b \o t, Len(t))
  <2>1. ASSUME NEW i \in 1..Len(b \o t)
        PROVE  (b \o t)[i].client = d <=> (Len(b) < i /\ i <= Len(b) + Len(t))
    <3>1. CASE i <= Len(b)
      BY <1>1, <1>2, <1>5, <3>1 DEF NoneOf
    <3>2. CASE i > Len(b)
      BY <1>1, <1>2, <3>2
    <3> QED BY <1>1, <3>1, <3>2
  <2> QED BY <1>1, <2>1 DEF InRow
<1> QED BY <1>3, <1>4, <1>5

\* What is told stays told once, when a message is read or another one written.
LEMMA ToldFacts ==
    ASSUME NEW s \in Seq(Messages), Told(s)
    PROVE  /\ s # <<>> => Told(Tail(s)) /\ ~Carries(Tail(s), "CREATE_STREAMS")
           /\ \A t \in Seq(Messages) : ~Carries(t, "CREATE_STREAMS") => Told(s \o t)
<1>1. ASSUME s # <<>> PROVE Told(Tail(s)) /\ ~Carries(Tail(s), "CREATE_STREAMS")
  <2>1. /\ Len(Tail(s)) = Len(s) - 1 /\ Len(s) \in Nat
        /\ \A i \in 1..Len(Tail(s)) : Tail(s)[i] = s[i + 1]
    BY <1>1, TailFacts, LenProperties
  <2>2. \A i \in 1..Len(Tail(s)) : i + 1 \in 1..Len(s) /\ i + 1 # 1
    BY <2>1
  <2> QED BY <2>1, <2>2 DEF Told, Carries
<1>2. ASSUME NEW t \in Seq(Messages), ~Carries(t, "CREATE_STREAMS") PROVE Told(s \o t)
  <2>1. /\ Len(s \o t) = Len(s) + Len(t) /\ Len(s) \in Nat /\ Len(t) \in Nat
        /\ \A i \in 1..Len(s) + Len(t) : (s \o t)[i] = IF i <= Len(s) THEN s[i] ELSE t[i - Len(s)]
    BY ConcatProperties, LenProperties
  <2>2. ASSUME NEW i \in 1..Len(s \o t), (s \o t)[i] = "CREATE_STREAMS" PROVE i = 1
    <3>1. CASE i <= Len(s)
      BY <2>1, <2>2, <3>1 DEF Told
    <3>2. CASE i > Len(s)
      <4>1. i - Len(s) \in 1..Len(t) /\ t[i - Len(s)] = "CREATE_STREAMS"
        BY <2>1, <2>2, <3>2
      <4> QED BY <1>2, <4>1 DEF Carries
    <3> QED BY <2>1, <3>1, <3>2
  <2> QED BY <2>2 DEF Told
<1> QED BY <1>1, <1>2

\* The sequences of which a conversation is made.
LEMMA Literals ==
    /\ Told(<<>>) /\ ~Carries(<<>>, "CREATE_STREAMS") /\ Told(<<"CREATE_STREAMS">>)
    /\ \A x : <<x>> # <<>> /\ Head(<<x>>) = x /\ Tail(<<x>>) = <<>> /\ <<>> \o <<x>> = <<x>>
    /\ \A x, y : /\ <<x, y>> # <<>> /\ Head(<<x, y>>) = x /\ Tail(<<x, y>>) = <<y>>
                 /\ <<>> \o <<x, y>> = <<x, y>>
<1>1. Told(<<>>) /\ ~Carries(<<>>, "CREATE_STREAMS") /\ Told(<<"CREATE_STREAMS">>)
  BY DEF Told, Carries
<1>2. \A x : <<x>> # <<>> /\ Head(<<x>>) = x /\ Tail(<<x>>) = <<>> /\ <<>> \o <<x>> = <<x>>
  OBVIOUS
<1>3. \A x, y : /\ <<x, y>> # <<>> /\ Head(<<x, y>>) = x /\ Tail(<<x, y>>) = <<y>>
                /\ <<>> \o <<x, y>> = <<x, y>>
  OBVIOUS
<1> QED BY <1>1, <1>2, <1>3

-----------------------------------------------------------------------------
\* What a step does to one client.

\* A client that is not served, of which at most the connections not accepted
\* are reset.
LEMMA Apart ==
    ASSUME NEW c \in Clients, Talk(c), Same(c), sctrl # c, sctrl' # c,
           c \in started' <=> c \in started,
           lost[c] => lost'[c], lost'[c] => lost[c] \/ ~NoneOf(c, backlog),
           Row(c) \/ NoneOf(c, backlog')
    PROVE  Talk(c)'
<1>1. 1 \in Nat
  OBVIOUS
<1>2. NoneOf(c, backlog) => NoneOf(c, backlog')
  BY Zenon DEF Row
<1>3. InRow(c, backlog, 1) => InRow(c, backlog', 1) \/ NoneOf(c, backlog')
  BY <1>1, Zenon DEF Row
<1>4. Fresh(c)' /\ Begun(c)' /\ Served(c)'
  BY <1>2, Zenon DEF Talk, Fresh, Begun, Served, Same
<1>5. Dials(c)'
  BY <1>2, Zenon DEF Talk, Dials, Same
<1>6. Waits(c)'
  BY <1>2, <1>3, Zenon DEF Talk, Waits, Same, Says
<1>7. LetGo(c)'
  BY <1>2, Zenon DEF Talk, LetGo, Same
<1>8. Silent(c)'
  BY Zenon DEF Talk, Silent, Waits, Same
<1> QED BY <1>4, <1>5, <1>6, <1>7, <1>8 DEF Talk

\* Nothing happens to a client, and nothing to the server but in the backlog.
LEMMA Aside ==
    ASSUME NEW c \in Clients, Talk(c), Same(c), UNCHANGED <<spc, sstate, sctrl, accepted>>,
           c \in started' <=> c \in started, lost'[c] = lost[c], Row(c),
           NumStreams - Len(accepted) \in Nat
    PROVE  Talk(c)'
<1>1. 1 \in Nat
  OBVIOUS
<1>2. /\ NoneOf(c, backlog) => NoneOf(c, backlog')
      /\ InRow(c, backlog, 1) => InRow(c, backlog', 1)
      /\ InRow(c, backlog, NumStreams - Len(accepted)) => InRow(c, backlog', NumStreams - Len(accepted))
  BY <1>1, Zenon DEF Row
<1>3. Fresh(c)' /\ Begun(c)' /\ Silent(c)'
  BY <1>2, Zenon DEF Talk, Fresh, Begun, Silent, Same
<1>4. Dials(c)' /\ LetGo(c)'
  BY <1>2, Zenon DEF Talk, Dials, LetGo, Same
<1>5. Waits(c)'
  BY <1>2, Zenon DEF Talk, Waits, Same, Says
<1>6. Stage(c) => Stage(c)'
  BY ZenonT(30) DEF Stage, Says, Same
<1>7. Served(c)'
  BY <1>2, <1>6, ZenonT(30) DEF Talk, Served, Same
<1> QED BY <1>3, <1>4, <1>5, <1>7, Zenon DEF Talk

\* A client converses only in its loop, or when it waits for results.
LEMMA StagePlace == ASSUME NEW c, Stage(c) PROVE cpc[c] \in {"loop", "results"}
  BY ZenonT(30) DEF Stage, Says

\* The client leaves, or has left and returns.
LEMMA Ends ==
    ASSUME NEW c \in Clients, Talk(c), down[c] \in Seq(Messages),
           UNCHANGED <<spc, sstate, sctrl, accepted, started, backlog>>,
           lost'[c] = lost[c], downEnd'[c] = downEnd[c],
           cpc'[c] \in {"closing", "returned"},
           upEnd'[c] \/ (cpc[c] = "closing" /\ upEnd'[c] = upEnd[c]),
           downEnd[c] => up'[c] = up[c],
           down'[c] \in {down[c], <<>>} \/ (down[c] # <<>> /\ down'[c] = Tail(down[c]))
    PROVE  Talk(c)'
<1>1. /\ Told(down'[c]) /\ (Carries(down'[c], "CREATE_STREAMS") => Carries(down[c], "CREATE_STREAMS"))
      /\ down[c] = <<>> => down'[c] = <<>>
  <2>1. Told(down[c])
    BY DEF Talk, Dials
  <2> QED BY <2>1, ToldFacts, Literals, Zenon
<1>2. cpc'[c] \notin {"idle", "loop", "results"}
  OBVIOUS
<1>3. Fresh(c)' /\ Begun(c)' /\ Silent(c)'
  BY <1>1, <1>2, Zenon DEF Talk, Fresh, Begun, Silent
<1>4. Dials(c)' /\ LetGo(c)'
  BY <1>1, Zenon DEF Talk, Dials, LetGo
<1>5. cpc[c] = "closing" => cpc[c] \notin {"loop", "results"}
  OBVIOUS
<1>6. ~(cpc[c] = "closing" /\ Says(c, <<"cookie">>, <<>>, "loop", "none"))
  BY DEF Says
<1>7. Waits(c)'
  BY <1>1, <1>6, Zenon DEF Talk, Waits
<1>8. Served(c)'
  BY <1>5, StagePlace, ZenonT(30) DEF Talk, Served
<1> QED BY <1>3, <1>4, <1>7, <1>8, Zenon DEF Talk

\* The client goes on, after it has read a message or ended the test.
LEMMA Speaks ==
    ASSUME NEW c \in Clients, Talk(c), down[c] \in Seq(Messages),
           UNCHANGED <<spc, sstate, sctrl, accepted, started, backlog>>,
           lost'[c] = lost[c], downEnd'[c] = downEnd[c], upEnd'[c] = upEnd[c],
           cpc[c] \in {"loop", "results"}, cpc'[c] \in {"loop", "results"},
           downEnd[c] => up'[c] = up[c],
           down'[c] = down[c] \/ (down[c] # <<>> /\ down'[c] = Tail(down[c])),
           down[c] # <<>> \/ cstate[c] # "none",
           Stage(c) /\ ~lost[c] /\ ~downEnd[c] => Stage(c)'
    PROVE  Talk(c)'
<1>1. /\ Told(down'[c]) /\ (Carries(down'[c], "CREATE_STREAMS") => Carries(down[c], "CREATE_STREAMS"))
      /\ down[c] = <<>> => down'[c] = <<>>
  <2>1. Told(down[c])
    BY ZenonT(30) DEF Talk, Dials
  <2> QED BY <2>1, ToldFacts, Zenon
<1>2. cpc'[c] # "idle"
  BY Zenon
<1>3. ~upEnd[c]
  BY Zenon DEF Talk, Fresh
<1>4. Fresh(c)' /\ Begun(c)' /\ Silent(c)'
  BY <1>1, <1>2, <1>3, Zenon DEF Talk, Fresh, Begun, Silent
<1>5. Dials(c)' /\ LetGo(c)'
  BY <1>1, Zenon DEF Talk, Dials, LetGo
<1>6. cstate[c] # "none" => ~Says(c, <<"cookie">>, <<>>, "loop", "none")
  BY Zenon DEF Says
<1>7. Waits(c)'
  BY <1>1, <1>3, <1>6, Zenon DEF Talk, Waits
<1>8. Served(c)'
  BY ZenonT(30) DEF Talk, Served
<1> QED BY <1>4, <1>5, <1>7, <1>8, Zenon DEF Talk

\* The connection of the client is reset.
LEMMA Resets ==
    ASSUME NEW c \in Clients, Talk(c), UNCHANGED <<spc, sstate, sctrl, accepted, started, backlog>>,
           cpc[c] # "idle", cpc'[c] = cpc[c], upEnd'[c] = upEnd[c], downEnd'[c] = downEnd[c],
           lost'[c], up'[c] = <<>>, down'[c] = <<>>
    PROVE  Talk(c)'
<1>1. Fresh(c)' /\ Begun(c)' /\ Silent(c)'
  BY Zenon DEF Talk, Fresh, Begun, Silent
<1>2. Dials(c)' /\ LetGo(c)' /\ Waits(c)'
  BY Literals, Zenon DEF Talk, Dials, LetGo, Waits
<1>3. Served(c)'
  BY Zenon DEF Talk, Served
<1> QED BY <1>1, <1>2, <1>3, Zenon DEF Talk

\* The server goes on with the client it serves.
LEMMA Answers ==
    ASSUME NEW c \in Clients, Talk(c), sctrl = c, sctrl' = c, ~downEnd[c], downEnd'[c] = downEnd[c],
           cpc'[c] = cpc[c], upEnd'[c] = upEnd[c], lost'[c] = lost[c], lost[c] => down'[c] = down[c],
           c \in started' => NoneOf(c, backlog') /\ Len(accepted') = NumStreams,
           Dials(c)', Served(c)'
    PROVE  Talk(c)'
<1>1. Fresh(c)' /\ Begun(c)'
  BY Zenon DEF Talk, Fresh, Begun
<1>2. Waits(c)' /\ LetGo(c)' /\ Silent(c)'
  BY Zenon DEF Talk, Waits, LetGo, Silent
<1> QED BY <1>1, <1>2, Zenon DEF Talk

\* Nothing but what the server wrote last, and no call to dial, is new to the client.
Quietly(c) ==
    /\ Told(down'[c])
    /\ Carries(down'[c], "CREATE_STREAMS") => Carries(down[c], "CREATE_STREAMS")

\* cleanup_server: the server closes its end and waits for the client.
LEMMA Closes ==
    ASSUME NEW c \in Clients, Talk(c), sctrl = c, sctrl' = c, spc' = "closing", downEnd'[c],
           cpc'[c] = cpc[c], upEnd'[c] = upEnd[c], accepted' = accepted,
           c \in started' <=> c \in started, NoneOf(c, backlog) => NoneOf(c, backlog'), Quietly(c)
    PROVE  Talk(c)'
<1>1. Fresh(c)' /\ Begun(c)'
  BY Zenon DEF Talk, Fresh, Begun
<1>2. Dials(c)' /\ LetGo(c)'
  BY Zenon DEF Talk, Dials, LetGo, Quietly
<1>3. Waits(c)' /\ Silent(c)'
  BY Zenon DEF Waits, Silent
<1>4. Served(c)'
  BY DEF Served
<1> QED BY <1>1, <1>2, <1>3, <1>4, Zenon DEF Talk

\* The server no longer serves the client, and what the client wrote is gone.
LEMMA Leaves ==
    ASSUME NEW c \in Clients, Talk(c), sctrl = c, sctrl' # c, downEnd'[c], up'[c] = <<>>,
           cpc'[c] = cpc[c], upEnd'[c] = upEnd[c],
           c \in started' <=> c \in started, NoneOf(c, backlog) => NoneOf(c, backlog'), Quietly(c)
    PROVE  Talk(c)'
<1>1. Fresh(c)' /\ Begun(c)'
  BY Zenon DEF Talk, Fresh, Begun
<1>2. Dials(c)' /\ LetGo(c)'
  BY Zenon DEF Talk, Dials, LetGo, Quietly
<1>3. Waits(c)' /\ Silent(c)' /\ Served(c)'
  BY Zenon DEF Waits, Silent, Served
<1> QED BY <1>1, <1>2, <1>3 DEF Talk

\* A connection at the head of the backlog is refused.
LEMMA Denied ==
    ASSUME NEW c \in Clients, Talk(c), sctrl # c, sctrl' # c, downEnd'[c], up'[c] = up[c],
           cpc'[c] = cpc[c], upEnd'[c] = upEnd[c], c \in started' <=> c \in started,
           ~NoneOf(c, backlog), InRow(c, backlog, 1) => NoneOf(c, backlog'), Quietly(c)
    PROVE  Talk(c)'
<1>1. Fresh(c)' /\ Begun(c)'
  BY Zenon DEF Talk, Fresh, Begun
<1>2. Dials(c)'
  BY Zenon DEF Talk, Dials, Quietly
<1>3. LetGo(c)'
  BY Literals, Zenon DEF Talk, Waits, LetGo, Quietly
<1>4. Waits(c)' /\ Silent(c)' /\ Served(c)'
  BY Zenon DEF Waits, Silent, Served
<1> QED BY <1>1, <1>2, <1>3, <1>4 DEF Talk

\* A connection is accepted as the control connection.
LEMMA Accepts ==
    ASSUME NEW c \in Clients, Talk(c), sctrl # c, sctrl' = c, spc' = "cookie", Same(c),
           lost'[c] = lost[c], c \in started' <=> c \in started,
           ~NoneOf(c, backlog), InRow(c, backlog, 1) => NoneOf(c, backlog')
    PROVE  Talk(c)'
<1>1. Fresh(c)' /\ Begun(c)'
  BY Zenon DEF Talk, Fresh, Begun, Same
<1>2. Dials(c)' /\ LetGo(c)'
  BY Zenon DEF Talk, Dials, LetGo, Same
<1>3. Waits(c)' /\ Silent(c)'
  BY Zenon DEF Talk, Waits, Silent, Same
<1>4. c \notin started'
  BY DEF Talk, Begun
<1>5. ~downEnd[c] /\ ~lost[c] /\ ~upEnd[c] => Stage(c)'
  <2>1. ~downEnd[c] /\ ~lost[c] /\ ~upEnd[c] => Says(c, <<"cookie">>, <<>>, "loop", "none")
    BY Zenon DEF Talk, Waits
  <2> QED BY <2>1 DEF Stage, Says, Same
<1>6. ~downEnd[c] => NoneOf(c, backlog')
  BY Zenon DEF Talk, Waits
<1>7. Served(c)'
  BY <1>4, <1>5, <1>6, ZenonT(30) DEF Served, Same
<1> QED BY <1>1, <1>2, <1>3, <1>7 DEF Talk

\* What is written reaches the client it is written to, unless it has left or
\* the connection was reset.
LEMMA Written ==
    ASSUME TypeOK, NEW c \in Clients, NEW msgs \in Seq(Messages)
    PROVE  /\ \A d \in Clients \ {c} : SentDown(c, msgs)[d] = down[d] /\ SentUp(c, msgs)[d] = up[d]
           /\ SentDown(c, msgs)[c] = IF lost[c] \/ upEnd[c] THEN down[c] ELSE down[c] \o msgs
           /\ SentUp(c, msgs)[c] = IF lost[c] \/ downEnd[c] THEN up[c] ELSE up[c] \o msgs
<1>1. /\ \A d \in Clients \ {c} : SentDown(c, msgs)[d] = down[d]
      /\ SentDown(c, msgs)[c] = IF lost[c] \/ upEnd[c] THEN down[c] ELSE down[c] \o msgs
  BY DEF TypeOK, SentDown
<1>2. /\ \A d \in Clients \ {c} : SentUp(c, msgs)[d] = up[d]
      /\ SentUp(c, msgs)[c] = IF lost[c] \/ downEnd[c] THEN up[c] ELSE up[c] \o msgs
  BY DEF TypeOK, SentUp
<1> QED BY <1>1, <1>2, Zenon

\* What a client writes is in its own direction only.
LEMMA WrittenUp ==
    ASSUME LinkTypes, NEW c \in Clients, NEW msgs, up' = up \/ up' = SentUp(c, msgs)
    PROVE  (\A d \in Clients \ {c} : up'[d] = up[d]) /\ (downEnd[c] => up'[c] = up[c])
<1>1. CASE up' = up
  BY <1>1, Zenon
<1>2. CASE up' = SentUp(c, msgs)
  BY <1>2 DEF SentUp, LinkTypes
<1> QED BY <1>1, <1>2

\* A message that is no call to dial calls nobody to dial.
LEMMA WrittenQuietly ==
    ASSUME NEW c \in Clients, down[c] \in Seq(Messages), NEW msgs \in Seq(Messages),
           ~Carries(msgs, "CREATE_STREAMS"), Told(down[c]),
           down'[c] = down[c] \/ down'[c] = down[c] \o msgs
    PROVE  Quietly(c)
<1>1. Told(down[c] \o msgs)
  BY ToldFacts, Zenon
<1>2. Carries(down[c] \o msgs, "CREATE_STREAMS") => Carries(down[c], "CREATE_STREAMS")
  BY ConcatFacts, Zenon
<1>3. CASE down'[c] = down[c]
  BY <1>3, Zenon DEF Quietly
<1>4. CASE down'[c] = down[c] \o msgs
  BY <1>1, <1>2, <1>4, Zenon DEF Quietly
<1> QED BY <1>3, <1>4

-----------------------------------------------------------------------------
\* Steps of a client keep the conversations.

\* A step of client c is none of the others' business.
LEMMA OneTalks ==
    ASSUME ControlInv, TalkInv, NEW c \in Clients, UNCHANGED <<spc, sstate, sctrl, accepted, started>>,
           \A d \in Clients \ {c} : Same(d) /\ lost'[d] = lost[d] /\ Row(d), Talk(c)'
    PROVE  TalkInv'
<1>1. NumStreams - Len(accepted) \in Nat
  <2>1. Len(accepted) \in Nat /\ Len(accepted) <= NumStreams
    BY LenProperties DEF ControlInv, TypeOK
  <2> QED BY <2>1, ProtocolConstants
<1>2. ASSUME NEW d \in Clients \ {c} PROVE Talk(d)'
  BY <1>1, <1>2, Aside, Zenon DEF TalkInv
<1> QED BY <1>2, Zenon DEF TalkInv

\* A backlog that stays keeps everybody's connections in a row.
LEMMA RowKept == backlog' = backlog => \A d : Row(d)
  BY Zenon DEF Row

\* iperf_client_end.
LEMMA ClientEndTalks ==
    ASSUME ControlInv, TalkInv, NEW c \in Clients, NEW s, NEW ret, NEW rest, ClientEnd(c, s, ret, rest),
           rest \in {down[c], <<>>} \/ (down[c] # <<>> /\ rest = Tail(down[c])),
           UNCHANGED <<ClientLinkKeeps, listenVars, ServerSide>>
    PROVE  TalkInv'
<1>1. ClientTypes /\ LinkTypes /\ TypeOK
  BY Types DEF ControlInv
<1>2. /\ cpc' = [cpc EXCEPT ![c] = "closing"] /\ cstate' = [cstate EXCEPT ![c] = s]
      /\ down' = [down EXCEPT ![c] = rest] /\ upEnd' = [upEnd EXCEPT ![c] = TRUE]
      /\ up' = up \/ up' = SentUp(c, <<"IPERF_DONE">>)
      /\ UNCHANGED <<downEnd, lost, backlog, spc, sstate, sctrl, accepted, started>>
  BY DEF ClientEnd, Set, ClientLinkKeeps, listenVars, ServerSide, serverVars, ghosts
<1>4. (\A d \in Clients \ {c} : up'[d] = up[d]) /\ (downEnd[c] => up'[c] = up[c])
  BY <1>1, <1>2, WrittenUp, Zenon
<1>5. \A d \in Clients \ {c} : Same(d) /\ lost'[d] = lost[d] /\ Row(d)
  BY <1>1, <1>2, <1>4, RowKept DEF Same, ClientTypes, LinkTypes
<1>6. cpc'[c] = "closing" /\ down'[c] = rest /\ upEnd'[c] /\ down[c] \in Seq(Messages)
  BY <1>1, <1>2 DEF ClientTypes, LinkTypes
<1>7. Talk(c)
  BY DEF TalkInv
<1>8. Talk(c)'
  BY <1>2, <1>4, <1>6, <1>7, Ends, ZenonT(30)
<1> QED BY <1>2, <1>5, <1>8, OneTalks

\* The client reads a message, or ends the test, and writes u.
LEMMA ClientSpeaks ==
    ASSUME ControlInv, TalkInv, NEW c \in Clients, NEW p \in {"loop", "results"}, NEW s,
           NEW u \in Seq(Messages),
           cpc[c] \in {"loop", "results"}, cpc' = [cpc EXCEPT ![c] = p],
           cstate' = [cstate EXCEPT ![c] = s],
           \/ down' = down /\ cstate[c] # "none"
           \/ down[c] # <<>> /\ down' = [down EXCEPT ![c] = Tail(down[c])],
           up' = up \/ up' = SentUp(c, u),
           Stage(c) /\ ~lost[c] /\ ~downEnd[c] => Stage(c)',
           UNCHANGED <<upEnd, ClientLinkKeeps, listenVars, ServerSide>>
    PROVE  TalkInv'
<1>1. ClientTypes /\ LinkTypes /\ TypeOK
  BY Types, ZenonT(30) DEF ControlInv
<1>2. UNCHANGED <<upEnd, downEnd, lost, backlog, spc, sstate, sctrl, accepted, started>>
  BY ZenonT(30) DEF ClientLinkKeeps, listenVars, ServerSide, serverVars, ghosts
<1>4. (\A d \in Clients \ {c} : up'[d] = up[d]) /\ (downEnd[c] => up'[c] = up[c])
  BY <1>1, WrittenUp, Zenon
<1>5. \A d \in Clients \ {c} : Same(d) /\ lost'[d] = lost[d] /\ Row(d)
  BY <1>1, <1>2, <1>4, RowKept DEF Same, ClientTypes, LinkTypes
<1>6. /\ cpc'[c] = p /\ down[c] \in Seq(Messages)
      /\ \/ down'[c] = down[c] /\ cstate[c] # "none"
         \/ down[c] # <<>> /\ down'[c] = Tail(down[c])
  BY <1>1, <1>2 DEF ClientTypes, LinkTypes
<1>7. Talk(c)
  BY ZenonT(30) DEF TalkInv
<1>8. Talk(c)'
  BY <1>2, <1>4, <1>6, <1>7, Speaks, ZenonT(30)
<1> QED BY <1>2, <1>5, <1>8, OneTalks, ZenonT(30)

\* What the client writes when it converses with the server is all there is to read.
LEMMA StageWrites ==
    ASSUME ControlInv, NEW c \in Clients, NEW x \in Messages, up' = SentUp(c, <<x>>),
           up[c] = <<>>, ~lost[c], ~downEnd[c]
    PROVE  up'[c] = <<x>>
<1>1. <<x>> \in Seq(Messages)
  OBVIOUS
<1>2. up'[c] = <<>> \o <<x>>
  BY <1>1, Written, Zenon DEF ControlInv
<1> QED BY <1>2, Literals, ZenonT(30)

\* iperf_connect.
LEMMA ConnectTalks ==
    ASSUME ControlInv, TalkInv, NEW c \in Clients, Connect(c)
    PROVE  TalkInv'
<1>1. ClientTypes /\ LinkTypes /\ ListenTypes /\ TypeOK /\ Talk(c)
  BY Types DEF ControlInv, TalkInv
<1>2. /\ cpc[c] = "idle"
      /\ UNCHANGED <<cstate, down, upEnd, downEnd, lost, spc, sstate, sctrl, accepted, started>>
  BY DEF Connect, ServerSide, serverVars, ghosts
<1>3. CASE ~listening
  <2>1. cpc' = [cpc EXCEPT ![c] = "returned"] /\ backlog' = backlog /\ up' = up
    BY <1>3 DEF Connect, Set
  <2>2. \A d \in Clients \ {c} : Same(d) /\ lost'[d] = lost[d] /\ Row(d)
    BY <1>1, <1>2, <2>1, RowKept DEF Same, ClientTypes, LinkTypes
  <2>3. cpc'[c] = "returned"
    BY <1>1, <2>1 DEF ClientTypes
  <2>4. sctrl # c /\ NoneOf(c, backlog) /\ ~downEnd[c] /\ down[c] = <<>> /\ c \notin started
    BY <1>1, <1>2, ZenonT(30) DEF Talk, Fresh
  <2>5. Fresh(c)' /\ Begun(c)' /\ Silent(c)' /\ Served(c)'
    BY <1>2, <2>1, <2>3, <2>4, Zenon DEF Fresh, Begun, Silent, Served
  <2>6. Dials(c)' /\ Waits(c)' /\ LetGo(c)'
    BY <1>2, <2>1, <2>4, Literals, Zenon DEF Dials, Waits, LetGo
  <2> QED BY <1>2, <2>2, <2>5, <2>6, OneTalks, Zenon DEF Talk
<1>4. CASE listening
  <2> DEFINE t == <<[client |-> c, kind |-> "control"]>>
  <2>1. /\ cpc' = [cpc EXCEPT ![c] = "loop"] /\ up' = SentUp(c, <<"cookie">>)
        /\ backlog' = Append(backlog, [client |-> c, kind |-> "control"])
    BY <1>4 DEF Connect, Set
  <2>2. <<"cookie">> \in Seq(Messages) /\ "cookie" \in Messages
    BY DEF Messages
  <2>3. t \in Seq(Pending) /\ Len(t) = 1 /\ \A i \in 1..Len(t) : t[i].client = c
    BY DEF Pending
  <2>4. backlog' = backlog \o t /\ backlog \in Seq(Pending)
    BY <1>1, <2>1, AppendIsConcat DEF ListenTypes, Pending
  <2> HIDE DEF t
  <2>5. \A d \in Clients \ {c} : Row(d)
    BY <2>3, <2>4, RowConcat, Zenon DEF Row
  <2>6. \A d \in Clients \ {c} : Same(d) /\ lost'[d] = lost[d]
    BY <1>1, <1>2, <2>1, <2>2, Written, ZenonT(30) DEF Same, ClientTypes, LinkTypes
  <2>7. /\ sctrl # c /\ NoneOf(c, backlog) /\ ~downEnd[c] /\ ~upEnd[c] /\ down[c] = <<>>
        /\ c \notin started /\ up[c] = <<>>
    BY <1>1, <1>2, Zenon DEF Talk, Fresh
  <2>8. InRow(c, backlog', 1)
    BY <2>3, <2>4, <2>7, RowConcat, ZenonT(30)
  <2>9. cpc'[c] = "loop" /\ cstate'[c] = "none"
    BY <1>1, <1>2, <2>1 DEF ClientTypes, ControlInv, Earned
  <2>10. lost[c] \/ Says(c, <<"cookie">>, <<>>, "loop", "none")'
    BY <1>2, <2>1, <2>2, <2>7, <2>9, StageWrites DEF Says
  <2>11. Fresh(c)' /\ Begun(c)' /\ Silent(c)' /\ Served(c)'
    BY <1>2, <2>7, <2>9 DEF Fresh, Begun, Silent, Served
  <2>12. Dials(c)' /\ Waits(c)' /\ LetGo(c)'
    BY <1>2, <2>7, <2>8, <2>10, Literals, Zenon DEF Dials, Waits, LetGo
  <2> QED BY <1>2, <2>5, <2>6, <2>11, <2>12, OneTalks, Zenon DEF Talk
<1> QED BY <1>3, <1>4

\* What the client reads next tells where the server is.
LEMMA StageReads ==
    ASSUME NEW c, Stage(c), down[c] # <<>>, NEW h, h = Head(down[c]), NEW t, t = Tail(down[c])
    PROVE  /\ up[c] = <<>>
           /\ h = "PARAM_EXCHANGE" => spc = "params" /\ t = <<>>
           /\ h = "CREATE_STREAMS" => spc = "loop" /\ sstate = "CREATE_STREAMS" /\ t = <<>>
           /\ h = "TEST_START" => spc = "loop" /\ sstate = "TEST_RUNNING" /\ t = <<"TEST_RUNNING">>
           /\ h = "TEST_RUNNING" => spc = "loop" /\ sstate = "TEST_RUNNING" /\ t = <<>>
           /\ h = "EXCHANGE_RESULTS" => spc = "results" /\ t = <<>>
           /\ h = "results" => /\ spc = "loop" /\ sstate = "DISPLAY_RESULTS"
                              /\ t = <<"DISPLAY_RESULTS">> /\ cstate[c] = "EXCHANGE_RESULTS"
<1>1. /\ \A x : down[c] = <<x>> => h = x /\ t = <<>>
      /\ \A x, y : down[c] = <<x, y>> => h = x /\ t = <<y>>
  BY Literals, Zenon
<1>2. /\ up[c] = <<>>
      /\ \/ down[c] = <<"PARAM_EXCHANGE">> /\ spc = "params"
         \/ down[c] = <<"CREATE_STREAMS">> /\ spc = "loop" /\ sstate = "CREATE_STREAMS"
         \/ down[c] = <<"TEST_START", "TEST_RUNNING">> /\ spc = "loop" /\ sstate = "TEST_RUNNING"
         \/ down[c] = <<"TEST_RUNNING">> /\ spc = "loop" /\ sstate = "TEST_RUNNING"
         \/ down[c] = <<"EXCHANGE_RESULTS">> /\ spc = "results"
         \/ /\ down[c] = <<"results", "DISPLAY_RESULTS">> /\ spc = "loop" /\ sstate = "DISPLAY_RESULTS"
            /\ cstate[c] = "EXCHANGE_RESULTS"
         \/ down[c] = <<"DISPLAY_RESULTS">> /\ spc = "loop" /\ sstate = "DISPLAY_RESULTS"
  BY Zenon DEF Stage, Says
<1>3. CASE down[c] = <<"PARAM_EXCHANGE">> /\ spc = "params"
  <2>1. h = "PARAM_EXCHANGE" /\ t = <<>>
    BY <1>1, <1>3, Zenon
  <2> QED BY <1>2, <1>3, <2>1
<1>4. CASE down[c] = <<"CREATE_STREAMS">> /\ spc = "loop" /\ sstate = "CREATE_STREAMS"
  <2>1. h = "CREATE_STREAMS" /\ t = <<>>
    BY <1>1, <1>4, Zenon
  <2> QED BY <1>2, <1>4, <2>1
<1>5. CASE down[c] = <<"TEST_START", "TEST_RUNNING">> /\ spc = "loop" /\ sstate = "TEST_RUNNING"
  <2>1. h = "TEST_START" /\ t = <<"TEST_RUNNING">>
    BY <1>1, <1>5, Zenon
  <2> QED BY <1>2, <1>5, <2>1
<1>6. CASE down[c] = <<"TEST_RUNNING">> /\ spc = "loop" /\ sstate = "TEST_RUNNING"
  <2>1. h = "TEST_RUNNING" /\ t = <<>>
    BY <1>1, <1>6, Zenon
  <2> QED BY <1>2, <1>6, <2>1
<1>7. CASE down[c] = <<"EXCHANGE_RESULTS">> /\ spc = "results"
  <2>1. h = "EXCHANGE_RESULTS" /\ t = <<>>
    BY <1>1, <1>7, Zenon
  <2> QED BY <1>2, <1>7, <2>1
<1>8. CASE /\ down[c] = <<"results", "DISPLAY_RESULTS">> /\ spc = "loop" /\ sstate = "DISPLAY_RESULTS"
           /\ cstate[c] = "EXCHANGE_RESULTS"
  <2>1. h = "results" /\ t = <<"DISPLAY_RESULTS">>
    BY <1>1, <1>8, Zenon
  <2> QED BY <1>2, <1>8, <2>1
<1>9. CASE down[c] = <<"DISPLAY_RESULTS">>
  <2>1. h = "DISPLAY_RESULTS"
    BY <1>1, <1>9, Zenon
  <2> QED BY <1>2, <2>1
<1> QED BY <1>2, <1>3, <1>4, <1>5, <1>6, <1>7, <1>8, <1>9, Zenon

\* iperf_create_streams: the client dials.
LEMMA DialTalks ==
    ASSUME ControlInv, TalkInv, NEW c \in Clients, ReadCreateStreams(c), listening
    PROVE  TalkInv'
<1> DEFINE t == [i \in 1..NumStreams |-> [client |-> c, kind |-> "stream"]]
<1>1. ClientTypes /\ LinkTypes /\ ListenTypes /\ TypeOK /\ Talk(c)
  BY Types DEF ControlInv, TalkInv
<1>2. /\ cpc[c] = "loop" /\ down[c] # <<>> /\ Head(down[c]) = "CREATE_STREAMS"
      /\ backlog' = backlog \o t /\ down' = [down EXCEPT ![c] = Tail(down[c])]
      /\ cstate' = [cstate EXCEPT ![c] = "CREATE_STREAMS"]
      /\ UNCHANGED <<cpc, up, upEnd, downEnd, lost, spc, sstate, sctrl, accepted, started>>
  BY Zenon DEF ReadCreateStreams, Receives, NextIs, Set, ClientLinkKeeps, ServerSide, serverVars, ghosts
<1>3. t \in Seq(Pending) /\ Len(t) = NumStreams /\ \A i \in 1..Len(t) : t[i].client = c
  <2> DEFINE d == [client |-> c, kind |-> "stream"]
  <2>1. d \in Pending /\ d.client = c
    BY DEF Pending
  <2>2. NumStreams \in Nat
    BY ProtocolConstants
  <2> HIDE DEF d
  <2>3. [i \in 1..NumStreams |-> d] \in Seq(Pending) /\ Len([i \in 1..NumStreams |-> d]) = NumStreams
    BY <2>1, <2>2
  <2>4. \A i \in 1..NumStreams : [j \in 1..NumStreams |-> d][i] = d
    OBVIOUS
  <2> QED BY <2>1, <2>3, <2>4, Zenon DEF d
<1> HIDE DEF t
<1>4. backlog \in Seq(Pending) /\ down[c] \in Seq(Messages)
  BY <1>1 DEF ListenTypes, LinkTypes
<1>5. \A d \in Clients \ {c} : Row(d)
  BY <1>2, <1>3, <1>4, RowConcat, Zenon DEF Row
<1>6. \A d \in Clients \ {c} : Same(d) /\ lost'[d] = lost[d]
  BY <1>1, <1>2 DEF Same, ClientTypes, LinkTypes
<1>7. /\ down'[c] = Tail(down[c]) /\ cpc'[c] = "loop" /\ cstate'[c] = "CREATE_STREAMS"
      /\ up'[c] = up[c]
  BY <1>1, <1>2 DEF ClientTypes, LinkTypes
<1>8. Carries(down[c], "CREATE_STREAMS") /\ Told(down[c])
  BY <1>1, <1>2, <1>4, TailFacts, Zenon DEF Talk, Dials
<1>9. /\ NoneOf(c, backlog) /\ c \notin started /\ (sctrl = c => accepted = <<>>) /\ ~upEnd[c]
      /\ sctrl = c \/ downEnd[c]
  BY <1>1, <1>2, <1>8, Zenon DEF Talk, Fresh, Dials, Waits
<1>10. InRow(c, backlog', NumStreams)
  BY <1>2, <1>3, <1>4, <1>9, RowConcat, Zenon
<1>11. Told(down'[c]) /\ ~Carries(down'[c], "CREATE_STREAMS")
  BY <1>2, <1>4, <1>7, <1>8, ToldFacts, ZenonT(30)
<1>12. Fresh(c)' /\ Begun(c)'
  BY <1>2, <1>7, <1>9, Zenon DEF Fresh, Begun
<1>13. Dials(c)' /\ Waits(c)'
  BY <1>2, <1>9, <1>11, Zenon DEF Dials, Waits
<1>14. LetGo(c)'
  BY <1>1, <1>2, <1>7, <1>8, Zenon DEF Talk, LetGo
<1>15. Silent(c)'
  BY <1>1, <1>2, Zenon DEF Talk, Silent
<1>16. ASSUME sctrl = c, ~downEnd[c]
       PROVE  spc = "loop" /\ sstate = "CREATE_STREAMS" /\ Stage(c)'
  <2>1. ~lost[c]
    BY <1>1, <1>2, <1>16 DEF Talk, Silent
  <2>2. Stage(c)
    BY <1>1, <1>9, <1>16, <2>1, Zenon DEF Talk, Served
  <2>3. spc = "loop" /\ sstate = "CREATE_STREAMS" /\ up[c] = <<>> /\ Tail(down[c]) = <<>>
    BY <1>2, <2>2, StageReads, Zenon
  <2> QED BY <1>2, <1>7, <2>3, ZenonT(30) DEF Stage, Says
<1>17. Served(c)'
  <2>1. ASSUME sctrl = c PROVE Served(c)'
    <3>1. NumStreams - Len(accepted) = NumStreams
      BY <1>9, <2>1, ProtocolConstants, EmptySeq
    <3>2. CASE downEnd[c]
      <4>1. downEnd'[c] /\ spc' \notin {"params", "loop", "starting", "results"}
        BY <1>1, <1>2, <2>1, <3>2, ZenonT(30) DEF Talk, Served
      <4> QED BY <4>1 DEF Served
    <3>3. CASE ~downEnd[c]
      <4>1. spc' = "loop" /\ sstate' = "CREATE_STREAMS" /\ Stage(c)' /\ c \notin started'
        BY <1>2, <1>9, <1>16, <2>1, <3>3
      <4>2. ~downEnd'[c] /\ InRow(c, backlog', NumStreams - Len(accepted'))
        BY <1>2, <1>10, <3>1, <3>3
      <4> QED BY <4>1, <4>2 DEF Served
    <3> QED BY <3>2, <3>3
  <2>2. ASSUME sctrl # c PROVE Served(c)'
    BY <1>2, <2>2 DEF Served
  <2> QED BY <2>1, <2>2
<1>18. Talk(c)'
  BY <1>12, <1>13, <1>14, <1>15, <1>17 DEF Talk
<1> QED BY <1>2, <1>5, <1>6, <1>18, OneTalks, Zenon

\* Every step of a client keeps the conversations.
LEMMA ClientTalks ==
    ASSUME ControlInv, TalkInv, NEW c \in Clients,
           Connect(c) \/ ClientStep(c) \/ ClientStop(c) \/ Break(c)
    PROVE  TalkInv'
<1>1. ClientTypes /\ LinkTypes /\ TypeOK /\ Talk(c)
  BY Types DEF ControlInv, TalkInv
<1>2. cpc = [cpc EXCEPT ![c] = cpc[c]] /\ cstate = [cstate EXCEPT ![c] = cstate[c]]
  BY <1>1 DEF ClientTypes
<1>3. /\ {"loop", "results"} \subseteq {"loop", "results"}
      /\ {"params", "results", "TEST_END"} \subseteq Messages
      /\ <<"params">> \in Seq(Messages) /\ <<"results">> \in Seq(Messages)
      /\ <<"TEST_END">> \in Seq(Messages) /\ <<>> \in Seq(Messages)
  BY DEF Messages, States
<1>4. /\ \A s : cstate' = [cstate EXCEPT ![c] = s] => cstate'[c] = s
      /\ \A p : cpc' = [cpc EXCEPT ![c] = p] => cpc'[c] = p
      /\ \A q : down' = [down EXCEPT ![c] = q] => down'[c] = q
  BY <1>1 DEF ClientTypes, LinkTypes
<1>5. UNCHANGED ServerSide => UNCHANGED <<spc, sstate, sctrl, accepted, started>>
  BY DEF ServerSide, serverVars, ghosts
<1>10. CASE Connect(c)
  BY <1>10, ConnectTalks
<1>11. CASE ReadParamExchange(c)
  <2>1. /\ cpc[c] = "loop" /\ down[c] # <<>> /\ Head(down[c]) = "PARAM_EXCHANGE" /\ cpc' = cpc
        /\ cstate' = [cstate EXCEPT ![c] = "PARAM_EXCHANGE"]
        /\ down' = [down EXCEPT ![c] = Tail(down[c])] /\ up' = SentUp(c, <<"params">>)
        /\ UNCHANGED <<upEnd, ClientLinkKeeps, listenVars, ServerSide>>
    BY <1>11 DEF ReadParamExchange, Receives, NextIs, Set
  <2>2. ASSUME Stage(c), ~lost[c], ~downEnd[c] PROVE Stage(c)'
    <3>1. spc = "params" /\ up[c] = <<>> /\ Tail(down[c]) = <<>>
      BY <2>1, <2>2, StageReads, Zenon
    <3>2. up'[c] = <<"params">> /\ down'[c] = <<>>
      BY <1>3, <1>4, <2>1, <2>2, <3>1, StageWrites, Zenon
    <3> QED BY <1>4, <1>5, <2>1, <3>1, <3>2, Zenon DEF Stage, Says
  <2> QED BY <1>2, <1>3, <2>1, <2>2, ClientSpeaks, Zenon
<1>12. CASE ReadCreateStreams(c)
  <2>1. CASE listening
    BY <1>12, <2>1, DialTalks
  <2>2. CASE ~listening
    <3>1. /\ ClientEnd(c, "CREATE_STREAMS", -1, Tail(down[c])) /\ down[c] # <<>>
          /\ UNCHANGED <<ClientLinkKeeps, listenVars, ServerSide>>
      BY <1>12, <2>2, Zenon DEF ReadCreateStreams, ClientFails, Receives, NextIs, listenVars
    <3> QED BY <3>1, ClientEndTalks, Zenon
  <2> QED BY <2>1, <2>2
<1>13. CASE ReadTestStart(c)
  <2>1. /\ cpc[c] = "loop" /\ down[c] # <<>> /\ Head(down[c]) = "TEST_START" /\ cpc' = cpc
        /\ cstate' = [cstate EXCEPT ![c] = "TEST_START"]
        /\ down' = [down EXCEPT ![c] = Tail(down[c])] /\ up' = up
        /\ UNCHANGED <<upEnd, ClientLinkKeeps, listenVars, ServerSide>>
    BY <1>13 DEF ReadTestStart, Receives, NextIs, Set
  <2>2. ASSUME Stage(c), ~lost[c], ~downEnd[c] PROVE Stage(c)'
    <3>1. /\ spc = "loop" /\ sstate = "TEST_RUNNING" /\ up[c] = <<>>
          /\ Tail(down[c]) = <<"TEST_RUNNING">>
      BY <2>1, <2>2, StageReads, Zenon
    <3>2. up'[c] = <<>> /\ down'[c] = <<"TEST_RUNNING">>
      BY <1>4, <2>1, <3>1, Zenon
    <3> QED BY <1>4, <1>5, <2>1, <3>1, <3>2, Zenon DEF Stage, Says
  <2> QED BY <1>2, <1>3, <2>1, <2>2, ClientSpeaks, Zenon
<1>14. CASE ReadTestRunning(c)
  <2>1. /\ cpc[c] = "loop" /\ down[c] # <<>> /\ Head(down[c]) = "TEST_RUNNING" /\ cpc' = cpc
        /\ cstate' = [cstate EXCEPT ![c] = "TEST_RUNNING"]
        /\ down' = [down EXCEPT ![c] = Tail(down[c])] /\ up' = up
        /\ UNCHANGED <<upEnd, ClientLinkKeeps, listenVars, ServerSide>>
    BY <1>14 DEF ReadTestRunning, Receives, NextIs, Set
  <2>2. ASSUME Stage(c), ~lost[c], ~downEnd[c] PROVE Stage(c)'
    <3>1. spc = "loop" /\ sstate = "TEST_RUNNING" /\ up[c] = <<>> /\ Tail(down[c]) = <<>>
      BY <2>1, <2>2, StageReads, Zenon
    <3>2. up'[c] = <<>> /\ down'[c] = <<>>
      BY <1>4, <2>1, <3>1, Zenon
    <3> QED BY <1>4, <1>5, <2>1, <3>1, <3>2, Zenon DEF Stage, Says
  <2> QED BY <1>2, <1>3, <2>1, <2>2, ClientSpeaks, Zenon
<1>15. CASE ReadExchangeResults(c)
  <2>1. /\ cpc[c] = "loop" /\ down[c] # <<>> /\ Head(down[c]) = "EXCHANGE_RESULTS"
        /\ cpc' = [cpc EXCEPT ![c] = "results"]
        /\ cstate' = [cstate EXCEPT ![c] = "EXCHANGE_RESULTS"]
        /\ down' = [down EXCEPT ![c] = Tail(down[c])] /\ up' = SentUp(c, <<"results">>)
        /\ UNCHANGED <<upEnd, ClientLinkKeeps, listenVars, ServerSide>>
    BY <1>15 DEF ReadExchangeResults, Receives, NextIs, Set
  <2>2. ASSUME Stage(c), ~lost[c], ~downEnd[c] PROVE Stage(c)'
    <3>1. spc = "results" /\ up[c] = <<>> /\ Tail(down[c]) = <<>>
      BY <2>1, <2>2, StageReads, Zenon
    <3>2. up'[c] = <<"results">> /\ down'[c] = <<>>
      BY <1>3, <1>4, <2>1, <2>2, <3>1, StageWrites, Zenon
    <3> QED BY <1>4, <1>5, <2>1, <3>1, <3>2, Zenon DEF Stage, Says
  <2> QED BY <1>3, <2>1, <2>2, ClientSpeaks, Zenon
<1>16. CASE GetResults(c)
  <2>1. /\ cpc[c] = "results" /\ down[c] # <<>> /\ Head(down[c]) = "results"
        /\ cpc' = [cpc EXCEPT ![c] = "loop"] /\ cstate' = cstate
        /\ down' = [down EXCEPT ![c] = Tail(down[c])] /\ up' = up
        /\ UNCHANGED <<upEnd, ClientLinkKeeps, listenVars, ServerSide>>
    BY <1>16 DEF GetResults, NextIs, Set
  <2>2. ASSUME Stage(c), ~lost[c], ~downEnd[c] PROVE Stage(c)'
    <3>1. /\ spc = "loop" /\ sstate = "DISPLAY_RESULTS" /\ up[c] = <<>>
          /\ Tail(down[c]) = <<"DISPLAY_RESULTS">> /\ cstate[c] = "EXCHANGE_RESULTS"
      BY <2>1, <2>2, StageReads, Zenon
    <3>2. up'[c] = <<>> /\ down'[c] = <<"DISPLAY_RESULTS">>
      BY <1>4, <2>1, <3>1, Zenon
    <3> QED BY <1>4, <1>5, <2>1, <3>1, <3>2, Zenon DEF Stage, Says
  <2> QED BY <1>2, <1>3, <2>1, <2>2, ClientSpeaks, Zenon
<1>17. CASE GetResultsFails(c) \/ ReadDisplayResults(c) \/ ReadRefusal(c) \/ ClientNoMessage(c)
  <2>1. /\ \E s, ret, rest : /\ ClientEnd(c, s, ret, rest)
                             /\ rest \in {down[c], <<>>} \/ (down[c] # <<>> /\ rest = Tail(down[c]))
        /\ UNCHANGED <<ClientLinkKeeps, listenVars, ServerSide>>
    BY <1>17, Zenon DEF GetResultsFails, ReadDisplayResults, ReadRefusal, ClientNoMessage, ClientFails,
       Receives, NextIs
  <2> QED BY <2>1, ClientEndTalks, Zenon
<1>18. CASE TestTimer(c) \/ ClientStop(c)
  <2>1. UNCHANGED <<cpc, cstate, linkVars, listenVars, ServerSide>>
    BY <1>18, Zenon DEF TestTimer, ClientStop
  <2>2. \A d \in Clients : Same(d) /\ lost'[d] = lost[d] /\ Row(d)
    BY <2>1, RowKept DEF Same, linkVars, listenVars
  <2>3. Len(accepted) \in Nat /\ Len(accepted) <= NumStreams
    BY <1>1, LenProperties DEF TypeOK
  <2>4. NumStreams - Len(accepted) \in Nat
    BY <2>3, ProtocolConstants
  <2>5. Talk(c)'
    BY <1>1, <1>5, <2>1, <2>2, <2>4, Aside, Zenon
  <2> QED BY <1>5, <2>1, <2>2, <2>5, OneTalks
<1>19. CASE EndTest(c) /\ ~lost[c]
  <2>1. /\ cpc[c] = "loop" /\ cstate[c] = "TEST_RUNNING" /\ cpc' = cpc
        /\ cstate' = [cstate EXCEPT ![c] = "TEST_END"] /\ down' = down
        /\ up' = SentUp(c, <<"TEST_END">>)
        /\ UNCHANGED <<upEnd, ClientLinkKeeps, listenVars, ServerSide>>
    BY <1>19 DEF EndTest, Set
  <2>2. ASSUME Stage(c), ~lost[c], ~downEnd[c] PROVE Stage(c)'
    <3>1. spc = "loop" /\ sstate = "TEST_RUNNING" /\ up[c] = <<>> /\ down[c] = <<>>
      BY <2>1, <2>2, Zenon DEF Stage, Says
    <3>2. up'[c] = <<"TEST_END">> /\ down'[c] = <<>>
      BY <1>3, <2>1, <2>2, <3>1, StageWrites, Zenon
    <3> QED BY <1>4, <1>5, <2>1, <3>1, <3>2, ZenonT(30) DEF Stage, Says
  <2> QED BY <1>2, <1>3, <2>1, <2>2, ClientSpeaks, Zenon
<1>20. CASE (EndTest(c) /\ lost[c]) \/ ClientClosed(c)
  <2>1. /\ cpc' = [cpc EXCEPT ![c] = "closing"] \/ cpc' = [cpc EXCEPT ![c] = "returned"]
        /\ upEnd' = [upEnd EXCEPT ![c] = TRUE] \/ (cpc[c] = "closing" /\ upEnd' = upEnd)
        /\ cstate' = cstate \/ cstate' = [cstate EXCEPT ![c] = "TEST_END"]
        /\ down' = down \/ down' = [down EXCEPT ![c] = <<>>]
        /\ UNCHANGED <<up, downEnd, lost, backlog, spc, sstate, sctrl, accepted, started>>
    BY <1>20 DEF EndTest, ClientClosed, Set, ClientLinkKeeps, listenVars, ServerSide, serverVars, ghosts
  <2>2. \A d \in Clients \ {c} : Same(d) /\ lost'[d] = lost[d] /\ Row(d)
    BY <1>1, <2>1, RowKept DEF Same, ClientTypes, LinkTypes
  <2>3. /\ cpc'[c] \in {"closing", "returned"} /\ down[c] \in Seq(Messages)
        /\ upEnd'[c] \/ (cpc[c] = "closing" /\ upEnd'[c] = upEnd[c])
        /\ down'[c] \in {down[c], <<>>} /\ lost'[c] = lost[c] /\ downEnd'[c] = downEnd[c]
        /\ up'[c] = up[c]
    BY <1>1, <2>1 DEF ClientTypes, LinkTypes
  <2>4. Talk(c)'
    BY <1>1, <2>1, <2>3, Ends, Zenon
  <2> QED BY <2>1, <2>2, <2>4, OneTalks
<1>21. CASE Break(c)
  <2>1. /\ up' = [up EXCEPT ![c] = <<>>] /\ down' = [down EXCEPT ![c] = <<>>]
        /\ lost' = [lost EXCEPT ![c] = TRUE] /\ cpc[c] \in {"loop", "results", "closing"}
        /\ UNCHANGED <<cpc, cstate, backlog, upEnd, downEnd, spc, sstate, sctrl, accepted, started>>
    BY <1>21 DEF Break, Set, clientVars, serverVars, listenVars, ghosts
  <2>2. \A d \in Clients \ {c} : Same(d) /\ lost'[d] = lost[d] /\ Row(d)
    BY <1>1, <2>1, RowKept DEF Same, LinkTypes
  <2>3. lost'[c] /\ up'[c] = <<>> /\ down'[c] = <<>> /\ cpc[c] # "idle"
    BY <1>1, <2>1 DEF LinkTypes
  <2>4. Talk(c)'
    BY <1>1, <2>1, <2>3, Resets
  <2> QED BY <2>1, <2>2, <2>4, OneTalks, Zenon
<1> QED BY <1>10, <1>11, <1>12, <1>13, <1>14, <1>15, <1>16, <1>17, <1>18, <1>19, <1>20, <1>21
        DEF ClientStep

-----------------------------------------------------------------------------
\* Steps of the server keep the conversations.

\* What the server reads next tells where the client is.
LEMMA StageHears ==
    ASSUME NEW c, Stage(c), up[c] # <<>>, NEW h, h = Head(up[c])
    PROVE  /\ down[c] = <<>> /\ Tail(up[c]) = <<>>
           /\ spc = "cookie" => cpc[c] = "loop" /\ cstate[c] = "none"
           /\ h = "params" => cpc[c] = "loop" /\ cstate[c] = "PARAM_EXCHANGE"
           /\ h = "TEST_END" => cpc[c] = "loop" /\ cstate[c] = "TEST_END"
           /\ h = "results" => cpc[c] = "results" /\ cstate[c] = "EXCHANGE_RESULTS"
<1>1. \A x : up[c] = <<x>> => h = x /\ Tail(up[c]) = <<>>
  BY Literals, Zenon
<1>2. /\ down[c] = <<>>
      /\ \/ up[c] = <<"cookie">> /\ spc = "cookie" /\ cpc[c] = "loop" /\ cstate[c] = "none"
         \/ up[c] = <<"params">> /\ spc = "params" /\ cpc[c] = "loop" /\ cstate[c] = "PARAM_EXCHANGE"
         \/ up[c] = <<"TEST_END">> /\ spc = "loop" /\ cpc[c] = "loop" /\ cstate[c] = "TEST_END"
         \/ up[c] = <<"results">> /\ spc = "results" /\ cpc[c] = "results" /\ cstate[c] = "EXCHANGE_RESULTS"
  BY Zenon DEF Stage, Says
<1>3. CASE up[c] = <<"cookie">> /\ spc = "cookie" /\ cpc[c] = "loop" /\ cstate[c] = "none"
  <2>1. h = "cookie" /\ Tail(up[c]) = <<>>
    BY <1>1, <1>3, Zenon
  <2> QED BY <1>2, <1>3, <2>1
<1>4. CASE up[c] = <<"params">> /\ spc = "params" /\ cpc[c] = "loop" /\ cstate[c] = "PARAM_EXCHANGE"
  <2>1. h = "params" /\ Tail(up[c]) = <<>>
    BY <1>1, <1>4, Zenon
  <2> QED BY <1>2, <1>4, <2>1
<1>5. CASE up[c] = <<"TEST_END">> /\ spc = "loop" /\ cpc[c] = "loop" /\ cstate[c] = "TEST_END"
  <2>1. h = "TEST_END" /\ Tail(up[c]) = <<>>
    BY <1>1, <1>5, Zenon
  <2> QED BY <1>2, <1>5, <2>1
<1>6. CASE up[c] = <<"results">> /\ spc = "results" /\ cpc[c] = "results" /\ cstate[c] = "EXCHANGE_RESULTS"
  <2>1. h = "results" /\ Tail(up[c]) = <<>>
    BY <1>1, <1>6, Zenon
  <2> QED BY <1>2, <1>6, <2>1
<1> QED BY <1>2, <1>3, <1>4, <1>5, <1>6, Zenon

\* The clients but c, none of which is served before or after.
LEMMA OthersApart ==
    ASSUME TalkInv, NEW c \in Clients, sctrl \in {c, NoClient}, sctrl' \in {c, NoClient},
           \A d \in Clients \ {c} : /\ Same(d) /\ (d \in started' <=> d \in started)
                                    /\ lost[d] => lost'[d]
                                    /\ lost'[d] => lost[d] \/ ~NoneOf(d, backlog)
                                    /\ Row(d) \/ NoneOf(d, backlog'),
           Talk(c)'
    PROVE  TalkInv'
<1>1. ASSUME NEW d \in Clients \ {c} PROVE Talk(d)'
  <2>1. sctrl # d /\ sctrl' # d
    BY <1>1, ProtocolConstants
  <2> QED BY <1>1, <2>1, Apart, Zenon DEF TalkInv
<1> QED BY <1>1, Zenon DEF TalkInv

\* Every client, when none is served before or after.
LEMMA AllApart ==
    ASSUME TalkInv, sctrl = NoClient, sctrl' = NoClient,
           \A d \in Clients : /\ Same(d) /\ (d \in started' <=> d \in started)
                              /\ lost[d] => lost'[d]
                              /\ lost'[d] => lost[d] \/ ~NoneOf(d, backlog)
                              /\ Row(d) \/ NoneOf(d, backlog')
    PROVE  TalkInv'
<1>1. ASSUME NEW d \in Clients PROVE Talk(d)'
  <2>1. sctrl # d /\ sctrl' # d
    BY <1>1, ProtocolConstants
  <2> QED BY <1>1, <2>1, Apart, Zenon DEF TalkInv
<1> QED BY <1>1, Zenon DEF TalkInv

\* Closing the listener resets only connections that it had not accepted.
LEMMA CloseListenerTalks ==
    ASSUME CloseListener, NEW d \in Clients
    PROVE  /\ lost[d] => lost'[d]
           /\ lost'[d] => lost[d] \/ ~NoneOf(d, backlog)
           /\ NoneOf(d, backlog')
<1>1. lost'[d] <=> \/ lost[d]
                   \/ \E i \in 1..Len(backlog) : backlog[i] = [client |-> d, kind |-> "control"]
  BY Zenon DEF CloseListener
<1>2. \A r : r = [client |-> d, kind |-> "control"] => r.client = d
  OBVIOUS
<1>3. lost'[d] => lost[d] \/ ~NoneOf(d, backlog)
  BY <1>1, <1>2, Zenon DEF NoneOf
<1>4. NoneOf(d, backlog')
  BY RowEmpty DEF CloseListener
<1> QED BY <1>1, <1>3, <1>4, Zenon

\* The connection at the head of the backlog is accepted.
LEMMA RowPopped ==
    ASSUME ControlInv, backlog # <<>>, backlog' = Tail(backlog), NEW c, c = Head(backlog).client
    PROVE  /\ c \in Clients /\ \A d \in Clients \ {c} : Row(d)
           /\ ~NoneOf(c, backlog)
           /\ \A k \in Nat : InRow(c, backlog, k) => k > 0 /\ InRow(c, backlog', k - 1)
           /\ InRow(c, backlog, 1) => NoneOf(c, backlog')
<1>1. backlog \in Seq(Pending) /\ Head(backlog) \in Pending
  BY TailFacts DEF ControlInv, TypeOK
<1>2. c \in Clients
  BY <1>1 DEF Pending
<1>3. \A d \in Clients \ {c} : Row(d)
  BY <1>1, RowTail, Zenon DEF Row
<1>4. ~NoneOf(c, backlog)
  BY <1>1, RowTail, Zenon
<1>5. \A k \in Nat : InRow(c, backlog, k) => k > 0 /\ InRow(c, backlog', k - 1)
  BY <1>1, RowTail, Zenon
<1>6. InRow(c, backlog, 1) => InRow(c, backlog', 0)
  <2>1. 1 \in Nat /\ 1 - 1 = 0
    OBVIOUS
  <2> QED BY <1>5, <2>1
<1> QED BY <1>2, <1>3, <1>4, <1>5, <1>6, RowEmpty, Zenon

\* cleanup_server, wherever it is called.
LEMMA CleanupTalks ==
    ASSUME ControlInv, TalkInv, NEW err, NEW s, NEW ret, Cleanup(err, s, ret), UNCHANGED <<up, started>>
    PROVE  TalkInv'
<1>1. UNCHANGED <<sctrl, accepted, cpc, cstate, upEnd>>
  BY DEF Cleanup, ClientSide, clientVars
<1>2. ClientTypes /\ ServerTypes /\ LinkTypes /\ TypeOK
  BY Types DEF ControlInv
<1>3. CASE sctrl = NoClient
  <2>1. CloseListener /\ UNCHANGED <<down, downEnd>>
    BY <1>3 DEF Cleanup
  <2>2. \A d \in Clients : Same(d)
    BY <1>1, <2>1, Zenon DEF Same
  <2> QED BY <1>1, <1>3, <2>1, <2>2, CloseListenerTalks, AllApart, Zenon
<1>4. CASE sctrl # NoClient
  <2>1. PICK c \in Clients : c = sctrl
    BY <1>2, <1>4 DEF ServerTypes
  <2> DEFINE msgs == IF err THEN <<"SERVER_ERROR">> ELSE <<>>
  <2>2. /\ spc' = "closing" /\ down' = SentDown(c, msgs) /\ downEnd' = [downEnd EXCEPT ![c] = TRUE]
        /\ UNCHANGED <<backlog, lost>>
    BY <1>4, <2>1 DEF Cleanup, Set
  <2>3. msgs \in Seq(Messages) /\ ~Carries(msgs, "CREATE_STREAMS")
    <3>1. <<"SERVER_ERROR">> \in Seq(Messages) /\ <<>> \in Seq(Messages)
      BY DEF Messages, States
    <3>2. ~Carries(<<"SERVER_ERROR">>, "CREATE_STREAMS") /\ ~Carries(<<>>, "CREATE_STREAMS")
      BY ShortFacts
    <3> QED BY <3>1, <3>2
  <2> HIDE DEF msgs
  <2>4. /\ \A d \in Clients \ {c} : down'[d] = down[d]
        /\ down'[c] = down[c] \/ down'[c] = down[c] \o msgs
    BY <1>2, <2>2, <2>3, Written, Zenon
  <2>5. /\ \A d \in Clients \ {c} : downEnd'[d] = downEnd[d]
        /\ downEnd'[c] /\ down[c] \in Seq(Messages)
    BY <1>2, <2>2 DEF LinkTypes
  <2>6. Talk(c) /\ Told(down[c])
    BY DEF TalkInv, Talk, Dials
  <2>7. Quietly(c)
    BY <2>3, <2>4, <2>5, <2>6, WrittenQuietly
  <2>8. Talk(c)'
    BY <1>1, <2>1, <2>2, <2>5, <2>6, <2>7, Closes, Zenon
  <2>9. \A d \in Clients \ {c} : Same(d) /\ Row(d)
    BY <1>1, <2>2, <2>4, <2>5, RowKept, Zenon DEF Same
  <2> QED BY <1>1, <2>1, <2>2, <2>8, <2>9, OthersApart, Zenon
<1> QED BY <1>3, <1>4

\* The server writes msgs to the client it serves, and goes on.
LEMMA ServerAnswers ==
    ASSUME ControlInv, TalkInv, NEW c \in Clients, c = sctrl, ~downEnd[c], NEW msgs \in Seq(Messages),
           down' = SentDown(c, msgs), \A d \in Clients \ {c} : up'[d] = up[d],
           UNCHANGED <<sctrl, accepted, listenVars, downEnd, lost, ClientSide>>,
           started' \in {started, started \cup {c}},
           c \in started' => NoneOf(c, backlog) /\ Len(accepted) = NumStreams,
           Dials(c)', Served(c)'
    PROVE  TalkInv'
<1>1. UNCHANGED <<cpc, cstate, upEnd, backlog>>
  BY DEF ClientSide, clientVars, listenVars
<1>2. /\ \A d \in Clients \ {c} : down'[d] = down[d]
      /\ lost[c] => down'[c] = down[c]
  BY Written, ZenonT(30) DEF ControlInv
<1>3. \A d \in Clients \ {c} : Same(d) /\ Row(d) /\ (d \in started' <=> d \in started)
  BY <1>1, <1>2, RowKept, ZenonT(30) DEF Same
<1>4. Talk(c)
  BY Zenon DEF TalkInv
<1>5. Talk(c)'
  BY <1>1, <1>2, <1>4, Answers, Zenon
<1> QED BY <1>1, <1>3, <1>5, OthersApart, ZenonT(30)

\* The server that writes no call to dial.
LEMMA DialsKept ==
    ASSUME NEW c \in Clients, Dials(c), Quietly(c), UNCHANGED <<sctrl, accepted, backlog>>,
           c \in started' <=> c \in started
    PROVE  Dials(c)'
  BY Zenon DEF Dials, Quietly

\* The messages of the server, and what they carry.
LEMMA ServerMessages ==
    /\ \A m \in {"PARAM_EXCHANGE", "EXCHANGE_RESULTS", "ACCESS_DENIED", "SERVER_ERROR", "CREATE_STREAMS"} :
          <<m>> \in Seq(Messages) /\ (m # "CREATE_STREAMS" => ~Carries(<<m>>, "CREATE_STREAMS"))
    /\ <<"TEST_START", "TEST_RUNNING">> \in Seq(Messages)
    /\ ~Carries(<<"TEST_START", "TEST_RUNNING">>, "CREATE_STREAMS")
    /\ <<"results", "DISPLAY_RESULTS">> \in Seq(Messages)
    /\ ~Carries(<<"results", "DISPLAY_RESULTS">>, "CREATE_STREAMS")
<1>1. \A m \in {"PARAM_EXCHANGE", "EXCHANGE_RESULTS", "ACCESS_DENIED", "SERVER_ERROR", "CREATE_STREAMS"} :
          <<m>> \in Seq(Messages) /\ (m # "CREATE_STREAMS" => ~Carries(<<m>>, "CREATE_STREAMS"))
  BY OneMessage DEF Messages, States
<1>2. <<"TEST_START", "TEST_RUNNING">> \in Seq(Messages) /\ <<"results", "DISPLAY_RESULTS">> \in Seq(Messages)
  BY DEF Messages, States
<1>3. /\ ~Carries(<<"TEST_START", "TEST_RUNNING">>, "CREATE_STREAMS")
      /\ ~Carries(<<"results", "DISPLAY_RESULTS">>, "CREATE_STREAMS")
  BY ShortFacts
<1> QED BY <1>1, <1>2, <1>3, Zenon

\* The server reads a message from its client: what remains, and what it writes
\* to a client that has read everything.
LEMMA ServerReads ==
    ASSUME ControlInv, TalkInv, NEW c \in Clients, c = sctrl, up[c] # <<>>, spc # "closing",
           up' = Set(up, c, Tail(up[c])), NEW msgs \in Seq(Messages), down' = SentDown(c, msgs)
    PROVE  /\ Talk(c) /\ ~downEnd[c] /\ Told(down[c]) /\ down[c] \in Seq(Messages)
           /\ \A d \in Clients \ {c} : up'[d] = up[d]
           /\ down'[c] = down[c] \/ down'[c] = down[c] \o msgs
           /\ lost[c] \/ upEnd[c] => down'[c] = down[c]
           /\ ~lost[c] /\ ~upEnd[c] =>
                 /\ Stage(c) /\ down[c] = <<>> /\ up'[c] = <<>>
                 /\ down'[c] = <<>> \o msgs
<1>1. LinkTypes /\ TypeOK /\ Talk(c)
  BY Types DEF ControlInv, TalkInv
<1>2. ~downEnd[c] /\ Told(down[c]) /\ down[c] \in Seq(Messages)
  BY <1>1 DEF Talk, LetGo, Dials, LinkTypes
<1>3. (\A d \in Clients \ {c} : up'[d] = up[d]) /\ up'[c] = Tail(up[c])
  BY <1>1 DEF LinkTypes, Set
<1>4. down'[c] = IF lost[c] \/ upEnd[c] THEN down[c] ELSE down[c] \o msgs
  BY <1>1, Written, ZenonT(30)
<1>5. ASSUME ~lost[c], ~upEnd[c] PROVE Stage(c) /\ down[c] = <<>> /\ up'[c] = <<>>
  <2>1. Stage(c)
    BY <1>1, <1>2, <1>5, ZenonT(30) DEF Talk, Served
  <2> QED BY <1>3, <2>1, StageHears, ZenonT(30)
<1> QED BY <1>1, <1>2, <1>3, <1>4, <1>5, Zenon

\* The cookie is read.
LEMMA ReadCookieTalks == ASSUME ControlInv, TalkInv, ReadCookie PROVE TalkInv'
<1>1. PICK c \in Clients : c = sctrl
  BY Types, ZenonT(30) DEF ControlInv, Held, ServerTypes, ReadCookie
<1> DEFINE msgs == <<"PARAM_EXCHANGE">>
<1>2. /\ spc = "cookie" /\ up[c] # <<>> /\ up' = Set(up, c, Tail(up[c])) /\ down' = SentDown(c, msgs)
      /\ sstate' = "PARAM_EXCHANGE" /\ spc' = "params"
      /\ UNCHANGED <<sctrl, accepted, listenVars, backlog, downEnd, lost, upEnd, ClientSide, started, cpc, cstate>>
  BY <1>1 DEF ReadCookie, ghosts, ClientSide, clientVars, listenVars
<1>3. msgs \in Seq(Messages) /\ ~Carries(msgs, "CREATE_STREAMS") /\ <<>> \o msgs = msgs
  BY ServerMessages, Literals
<1> HIDE DEF msgs
<1>4. /\ Talk(c) /\ ~downEnd[c] /\ Told(down[c]) /\ down[c] \in Seq(Messages)
      /\ \A d \in Clients \ {c} : up'[d] = up[d]
      /\ down'[c] = down[c] \/ down'[c] = down[c] \o msgs
      /\ ~lost[c] /\ ~upEnd[c] => Stage(c) /\ up'[c] = <<>> /\ down'[c] = msgs
  BY <1>1, <1>2, <1>3, ServerReads, ZenonT(30)
<1>5. Quietly(c)
  BY <1>3, <1>4, WrittenQuietly, ZenonT(30)
<1>6. Dials(c)'
  BY <1>2, <1>4, <1>5, DialsKept, ZenonT(30) DEF Talk
<1>7. NoneOf(c, backlog) /\ c \notin started
  BY <1>1, <1>2, <1>4, ZenonT(30) DEF Talk, Served
<1>8. ~lost[c] /\ ~upEnd[c] => Stage(c)'
  <2>1. ~lost[c] /\ ~upEnd[c] => cpc[c] = "loop" /\ cstate[c] = "none"
    BY <1>2, <1>4, StageHears, ZenonT(30)
  <2> QED BY <1>2, <1>4, <2>1, ZenonT(30) DEF Stage, Says, msgs
<1>9. Served(c)'
  BY <1>2, <1>4, <1>7, <1>8, ZenonT(30) DEF Served
<1> QED BY <1>1, <1>2, <1>3, <1>4, <1>6, <1>7, <1>9, ServerAnswers, ZenonT(30)

\* The parameters are read, and the client is told to dial.
LEMMA ReadParamsTalks == ASSUME ControlInv, TalkInv, ReadParams PROVE TalkInv'
<1>1. PICK c \in Clients : c = sctrl
  BY Types DEF ControlInv, Held, ServerTypes, ReadParams
<1> DEFINE msgs == <<"CREATE_STREAMS">>
<1>2. /\ spc = "params" /\ up[c] # <<>> /\ Head(up[c]) = "params"
      /\ up' = Set(up, c, Tail(up[c])) /\ down' = SentDown(c, msgs)
      /\ sstate' = "CREATE_STREAMS" /\ spc' = "loop"
      /\ UNCHANGED <<sctrl, accepted, listenVars, backlog, downEnd, lost, upEnd, ClientSide, started, cpc, cstate>>
  BY <1>1, Zenon DEF ReadParams, NextIs, ghosts, ClientSide, clientVars, listenVars
<1>3. msgs \in Seq(Messages) /\ <<>> \o msgs = msgs /\ Told(msgs)
  BY ServerMessages, Literals
<1> HIDE DEF msgs
<1>4. /\ Talk(c) /\ ~downEnd[c] /\ Told(down[c]) /\ down[c] \in Seq(Messages)
      /\ \A d \in Clients \ {c} : up'[d] = up[d]
      /\ lost[c] \/ upEnd[c] => down'[c] = down[c]
      /\ ~lost[c] /\ ~upEnd[c] => Stage(c) /\ up'[c] = <<>> /\ down'[c] = msgs
  BY <1>1, <1>2, <1>3, ServerReads, ZenonT(30)
<1>5. NoneOf(c, backlog) /\ c \notin started /\ accepted = <<>>
  BY <1>1, <1>2, <1>4, Zenon DEF Talk, Served, ControlInv, Held
<1>6. Dials(c)'
  BY <1>2, <1>3, <1>4, <1>5, Zenon DEF Dials
<1>8. ~lost[c] /\ ~upEnd[c] => Stage(c)'
  <2>1. ~lost[c] /\ ~upEnd[c] => cpc[c] = "loop" /\ cstate[c] = "PARAM_EXCHANGE"
    BY <1>2, <1>4, StageHears, ZenonT(30)
  <2> QED BY <1>2, <1>4, <2>1, ZenonT(30) DEF Stage, Says, msgs
<1>9. Served(c)'
  BY <1>2, <1>4, <1>5, <1>8, ZenonT(30) DEF Served
<1> QED BY <1>1, <1>2, <1>3, <1>4, <1>5, <1>6, <1>9, ServerAnswers, ZenonT(30)

\* The client ended the test.
LEMMA ReadTestEndTalks == ASSUME ControlInv, TalkInv, ReadTestEnd PROVE TalkInv'
<1>1. PICK c \in Clients : c = sctrl
  BY Types DEF ControlInv, ServerTypes, ReadTestEnd, HasMessage
<1> DEFINE msgs == <<"EXCHANGE_RESULTS">>
<1>2. /\ spc = "loop" /\ up[c] # <<>> /\ Head(up[c]) = "TEST_END"
      /\ up' = Set(up, c, Tail(up[c])) /\ down' = SentDown(c, msgs)
      /\ sstate' = "EXCHANGE_RESULTS" /\ spc' = "results"
      /\ UNCHANGED <<sctrl, accepted, listenVars, backlog, downEnd, lost, upEnd, ClientSide, started, cpc, cstate>>
  BY <1>1, Zenon DEF ReadTestEnd, HasMessage, InLoop, NextIs, ghosts, ClientSide, clientVars, listenVars
<1>3. msgs \in Seq(Messages) /\ ~Carries(msgs, "CREATE_STREAMS") /\ <<>> \o msgs = msgs
  BY ServerMessages, Literals
<1> HIDE DEF msgs
<1>4. /\ Talk(c) /\ ~downEnd[c] /\ Told(down[c]) /\ down[c] \in Seq(Messages)
      /\ \A d \in Clients \ {c} : up'[d] = up[d]
      /\ down'[c] = down[c] \/ down'[c] = down[c] \o msgs
      /\ ~lost[c] /\ ~upEnd[c] => Stage(c) /\ up'[c] = <<>> /\ down'[c] = msgs
  BY <1>1, <1>2, <1>3, ServerReads, ZenonT(30)
<1>5. Quietly(c)
  BY <1>3, <1>4, WrittenQuietly, Zenon
<1>6. Dials(c)'
  BY <1>2, <1>4, <1>5, DialsKept, ZenonT(30) DEF Talk
<1>7. c \in started /\ NoneOf(c, backlog) /\ Len(accepted) = NumStreams
  <2>1. up[c] \in Seq(Messages)
    BY DEF ControlInv, TypeOK
  <2>2. Carries(up[c], "TEST_END")
    BY <1>2, <2>1, TailFacts
  <2> QED BY <1>1, <1>4, <2>2, Zenon DEF ControlInv, Earned, Talk, Begun
<1>8. ~lost[c] /\ ~upEnd[c] => Stage(c)'
  <2>1. ~lost[c] /\ ~upEnd[c] => cpc[c] = "loop" /\ cstate[c] = "TEST_END"
    BY <1>2, <1>4, StageHears, ZenonT(30)
  <2> QED BY <1>2, <1>4, <2>1, ZenonT(30) DEF Stage, Says, msgs
<1>9. Served(c)'
  BY <1>2, <1>4, <1>7, <1>8, ZenonT(30) DEF Served
<1> QED BY <1>1, <1>2, <1>3, <1>4, <1>6, <1>7, <1>9, ServerAnswers, Zenon

\* The client's results are read, and the server's sent.
LEMMA ReadResultsTalks == ASSUME ControlInv, TalkInv, ReadResults PROVE TalkInv'
<1>1. PICK c \in Clients : c = sctrl
  BY Types DEF ControlInv, Held, ServerTypes, ReadResults
<1> DEFINE msgs == <<"results", "DISPLAY_RESULTS">>
<1>2. /\ spc = "results" /\ up[c] # <<>> /\ Head(up[c]) = "results"
      /\ up' = Set(up, c, Tail(up[c])) /\ down' = SentDown(c, msgs)
      /\ sstate' = "DISPLAY_RESULTS" /\ spc' = "loop"
      /\ UNCHANGED <<sctrl, accepted, listenVars, backlog, downEnd, lost, upEnd, ClientSide, started, cpc, cstate>>
  BY <1>1, Zenon DEF ReadResults, NextIs, ClientSide, clientVars, listenVars
<1>3. msgs \in Seq(Messages) /\ ~Carries(msgs, "CREATE_STREAMS") /\ <<>> \o msgs = msgs
  BY ServerMessages, Literals
<1> HIDE DEF msgs
<1>4. /\ Talk(c) /\ ~downEnd[c] /\ Told(down[c]) /\ down[c] \in Seq(Messages)
      /\ \A d \in Clients \ {c} : up'[d] = up[d]
      /\ down'[c] = down[c] \/ down'[c] = down[c] \o msgs
      /\ ~lost[c] /\ ~upEnd[c] => Stage(c) /\ up'[c] = <<>> /\ down'[c] = msgs
  BY <1>1, <1>2, <1>3, ServerReads, ZenonT(30)
<1>5. Quietly(c)
  BY <1>3, <1>4, WrittenQuietly, Zenon
<1>6. Dials(c)'
  BY <1>2, <1>4, <1>5, DialsKept, ZenonT(30) DEF Talk
<1>7. c \in started /\ NoneOf(c, backlog) /\ Len(accepted) = NumStreams
  BY <1>1, <1>2, <1>4, ZenonT(30) DEF Talk, Served, Begun
<1>8. ~lost[c] /\ ~upEnd[c] => Stage(c)'
  <2>1. ~lost[c] /\ ~upEnd[c] => cpc[c] = "results" /\ cstate[c] = "EXCHANGE_RESULTS"
    BY <1>2, <1>4, StageHears, ZenonT(30)
  <2> QED BY <1>2, <1>4, <2>1, ZenonT(30) DEF Stage, Says, msgs
<1>9. Served(c)'
  BY <1>2, <1>4, <1>7, <1>8, ZenonT(30) DEF Served
<1> QED BY <1>1, <1>2, <1>3, <1>4, <1>6, <1>7, <1>9, ServerAnswers, ZenonT(30)

\* All streams are there, and the test starts.
LEMMA StartTestTalks == ASSUME ControlInv, TalkInv, StartTest, ~lost[sctrl] PROVE TalkInv'
<1>1. PICK c \in Clients : c = sctrl
  BY Types DEF ControlInv, Held, ServerTypes, StartTest
<1> DEFINE msgs == <<"TEST_START", "TEST_RUNNING">>
<1>2. /\ spc = "starting" /\ ~lost[c] /\ down' = SentDown(c, msgs) /\ up' = up
      /\ sstate' = "TEST_RUNNING" /\ spc' = "loop" /\ started' = started \cup {c}
      /\ UNCHANGED <<sctrl, accepted, listenVars, backlog, downEnd, lost, upEnd, ClientSide, cpc, cstate>>
  BY <1>1 DEF StartTest, ClientSide, clientVars, listenVars
<1>3. msgs \in Seq(Messages) /\ ~Carries(msgs, "CREATE_STREAMS") /\ <<>> \o msgs = msgs
  BY ServerMessages, Literals
<1> HIDE DEF msgs
<1>4. Talk(c) /\ Told(down[c]) /\ down[c] \in Seq(Messages) /\ TypeOK
  BY DEF TalkInv, Talk, Dials, ControlInv, TypeOK
<1>5. /\ ~downEnd[c] /\ sstate = "CREATE_STREAMS" /\ c \notin started
      /\ InRow(c, backlog, NumStreams - Len(accepted)) \/ accepted = <<>>
  BY <1>1, <1>2, <1>4, ZenonT(30) DEF Talk, Served
<1>6. Len(accepted) = NumStreams /\ NumStreams - Len(accepted) = 0 /\ accepted # <<>>
  <2>1. Len(accepted) = NumStreams
    BY <1>2, Zenon DEF ControlInv, Held
  <2> QED BY <2>1, ProtocolConstants
<1>7. NoneOf(c, backlog)
  BY <1>5, <1>6, RowEmpty, Zenon
<1>8. /\ down'[c] = down[c] \/ down'[c] = down[c] \o msgs
      /\ ~upEnd[c] => down'[c] = down[c] \o msgs
  BY <1>2, <1>3, <1>4, Written, Zenon
<1>9. Dials(c)'
  <2>1. Quietly(c)
    BY <1>3, <1>4, <1>8, WrittenQuietly
  <2>2. ~Carries(down[c], "CREATE_STREAMS")
    BY <1>1, <1>4, <1>6 DEF Talk, Dials
  <2> QED BY <2>1, <2>2, Zenon DEF Quietly, Dials
<1>10. ~upEnd[c] => Stage(c)'
  <2>1. ~upEnd[c] => up[c] = <<>> /\ down[c] = <<>> /\ cpc[c] = "loop" /\ cstate[c] = "CREATE_STREAMS"
    BY <1>1, <1>2, <1>4, <1>5, Zenon DEF Talk, Served, Stage, Says
  <2>2. ~upEnd[c] => down'[c] = msgs
    BY <1>3, <1>8, <2>1, Zenon
  <2> QED BY <1>2, <2>1, <2>2, ZenonT(30) DEF Stage, Says, msgs
<1>11. Served(c)'
  BY <1>2, <1>5, <1>10, Zenon DEF Served
<1> QED BY <1>1, <1>2, <1>3, <1>5, <1>6, <1>7, <1>9, <1>11, ServerAnswers, ZenonT(30)

\* The test cannot be started: the served client is let go, its streams all there.
LEMMA StartTestFailsTalks == ASSUME ControlInv, TalkInv, StartTestFails PROVE TalkInv'
<1>1. PICK c \in Clients : c = sctrl
  BY Types DEF ControlInv, Held, ServerTypes, StartTestFails
<1>2. /\ spc = "starting" /\ ~lost[c] /\ up' = up /\ spc' = "closing"
      /\ downEnd' = [downEnd EXCEPT ![c] = TRUE]
      /\ UNCHANGED <<sctrl, accepted, backlog, lost, upEnd, cpc, cstate>>
  BY <1>1 DEF StartTestFails, Set, ClientSide, clientVars, listenVars
<1>3. PICK sent \in {<<>>, <<"TEST_START", "SERVER_ERROR">>,
                      <<"TEST_START", "TEST_RUNNING", "SERVER_ERROR">>} :
        down' = SentDown(c, sent) /\ started' \in {started, started \cup {c}}
  BY <1>1, Zenon DEF StartTestFails
<1>4. sent \in Seq(Messages) /\ ~Carries(sent, "CREATE_STREAMS")
  BY FailureMessages
<1>5. Talk(c) /\ Told(down[c]) /\ down[c] \in Seq(Messages) /\ TypeOK /\ LinkTypes
  BY Types DEF TalkInv, Talk, Dials, ControlInv, LinkTypes
<1>6. InRow(c, backlog, NumStreams - Len(accepted)) \/ accepted = <<>>
  BY <1>1, <1>2, <1>5, ZenonT(30) DEF Talk, Served
<1>7. Len(accepted) = NumStreams /\ NumStreams - Len(accepted) = 0 /\ accepted # <<>>
  <2>1. Len(accepted) = NumStreams
    BY <1>2, Zenon DEF ControlInv, Held
  <2> QED BY <2>1, ProtocolConstants
<1>8. NoneOf(c, backlog')
  BY <1>2, <1>6, <1>7, RowEmpty, Zenon
<1>9. /\ \A d \in Clients \ {c} : down'[d] = down[d]
      /\ down'[c] = down[c] \/ down'[c] = down[c] \o sent
  BY <1>3, <1>4, <1>5, Written, Zenon
<1>10. (\A d \in Clients \ {c} : downEnd'[d] = downEnd[d]) /\ downEnd'[c]
  BY <1>2, <1>5 DEF LinkTypes
<1>11. Quietly(c)
  BY <1>4, <1>5, <1>9, WrittenQuietly
<1>12. Talk(c)'
  <2>1. ~Carries(down'[c], "CREATE_STREAMS") /\ Told(down'[c])
    BY <1>1, <1>5, <1>7, <1>11, Zenon DEF Talk, Dials, Quietly
  <2>2. Fresh(c)' /\ Begun(c)'
    BY <1>1, <1>2, <1>5, <1>7, <1>8, Zenon DEF Talk, Fresh, Begun
  <2>3. Dials(c)' /\ LetGo(c)'
    BY <1>1, <1>2, <2>1, Zenon DEF Dials, LetGo
  <2>4. Waits(c)' /\ Silent(c)' /\ Served(c)'
    BY <1>1, <1>2, <1>10 DEF Waits, Silent, Served
  <2> QED BY <2>2, <2>3, <2>4 DEF Talk
<1>13. \A d \in Clients \ {c} : Same(d) /\ Row(d) /\ (d \in started' <=> d \in started)
  BY <1>2, <1>3, <1>9, <1>10, RowKept, ZenonT(30) DEF Same
<1> QED BY <1>1, <1>2, <1>12, <1>13, OthersApart, ZenonT(30)

\* A free server takes a connection.
LEMMA AcceptControlTalks == ASSUME ControlInv, TalkInv, AcceptControl PROVE TalkInv'
<1> DEFINE c == Head(backlog).client
<1>1. /\ backlog # <<>> /\ backlog' = Tail(backlog) /\ sctrl = NoClient /\ sctrl' = c /\ spc' = "cookie"
      /\ UNCHANGED <<cpc, cstate, up, down, upEnd, downEnd, lost, started>>
  BY Zenon DEF AcceptControl, clientVars, linkVars, ghosts
<1> HIDE DEF c
<1>2. PICK e : e = c
  OBVIOUS
<1>3. /\ e \in Clients /\ \A d \in Clients \ {e} : Row(d)
      /\ ~NoneOf(e, backlog) /\ (InRow(e, backlog, 1) => NoneOf(e, backlog'))
  BY <1>1, <1>2, RowPopped DEF c
<1>4. \A d \in Clients : Same(d)
  BY <1>1, Zenon DEF Same
<1>5. sctrl # e /\ Talk(e)
  BY <1>1, <1>3, ProtocolConstants DEF TalkInv
<1>6. Talk(e)'
  BY <1>1, <1>2, <1>3, <1>4, <1>5, Accepts
<1> QED BY <1>1, <1>2, <1>3, <1>4, <1>6, OthersApart

\* A stream connection of the test is accepted.
LEMMA AcceptStreamTalks == ASSUME ControlInv, TalkInv, AcceptStream PROVE TalkInv'
<1>1. PICK c : c = sctrl
  OBVIOUS
<1>2. /\ spc = "loop" /\ sstate = "CREATE_STREAMS" /\ backlog # <<>> /\ backlog' = Tail(backlog)
      /\ c = Head(backlog).client /\ accepted' = Append(accepted, c) /\ spc' \in {"loop", "starting"}
      /\ UNCHANGED <<sstate, sctrl, cpc, cstate, up, down, upEnd, downEnd, lost, started>>
  BY <1>1, Zenon DEF AcceptStream, AcceptingStreams, CookieMatches, InLoop, clientVars, linkVars, ghosts
<1>3. /\ c \in Clients /\ \A d \in Clients \ {c} : Row(d)
      /\ ~NoneOf(c, backlog)
      /\ \A k \in Nat : InRow(c, backlog, k) => k > 0 /\ InRow(c, backlog', k - 1)
  BY <1>2, RowPopped, Zenon
<1>4. Talk(c)
  BY <1>3 DEF TalkInv
<1>5. /\ ~downEnd[c] /\ c \notin started
      /\ InRow(c, backlog, NumStreams - Len(accepted))
  BY <1>1, <1>2, <1>3, <1>4, Zenon DEF Talk, Served
<1>6. InRow(c, backlog', NumStreams - Len(accepted'))
  <2>1. Len(accepted) \in Nat /\ Len(accepted) <= NumStreams /\ Len(accepted') = Len(accepted) + 1
    BY <1>2, <1>3, AppendProperties, LenProperties DEF ControlInv, TypeOK
  <2>2. NumStreams - Len(accepted) \in Nat
    BY <2>1, ProtocolConstants
  <2>3. (NumStreams - Len(accepted)) - 1 = NumStreams - Len(accepted')
    BY <2>1, ProtocolConstants
  <2>4. InRow(c, backlog', (NumStreams - Len(accepted)) - 1)
    BY <1>3, <1>5, <2>2, Zenon
  <2> QED BY <2>3, <2>4
<1>7. \A d \in Clients : Same(d)
  BY <1>2, Zenon DEF Same
<1>8. Told(down[c]) /\ ~Carries(down[c], "CREATE_STREAMS")
  BY <1>3, <1>4, Zenon DEF Talk, Dials
<1>9. Dials(c)'
  BY <1>2, <1>8, Zenon DEF Dials
<1>10. ~lost[c] /\ ~upEnd[c] => Stage(c)'
  <2>1. ASSUME Stage(c)
        PROVE  up[c] = <<>> /\ down[c] = <<>> /\ cpc[c] = "loop" /\ cstate[c] = "CREATE_STREAMS"
    <3>1. down[c] # <<"CREATE_STREAMS">>
      <4>1. Carries(<<"CREATE_STREAMS">>, "CREATE_STREAMS")
        BY DEF Carries
      <4> QED BY <1>8, <4>1
    <3> QED BY <1>2, <2>1, <3>1, Zenon DEF Stage, Says
  <2>2. ~lost[c] /\ ~upEnd[c] => Stage(c)
    BY <1>1, <1>4, <1>5, ZenonT(30) DEF Talk, Served
  <2> QED BY <1>2, <2>1, <2>2, ZenonT(30) DEF Stage, Says
<1>11. Served(c)'
  BY <1>2, <1>5, <1>6, <1>10 DEF Served
<1>12. Talk(c)'
  BY <1>1, <1>2, <1>3, <1>4, <1>5, <1>9, <1>11, Answers, ZenonT(30)
<1> QED BY <1>1, <1>2, <1>3, <1>7, <1>12, OthersApart, Zenon

\* A refused connection is not the served client's.
LEMMA DenyTalks ==
    ASSUME ControlInv, TalkInv, backlog # <<>>, NEW e, e = Head(backlog).client, sctrl # e, Deny(e),
           UNCHANGED <<spc, sstate, sctrl, accepted, started, up, lost, ClientSide>>
    PROVE  TalkInv'
<1>1. /\ backlog' = Tail(backlog) /\ down' = SentDown(e, <<"ACCESS_DENIED">>)
      /\ downEnd' = [downEnd EXCEPT ![e] = TRUE] /\ UNCHANGED <<cpc, cstate, upEnd>>
  BY DEF Deny, Set, ClientSide, clientVars
<1>2. /\ e \in Clients /\ \A d \in Clients \ {e} : Row(d)
      /\ ~NoneOf(e, backlog) /\ (InRow(e, backlog, 1) => NoneOf(e, backlog'))
  BY <1>1, RowPopped
<1>3. <<"ACCESS_DENIED">> \in Seq(Messages) /\ ~Carries(<<"ACCESS_DENIED">>, "CREATE_STREAMS")
  BY ServerMessages
<1>4. TypeOK /\ LinkTypes /\ Talk(e) /\ Told(down[e]) /\ down[e] \in Seq(Messages)
  BY <1>2, Types DEF ControlInv, LinkTypes, TalkInv, Talk, Dials
<1>5. /\ \A d \in Clients \ {e} : down'[d] = down[d]
      /\ down'[e] = down[e] \/ down'[e] = down[e] \o <<"ACCESS_DENIED">>
  BY <1>1, <1>2, <1>3, <1>4, Written, Zenon
<1>6. (\A d \in Clients \ {e} : downEnd'[d] = downEnd[d]) /\ downEnd'[e]
  BY <1>1, <1>2, <1>4, ZenonT(30) DEF LinkTypes
<1>7. Quietly(e)
  BY <1>2, <1>3, <1>4, <1>5, WrittenQuietly, Zenon
<1>8. Talk(e)'
  BY <1>1, <1>2, <1>4, <1>6, <1>7, Denied, Zenon
<1>9. \A d \in Clients \ {e} : Same(d) /\ lost'[d] = lost[d] /\ Row(d)
  BY <1>1, <1>2, <1>5, <1>6, Zenon DEF Same
<1> QED BY <1>2, <1>8, <1>9, OneTalks, Zenon

\* A refused connection that ends the test: its client is refused, and the
\* served one let go.
LEMMA DenyAndCloseTalks ==
    ASSUME ControlInv, TalkInv, DenyStream, sctrl \in Tos \/ lost[Head(backlog).client]
    PROVE  TalkInv'
<1>1. PICK e : e = Head(backlog).client
  OBVIOUS
<1>2. PICK c : c = sctrl
  OBVIOUS
<1>3. /\ spc = "loop" /\ sstate = "CREATE_STREAMS" /\ ~sdone /\ backlog # <<>> /\ e # c
      /\ backlog' = Tail(backlog) /\ spc' = "closing"
      /\ down' = [SentDown(e, <<"ACCESS_DENIED">>) EXCEPT ![c] = SentDown(c, <<"SERVER_ERROR">>)[c]]
      /\ downEnd' = [downEnd EXCEPT ![e] = TRUE, ![c] = TRUE]
      /\ UNCHANGED <<sctrl, accepted, up, lost, started, cpc, cstate, upEnd>>
  BY <1>1, <1>2 DEF DenyStream, AcceptingStreams, CookieMatches, InLoop, ClientSide, clientVars, ghosts
<1>4. c \in Clients
  BY <1>2, <1>3, Types DEF ControlInv, Held, ServerTypes
<1>5. /\ e \in Clients /\ \A d \in Clients \ {e} : Row(d)
      /\ ~NoneOf(e, backlog) /\ (InRow(e, backlog, 1) => NoneOf(e, backlog'))
  BY <1>1, <1>3, RowPopped
<1>6. /\ <<"ACCESS_DENIED">> \in Seq(Messages) /\ ~Carries(<<"ACCESS_DENIED">>, "CREATE_STREAMS")
      /\ <<"SERVER_ERROR">> \in Seq(Messages) /\ ~Carries(<<"SERVER_ERROR">>, "CREATE_STREAMS")
  BY ServerMessages
<1>7. /\ TypeOK /\ LinkTypes /\ Talk(e) /\ Told(down[e]) /\ down[e] \in Seq(Messages)
      /\ Talk(c) /\ Told(down[c]) /\ down[c] \in Seq(Messages)
  BY <1>4, <1>5, Types DEF ControlInv, LinkTypes, TalkInv, Talk, Dials
<1>8. /\ \A d \in Clients \ {c, e} : down'[d] = down[d]
      /\ down'[e] = down[e] \/ down'[e] = down[e] \o <<"ACCESS_DENIED">>
      /\ down'[c] = down[c] \/ down'[c] = down[c] \o <<"SERVER_ERROR">>
  <2>1. SentDown(e, <<"ACCESS_DENIED">>) \in [Clients -> Seq(Messages)]
    BY <1>5, <1>6, <1>7, SentDownFacts, Zenon
  <2>2. /\ \A d \in Clients \ {c} : down'[d] = SentDown(e, <<"ACCESS_DENIED">>)[d]
        /\ down'[c] = SentDown(c, <<"SERVER_ERROR">>)[c]
    BY <1>3, <1>4, <2>1
  <2>3. /\ \A d \in Clients \ {e} : SentDown(e, <<"ACCESS_DENIED">>)[d] = down[d]
        /\ SentDown(e, <<"ACCESS_DENIED">>)[e] \in {down[e], down[e] \o <<"ACCESS_DENIED">>}
    <3>1. \A d \in Clients \ {e} : SentDown(e, <<"ACCESS_DENIED">>)[d] = down[d]
      BY <1>7 DEF SentDown, LinkTypes
    <3>2. SentDown(e, <<"ACCESS_DENIED">>)[e] =
             IF lost[e] \/ upEnd[e] THEN down[e] ELSE down[e] \o <<"ACCESS_DENIED">>
      BY <1>5, <1>6, <1>7, Written, Zenon
    <3> QED BY <3>1, <3>2, Zenon
  <2>4. SentDown(c, <<"SERVER_ERROR">>)[c] \in {down[c], down[c] \o <<"SERVER_ERROR">>}
    BY <1>4, <1>6, <1>7, Written, Zenon
  <2>5. \A d \in Clients \ {c, e} : down'[d] = down[d]
    BY <2>2, <2>3
  <2>6. down'[e] \in {down[e], down[e] \o <<"ACCESS_DENIED">>}
    BY <1>3, <1>5, <2>2, <2>3, Zenon
  <2>7. down'[c] \in {down[c], down[c] \o <<"SERVER_ERROR">>}
    BY <2>2, <2>4, Zenon
  <2> QED BY <2>5, <2>6, <2>7, Zenon
<1>9. (\A d \in Clients \ {c, e} : downEnd'[d] = downEnd[d]) /\ downEnd'[e] /\ downEnd'[c]
  BY <1>3, <1>4, <1>5, <1>7, ZenonT(30) DEF LinkTypes
<1>10. Quietly(e)
  BY <1>5, <1>6, <1>7, <1>8, WrittenQuietly, Zenon
<1>11. Quietly(c)
  BY <1>4, <1>6, <1>7, <1>8, WrittenQuietly, ZenonT(30)
<1>12. Talk(e)'
  BY <1>2, <1>3, <1>5, <1>7, <1>9, <1>10, Denied, Zenon
<1>13. Talk(c)'
  <2>1. NoneOf(c, backlog) => NoneOf(c, backlog')
    BY <1>3, <1>4, <1>5 DEF Row
  <2> QED BY <1>2, <1>3, <1>4, <1>7, <1>9, <1>11, <2>1, Closes, Zenon
<1>14. ASSUME NEW d \in Clients \ {c, e} PROVE Talk(d)'
  <2>1. Same(d) /\ Row(d) /\ Talk(d)
    BY <1>3, <1>5, <1>8, <1>9, <1>14, Zenon DEF Same, TalkInv
  <2>2. sctrl # d /\ sctrl' # d /\ lost'[d] = lost[d]
    BY <1>2, <1>3, <1>14
  <2> QED BY <1>3, <2>1, <2>2, Apart
<1> QED BY <1>12, <1>13, <1>14 DEF TalkInv

\* The server stops serving: the timer of the server, or the end of a close.
LEMMA LeaveTalks ==
    ASSUME ControlInv, TalkInv, ServerTimer \/ ServerClosed
    PROVE  TalkInv'
<1>1. PICK c \in Clients : c = sctrl
  BY Types, Zenon DEF ControlInv, Held, ServerTypes, ServerTimer, ServerClosed
<1>2. LinkTypes /\ TypeOK /\ Talk(c) /\ Told(down[c]) /\ down[c] \in Seq(Messages)
  BY Types DEF ControlInv, LinkTypes, TalkInv, Talk, Dials
<1>3. up' = [up EXCEPT ![c] = <<>>] /\ sctrl' = NoClient /\ UNCHANGED <<cpc, cstate, upEnd, started>>
  BY <1>1 DEF ServerTimer, ServerClosed, Set, ClientSide, clientVars, ghosts
<1>4. up'[c] = <<>> /\ (\A d \in Clients \ {c} : up'[d] = up[d]) /\ sctrl' # c
  BY <1>2, <1>3, ProtocolConstants, Zenon DEF LinkTypes
<1>5. CASE ServerTimer
  <2>1. /\ down' = SentDown(c, <<"SERVER_ERROR">>) /\ downEnd' = [downEnd EXCEPT ![c] = TRUE]
        /\ UNCHANGED <<backlog, lost>>
    BY <1>1, <1>5 DEF ServerTimer, Set, listenVars
  <2>2. <<"SERVER_ERROR">> \in Seq(Messages) /\ ~Carries(<<"SERVER_ERROR">>, "CREATE_STREAMS")
    BY ServerMessages
  <2>3. /\ \A d \in Clients \ {c} : down'[d] = down[d] /\ downEnd'[d] = downEnd[d]
        /\ down'[c] = down[c] \/ down'[c] = down[c] \o <<"SERVER_ERROR">>
        /\ downEnd'[c]
    BY <1>2, <2>1, <2>2, Written, ZenonT(30) DEF LinkTypes
  <2>4. Quietly(c)
    BY <1>2, <2>2, <2>3, WrittenQuietly, ZenonT(30)
  <2>5. Talk(c)'
    BY <1>1, <1>2, <1>3, <1>4, <2>1, <2>3, <2>4, Leaves, Zenon
  <2>6. \A d \in Clients \ {c} : Same(d) /\ Row(d)
    BY <1>3, <1>4, <2>1, <2>3, RowKept, Zenon DEF Same
  <2> QED BY <1>1, <1>3, <2>1, <2>5, <2>6, OthersApart
<1>6. CASE ServerClosed
  <2>1. spc = "closing" /\ CloseListener /\ UNCHANGED <<down, downEnd>>
    BY <1>6 DEF ServerClosed
  <2>2. downEnd'[c]
    BY <1>1, <1>2, <2>1, Zenon DEF Talk, Served
  <2>3. Quietly(c)
    BY <1>2, <2>1, Zenon DEF Quietly
  <2>4. Talk(c)'
    BY <1>1, <1>2, <1>3, <1>4, <2>1, <2>2, <2>3, CloseListenerTalks, Leaves, Zenon
  <2>5. \A d \in Clients \ {c} : Same(d)
    BY <1>3, <1>4, <2>1, Zenon DEF Same
  <2> QED BY <1>1, <1>3, <2>1, <2>4, <2>5, CloseListenerTalks, OthersApart, Zenon
<1> QED BY <1>5, <1>6

\* Every step of the server keeps the conversations.
LEMMA ServerTalks ==
    ASSUME ControlInv, TalkInv, ServerStep \/ Listen \/ ServerStop
    PROVE  TalkInv'
<1>1. CASE ObserveDone \/ IdleTimeout \/ ReadResultsFails \/ RejectClient \/ AbortTest \/ ReadDone
  <2>1. \E err, s, ret : Cleanup(err, s, ret)
    BY <1>1, Zenon DEF ObserveDone, IdleTimeout, ReadResultsFails, RejectClient, AbortTest, ReadDone
  <2>2. UNCHANGED <<up, started>>
    BY <1>1, Zenon DEF ObserveDone, IdleTimeout, ReadResultsFails, RejectClient, AbortTest, ReadDone,
       ghosts
  <2> QED BY <2>1, <2>2, CleanupTalks
<1>2. CASE StartTest
  <2>1. CASE lost[sctrl]
    <3>1. Cleanup(TRUE, sstate, -1) /\ UNCHANGED <<up, started>>
      BY <1>2, <2>1, Zenon DEF StartTest
    <3> QED BY <3>1, CleanupTalks, Zenon
  <2> QED BY <1>2, <2>1, StartTestTalks
<1>3. CASE DenyControl
  <2>1. PICK e : e = Head(backlog).client
    OBVIOUS
  <2>2. /\ spc = "loop" /\ sctrl # NoClient /\ sstate # "CREATE_STREAMS" /\ backlog # <<>> /\ Deny(e)
        /\ UNCHANGED <<spc, sstate, sctrl, accepted, started, up, lost, ClientSide>>
    BY <1>3, <2>1 DEF DenyControl, InLoop, serverVars, ghosts
  <2>3. backlog' = Tail(backlog)
    BY <2>2 DEF Deny
  <2>4. e \in Clients /\ ~NoneOf(e, backlog)
    BY <2>1, <2>2, <2>3, RowPopped
  <2>5. sctrl # e
    BY <2>2, <2>4, Zenon DEF TalkInv, Talk, Served, Begun
  <2> QED BY <2>1, <2>2, <2>5, DenyTalks
<1>4. CASE DenyStream
  <2>1. PICK e : e = Head(backlog).client
    OBVIOUS
  <2>2. CASE ~(sctrl \in Tos \/ lost[e])
    <3>1. /\ sctrl # e /\ backlog # <<>> /\ Deny(e)
          /\ UNCHANGED <<spc, sstate, sctrl, accepted, started, up, lost, ClientSide>>
      BY <1>4, <2>1, <2>2 DEF DenyStream, AcceptingStreams, CookieMatches, ghosts
    <3> QED BY <2>1, <3>1, DenyTalks, Zenon
  <2> QED BY <1>4, <2>1, <2>2, DenyAndCloseTalks
<1>5. CASE Listen
  <2>1. /\ sctrl = NoClient /\ sctrl' = NoClient
        /\ UNCHANGED <<cpc, cstate, up, down, upEnd, downEnd, lost, backlog, started>>
    BY <1>5 DEF Listen, ControlInv, Held, clientVars, linkVars, ghosts
  <2>2. \A d \in Clients : Same(d) /\ Row(d)
    BY <2>1, RowKept, Zenon DEF Same
  <2> QED BY <2>1, <2>2, AllApart, Zenon
<1>6. CASE ServerStop
  <2>1. UNCHANGED <<spc, sstate, sctrl, accepted, started, cpc, cstate, up, down, upEnd, downEnd,
                    lost, backlog>>
    BY <1>6 DEF ServerStop, listenVars, clientVars, linkVars, ghosts
  <2>2. \A d \in Clients : Same(d) /\ Row(d) /\ lost'[d] = lost[d]
    BY <2>1, RowKept, Zenon DEF Same
  <2>3. Len(accepted) \in Nat /\ Len(accepted) <= NumStreams
    BY LenProperties DEF ControlInv, TypeOK
  <2>4. NumStreams - Len(accepted) \in Nat
    BY <2>3, ProtocolConstants
  <2>5. ASSUME NEW d \in Clients PROVE Talk(d)'
    BY <2>1, <2>2, <2>4, Aside, Zenon DEF TalkInv
  <2> QED BY <2>5 DEF TalkInv
<1> QED BY <1>1, <1>2, <1>3, <1>4, <1>5, <1>6, AcceptControlTalks, ReadCookieTalks, ReadParamsTalks,
           AcceptStreamTalks, StartTestFailsTalks, ReadTestEndTalks, ReadResultsTalks, LeaveTalks
        DEF ServerStep

\* At first nobody converses.
LEMMA InitTalks == Init => TalkInv
<1> SUFFICES ASSUME Init, NEW c \in Clients PROVE Talk(c)
  BY Zenon DEF TalkInv
<1>1. /\ backlog = <<>> /\ sctrl = NoClient /\ started = {} /\ accepted = <<>>
      /\ cpc[c] = "idle" /\ up[c] = <<>> /\ down[c] = <<>> /\ ~upEnd[c] /\ ~downEnd[c] /\ ~lost[c]
  BY Zenon DEF Init
<1>2. NoneOf(c, backlog) /\ Told(down[c]) /\ ~Carries(down[c], "CREATE_STREAMS") /\ sctrl # c
  BY <1>1, RowEmpty, Literals, ProtocolConstants
<1> QED BY <1>1, <1>2, Zenon DEF Talk, Fresh, Begun, Dials, Waits, LetGo, Silent, Served

\* The conversations are kept by every step.
LEMMA NextTalks == ControlInv /\ TalkInv /\ [Next]_vars => TalkInv'
<1> SUFFICES ASSUME ControlInv, TalkInv, [Next]_vars PROVE TalkInv'
  OBVIOUS
<1>1. CASE ServerStep \/ Listen \/ ServerStop
  BY <1>1, ServerTalks
<1>2. ASSUME NEW c \in Clients, Connect(c) \/ ClientStep(c) \/ ClientStop(c) \/ Break(c)
      PROVE  TalkInv'
  BY <1>2, ClientTalks
<1>3. CASE UNCHANGED vars
  <2>1. UNCHANGED <<spc, sstate, sctrl, accepted, started, cpc, cstate, up, down, upEnd, downEnd,
                    lost, backlog>>
    BY <1>3 DEF vars, listenVars, clientVars, serverVars, linkVars, ghosts
  <2>2. \A d \in Clients : Same(d) /\ Row(d) /\ lost'[d] = lost[d]
    BY <2>1, RowKept, Zenon DEF Same
  <2>3. Len(accepted) \in Nat /\ Len(accepted) <= NumStreams
    BY LenProperties DEF ControlInv, TypeOK
  <2>4. NumStreams - Len(accepted) \in Nat
    BY <2>3, ProtocolConstants
  <2>5. ASSUME NEW d \in Clients PROVE Talk(d)'
    BY <2>1, <2>2, <2>4, Aside, Zenon DEF TalkInv
  <2> QED BY <2>5 DEF TalkInv
<1> QED BY <1>1, <1>2, <1>3 DEF Next

\* For any number of clients, streams, resets and calls of iperf_run_server: when
\* nothing is in flight between the server and the client it serves, both are in
\* the same protocol state, and a server that has started a test holds all streams
\* of it until it lets the client go (iperf_run_server).
THEOREM SidesAgree == Spec => []QuietAgreement
<1>1. ASSUME ControlInv, TalkInv PROVE QuietAgreement
  <2> SUFFICES ASSUME NEW c \in Clients, c = sctrl
               PROVE  /\ spc = "loop" /\ cpc[c] = "loop" /\ up[c] = <<>> /\ down[c] = <<>> /\ ~lost[c] =>
                            cstate[c] = sstate
                      /\ c \in started => Len(accepted) = NumStreams
    BY <1>1, Types DEF ControlInv, ServerTypes, QuietAgreement
  <2>1. Talk(c)
    BY <1>1 DEF TalkInv
  <2>2. c \in started => Len(accepted) = NumStreams
    BY <2>1 DEF Talk, Begun
  <2>3. ASSUME spc = "loop", cpc[c] = "loop", up[c] = <<>>, down[c] = <<>>, ~lost[c]
        PROVE  cstate[c] = sstate
    <3>1. Stage(c)
      BY <2>1, <2>3, Zenon DEF Talk, Fresh, Served
    <3> QED BY <2>3, <3>1 DEF Stage, Says
  <2> QED BY <2>2, <2>3
<1> QED BY InitInv, StepInv, InitTalks, NextTalks, <1>1, PTL DEF Spec
=============================================================================
