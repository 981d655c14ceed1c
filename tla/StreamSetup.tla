----------------------------- MODULE StreamSetup -----------------------------
(***************************************************************************)
(* How the streams of a test come to be, and their hand-over to the workers. *)
(*                                                                         *)
(* After the parameters have been exchanged the server makes a socket ready, *)
(* tells the client CREATE_STREAMS and accepts N connections, while the      *)
(* client connects N times: over TCP with the cookie as the first bytes,     *)
(* over UDP with a datagram each way.  Other programs connect to the same    *)
(* port, datagrams are lost or overtaken, any call may fail, and on both     *)
(* sides the rest of the process opens descriptors: the host gives the       *)
(* lowest free number, so a number that is closed is soon used again.        *)
(*                                                                         *)
(* The files behind a stream's buffer are opened and closed in one function  *)
(* and are left out.  The state bytes and the order in which the two sides   *)
(* close their control connection are in ControlProtocol.                    *)
(***************************************************************************)
EXTENDS StreamWorkers, Sequences

CONSTANTS
    Setups,         \* the tests considered, see SetUpConstants
    SetUpOpens,     \* bound: descriptors the rest of each process opens in the set-up
    MaxFaults,      \* bound: failing calls, strangers, lost and late packets
    ReverseReads    \* datagrams a reverse client reads while it waits

\* The streams the server sends on are the last ones it accepts.
ASSUME SetUpConstants ==
    /\ SetUpOpens \in Nat /\ MaxFaults \in Nat /\ ReverseReads \in Nat \ {0}
    /\ \A c \in Setups :
         /\ c.sends \in {{}, Streams, {s \in Streams : 2 * s > N}}
         /\ {c.server, c.tcp, c.relisten, c.tos} \subseteq BOOLEAN

VARIABLES
    going,      \* FALSE once the streams have been handed over
    conf,       \* the test being set up, and the side whose workers follow
    sv, cl,     \* the server and the client
    net         \* what is between them

setUpVars == <<going, conf, sv, cl, net>>
all == <<setUpVars, vars>>

Stranger == N + 1
Numbers == 1..(N + SetUpOpens + 3)
Entry(kind, peer) == [kind |-> kind, peer |-> peer]
Unused == Entry("free", 0)

\* The server listens for control connections and has accepted one.
NewServer ==
    [pc |-> "listen", fd |-> [f \in Numbers |-> IF f = 1 THEN Entry("listener", 0) ELSE Unused],
     listener |-> 1, prot |-> 0, s |-> 0, cookie |-> FALSE, streams |-> <<>>, err |-> "IENONE",
     foreign |-> FALSE, reused |-> FALSE]
NewClient ==
    [pc |-> "wait", fd |-> [f \in Numbers |-> Unused], s |-> 0, streams |-> <<>>, err |-> "IENONE",
     waited |-> 0, foreign |-> FALSE]
Quiet ==
    [told |-> FALSE, backlog |-> <<>>, delayed |-> {}, hello |-> {}, reply |-> {}, faults |-> 0,
     late |-> FALSE, denied |-> FALSE]

SetUpInit ==
    /\ Init /\ going = TRUE
    /\ conf \in Setups /\ conf.tcp = mode.tcp /\ conf.server = mode.server
    /\ sv = NewServer /\ cl = NewClient /\ net = Quiet

-----------------------------------------------------------------------------
\* Descriptors of either side p.

Lowest(p) == CHOOSE f \in Numbers :
                /\ p.fd[f].kind = "free"
                /\ \A g \in Numbers : p.fd[g].kind = "free" => f <= g
Opened(p, kind, peer) == [p EXCEPT !.fd[Lowest(p)] = Entry(kind, peer)]

\* close(f), which knows nothing of who opened f.
Closed(p, f) ==
    IF f = 0 THEN p
    ELSE [p EXCEPT !.fd[f] = Unused, !.foreign = @ \/ p.fd[f].kind = "host"]

Opens(p) == /\ Cardinality({f \in Numbers : p.fd[f].kind = "host"}) < SetUpOpens
            /\ \E f \in Numbers : p.fd[f].kind = "free"

\* The rest of a process opens something.
HostOpensOne ==
    /\ going
    /\ \/ Opens(sv) /\ sv' = Opened(sv, "host", 0) /\ UNCHANGED cl
       \/ Opens(cl) /\ cl' = Opened(cl, "host", 0) /\ UNCHANGED sv
    /\ UNCHANGED <<going, conf, net, vars>>

-----------------------------------------------------------------------------
\* Steps.

Server(p) == going /\ sv' = p /\ UNCHANGED <<going, conf, cl, vars>>
Client(p) == going /\ cl' = p /\ UNCHANGED <<going, conf, sv, vars>>

\* A call fails, or the network misbehaves.
Fault == net.faults < MaxFaults /\ net' = [net EXCEPT !.faults = @ + 1]

\* cleanup_server is next.
ServerFails(p, error) == Server([p EXCEPT !.pc = "cleanup", !.err = error])

\* iperf_close_test_listener: connections that wait there are reset.
CloseListener(p) ==
    [Closed(p, p.listener) EXCEPT !.listener = 0, !.prot = IF @ = p.listener THEN 0 ELSE @]
Reset(n) == [n EXCEPT !.backlog = <<>>, !.delayed = {}]

\* netannounce, which closes what it opened when a later call of it fails.
Announced(p, kind) == Opened(p, kind, 0)

\* iperf_new_stream, which closes and frees what it opened when it fails.
Streamed(p, f, next) == [p EXCEPT !.pc = next, !.streams = Append(@, f)]

-----------------------------------------------------------------------------
\* The server: a socket for the streams.

\* iperf_tcp_listen uses the listener it has, if it finds its buffers large enough.
ListenTcp ==
    /\ sv.pc = "listen" /\ conf.tcp /\ ~conf.relisten
    /\ \/ Server([sv EXCEPT !.pc = "accept", !.prot = sv.listener]) /\ net' = [net EXCEPT !.told = TRUE]
       \/ ServerFails(CloseListener(sv), "IESETBUF") /\ Fault

\* With options for the streams' sockets it makes another one.
CloseToListen ==
    /\ sv.pc = "listen" /\ conf.tcp /\ conf.relisten
    /\ Server([CloseListener(sv) EXCEPT !.pc = "announce"])
    /\ net' = Reset(net)

ListenAgain ==
    /\ sv.pc = "announce"
    /\ \/ /\ Server([Opened(sv, "listener", 0) EXCEPT !.pc = "accept", !.listener = Lowest(sv),
                                                      !.prot = Lowest(sv)])
          /\ net' = [net EXCEPT !.told = TRUE]
       \/ ServerFails(sv, "IESTREAMLISTEN") /\ Fault

\* iperf_udp_listen.
ListenUdp ==
    /\ sv.pc = "listen" /\ ~conf.tcp
    /\ \/ /\ Server([Announced(sv, "udp") EXCEPT !.pc = "accept", !.prot = Lowest(sv)])
          /\ net' = [net EXCEPT !.told = TRUE]
       \/ ServerFails(sv, "IESTREAMLISTEN") /\ Fault

-----------------------------------------------------------------------------
\* The server: accepting.

\* iperf_tcp_accept, up to its read of the cookie.
AcceptTcp ==
    /\ sv.pc = "accept" /\ conf.tcp /\ net.backlog # <<>>
    /\ \/ /\ Server([Opened(sv, "conn", Head(net.backlog).peer) EXCEPT
                        !.pc = "cookie", !.s = Lowest(sv), !.cookie = Head(net.backlog).cookie])
          /\ net' = [net EXCEPT !.backlog = Tail(@)]
       \/ ServerFails(sv, "IESTREAMCONNECT") /\ Fault

OwnCookie == sv.cookie /\ sv.fd[sv.s].peer # Stranger

\* Mutant: the cookie is read and not compared.
ReadAnyCookie ==
    /\ sv.pc = "cookie"
    /\ \/ sv.cookie /\ Server([sv EXCEPT !.pc = "options"]) /\ UNCHANGED net
       \/ ~sv.cookie /\ Server([Closed(sv, sv.s) EXCEPT !.pc = "options"]) /\ UNCHANGED net
       \/ ServerFails(Closed(sv, sv.s), "IERECVCOOKIE") /\ Fault

\* The rest of iperf_tcp_accept: a connection with another cookie, with none, or
\* with one that comes later than Nread waits, is closed and its number returned.
ReadCookie ==
    /\ sv.pc = "cookie"
    /\ \/ OwnCookie /\ Server([sv EXCEPT !.pc = "options"]) /\ UNCHANGED net
       \/ ~OwnCookie /\ Server([Closed(sv, sv.s) EXCEPT !.pc = "options"]) /\ UNCHANGED net
       \/ /\ OwnCookie /\ Server([Closed(sv, sv.s) EXCEPT !.pc = "options"])
          /\ net.faults < MaxFaults
          /\ net' = [net EXCEPT !.faults = @ + 1, !.denied = TRUE]
       \/ ServerFails(Closed(sv, sv.s), "IERECVCOOKIE") /\ Fault

\* iperf_udp_accept: whoever sent the datagram is the peer of the socket.
AcceptUdp ==
    /\ sv.pc = "accept" /\ ~conf.tcp
    /\ \E peer \in net.hello :
         \/ /\ Server([sv EXCEPT !.pc = "reply", !.s = sv.prot, !.fd[sv.prot] = Entry("udp", peer)])
            /\ net' = [net EXCEPT !.hello = @ \ {peer}]
         \/ ServerFails(sv, "IESTREAMACCEPT") /\ Fault

\* The rest of it: another socket for the next stream, then the reply.
ReplyUdp ==
    /\ sv.pc = "reply"
    /\ LET next == [Announced(sv, "udp") EXCEPT !.prot = Lowest(sv)]
       IN  \/ /\ Server([next EXCEPT !.pc = "options"])
              /\ net' = [net EXCEPT !.reply = @ \cup ({sv.fd[sv.s].peer} \ {Stranger})]
           \/ ServerFails([sv EXCEPT !.prot = 0], "IESTREAMLISTEN") /\ Fault
           \/ ServerFails(next, "IESTREAMWRITE") /\ Fault

\* iperf_common_sockopts in iperf_run_server, on whatever has the number now.
SetOptions ==
    /\ sv.pc = "options"
    /\ LET kind == sv.fd[sv.s].kind
       IN  \/ (conf.tos => kind # "free") /\ Server([sv EXCEPT !.pc = "stream"]) /\ UNCHANGED net
           \/ conf.tos /\ kind \in {"free", "host"} /\ ServerFails(sv, "IESETTOS") /\ UNCHANGED net
           \/ conf.tos /\ kind \notin {"free", "host"} /\ ServerFails(sv, "IESETTOS") /\ Fault

\* Mutant: the socket of a stream that could not be made is left to cleanup_server.
NewStreamLeaves ==
    /\ sv.pc = "stream"
    /\ LET kind == sv.fd[sv.s].kind
           p == [sv EXCEPT !.reused = @ \/ kind = "host"]
       IN  \/ kind = "free" /\ Server([sv EXCEPT !.pc = "accept"]) /\ UNCHANGED net
           \/ /\ kind # "free" /\ UNCHANGED net
              /\ Server(Streamed(p, sv.s, IF Len(sv.streams) + 1 = N THEN "complete" ELSE "accept"))
           \/ kind = "host" /\ ServerFails(p, "IECREATESTREAM") /\ UNCHANGED net
           \/ kind \notin {"free", "host"} /\ ServerFails(p, "IECREATESTREAM") /\ Fault

\* is_closed and iperf_new_stream, which also close or keep what has the number now.
NewStream ==
    /\ sv.pc = "stream"
    /\ LET kind == sv.fd[sv.s].kind
           p == [sv EXCEPT !.reused = @ \/ kind = "host"]
       IN  \/ kind = "free" /\ Server([sv EXCEPT !.pc = "accept"]) /\ UNCHANGED net
           \/ /\ kind # "free" /\ UNCHANGED net
              /\ Server(Streamed(p, sv.s, IF Len(sv.streams) + 1 = N THEN "complete" ELSE "accept"))
           \/ kind = "host" /\ ServerFails(Closed(p, sv.s), "IECREATESTREAM") /\ UNCHANGED net
           \/ kind \notin {"free", "host"} /\ ServerFails(Closed(p, sv.s), "IECREATESTREAM") /\ Fault

\* All streams are there: the socket that accepted them goes, or is replaced by one
\* without their options, and TEST_START follows.
Complete ==
    /\ sv.pc = "complete"
    /\ \/ /\ ~conf.tcp /\ Server([Closed(sv, sv.prot) EXCEPT !.prot = 0, !.pc = "ready"])
          /\ UNCHANGED net
       \/ conf.tcp /\ ~conf.relisten /\ Server([sv EXCEPT !.prot = 0, !.pc = "ready"]) /\ UNCHANGED net
       \/ /\ conf.tcp /\ conf.relisten /\ Server([CloseListener(sv) EXCEPT !.pc = "restore"])
          /\ net' = Reset(net)

RestoreListener ==
    /\ sv.pc = "restore"
    /\ \/ /\ Server([Announced(sv, "listener") EXCEPT !.pc = "ready", !.listener = Lowest(sv)])
          /\ UNCHANGED net
       \/ ServerFails(sv, "IELISTEN") /\ Fault

\* The event loop finds the control connection closed.
ServerSeesEnd ==
    /\ sv.pc \in {"accept", "ready"} /\ cl.pc = "closed"
    /\ ServerFails(sv, "IECTRLCLOSE") /\ UNCHANGED net

\* It has received nothing for rcv_timeout, which only a server that receives looks at.
ServerTimesOut ==
    /\ sv.pc = "accept" /\ conf.sends # Streams
    /\ ServerFails(sv, "IENOMSG") /\ UNCHANGED net

\* stop() has been called.
StopServer ==
    /\ sv.pc \in {"accept", "ready"}
    /\ ServerFails(sv, "IENONE") /\ UNCHANGED net

\* cleanup_server: the streams, the listener, and prot_listener if it is another.
Cleanup ==
    /\ sv.pc = "cleanup"
    /\ \/ /\ sv.streams # <<>>
          /\ Server([Closed(sv, Head(sv.streams)) EXCEPT !.streams = Tail(@)]) /\ UNCHANGED net
       \/ /\ sv.streams = <<>> /\ sv.listener # 0
          /\ Server(CloseListener(sv)) /\ net' = Reset(net)
       \/ /\ sv.streams = <<>> /\ sv.listener = 0
          /\ Server([Closed(sv, sv.prot) EXCEPT !.prot = 0, !.pc = "out"]) /\ UNCHANGED net

-----------------------------------------------------------------------------
\* The client: iperf_create_streams.

\* No stream owns s yet; iperf_client_end is next.
ClientGivesUp(p, error) == Client([Closed(p, p.s) EXCEPT !.pc = "end", !.s = 0, !.err = error])

ReadCreateStreams ==
    /\ cl.pc = "wait" /\ net.told
    /\ Client([cl EXCEPT !.pc = "dial"]) /\ UNCHANGED net

This == Len(cl.streams) + 1

\* create_socket and netdial.
Dialled(kind) == [Opened(cl, kind, This) EXCEPT !.s = Lowest(cl)]
Queued(n, peer, cookie) == [n EXCEPT !.backlog = Append(@, [peer |-> peer, cookie |-> cookie])]

\* iperf_tcp_connect.  The connection waits at the server when its last packet has
\* come, which may be after that of the next one.
ConnectTcp ==
    /\ cl.pc = "dial" /\ conf.tcp
    /\ LET p == [Dialled("conn") EXCEPT !.pc = "stream"]
       IN  \/ sv.listener # 0 /\ Client(p) /\ net' = Queued(net, This, TRUE)
           \/ /\ sv.listener # 0 /\ Client(p)
              /\ net.faults < MaxFaults
              /\ net' = [net EXCEPT !.faults = @ + 1, !.delayed = @ \cup {This}, !.late = TRUE]
           \/ /\ sv.listener # 0 /\ ClientGivesUp(p, "IESENDCOOKIE")
              /\ net.faults < MaxFaults
              /\ net' = [Queued(net, This, FALSE) EXCEPT !.faults = @ + 1]
           \/ sv.listener = 0 /\ ClientGivesUp(p, "IESTREAMCONNECT") /\ UNCHANGED net
           \/ ClientGivesUp(p, "IESTREAMCONNECT") /\ Fault

\* iperf_udp_connect, up to its first recv.
ConnectUdp ==
    /\ cl.pc = "dial" /\ ~conf.tcp
    /\ \/ /\ Client([Dialled("udp") EXCEPT !.pc = "reply", !.waited = 0])
          /\ net' = [net EXCEPT !.hello = @ \cup {This}]
       \/ ClientGivesUp(Dialled("udp"), "IESTREAMWRITE") /\ Fault

\* How many datagrams it looks at: max_len_wait_for_reply.
Reads == IF conf.sends = Streams THEN ReverseReads ELSE 1

ReadReply ==
    /\ cl.pc = "reply" /\ This \in net.reply
    /\ Client([cl EXCEPT !.pc = "stream"])
    /\ net' = [net EXCEPT !.reply = @ \ {This}]

\* A data packet of the test, which the server has begun, overtakes the reply.
ReadData ==
    /\ cl.pc = "reply" /\ sv.pc = "ready" /\ This \in conf.sends
    /\ \E k \in Streams : sv.fd[sv.streams[k]].peer = This
    /\ IF cl.waited + 1 < Reads THEN Client([cl EXCEPT !.waited = @ + 1])
                                ELSE ClientGivesUp(cl, "IESTREAMREAD")
    /\ UNCHANGED net

\* Mutant: the socket has no receive time-out.
ReplyNeverTimesOut == FALSE /\ UNCHANGED all

\* SO_RCVTIMEO.
ReplyTimesOut ==
    /\ cl.pc = "reply"
    /\ ClientGivesUp(cl, "IESTREAMREAD") /\ UNCHANGED net

NewClientStream ==
    /\ cl.pc = "stream"
    /\ \/ /\ Client([Streamed(cl, cl.s, IF This = N THEN "ready" ELSE "dial") EXCEPT !.s = 0])
          /\ UNCHANGED net
       \/ ClientGivesUp(cl, "IECREATESTREAM") /\ Fault

\* The event loop reads SERVER_ERROR or the end of the control connection.
ClientSeesEnd ==
    /\ cl.pc \in {"wait", "ready"} /\ sv.pc = "out"
    /\ ClientGivesUp(cl, "IECTRLCLOSE") /\ UNCHANGED net

\* iperf_client_end.
EndClient ==
    /\ cl.pc = "end"
    /\ \/ /\ cl.streams # <<>>
          /\ Client([Closed(cl, Head(cl.streams)) EXCEPT !.streams = Tail(@)])
       \/ cl.streams = <<>> /\ Client([cl EXCEPT !.pc = "closed"])
    /\ UNCHANGED net

-----------------------------------------------------------------------------
\* The network.

\* The last packet of a handshake comes after all.
Arrive ==
    /\ going
    /\ \E k \in net.delayed : net' = [Queued(net, k, TRUE) EXCEPT !.delayed = @ \ {k}]
    /\ UNCHANGED <<going, conf, sv, cl, vars>>

\* Another program connects, or its datagram comes, or one of ours is lost.
Disturb ==
    /\ going /\ net.faults < MaxFaults
    /\ LET n == [net EXCEPT !.faults = @ + 1]
       IN  \/ conf.tcp /\ sv.listener # 0 /\ net' = Queued(n, Stranger, TRUE)
           \/ ~conf.tcp /\ net' = [n EXCEPT !.hello = @ \cup {Stranger}]
           \/ \E k \in net.hello : net' = [n EXCEPT !.hello = @ \ {k}]
           \/ \E k \in net.reply : net' = [n EXCEPT !.reply = @ \ {k}]
    /\ UNCHANGED <<going, conf, sv, cl, vars>>

-----------------------------------------------------------------------------
\* The set-up and the workers, one after the other.

ServerStep ==
    \/ ListenTcp \/ CloseToListen \/ ListenAgain \/ ListenUdp \/ AcceptTcp \/ ReadCookie
    \/ AcceptUdp \/ ReplyUdp \/ SetOptions \/ NewStream \/ Complete \/ RestoreListener
    \/ ServerSeesEnd \/ ServerTimesOut \/ Cleanup

ClientStep ==
    \/ ReadCreateStreams \/ ConnectTcp \/ ConnectUdp \/ ReadReply \/ ReadData \/ ReplyTimesOut
    \/ NewClientStream \/ ClientSeesEnd \/ EndClient

BothReady == going /\ sv.pc = "ready" /\ cl.pc = "ready"

\* TEST_RUNNING of one side, whose streams StreamWorkers numbers as it likes.  What
\* the set-up knew is no longer looked at.
HandOver ==
    /\ BothReady
    /\ Cardinality(Senders) = IF mode.server THEN Cardinality(conf.sends)
                                             ELSE N - Cardinality(conf.sends)
    /\ going' = FALSE
    /\ sv' = NewServer /\ cl' = NewClient /\ net' = Quiet
    /\ UNCHANGED <<conf, vars>>

Work(A) == ~going /\ A /\ UNCHANGED setUpVars

SetUpNext ==
    \/ ServerStep \/ ClientStep \/ StopServer \/ HostOpensOne \/ Arrive \/ Disturb
    \/ HandOver \/ Work(Next)

\* Both engines run, what has been sent over TCP arrives, and the workers are
\* scheduled as in StreamWorkers.
SetUpSpec ==
    /\ SetUpInit /\ [][SetUpNext]_all
    /\ WF_all(ServerStep) /\ WF_all(ClientStep) /\ WF_all(Arrive) /\ WF_all(HandOver)
    /\ WF_all(Work(MainStep))
    /\ \A s \in Streams :
         /\ WF_all(Work(Check(s))) /\ WF_all(Work(Call(s))) /\ WF_all(Work(ActOnCancel(s)))
         /\ WF_all(Work(Woken(s) /\ Return(s)))

-----------------------------------------------------------------------------
\* Properties.

ServerPcs == {"listen", "announce", "accept", "cookie", "reply", "options", "stream", "complete",
              "restore", "ready", "cleanup", "out"}
ClientPcs == {"wait", "dial", "reply", "stream", "ready", "end", "closed"}

SetUpTypeOK ==
    /\ sv.pc \in ServerPcs /\ cl.pc \in ClientPcs
    /\ {sv.listener, sv.prot, sv.s, cl.s} \subseteq Numbers \cup {0}
    /\ Len(sv.streams) <= N /\ Len(cl.streams) <= N
    /\ net.faults \in 0..MaxFaults

\* The errors after which the server forgets a socket that it has accepted:
\* iperf_common_sockopts in iperf_run_server, and what follows the connect of
\* iperf_udp_accept.
Forgets == {"IESETTOS", "IESTREAMLISTEN", "IESTREAMWRITE"}

\* The numbers the server holds are its own and different ones, on every path
\* through the failures; neither side closes a descriptor of the host, and each
\* leaves nothing open when its set-up has failed, except the socket of Forgets.
\* Only the number of a connection that was refused, closed and looked at again
\* (iperf_run_server) may meanwhile be the host's.
SetUpOwnsDescriptors ==
    /\ SetUpTypeOK
    /\ \A i, j \in 1..Len(sv.streams) : i # j => sv.streams[i] # sv.streams[j]
    /\ sv.listener # 0 => sv.fd[sv.listener].kind = "listener"
    /\ sv.prot \notin {0, sv.listener} => sv.fd[sv.prot].kind = "udp"
    /\ sv.foreign => sv.reused
    /\ ~cl.foreign
    /\ sv.pc = "out" =>
         \A f \in Numbers : sv.fd[f].kind \in {"free", "host"} \/ (f = sv.s /\ sv.err \in Forgets)
    /\ cl.pc = "closed" => \A f \in Numbers : cl.fd[f].kind \in {"free", "host"}

\* When both sides are ready, the k-th stream of the server is connected to the
\* k-th of the client, so that the one sends where the other receives; whoever
\* else connected or sent datagrams to the port.  (If the last packet of a
\* handshake is late the streams are the right ones in another order.)
StreamsPair ==
    BothReady /\ ~sv.reused =>
        LET peer == [k \in Streams |-> sv.fd[sv.streams[k]].peer]
        IN  /\ {peer[k] : k \in Streams} = Streams
            /\ ~net.late => \A k \in Streams : peer[k] = k

\* Every set-up ends: both sides are ready, or both have cleaned up.  Only a server
\* that does not receive waits for ever when it has refused a stream of its own
\* client, whose cookie was late.
SetUpEnds ==
    going ~> \/ ~going \/ BothReady
             \/ sv.pc = "out" /\ cl.pc = "closed"
             \/ net.denied /\ conf.sends = Streams
=============================================================================
