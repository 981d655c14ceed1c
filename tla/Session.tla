------------------------------ MODULE Session -------------------------------
(***************************************************************************)
(* One control connection after another between clients and a server that    *)
(* keeps listening: the parameter exchange, the authorization, the exchange  *)
(* of results and the reset of the server between two clients, over a byte   *)
(* stream that the writer may fill only in part.                             *)
(*                                                                         *)
(* A client is a run of the wrapper (a configuration) or of the command line.*)
(* ControlProtocol has the same exchange between several clients with its    *)
(* messages whole and without contents; here one client is connected at a    *)
(* time and the contents are what matters.                                   *)
(*                                                                         *)
(* Nread and Nwrite are atomic steps: each channel has one writer and one    *)
(* reader, which blocks until it has what it asked for or gives up.          *)
(***************************************************************************)
EXTENDS CommandLine

CONSTANTS
    ServerConfigs,  \* configurations of the server
    Configs,        \* configurations of the clients
    CommandLines,   \* command lines of the clients
    Later,          \* the clients that come after the first, of both kinds
    Faulty,         \* the clients on whose connection faults may happen
    MaxClients,     \* bound on the clients served
    MaxFaults,      \* bound on the faults of one connection
    SegmentSizes,   \* what TCP_MAXSEG may say of the control connection
    Skews,          \* client clock minus server clock, in seconds
    Password,       \* IPERF3_PASSWORD of the command line
    Users           \* users and passwords of each list of authorized users

VARIABLES
    client,    \* the client: its kind and what it was given
    ctest,     \* struct iperf_test of the client
    cpc,       \* where the client is
    cerr,      \* its i_errno
    cstreams,  \* its test->streams
    sconfig,   \* the configuration of the server
    stest,     \* struct iperf_test of the server
    spc,       \* where the server is
    serr,      \* its i_errno
    sstreams,  \* its test->streams
    up, down,  \* bytes under way to the server and to the client
    upEnd,     \* the client has closed its end
    downEnd,   \* the server has closed its end
    served,    \* clients so far
    faults,    \* faults of this connection
    got        \* the parameters the server has read from this client

clientVars == <<client, ctest, cpc, cerr, cstreams, upEnd>>
serverVars == <<sconfig, stest, spc, serr, sstreams, downEnd, got>>
vars == <<clientVars, serverVars, up, down, served, faults>>

-----------------------------------------------------------------------------
\* Bytes.  A unit of a channel is one of the parts of a message.

Unit(of, part, load) == [of |-> of, part |-> part, load |-> load]
Cookie == <<Unit("cookie", 1, nil), Unit("cookie", 2, nil)>>
State(s) == <<Unit("state", 1, s)>>
Code(error) == <<Unit("error", 1, error), Unit("errno", 1, nil)>>
Head4(load) == <<Unit("size", 1, load), Unit("size", 2, load)>>
Body(load) == <<Unit("body", 1, load), Unit("body", 2, load)>>

Prefix(s, n) == SubSeq(s, 1, n)

CanFault == client \in Faulty /\ faults < MaxFaults

\* What write() leaves in the channel and whether Nwrite's result is negative.
\* A write interrupted after its first byte is reported as a count.
Nwrite(units) ==
    {[sent |-> units, ok |-> TRUE, fault |-> 0]}
    \cup IF ~CanFault THEN {}
         ELSE {[sent |-> Prefix(units, n), ok |-> n > 0, fault |-> 1] : n \in 0..(Len(units) - 1)}
              \cup {[sent |-> Prefix(units, n), ok |-> FALSE, fault |-> 1] :
                        n \in 0..(Len(units) - 1)}

\* The size, and then the text unless the size could not be written at all.
JSON_write(load) ==
    LET both == {[sent |-> h.sent \o b.sent, ok |-> b.ok, fault |-> h.fault + b.fault] :
                    h \in {w \in Nwrite(Head4(load)) : w.ok}, b \in Nwrite(Body(load))}
    IN  {w \in both : faults + w.fault <= MaxFaults} \cup {w \in Nwrite(Head4(load)) : ~w.ok}

\* The sizes that four bytes may be read as: the size that was sent, or when
\* they are not the four bytes of a size, nothing, a few bytes, or too many.
Sizes(channel) ==
    IF [i \in 1..2 |-> <<channel[i].of, channel[i].part>>] = << <<"size", 1>>, <<"size", 2>> >>
    THEN {2} ELSE {0, 1, 2, 1000}

\* cJSON_Parse: only a whole text is an object.
cJSON_Parse(text) ==
    IF \A i \in 1..Len(text) : text[i].of = "body" /\ text[i].part = i
    THEN IF Len(text) = 2 THEN text[1].load ELSE nil
    ELSE nil

\* Mutant: the last byte of the text is left in the channel.
JSON_readOneLess(channel, limit) ==
    IF Len(channel) < 2 THEN {}
    ELSE {[json |-> IF size > 0 /\ (limit = 0 \/ size <= limit)
                    THEN cJSON_Parse(SubSeq(channel, 3, 2 + size)) ELSE nil,
           rest |-> SubSeq(channel, 2 + size, Len(channel))] :
             size \in {z \in Sizes(channel) : z = 0 \/ (limit # 0 /\ z > limit) \/ Len(channel) >= 2 + z}}

\* The objects that can be read from a channel that has enough bytes; json is
\* nil when the size or the text is refused.
JSON_read(channel, limit) ==
    IF Len(channel) < 2 THEN {}
    ELSE {[json |-> IF size > 0 /\ (limit = 0 \/ size <= limit)
                    THEN cJSON_Parse(SubSeq(channel, 3, 2 + size)) ELSE nil,
           rest |-> SubSeq(channel, 3 + size, Len(channel))] :
             size \in {z \in Sizes(channel) : z = 0 \/ (limit # 0 /\ z > limit) \/ Len(channel) >= 2 + z}}

GSO_MAX_DG_IN_BF == 128
MAX_PARAMS_JSON_STRING == 100     \* longer than a message, shorter than 1000

-----------------------------------------------------------------------------
\* Parameters.

\* A number is kept as a double.
cJSON_CreateNumber(n) == Double(n)

\* A number as it arrives: print_number writes the digits that give the same double,
\* and parse_number makes a signed integer of it, LLONG_MAX when it is larger.
Number(n) ==
    IF cJSON_CreateNumber(n) > LLONG_MAX THEN LLONG_MAX ELSE cJSON_CreateNumber(n)

AlwaysSent == {"protocol", "omit", "time", "num", "blockcount", "parallel"}
SentUnlessZero == {"MSS", "nodelay", "reverse", "bidirectional", "window", "len", "bandwidth",
                   "fqrate", "pacing_timer", "burst", "TOS", "get_server_output",
                   "udp_counters_64bit", "repeating_payload", "zerocopy", "dont_fragment",
                   "skip_rx_copy"}
SentUnlessNil == {"title", "extra_data", "congestion", "congestion_used"}
SentForUdp == {"gso", "gso_dg_size", "gso_bf_size", "gro", "gro_bf_size"}

\* A token can be read back with the private key of its public key and the
\* padding it was made with; sscanf reads no name that has a space in it.
encode_auth_setting(t, skew) ==
    [user |-> t.client_username, password |-> t.client_password, time |-> skew,
     key |-> t.client_rsa_pubkey, padding |-> t.use_pkcs1_padding]

HasCredentials(t) ==
    t.client_username # nil /\ t.client_password # nil /\ t.client_rsa_pubkey # nil

send_parameters(t, skew) ==
    LET names == AlwaysSent
                 \cup {f \in SentUnlessZero : t[f] # 0}
                 \cup {f \in SentUnlessNil : t[f] # nil}
                 \cup (IF t.protocol = "udp" THEN SentForUdp ELSE {})
                 \cup (IF t.server_affinity # -1 THEN {"server_affinity"} ELSE {})
                 \cup (IF HasCredentials(t) THEN {"authtoken"} ELSE {})
    IN  [f \in names |->
            IF f = "authtoken" THEN encode_auth_setting(t, skew)
            ELSE IF f \in SentUnlessNil \cup {"protocol"} THEN t[f]
            ELSE IF f \in Wide THEN Number(t[f]) ELSE t[f]]

\* The numbers the server checks: name, smallest, largest, error.
Checked == <<
    <<"omit", 0, MAX_OMIT_TIME, "IEOMIT">>, <<"server_affinity", 0, 1024, "IEAFFINITY">>,
    <<"time", 0, MAX_TIME, "IEDURATION">>, <<"num", 0, INT_MAX, "IERECVPARAMS">>,
    <<"blockcount", 0, INT_MAX, "IERECVPARAMS">>, <<"MSS", 0, MAX_MSS, "IEMSS">>,
    <<"parallel", 1, MAX_STREAMS, "IENUMSTREAMS">>, <<"window", 0, MAX_TCP_BUFFER, "IEBUFSIZE">>,
    <<"len", 0, INT_MAX, "IEBLOCKSIZE">>, <<"gso", 0, INT_MAX, "IERECVPARAMS">>,
    <<"gso_dg_size", 0, INT_MAX, "IERECVPARAMS">>, <<"gso_bf_size", 0, INT_MAX, "IERECVPARAMS">>,
    <<"gro", 0, 1, "IERECVPARAMS">>, <<"gro_bf_size", 0, INT_MAX, "IERECVPARAMS">>,
    <<"bandwidth", 0, INT_MAX, "IERECVPARAMS">>, <<"fqrate", 0, INT_MAX, "IERECVPARAMS">>,
    <<"pacing_timer", 0, INT_MAX, "IERECVPARAMS">>, <<"burst", 1, MAX_BURST, "IEBURST">>,
    <<"TOS", 0, 255, "IEBADTOS">> >>

CheckedNames == {Checked[i][1] : i \in 1..Len(Checked)}
SetToOne == {"nodelay", "get_server_output", "udp_counters_64bit", "repeating_payload",
             "zerocopy", "dont_fragment", "skip_rx_copy"}

InRange(m, f) == \E i \in 1..Len(Checked) : Checked[i][1] = f /\ m[f] \in Checked[i][2]..Checked[i][3]

\* Mutant: the flag that turns Nagle's algorithm off is not read.
StoredNoNodelay(t, m) ==
    [f \in DOMAIN t |->
        IF f \notin DOMAIN m THEN IF f \in {"num", "blockcount"} THEN 0 ELSE t[f]
        ELSE IF f \in CheckedNames
        THEN IF InRange(m, f) THEN m[f] ELSE IF f \in {"num", "blockcount"} THEN 0 ELSE t[f]
        ELSE IF f \in SetToOne \ {"nodelay"} THEN 1
        ELSE IF f \in SentUnlessNil \cup {"authtoken"} THEN m[f]
        ELSE t[f]]

\* Every parameter that is there and in range replaces what the server has.
Stored(t, m) ==
    [f \in DOMAIN t |->
        IF f \notin DOMAIN m THEN IF f \in {"num", "blockcount"} THEN 0 ELSE t[f]
        ELSE IF f \in CheckedNames
        THEN IF InRange(m, f) THEN m[f] ELSE IF f \in {"num", "blockcount"} THEN 0 ELSE t[f]
        ELSE IF f \in SetToOne THEN 1
        ELSE IF f \in SentUnlessNil \cup {"authtoken"} THEN m[f]
        ELSE t[f]]

\* The protocol and the direction, through their setters.
Directed(t, m) ==
    LET p == IF m.protocol = "udp" /\ t.diskfile_name # nil THEN t ELSE set_protocol(t, m.protocol)
        r == IF "reverse" \in DOMAIN m THEN iperf_set_test_reverse(p, 1) ELSE p
    IN  IF "bidirectional" \in DOMAIN m THEN iperf_set_test_bidirectional(r, 1) ELSE r

\* Datagrams of the block size, for a client that did not size them.
GsoDerived(t) ==
    IF t.protocol = "udp" /\ t.gso = 1 /\ t.gso_dg_size = 0 THEN GsoSized(t, t.len) ELSE t

\* What the server's test is after get_parameters.
Parameterised(t, m) ==
    LET d == GsoDerived(Stored(Directed(t, m), m))
        r == [d EXCEPT !.sender_has_retransmits =
                 IF d.mode # "receiver" /\ d.protocol = "tcp" /\ HasRetransmits THEN 1 ELSE @]
    IN  IF r.len \in MIN_UDP_BLOCKSIZE..MAX_UDP_BLOCKSIZE THEN GsoSized(r, r.len) ELSE r

\* The total the server lets its clients ask for.
OverLimit(t, rate) ==
    /\ t.bitrate_limit # 0
    /\ t.parallel * rate * (IF t.mode = "bidirectional" THEN 2 ELSE 1) > t.bitrate_limit

\* The errors get_parameters sets, in order; a bad block size ends it.  t is
\* the server's test with the parameters stored.
paramErrors(t, m) ==
    Check(m.protocol = "udp" /\ t.diskfile_name # nil, "IEUDPFILETRANSFER")
    \o FoldLeft(LAMBDA errors, row :
                    errors \o Check(row[1] \in DOMAIN m /\ m[row[1]] \notin row[2]..row[3], row[4]),
                <<>>, Checked)
    \o IF (t.protocol # "udp" /\ t.len <= 0) \/ t.len > MAX_BLOCKSIZE THEN <<"IEBLOCKSIZE">>
       ELSE IF t.protocol = "udp" /\ t.len \notin MIN_UDP_BLOCKSIZE..MAX_UDP_BLOCKSIZE
       THEN <<"IEUDPBLOCKSIZE">>
       ELSE Check(t.max_server_duration > 0
                    /\ (t.time + t.omit > t.max_server_duration \/ t.time = 0),
                  "IEMAXSERVERTESTDURATIONEXCEEDED")
            \o Check(OverLimit(t, t.bandwidth), "IETOTALRATE")
            \o Check(OverLimit(t, t.fqrate), "IETOTALRATE")

\* 0 when the user is known, 1 when the clocks are too far apart, 3 otherwise.
check_authentication(token, users, threshold) ==
    IF token.time > threshold \/ token.time < -threshold THEN 1
    ELSE IF <<token.user, token.password>> \in Users[users] THEN 0 ELSE 3

decode_auth_setting(token, t) ==
    /\ token.key = t.server_rsa_private_key
    /\ token.padding = t.use_pkcs1_padding
    /\ token.user # "two words"

\* Mutant: a client without a token is let in.
test_is_authorizedWithout(t) ==
    \/ t.server_rsa_private_key = nil /\ t.server_authorized_users = nil
    \/ t.authtoken = nil
    \/ /\ decode_auth_setting(t.authtoken, t)
       /\ check_authentication(t.authtoken, t.server_authorized_users, t.server_skew_threshold) = 0

test_is_authorized(t) ==
    \/ t.server_rsa_private_key = nil /\ t.server_authorized_users = nil
    \/ /\ t.server_rsa_private_key # nil /\ t.server_authorized_users # nil
       /\ t.authtoken # nil
       /\ decode_auth_setting(t.authtoken, t)
       /\ check_authentication(t.authtoken, t.server_authorized_users, t.server_skew_threshold) = 0

\* Mutant: any segment size is taken for the block size.
ConnectedAnyMss(t, mss) ==
    IF t.protocol # "udp" \/ t.len # 0 \/ t.gso # 0 THEN t
    ELSE [t EXCEPT !.len = IF mss > 0 THEN mss ELSE DEFAULT_UDP_BLKSIZE]

\* iperf_connect: the block size of UDP from the control connection's segment
\* size, and whole datagrams in a segmentation buffer.
Connected(t, mss) ==
    LET ctrl_sck_mss == IF mss \in 1..MAX_UDP_BLOCKSIZE THEN mss ELSE 0
        len == IF t.len # 0 THEN t.len
               ELSE IF ctrl_sck_mss # 0 THEN ctrl_sck_mss ELSE DEFAULT_UDP_BLKSIZE
        datagrams == IF t.gso_bf_size \div len > GSO_MAX_DG_IN_BF
                     THEN GSO_MAX_DG_IN_BF ELSE t.gso_bf_size \div len
    IN  IF t.protocol # "udp" THEN t
        ELSE IF t.gso = 0 THEN [t EXCEPT !.len = len]
        ELSE [t EXCEPT !.len = len, !.gso_dg_size = len, !.gso_bf_size = datagrams * len]

\* Mutant: the segment size asked for by one client is left to the next.
iperf_reset_testKeepsMss(t) ==
    [t EXCEPT !.congestion = nil, !.role = "s", !.mode = "receiver",
              !.sender_has_retransmits = 0, !.other_side_has_retransmits = 0,
              !.protocol = "tcp", !.omit = OMIT, !.time = DURATION,
              !.server_affinity = -1, !.reverse = 0, !.bidirectional = 0, !.nodelay = 0,
              !.parallel = 1, !.window = 0, !.len = DEFAULT_TCP_BLKSIZE, !.bandwidth = 0,
              !.fqrate = 0, !.burst = 0, !.TOS = 0, !.gso_dg_size = 0,
              !.gso_bf_size = GSO_BF_MAX_SIZE, !.gro_bf_size = GRO_BF_MAX_SIZE,
              !.dont_fragment = 0, !.zerocopy = 0, !.skip_rx_copy = 0, !.authtoken = nil,
              !.udp_counters_64bit = 0, !.title = nil, !.extra_data = nil]

iperf_reset_test(t) ==
    [t EXCEPT !.get_server_output = IF t.server_output_byte_limit # 0 THEN 0 ELSE @,
              !.congestion = nil, !.role = "s", !.mode = "receiver",
              !.sender_has_retransmits = 0, !.other_side_has_retransmits = 0,
              !.protocol = "tcp", !.omit = OMIT, !.time = DURATION,
              !.server_affinity = -1, !.reverse = 0, !.bidirectional = 0, !.nodelay = 0,
              !.parallel = 1, !.window = 0, !.len = DEFAULT_TCP_BLKSIZE, !.bandwidth = 0,
              !.fqrate = 0, !.burst = 0, !.MSS = 0, !.TOS = 0, !.gso_dg_size = 0,
              !.gso_bf_size = GSO_BF_MAX_SIZE, !.gro_bf_size = GRO_BF_MAX_SIZE,
              !.dont_fragment = 0, !.zerocopy = 0, !.skip_rx_copy = 0, !.authtoken = nil,
              !.client_username = nil, !.client_password = nil, !.client_rsa_pubkey = nil,
              !.udp_counters_64bit = 0, !.title = nil, !.extra_data = nil]

-----------------------------------------------------------------------------
\* Streams and results.

\* iperf_add_stream: the second stream is number 3.
StreamId(n) == IF n = 1 THEN 1 ELSE n + 1

\* Mutant: the server takes the first connections of a bidirectional test for
\* the ones it sends on.
SendsOnSenderFirst(t, n) ==
    IF t.mode = "bidirectional" THEN n <= t.parallel ELSE t.mode = "sender"

\* A bidirectional client makes the streams it sends on first, and the server
\* first accepts the ones it receives on.
SendsOn(t, n) ==
    IF t.mode = "bidirectional" THEN (t.role = "c") = (n <= t.parallel) ELSE t.mode = "sender"

\* A stream at the end of the test, with what its own side has measured of it.
\* The numbers only tell the sides, the streams and the counters apart.
Stream(t, n) ==
    LET sender == SendsOn(t, n)
        id == StreamId(n)
    IN  [id |-> id, sender |-> sender,
         bytes_sent |-> IF sender THEN 10 * n + 5 ELSE 0,
         bytes_sent_omit |-> IF sender /\ t.omit > 0 THEN 2 ELSE 0,
         bytes_received |-> IF sender THEN 0 ELSE 10 * n + 1,
         stream_retrans |-> IF sender /\ t.sender_has_retransmits = 1 THEN n ELSE 0,
         jitter |-> IF sender THEN 0 ELSE n, cnt_error |-> IF sender THEN 0 ELSE n + 1,
         omitted_cnt_error |-> IF sender \/ t.omit = 0 THEN 0 ELSE 1,
         packet_count |-> IF sender THEN 10 * n ELSE 10 * n - n,
         omitted_packet_count |-> IF t.omit > 0 THEN n ELSE 0,
         peer_packet_count |-> 0, peer_omitted_packet_count |-> 0]

iperf_create_streams(t) ==
    [n \in 1..(t.parallel * IF t.mode = "bidirectional" THEN 2 ELSE 1) |-> Stream(t, n)]

\* The local port of the n-th connection of a client that binds its streams.
StreamPort(t, n) ==
    IF t.mode = "bidirectional" /\ n > t.parallel
    THEN t.bind_port + (n - t.parallel - 1) + t.parallel
    ELSE t.bind_port + (n - 1)

\* What a side sends of one stream.
StreamResult(t, sp) ==
    [id |-> sp.id,
     bytes |-> IF sp.sender THEN sp.bytes_sent - sp.bytes_sent_omit ELSE sp.bytes_received,
     retransmits |-> IF sp.sender /\ t.sender_has_retransmits # 0 THEN sp.stream_retrans ELSE -1,
     jitter |-> sp.jitter, errors |-> sp.cnt_error, omitted_errors |-> sp.omitted_cnt_error,
     packets |-> sp.packet_count, omitted_packets |-> sp.omitted_packet_count]

send_results(t, streams) ==
    [sender_has_retransmits |-> IF t.mode = "receiver" THEN -1 ELSE t.sender_has_retransmits,
     streams |-> [i \in 1..Len(streams) |-> StreamResult(t, streams[i])]]

\* A sender learns what arrived, a receiver what was sent.
AppliedResult(sp, r) ==
    IF sp.sender
    THEN [sp EXCEPT !.jitter = r.jitter, !.cnt_error = r.errors,
                    !.omitted_cnt_error = r.omitted_errors, !.bytes_received = r.bytes,
                    !.peer_packet_count = r.packets,
                    !.peer_omitted_packet_count = r.omitted_packets]
    ELSE [sp EXCEPT !.bytes_sent = r.bytes, !.stream_retrans = r.retransmits,
                    !.peer_packet_count = r.packets,
                    !.peer_omitted_packet_count = r.omitted_packets]

\* The results of one stream go to the local stream of the same number.
get_results(streams, m) ==
    [i \in 1..Len(streams) |->
        LET of == {j \in 1..Len(m.streams) : m.streams[j].id = streams[i].id}
        IN  IF of = {} THEN streams[i]
            ELSE AppliedResult(streams[i], m.streams[CHOOSE j \in of : \A l \in of : l <= j])]

\* IESTREAMID: results of a stream this side does not have.
UnknownStream(streams, m) ==
    \E j \in 1..Len(m.streams) : \A i \in 1..Len(streams) : streams[i].id # m.streams[j].id

\* Whether the peer has retransmit counts of what it sends.
LearnedRetransmits(t, m) ==
    CASE t.mode = "receiver" -> [t EXCEPT !.sender_has_retransmits = m.sender_has_retransmits,
                                          !.other_side_has_retransmits = 0]
      [] t.mode = "bidirectional" ->
            [t EXCEPT !.other_side_has_retransmits = m.sender_has_retransmits]
      [] OTHER -> t

-----------------------------------------------------------------------------
\* The client.

NoClient == [kind |-> "none", config |-> DefaultConfiguration, args |-> <<>>]

Init ==
    /\ client = NoClient /\ ctest = iperf_defaults /\ cpc = "idle" /\ cerr = "IENONE"
    /\ cstreams = <<>>
    /\ sconfig \in ServerConfigs /\ stest = Applied(sconfig)
    /\ spc = "free" /\ serr = "IENONE" /\ sstreams = <<>>
    /\ up = <<>> /\ down = <<>> /\ upEnd = FALSE /\ downEnd = FALSE
    /\ served = 0 /\ faults = 0 /\ got = nil

SwiftClients == [kind : {"swift"}, config : Configs, args : {<<>>}]
CliClients == [kind : {"cli"}, config : {DefaultConfiguration}, args : CommandLines]

\* A new client, connected to a server that is free: the wrapper's preflight
\* and applyConfiguration, or the parser of the command line.
StartClient ==
    /\ cpc \in {"idle", "refused"} \cup (IF downEnd THEN {"closed"} ELSE {})
    /\ spc = "free" /\ served < MaxClients
    /\ \E k \in SwiftClients \cup CliClients :
        /\ served > 0 => {client, k} \subseteq Later
        /\ client' = k
        /\ IF k.kind = "swift"
           THEN /\ cerr' = configurationError(k.config)
                /\ ctest' = IF Accepted(k.config) THEN Applied(k.config) ELSE iperf_defaults
           ELSE \E p \in {iperf_parse_arguments(k.args, Password)} :
                    cerr' = p.error /\ ctest' = p.t
        /\ cpc' = IF cerr' = "IENONE" THEN "start" ELSE "refused"
    /\ served' = served + 1 /\ faults' = 0 /\ cstreams' = <<>> /\ got' = nil
    /\ up' = <<>> /\ down' = <<>> /\ upEnd' = FALSE /\ downEnd' = FALSE
    /\ UNCHANGED <<sconfig, stest, spc, serr, sstreams>>

\* The configuration of another server, which connects to nobody.
ServeElsewhere ==
    /\ cpc = "start" /\ ctest.role = "s" /\ cpc' = "refused"
    /\ UNCHANGED <<client, ctest, cerr, cstreams, upEnd, serverVars, up, down, served, faults>>

\* One Nwrite or JSON_write of the client; pc is where it goes on, error what
\* a failed write is reported as.
ClientWrites(writes, pc, error) ==
    \E w \in writes :
        /\ up' = up \o w.sent /\ faults' = faults + w.fault
        /\ cpc' = IF w.ok THEN pc ELSE "closed"
        /\ cerr' = IF w.ok THEN cerr ELSE error
        /\ upEnd' = ~w.ok

ClientFails(error) ==
    /\ cpc' = "closed" /\ cerr' = error /\ upEnd' = TRUE

Connect ==
    /\ cpc = "start" /\ ctest.role = "c"
    /\ \E mss \in SegmentSizes : ctest' = Connected(ctest, mss)
    /\ ClientWrites(Nwrite(Cookie), "loop", "IESENDCOOKIE")
    /\ UNCHANGED <<client, cstreams, serverVars, down, served>>

\* The next byte from the server, in the client's loop.
Receives(s) ==
    /\ cpc \in (IF s = "SERVER_ERROR" THEN {"loop", "running"} ELSE {"loop"})
    /\ down # <<>> /\ Head(down).of = "state" /\ Head(down).load = s

SendParameters ==
    /\ Receives("PARAM_EXCHANGE") /\ down' = Tail(down)
    /\ \E skew \in Skews :
        ClientWrites(JSON_write(send_parameters(ctest, skew)), "loop", "IESENDPARAMS")
    /\ UNCHANGED <<client, ctest, cstreams, serverVars, served>>

CreateStreams ==
    /\ Receives("CREATE_STREAMS") /\ down' = Tail(down)
    /\ cstreams' = iperf_create_streams(ctest) /\ cpc' = "running"
    /\ UNCHANGED <<client, ctest, cerr, upEnd, serverVars, up, served, faults>>

\* A stream cannot be connected, or the kernel refuses a socket option of it.
CreateStreamsFails ==
    /\ Receives("CREATE_STREAMS") /\ down' = Tail(down)
    /\ CanFault /\ faults' = faults + 1
    /\ \E e \in {"IESTREAMCONNECT", "IESETMSS", "IESETBUF"} : ClientFails(e)
    /\ UNCHANGED <<client, ctest, cstreams, serverVars, up, served>>

SendTestEnd ==
    /\ cpc = "running"
    /\ ClientWrites(Nwrite(State("TEST_END")), "loop", "IESENDMESSAGE")
    /\ UNCHANGED <<client, ctest, cstreams, serverVars, down, served>>

\* The test has a duration, or a number of bytes or blocks to reach.
HasEnd(t) == t.time # 0 \/ t.num # 0 \/ t.blockcount # 0

\* The end of the test is reached, or another thread asks for a stop.
EndTest == HasEnd(ctest) /\ SendTestEnd
StopTest == SendTestEnd

SendResults ==
    /\ Receives("EXCHANGE_RESULTS") /\ down' = Tail(down)
    /\ ClientWrites(JSON_write(send_results(ctest, cstreams)), "results", "IESENDRESULTS")
    /\ UNCHANGED <<client, ctest, cstreams, serverVars, served>>

\* A whole message is there to be read.
Whole(channel) ==
    Len(channel) >= 4 /\ [i \in 1..4 |-> channel[i].of] = <<"size", "size", "body", "body">>

\* A read ends early because the writer has closed, because it waits for the
\* reader (and the time-out passes), or because of an error or a signal.
GivesUp(there, ended, waits) ==
    \/ ~there /\ (ended \/ waits) /\ UNCHANGED faults
    \/ CanFault /\ faults' = faults + 1

ServerWaits == spc \in {"params", "results", "end", "done"} /\ up = <<>>

GetResults ==
    /\ cpc = "results"
    /\ \E r \in JSON_read(down, 0) :
        /\ down' = r.rest
        /\ IF r.json = nil THEN ClientFails("IERECVRESULTS") /\ UNCHANGED <<ctest, cstreams>>
           ELSE /\ cstreams' = get_results(cstreams, r.json)
                /\ ctest' = LearnedRetransmits(ctest, r.json)
                /\ IF UnknownStream(cstreams, r.json) THEN ClientFails("IESTREAMID")
                   ELSE cpc' = "loop" /\ UNCHANGED <<cerr, upEnd>>
    /\ UNCHANGED <<client, serverVars, up, served, faults>>

GetResultsFails ==
    /\ cpc = "results"
    /\ GivesUp(Whole(down), downEnd, ServerWaits)
    /\ ClientFails("IERECVRESULTS")
    /\ UNCHANGED <<client, ctest, cstreams, serverVars, up, down, served>>

ClientEnds ==
    /\ Receives("DISPLAY_RESULTS") /\ down' = Tail(down)
    /\ \E w \in Nwrite(State("IPERF_DONE")) :
        /\ up' = up \o w.sent /\ faults' = faults + w.fault
        /\ cpc' = "closed" /\ upEnd' = TRUE
        /\ cerr' = IF w.ok THEN cerr ELSE "IESENDMESSAGE"
    /\ UNCHANGED <<client, ctest, cstreams, serverVars, served>>

\* The two numbers after SERVER_ERROR; a read that ends early is an error, or
\* leaves the error code uninitialized.
ReadServerError ==
    /\ Receives("SERVER_ERROR")
    /\ \/ Len(down) >= 3 /\ ClientFails(down[2].load) /\ UNCHANGED faults
       \/ /\ GivesUp(Len(down) >= 3, downEnd, FALSE)
          /\ \E e \in {"undefined", "IECTRLREAD"} : ClientFails(e)
    /\ down' = <<>>
    /\ UNCHANGED <<client, ctest, cstreams, serverVars, up, served>>

\* Mutant: the end of the connection is noticed only while the test runs.
ClientSeesCloseRunning ==
    /\ cpc = "running" /\ down = <<>> /\ downEnd
    /\ ClientFails("IECTRLCLOSE")
    /\ UNCHANGED <<client, ctest, cstreams, serverVars, up, down, served, faults>>

ClientSeesClose ==
    /\ cpc \in {"loop", "running"}
    /\ \/ down = <<>> /\ downEnd /\ ClientFails("IECTRLCLOSE") /\ UNCHANGED faults
       \/ CanFault /\ faults' = faults + 1 /\ ClientFails("IERECVMESSAGE")
    /\ UNCHANGED <<client, ctest, cstreams, serverVars, up, down, served>>

-----------------------------------------------------------------------------
\* The server.

ClientWaits == cpc \in {"loop", "results"} /\ down = <<>>

ErrorMessage(error) == State("SERVER_ERROR") \o Code(error)

\* cleanup_server: the error goes to the client and the connection is closed.
ServerFails(error) ==
    /\ serr' = error /\ spc' = "ended" /\ downEnd' = TRUE
    /\ down' = down \o ErrorMessage(error)

\* After a write that failed the error may still get through, or not.
WriteFails(sent, error) ==
    /\ serr' = error /\ spc' = "ended" /\ downEnd' = TRUE
    /\ down' \in {down \o sent, down \o sent \o ErrorMessage(error)}

ServerWrites(writes, pc, error) ==
    \E w \in writes :
        /\ faults' = faults + w.fault
        /\ IF w.ok THEN down' = down \o w.sent /\ spc' = pc /\ UNCHANGED <<serr, downEnd>>
           ELSE WriteFails(w.sent, error)

ServerKeeps == <<clientVars, sconfig, served>>

\* iperf_accept, up to the request for the parameters.
ReadCookie ==
    /\ spc = "free" /\ ~downEnd /\ Len(up) >= 2 /\ up' = SubSeq(up, 3, Len(up))
    /\ ServerWrites(Nwrite(State("PARAM_EXCHANGE")), "params", "IESENDMESSAGE")
    /\ UNCHANGED <<ServerKeeps, stest, sstreams, got>>

ReadCookieFails ==
    /\ spc = "free" /\ cpc \notin {"idle", "refused", "start"} /\ ~downEnd
    /\ GivesUp(Len(up) >= 2, upEnd, ClientWaits)
    /\ ServerFails("IERECVCOOKIE")
    /\ UNCHANGED <<ServerKeeps, stest, sstreams, up, got>>

\* get_parameters and test_is_authorized, the listener for the streams, and
\* the request to create them.  The last error that was set is the one sent.
Decide(t, errors) ==
    IF errors # <<>>
    THEN ServerFails(errors[Len(errors)]) /\ UNCHANGED <<faults, sstreams>>
    ELSE IF ~test_is_authorized(t) THEN ServerFails("IEAUTHTEST") /\ UNCHANGED <<faults, sstreams>>
    ELSE \/ /\ ServerWrites(Nwrite(State("CREATE_STREAMS")), "end", "IESENDMESSAGE")
            /\ sstreams' = iperf_create_streams(t)
         \/ /\ CanFault /\ faults' = faults + 1
            /\ ServerFails("IESTREAMLISTEN") /\ UNCHANGED sstreams

GetParameters ==
    /\ spc = "params"
    /\ \E r \in JSON_read(up, MAX_PARAMS_JSON_STRING) :
        /\ up' = r.rest
        /\ IF r.json = nil
           THEN ServerFails("IERECVPARAMS") /\ UNCHANGED <<stest, sstreams, got, faults>>
           ELSE /\ got' = r.json
                /\ stest' = Parameterised(stest, r.json)
                /\ Decide(stest', paramErrors(stest', r.json))
    /\ UNCHANGED ServerKeeps

GetParametersFails ==
    /\ spc = "params"
    /\ GivesUp(Whole(up), upEnd, ClientWaits)
    /\ ServerFails("IERECVPARAMS")
    /\ UNCHANGED <<ServerKeeps, stest, sstreams, up, got>>

\* iperf_handle_message_server: TEST_END.
ReadTestEnd ==
    /\ spc = "end" /\ up # <<>> /\ Head(up).load = "TEST_END" /\ up' = Tail(up)
    /\ ServerWrites(Nwrite(State("EXCHANGE_RESULTS")), "results", "IESENDMESSAGE")
    /\ UNCHANGED <<ServerKeeps, stest, sstreams, got>>

\* The server's results and DISPLAY_RESULTS.
AnswerResults(load) ==
    \/ /\ \E w \in {v \in JSON_write(load) : v.ok}, d \in Nwrite(State("DISPLAY_RESULTS")) :
            /\ faults + w.fault + d.fault <= MaxFaults /\ faults' = faults + w.fault + d.fault
            /\ IF d.ok
               THEN /\ down' = down \o w.sent \o d.sent
                    /\ spc' = "done" /\ UNCHANGED <<serr, downEnd>>
               ELSE WriteFails(w.sent, "IESENDMESSAGE")
    \/ \E w \in {v \in JSON_write(load) : ~v.ok} :
            faults' = faults + w.fault /\ WriteFails(w.sent, "IESENDRESULTS")

\* iperf_exchange_results, on the server: get, then send.
ExchangeResults ==
    /\ spc = "results"
    /\ \E r \in JSON_read(up, 0) :
        /\ up' = r.rest
        /\ IF r.json = nil
           THEN ServerFails("IERECVRESULTS") /\ UNCHANGED <<stest, sstreams, faults>>
           ELSE /\ sstreams' = get_results(sstreams, r.json)
                /\ stest' = LearnedRetransmits(stest, r.json)
                /\ IF UnknownStream(sstreams, r.json)
                   THEN ServerFails("IESTREAMID") /\ UNCHANGED faults
                   ELSE AnswerResults(send_results(stest', sstreams'))
    /\ UNCHANGED <<ServerKeeps, got>>

ExchangeResultsFails ==
    /\ spc = "results"
    /\ GivesUp(Whole(up), upEnd, ClientWaits)
    /\ ServerFails("IERECVRESULTS")
    /\ UNCHANGED <<ServerKeeps, stest, sstreams, up, got>>

ReadDone ==
    /\ spc = "done" /\ up # <<>> /\ Head(up).load = "IPERF_DONE" /\ up' = Tail(up)
    /\ spc' = "ended" /\ downEnd' = TRUE
    /\ UNCHANGED <<ServerKeeps, stest, serr, sstreams, got, down, faults>>

\* The client is gone (the error that cleanup_server still sends goes nowhere),
\* or a read fails, while the server waits for a state.
ServerSeesClose ==
    /\ spc \in {"end", "done"}
    /\ \/ /\ up = <<>> /\ upEnd
          /\ serr' = "IECTRLCLOSE" /\ spc' = "ended" /\ downEnd' = TRUE
          /\ UNCHANGED <<down, faults>>
       \/ CanFault /\ faults' = faults + 1 /\ ServerFails("IERECVMESSAGE")
    /\ UNCHANGED <<ServerKeeps, stest, sstreams, up, got>>

\* The run of one client is over: a one-off server is finished, any other is
\* reset and listens again.
Reset ==
    /\ spc = "ended"
    /\ spc' = IF stest.one_off = 1 THEN "finished" ELSE "free"
    /\ stest' = iperf_reset_test(stest)
    /\ serr' = "IENONE" /\ sstreams' = <<>>
    /\ UNCHANGED <<ServerKeeps, downEnd, got, up, down, faults>>

-----------------------------------------------------------------------------
ClientStep ==
    \/ ServeElsewhere \/ Connect \/ SendParameters \/ CreateStreams \/ CreateStreamsFails
    \/ EndTest \/ SendResults \/ GetResults \/ GetResultsFails \/ ClientEnds \/ ReadServerError \/ ClientSeesClose
ServerStep ==
    \/ ReadCookie \/ ReadCookieFails \/ GetParameters \/ GetParametersFails \/ ReadTestEnd
    \/ ExchangeResults \/ ExchangeResultsFails \/ ReadDone \/ ServerSeesClose \/ Reset

Next == StartClient \/ ClientStep \/ StopTest \/ ServerStep

Spec == Init /\ [][Next]_vars

\* Both ends run, and the streams of a test move data, so that a test with an end
\* reaches it.  Nobody has to start a client or to stop one, and no fault has to happen.
FairSpec ==
    Spec /\ WF_vars(ClientStep /\ faults' = faults) /\ WF_vars(ServerStep /\ faults' = faults)

-----------------------------------------------------------------------------
\* Every variable has its type, a channel holds what its writer can write, and
\* a test that goes on has a block size that its buffers can have.
TypeOK ==
    /\ cpc \in {"idle", "refused", "start", "loop", "running", "results", "closed"}
    /\ spc \in {"free", "params", "end", "results", "done", "ended", "finished"}
    /\ \A i \in 1..Len(up) : up[i].of \in {"cookie", "state", "size", "body"}
    /\ \A i \in 1..Len(down) : down[i].of \in {"state", "size", "body", "error", "errno"}
    /\ cpc # "idle" => ctest.len \in 0..MAX_BLOCKSIZE /\ ctest.parallel \in 1..MAX_STREAMS
    /\ served \in 0..MaxClients /\ faults \in 0..MaxFaults
    /\ upEnd \in BOOLEAN /\ downEnd \in BOOLEAN

\* The client's configuration, and whether the wrapper starts a run for it.
Configured == cpc = "start" /\ client.kind = "swift"

\* Whether a configuration has an equivalent command line: everything it sets
\* has an option there, in the unit of that option and exact as the double it
\* is read as, and authentication is on when one of its options is set.  usePkcs1Padding is the option that the
\* wrapper has for clients too.
HasCommandLine(c) ==
    /\ c.role = "client" => c.address \notin {nil, ""} /\ ~c.usePkcs1Padding
    /\ c.role = "server" => c.clientPort = nil
    /\ c.serverOutputByteLimit = nil /\ c.logfileByteLimit = nil
    /\ c.isAuth = hasAuthenticationOptionForSelectedRole(c)
    /\ c.role = "client" /\ c.username # "" => c.password = Password
    /\ c.role = "client" /\ c.password # "" => c.username # ""
    /\ c.timeout # 0 /\ (c.blockSize # nil => c.blockSize >= 0)
    /\ (c.idleTimeout \notin {nil, inf}) => c.idleTimeout % 1000 = 0
    /\ inf \notin {c.idleTimeout, c.rcvTimeout, c.reporterInterval, c.timeout}
    /\ \A n \in {c.rate, c.numberOfBytes} \ {nil} : Double(n) = n

\* The errors that the wrapper has of its own.
WrapperErrors == {"IEUDPONLY", "IETCPONLY", "IEIPV4ONLY", "IESERVEROUTPUTLIMIT", "IELOGFILELIMIT",
                  "IECONNECTTIMEOUT"}
ConsecutivePortsOnly(c) == cerr = "IEBADPORT" /\ c.port \in 1..65535 /\ c.clientPort \in 1..65535

\* What an option of a configuration may be set to without any effect: a zero
\* or an empty text, a block size that is not positive, and the DSCP value
\* next to the full type of service, each documented to mean nothing.
MeansNothing(c, option) ==
    \/ option = "address" /\ c.address = ""
    \/ /\ option \in {"socketBufferSize", "mss", "numberOfBytes", "timeout", "tos", "dscp"}
       /\ c[option] = 0
    \/ option = "rate" /\ c.rate = 0 /\ c.prot = "tcp"
    \/ option = "blockSize" /\ c.blockSize <= 0
    \/ option = "dscp" /\ c.tos # nil

\* A run that the wrapper starts has the settings that iperf_parse_arguments
\* gives to the command line the documentation calls its equivalent: the
\* rate of UDP, the end condition, the block size, the direction and the type
\* of service are worked out twice, in Swift and in C, with one result.  An
\* option that an accepted configuration sets is never ignored without a word:
\* it changes the settings of the test.  And a configuration that the wrapper
\* refuses with an error of the engine is refused by the parser too.
ConfigurationIsFaithful ==
    LET c == client.config
        parsed == iperf_parse_arguments(EquivalentArguments(c), Password)
    IN  /\ Configured /\ HasCommandLine(c) => parsed.error = "IENONE" /\ parsed.t = ctest
        /\ Configured =>
            \A f \in DOMAIN DefaultConfiguration \ {"role", "explicitlySet"} :
                c[f] # DefaultConfiguration[f] /\ ~MeansNothing(c, f) =>
                    Applied([c EXCEPT ![f] = DefaultConfiguration[f]]) # ctest
        /\ cpc = "refused" /\ client.kind = "swift" /\ HasCommandLine(c)
           /\ cerr \notin WrapperErrors \cup {"IENONE"} /\ ~ConsecutivePortsOnly(c) => parsed.failed

\* A run that the preflight lets start ends, when it ends, without an error, at
\* a server of the same version that asks for no authentication, unless a call
\* on its connections fails: no check of get_parameters refuses what the
\* preflight passed, and no message is taken for another.  The consecutive local ports of a
\* client that binds its streams exist and are different, in both directions
\* of a bidirectional test.
PreflightSuffices ==
    /\ cpc = "closed" /\ client.kind = "swift" /\ faults = 0 /\ ~sconfig.isAuth => cerr = "IENONE"
    /\ cpc = "running" /\ ctest.bind_port # 0 =>
        /\ \A n \in 1..Len(cstreams) : StreamPort(ctest, n) \in 1..65535
        /\ \A m, n \in 1..Len(cstreams) : m # n => StreamPort(ctest, m) # StreamPort(ctest, n)

Negotiated == {"omit", "time", "MSS", "nodelay", "parallel", "reverse",
               "bidirectional", "window", "len", "burst", "TOS", "title",
               "extra_data", "udp_counters_64bit", "zerocopy", "dont_fragment", "skip_rx_copy",
               "protocol", "gso_dg_size", "gso_bf_size"}

\* What the server has of a number n of 64 bits: the same up to 2^53, the same
\* but for one part in 2^53 above, and no more than LLONG_MAX.
Conveyed(n, m) ==
    IF n > LLONG_MAX THEN m = LLONG_MAX
    ELSE m - n \in -(n \div ExactMax)..(n \div ExactMax) /\ (n = ExactMax => m = n)

\* While a test runs both ends have the same settings of it and opposite
\* directions; the numbers of 64 bits, which travel as doubles, as far as
\* doubles go.
SettingsAgree ==
    cpc = "running" /\ spc = "end" =>
        /\ \A f \in Negotiated : stest[f] = ctest[f]
        /\ \A f \in {"num", "blockcount", "bandwidth", "fqrate"} : Conveyed(ctest[f], stest[f])
        /\ <<ctest.mode, stest.mode>> \in {<<"sender", "receiver">>, <<"receiver", "sender">>,
                                           <<"bidirectional", "bidirectional">>}

\* What iperf_reset_test leaves to the next client; the request for the server's
\* output only when no limit is set for it.
CarriedOver == {"repeating_payload", "gso", "gro", "pacing_timer"}
               \cup (IF sconfig.serverOutputByteLimit = nil THEN {"get_server_output"} ELSE {})

\* A server that has served other clients treats the next one as a new server
\* would, the settings above excepted.
FreshForEachClient ==
    spc = "end" =>
        \A f \in DOMAIN stest \ CarriedOver : stest[f] = Parameterised(Applied(sconfig), got)[f]

\* A test runs at a server that authenticates only for a client that has sent,
\* itself and with this connection, the credentials of an authorized user.
AuthorizedByOwnToken ==
    spc \in {"end", "results", "done"} /\ sconfig.isAuth =>
        /\ "authtoken" \in DOMAIN got
        /\ <<got.authtoken.user, got.authtoken.password>> \in Users[sconfig.authorizedUsers]
        /\ got.authtoken.key = sconfig.privateKey
        /\ got.authtoken.time \in -sconfig.timeSkewThreshold..sconfig.timeSkewThreshold

\* A side that waits for a state finds one: whatever was cut short before, no
\* part of another message is left in front of it.  Every variable has its type.
InStep ==
    /\ TypeOK
    /\ cpc \in {"loop", "running"} /\ down # <<>> => Head(down).of = "state"
    /\ spc \in {"end", "done"} /\ up # <<>> => Head(up).of = "state"

\* When a client has succeeded, both ends have the same account of every
\* stream: what was sent, what arrived, what was lost and retransmitted.
ResultsAgree ==
    cpc = "closed" /\ cerr = "IENONE" /\ spc \in {"done", "ended"} =>
        /\ Len(cstreams) = Len(sstreams)
        /\ ctest.mode = "bidirectional" =>
            /\ ctest.other_side_has_retransmits = stest.sender_has_retransmits
            /\ stest.other_side_has_retransmits = ctest.sender_has_retransmits
        /\ \A i \in 1..Len(cstreams) :
            LET c == cstreams[i]
                s == sstreams[i]
                sent(x) == x.bytes_sent - x.bytes_sent_omit
                source == IF c.sender THEN ctest ELSE stest
                sink == IF c.sender THEN s ELSE c
            IN  /\ c.id = s.id /\ c.sender # s.sender
                /\ sent(c) = sent(s) /\ c.bytes_received = s.bytes_received
                /\ c.jitter = s.jitter /\ c.cnt_error = s.cnt_error
                /\ c.omitted_cnt_error = s.omitted_cnt_error
                /\ c.packet_count = s.peer_packet_count /\ s.packet_count = c.peer_packet_count
                /\ c.omitted_packet_count = s.peer_omitted_packet_count
                /\ sink.stream_retrans = IF source.sender_has_retransmits = 1 THEN i ELSE -1

\* A test that has no end runs: a duration of zero, or one that is not finite,
\* and nothing to reach.
Endless == cpc = "running" /\ ~HasEnd(ctest)

\* A client that starts ends, whatever happens on its connection, and the
\* server is free for the next one (or finished, when it is one-off), unless
\* nobody stops a test that has no end (iperf_run_client).
SessionEnds ==
    ([]<>~Endless) =>
        /\ cpc = "start" ~> cpc \in {"closed", "refused"}
        /\ spc = "params" ~> spc \in {"free", "finished"}
=============================================================================
