--------------------------- MODULE Configuration ----------------------------
(***************************************************************************)
(* What a host asks for and what the engine is given: IperfConfiguration,    *)
(* the checks IperfRunner makes before a run starts, and applyConfiguration, *)
(* which turns an accepted configuration into the settings of a new test.    *)
(*                                                                         *)
(* A TimeInterval is a number of milliseconds, or inf when it is not finite  *)
(* (one whose product with 1000 is not exact, such as 1.001, may lose one);  *)
(* an option that is not given is nil; a text is empty or a name.  In the    *)
(* settings of a test a flag is 0 or 1 and a text that is not set is nil.    *)
(***************************************************************************)
EXTENDS Integers, Sequences

CONSTANTS
    nil,            \* an optional that is not set
    inf,            \* a TimeInterval that is infinite or not a number
    HasRetransmits  \* has_tcpinfo_retransmits()

\* iperf.h and iperf_api.h.
MB == 1024 * 1024
MAX_TCP_BUFFER == 512 * MB
MAX_BLOCKSIZE == MB
MIN_UDP_BLOCKSIZE == 4 + 4 + 8
MAX_UDP_BLOCKSIZE == 65535 - 8 - 20
MIN_INTERVAL == 100
MAX_INTERVAL == 60000
MAX_TIME == 86400
MAX_OMIT_TIME == 600
MAX_BURST == 1000
MAX_MSS == 32 * 1024 - 1
MAX_STREAMS == 128
UDP_RATE == MB
DURATION == 10
OMIT == 0
DEFAULT_UDP_BLKSIZE == 1460
DEFAULT_TCP_BLKSIZE == 128 * 1024
DEFAULT_PACING_TIMER == 1000
DEFAULT_NO_MSG_RCVD_TIMEOUT == 120000
MIN_NO_MSG_RCVD_TIMEOUT == 100
IPERF_OUTPUT_MAX_BYTES == 1024 * 1024
GSO_BF_MAX_SIZE == MAX_UDP_BLOCKSIZE
GRO_BF_MAX_SIZE == MAX_UDP_BLOCKSIZE
MinimumLogfileByteLimit == 23      \* iperf_log_minimum_limit()

-----------------------------------------------------------------------------
\* struct IperfConfiguration.

\* The options whose assignment is recorded, whatever the value.
Tracked == {"numStreams", "mode", "prot", "omit", "timeSkewThreshold"}

DefaultConfiguration ==
    [role |-> "client", mode |-> "upload", prot |-> "tcp", addressFamily |-> "any",
     port |-> 5201, address |-> nil, bindDevice |-> nil, numStreams |-> 1, omit |-> 0,
     rate |-> nil, blockSize |-> nil, socketBufferSize |-> nil, noDelay |-> FALSE,
     mss |-> nil, duration |-> nil, numberOfBytes |-> nil, timeout |-> nil,
     dscp |-> nil, tos |-> nil, clientPort |-> nil, udpCounters64Bit |-> FALSE,
     repeatingPayload |-> FALSE, getServerOutput |-> FALSE,
     serverOutputByteLimit |-> nil, dontFragment |-> FALSE,
     oneOff |-> FALSE, idleTimeout |-> nil, rcvTimeout |-> nil,
     reporterInterval |-> nil, logfile |-> nil, logfileByteLimit |-> nil,
     verbose |-> FALSE, jsonStream |-> FALSE, jsonStreamFullOutput |-> FALSE,
     isAuth |-> FALSE, usePkcs1Padding |-> FALSE, publicKey |-> "", username |-> "",
     password |-> "", privateKey |-> "", authorizedUsers |-> "",
     timeSkewThreshold |-> 10, explicitlySet |-> {}]

\* The assignment configuration.option = value.
Assign(c, option, value) ==
    [c EXCEPT ![option] = value, !.explicitlySet = @ \cup ({option} \cap Tracked)]

-----------------------------------------------------------------------------
\* Preflight.  A check is the sequence of errors it would report, in the order
\* of the code; the first one is returned to the host.

Check(holds, error) == IF holds THEN <<error>> ELSE <<>>

\* A finite TimeInterval of at least low and at most high milliseconds.
Within(t, low, high) == t # inf /\ low <= t /\ t <= high

Truncated(ms) == IF ms >= 0 THEN ms \div 1000 ELSE -((-ms) \div 1000)

durationSeconds(d) ==
    IF d = nil THEN nil
    ELSE IF d = inf THEN 0
    ELSE IF Truncated(d) \in 0..MAX_TIME THEN Truncated(d) ELSE nil

endConditionError(c) ==
    Check(c.duration # nil /\ c.duration # inf /\ durationSeconds(c.duration) = nil, "IEDURATION")
    \o Check(c.duration # nil /\ c.numberOfBytes # nil /\ c.numberOfBytes # 0, "IEENDCONDITIONS")

\* The UDP limits are literals in the Swift source.
blockSizeError(c) ==
    IF c.blockSize = nil \/ c.blockSize <= 0 THEN <<>>
    ELSE Check(c.blockSize > MAX_BLOCKSIZE, "IEBLOCKSIZE")
         \o Check(c.prot = "udp" /\ c.blockSize \notin 16..65507, "IEUDPBLOCKSIZE")

resolvedBlockSize(c) ==
    IF c.blockSize = nil \/ c.blockSize <= 0
    THEN IF c.prot = "tcp" THEN DEFAULT_TCP_BLKSIZE ELSE 0
    ELSE c.blockSize

clientPortError(c) ==
    IF c.clientPort = nil THEN <<>>
    ELSE LET ports == c.numStreams * (IF c.mode = "bidirectional" THEN 2 ELSE 1)
         IN  Check(c.clientPort \notin 1..65535, "IEBADPORT")
             \o Check(c.numStreams > 0 /\ ports - 1 > 65535 - c.clientPort, "IEBADPORT")

hasAuthenticationOptionForSelectedRole(c) ==
    \/ c.usePkcs1Padding
    \/ c.role = "client" /\ (c.username # "" \/ c.password # "" \/ c.publicKey # "")
    \/ c.role = "server" /\ \/ c.privateKey # "" \/ c.authorizedUsers # ""
                            \/ "timeSkewThreshold" \in c.explicitlySet

\* load_pubkey_from_base64 and load_privkey_from_base64 decode the key.
Decodable(key) == key # "" /\ key # "garbage"

authenticationError(c) ==
    LET complete == IF c.role = "client"
                    THEN c.username # "" /\ c.password # "" /\ Decodable(c.publicKey)
                    ELSE /\ Decodable(c.privateKey) /\ c.authorizedUsers # ""
                         /\ c.timeSkewThreshold > 0
        error == IF c.role = "client" THEN "IESETCLIENTAUTH" ELSE "IESETSERVERAUTH"
    IN  Check(IF c.isAuth THEN ~complete ELSE hasAuthenticationOptionForSelectedRole(c), error)

\* The limit of mss is a literal in the Swift source.
clientIntegerError(c) ==
    Check(c.numStreams \notin 1..MAX_STREAMS, "IENUMSTREAMS")
    \o Check(c.socketBufferSize # nil /\ c.socketBufferSize \notin 0..MAX_TCP_BUFFER, "IEBUFSIZE")
    \o Check(c.mss # nil /\ c.mss \notin 0..32767, "IEMSS")
    \o Check(c.tos # nil /\ c.tos \notin 0..255, "IEBADTOS")

\* Rounded up to whole seconds.
idleTimeoutSeconds(t) ==
    IF Within(t, 1, MAX_TIME * 1000) THEN (t + 999) \div 1000 ELSE nil

\* Int32.max milliseconds is the last value of the model.
connectTimeoutMilliseconds(t) == IF Within(t, 1, 2147483647) THEN t ELSE nil

timeIntervalError(c) ==
    Check(c.idleTimeout # nil /\ idleTimeoutSeconds(c.idleTimeout) = nil, "IEIDLETIMEOUT")
    \o Check(c.reporterInterval # nil /\ c.reporterInterval # 0
                /\ ~Within(c.reporterInterval, MIN_INTERVAL, MAX_INTERVAL), "IEINTERVAL")
    \o Check(c.timeout # nil /\ c.timeout # 0
                /\ connectTimeoutMilliseconds(c.timeout) = nil, "IECONNECTTIMEOUT")

roleApplicabilityError(c) ==
    IF c.role = "client"
    THEN Check(\/ c.oneOff \/ c.idleTimeout # nil
               \/ c.privateKey # "" \/ c.authorizedUsers # ""
               \/ "timeSkewThreshold" \in c.explicitlySet, "IESERVERONLY")
         \o Check(c.mode = "upload" /\ c.rcvTimeout # nil, "IERVRSONLYRCVTIMEOUT")
    ELSE Check(\/ {"numStreams", "mode", "prot", "omit"} \cap c.explicitlySet # {}
               \/ \E f \in {"rate", "duration", "numberOfBytes", "blockSize", "socketBufferSize",
                            "mss", "tos", "dscp", "timeout", "clientPort"} : c[f] # nil
               \/ \E f \in {"noDelay", "repeatingPayload", "getServerOutput", "udpCounters64Bit",
                            "dontFragment"} : c[f]
               \/ \E f \in {"username", "publicKey", "password"} : c[f] # "", "IECLIENTONLY")

protocolApplicabilityError(c) ==
    IF c.role # "client" THEN <<>>
    ELSE IF c.prot = "tcp"
    THEN Check(c.udpCounters64Bit \/ c.dontFragment, "IEUDPONLY")
    ELSE Check(c.noDelay \/ c.mss # nil, "IETCPONLY")
         \o Check(c.dontFragment /\ c.addressFamily = "ipv6", "IEIPV4ONLY")

configurationErrors(c) ==
    Check(c.serverOutputByteLimit # nil
             /\ \/ c.serverOutputByteLimit \notin 1..IPERF_OUTPUT_MAX_BYTES
                \/ c.jsonStream /\ c.jsonStreamFullOutput, "IESERVEROUTPUTLIMIT")
    \o Check(c.logfileByteLimit # nil
             /\ (c.logfileByteLimit < MinimumLogfileByteLimit \/ c.logfile = nil), "IELOGFILELIMIT")
    \o Check(c.port \notin 1..65535, "IEBADPORT")
    \o Check(c.omit \notin 0..MAX_OMIT_TIME, "IEOMIT")
    \o Check(c.rcvTimeout # nil
             /\ ~Within(c.rcvTimeout, MIN_NO_MSG_RCVD_TIMEOUT, MAX_TIME * 1000), "IERCVTIMEOUT")
    \o timeIntervalError(c) \o clientIntegerError(c) \o blockSizeError(c)
    \o clientPortError(c) \o endConditionError(c)
    \o Check(c.role = "client" /\ c.dscp # nil /\ c.dscp \notin 0..63, "IEBADDSCP")
    \o roleApplicabilityError(c) \o authenticationError(c) \o protocolApplicabilityError(c)

configurationError(c) ==
    IF configurationErrors(c) = <<>> THEN "IENONE" ELSE Head(configurationErrors(c))

Accepted(c) == configurationError(c) = "IENONE"

-----------------------------------------------------------------------------
\* struct iperf_test and struct iperf_settings.  A field that the parameter
\* exchange carries has the name it has there.

iperf_defaults ==
    [role |-> "", mode |-> "receiver", protocol |-> "tcp", sender_has_retransmits |-> 0,
     other_side_has_retransmits |-> 0, omit |-> OMIT, time |-> DURATION, num |-> 0, blockcount |-> 0, MSS |-> 0,
     nodelay |-> 0, parallel |-> 1, reverse |-> 0, bidirectional |-> 0, window |-> 0,
     len |-> DEFAULT_TCP_BLKSIZE, bandwidth |-> 0, fqrate |-> 0,
     pacing_timer |-> DEFAULT_PACING_TIMER, burst |-> 0, gso |-> 0, gso_dg_size |-> 0,
     gso_bf_size |-> GSO_BF_MAX_SIZE, gro |-> 0, gro_bf_size |-> GRO_BF_MAX_SIZE,
     TOS |-> 0, title |-> nil, extra_data |-> nil, congestion |-> nil, congestion_used |-> nil,
     get_server_output |-> 0, udp_counters_64bit |-> 0, repeating_payload |-> 0,
     zerocopy |-> 0, dont_fragment |-> 0, authtoken |-> nil, skip_rx_copy |-> 0,
     server_affinity |-> -1,
     server_port |-> 5201, domain |-> "any", reporter_interval |-> 1000,
     stats_interval |-> 1000, logfile |-> nil, logfile_limit |-> 0, verbose |-> 0,
     json_output |-> 0, json_stream |-> 0, json_stream_full_output |-> 0,
     server_output_byte_limit |-> 0, rcv_timeout |-> DEFAULT_NO_MSG_RCVD_TIMEOUT,
     bind_address |-> nil, bind_dev |-> nil, bind_port |-> 0, one_off |-> 0,
     idle_timeout |-> 0, server_hostname |-> nil, connect_timeout |-> -1,
     server_rsa_private_key |-> nil, server_authorized_users |-> nil,
     server_skew_threshold |-> 0, client_username |-> nil, client_password |-> nil,
     client_rsa_pubkey |-> nil, use_pkcs1_padding |-> 0, diskfile_name |-> nil,
     max_server_duration |-> 0, bitrate_limit |-> 0]

check_sender_has_retransmits(t) ==
    [t EXCEPT !.sender_has_retransmits =
        IF t.mode # "receiver" /\ t.protocol = "tcp" /\ HasRetransmits THEN 1 ELSE 0]

\* The direction in which a role moves data when reverse is as given.
DirectionOf(role, reverse) ==
    IF (role = "c") = (reverse = 0) THEN "sender" ELSE "receiver"

iperf_set_test_role(t, role) ==
    check_sender_has_retransmits(
        [t EXCEPT !.role = role,
                  !.mode = IF t.reverse = 0 /\ t.bidirectional # 0 THEN "bidirectional"
                           ELSE DirectionOf(role, t.reverse)])

iperf_set_test_reverse(t, reverse) ==
    check_sender_has_retransmits(
        [t EXCEPT !.reverse = reverse,
                  !.mode = IF t.role = "" THEN @ ELSE DirectionOf(t.role, reverse)])

\* The retransmit flag keeps its value when the test becomes bidirectional.
iperf_set_test_bidirectional(t, bidirectional) ==
    IF bidirectional # 0
    THEN [t EXCEPT !.bidirectional = bidirectional, !.mode = "bidirectional"]
    ELSE iperf_set_test_reverse([t EXCEPT !.bidirectional = 0], t.reverse)

set_protocol(t, prot) == check_sender_has_retransmits([t EXCEPT !.protocol = prot])

iperf_set_test_dscp(t, dscp) == [t EXCEPT !.TOS = dscp * 4]

-----------------------------------------------------------------------------
\* applyConfiguration, in the order of the code.

\* A setter is called with an option only when the option is given.
Given(option, default) == IF option = nil THEN default ELSE option

Flag(b) == IF b THEN 1 ELSE 0

applyCommon(c, t) ==
    [iperf_set_test_role(t, IF c.role = "client" THEN "c" ELSE "s") EXCEPT
        !.server_port = c.port,
        !.domain = c.addressFamily,
        !.reporter_interval = Given(c.reporterInterval, @),
        !.stats_interval = Given(c.reporterInterval, @),
        !.omit = IF c.omit > 0 THEN c.omit ELSE @,
        !.logfile = c.logfile,
        !.logfile_limit = IF c.logfile = nil THEN @ ELSE Given(c.logfileByteLimit, 0),
        !.verbose = Flag(c.verbose),
        !.json_output = Flag(c.jsonStream),
        !.json_stream = Flag(c.jsonStream),
        !.json_stream_full_output = Flag(c.jsonStreamFullOutput),
        !.server_output_byte_limit = Given(c.serverOutputByteLimit, @),
        !.rcv_timeout = Given(c.rcvTimeout, @)]

applyServer(c, t) ==
    [t EXCEPT !.bind_address = IF c.address = "" THEN nil ELSE c.address,
              !.bind_dev = c.bindDevice,
              !.one_off = Flag(c.oneOff),
              !.idle_timeout = IF c.idleTimeout = nil THEN @
                               ELSE Given(idleTimeoutSeconds(c.idleTimeout), @),
              !.server_rsa_private_key = IF c.isAuth THEN c.privateKey ELSE @,
              !.server_authorized_users = IF c.isAuth THEN c.authorizedUsers ELSE @,
              !.server_skew_threshold = IF c.isAuth THEN c.timeSkewThreshold ELSE @,
              !.use_pkcs1_padding = IF c.isAuth THEN Flag(c.usePkcs1Padding) ELSE @]

\* Protocol, then direction.
applyDirection(c, t) ==
    LET p == set_protocol(t, c.prot)
    IN  CASE c.mode = "upload" -> iperf_set_test_reverse(iperf_set_test_bidirectional(p, 0), 0)
          [] c.mode = "download" -> iperf_set_test_reverse(iperf_set_test_bidirectional(p, 0), 1)
          [] OTHER -> iperf_set_test_bidirectional(iperf_set_test_reverse(p, 0), 1)

\* Mutant: a byte count leaves the default duration in place.
applyEndConditionKeepsTime(c, t) ==
    [t EXCEPT !.time = IF durationSeconds(c.duration) # nil THEN durationSeconds(c.duration) ELSE @,
              !.num = Given(c.numberOfBytes, @)]

\* A byte count without a duration removes the default duration.
applyEndCondition(c, t) ==
    [t EXCEPT !.time = IF durationSeconds(c.duration) # nil THEN durationSeconds(c.duration)
                       ELSE IF c.numberOfBytes # nil /\ c.numberOfBytes # 0 THEN 0
                       ELSE @,
              !.num = Given(c.numberOfBytes, @)]

\* tos after dscp: both write the same field.
applyTos(c, t) ==
    LET d == IF c.dscp = nil THEN t ELSE iperf_set_test_dscp(t, c.dscp)
    IN  [d EXCEPT !.TOS = Given(c.tos, @)]

applyClient(c, t) ==
    [applyTos(c, applyEndCondition(c, applyDirection(c, t))) EXCEPT
        !.parallel = c.numStreams,
        !.len = resolvedBlockSize(c),
        !.bandwidth = IF c.rate # nil THEN c.rate ELSE IF c.prot = "udp" THEN UDP_RATE ELSE @,
        !.window = Given(c.socketBufferSize, @),
        !.nodelay = Flag(c.noDelay),
        !.MSS = Given(c.mss, @),
        !.server_hostname = IF c.address = "" THEN nil ELSE c.address,
        !.bind_dev = c.bindDevice,
        !.connect_timeout = IF c.timeout = nil THEN @
                            ELSE Given(connectTimeoutMilliseconds(c.timeout), @),
        !.bind_port = Given(c.clientPort, @),
        !.udp_counters_64bit = Flag(c.udpCounters64Bit),
        !.repeating_payload = Flag(c.repeatingPayload),
        !.get_server_output = Flag(c.getServerOutput),
        !.dont_fragment = Flag(c.dontFragment),
        !.client_rsa_pubkey = IF c.isAuth THEN c.publicKey ELSE @,
        !.client_username = IF c.isAuth THEN c.username ELSE @,
        !.client_password = IF c.isAuth THEN c.password ELSE @,
        !.use_pkcs1_padding = IF c.isAuth THEN Flag(c.usePkcs1Padding) ELSE @]

\* The settings of a new test after applyConfiguration.
Applied(c) ==
    LET t == applyCommon(c, iperf_defaults)
    IN  IF c.role = "client" THEN applyClient(c, t) ELSE applyServer(c, t)
=============================================================================
