---------------------------- MODULE CommandLine -----------------------------
(***************************************************************************)
(* The engine's own front end: iperf_parse_arguments, which turns a command  *)
(* line into the settings of a test.  IperfConfiguration names a command     *)
(* line option as the equivalent of nearly every one of its own, and the     *)
(* wrapper bypasses this parser, so what it does after the last option       *)
(* (defaults that depend on the transport, the end conditions, the checks of *)
(* roles) has to be done again in Swift.                                     *)
(*                                                                         *)
(* An argument is a pair of an option and its value: a number, a name, or    *)
(* nil for a text that is not a number.  Options that choose a format, a     *)
(* debug level or a process id file are left out.                            *)
(***************************************************************************)
EXTENDS Configuration, FiniteSets, SequencesExt

CONSTANTS
    ExactMax,   \* integers up to here are exact as a double (2^53)
    LLONG_MAX   \* the largest signed number of 64 bits (2^63 - 1)

INT_MAX == 2147483647

\* Options with a number: option, field, smallest, largest, error.
NumberOptions == {
    <<"port", "server_port", 1, 65535, "IEBADPORT">>,
    <<"time", "time", 0, MAX_TIME, "IEDURATION">>,
    <<"bytes", "num", 0, INT_MAX, "IENONE">>,
    <<"blockcount", "blockcount", 0, INT_MAX, "IENONE">>,
    <<"parallel", "parallel", 1, MAX_STREAMS, "IENUMSTREAMS">>,
    <<"window", "window", 0, MAX_TCP_BUFFER, "IEBUFSIZE">>,
    <<"cport", "bind_port", 1, 65535, "IEBADPORT">>,
    <<"set-mss", "MSS", 0, MAX_MSS, "IEMSS">>,
    <<"tos", "TOS", 0, 255, "IEBADTOS">>,
    <<"omit", "omit", 0, MAX_OMIT_TIME, "IEOMIT">>,
    <<"idle-timeout", "idle_timeout", 1, MAX_TIME, "IEIDLETIMEOUT">>,
    <<"server-max-duration", "max_server_duration", 0, MAX_TIME, "IEDURATION">>,
    <<"rcv-timeout", "rcv_timeout", MIN_NO_MSG_RCVD_TIMEOUT, MAX_TIME * 1000, "IERCVTIMEOUT">>,
    <<"time-skew-threshold", "server_skew_threshold", 1, INT_MAX, "IESKEWTHRESHOLD">>,
    <<"pacing-timer", "pacing_timer", 0, INT_MAX, "IENONE">>,
    <<"connect-timeout", "connect_timeout", 0, INT_MAX, "IENONE">>,
    <<"bitrate", "bandwidth", 0, INT_MAX, "IENONE">>,
    <<"server-bitrate-limit", "bitrate_limit", 0, INT_MAX, "IENONE">> }

\* Options without a value that set a field to one.
FlagOptions == {
    <<"one-off", "one_off">>, <<"verbose", "verbose">>, <<"json", "json_output">>,
    <<"json-stream-full-output", "json_stream_full_output">>, <<"no-delay", "nodelay">>,
    <<"zerocopy", "zerocopy">>, <<"repeating-payload", "repeating_payload">>,
    <<"get-server-output", "get_server_output">>, <<"skip-rx-copy", "skip_rx_copy">>,
    <<"udp-counters-64bit", "udp_counters_64bit">>, <<"dont-fragment", "dont_fragment">>,
    <<"use-pkcs1-padding", "use_pkcs1_padding">> }

\* Options whose value is kept as it is.
NameOptions == {
    <<"bind", "bind_address">>, <<"bind-dev", "bind_dev">>, <<"logfile", "logfile">>,
    <<"title", "title">>, <<"extra-data", "extra_data">>,
    <<"authorized-users-path", "server_authorized_users">> }

\* Numbers read by unit_atoi, unit_atof and unit_atof_rate; the others are
\* read by atoi, which makes zero of what is not a number.
UnitOptions == {"bytes", "blockcount", "length", "window", "pacing-timer", "connect-timeout",
                "bitrate", "server-bitrate-limit"}

\* The double nearest to an unsigned number of 64 bits: above ExactMax the doubles are
\* as far apart as the smallest power of two above n / ExactMax, and a tie goes to the
\* even significand.
Spacing(n) == Min({k \in {2^i : i \in 0..11} : k > (n - 1) \div ExactMax})
Double(n) ==
    LET k == Spacing(n)
        low == n - (n % k)
        up == 2 * (n % k) > k \/ (2 * (n % k) = k /\ (low \div k) % 2 = 1)
    IN  IF up THEN low + k ELSE low

\* The fields that may be above ExactMax.
Wide == {"num", "blockcount", "bandwidth", "fqrate", "bitrate_limit"}

\* unit_atoi and unit_atof_rate read a double.
unit_atoi(field, n) == IF field \in Wide THEN Double(n) ELSE n

\* Options of other builds of the engine.
Unsupported == {"sctp", "nstreams", "affinity", "congestion", "flowlabel", "fq-rate",
                "no-fq-socket-pacing"}

\* The options that raise server_flag and client_flag.
ServerOptions == {"daemon", "one-off", "server-bitrate-limit", "idle-timeout",
                  "server-max-duration", "rsa-private-key-path", "time-skew-threshold",
                  "use-pkcs1-padding"}
ClientOptions == {"udp", "bitrate", "bitrate/burst", "time", "bytes", "blockcount", "length",
                  "parallel", "reverse", "bidir", "window", "set-mss", "no-delay", "tos", "dscp",
                  "extra-data", "zerocopy", "repeating-payload", "omit", "title",
                  "get-server-output", "udp-counters-64bit", "dont-fragment", "username",
                  "rsa-public-key-path", "skip-rx-copy", "pacing-timer", "connect-timeout"}

-----------------------------------------------------------------------------
\* The state of the parser: the test, the first error, the options met so far
\* (from which every ..._flag follows), and the values kept in local variables.
Parser(t) == [t |-> t, error |-> "IENONE", failed |-> FALSE, met |-> {}, blksize |-> 0,
              username |-> nil, pubkey |-> nil, privkey |-> nil]

Fail(p, error) == [p EXCEPT !.error = error, !.failed = TRUE]

parse_qos(value) == IF value # nil /\ value \in 0..63 THEN value * 4 ELSE -1

\* A number that the option's range admits is stored, any other is an error.
ParseNumber(p, option, value) ==
    LET row == CHOOSE n \in NumberOptions : n[1] = option
        number == IF value = nil THEN 0 ELSE value
    IN  IF value = nil /\ option \in UnitOptions THEN Fail(p, "IEUNITVAL")
        ELSE IF value = nil /\ option = "tos" THEN Fail(p, row[5])
        ELSE IF number \notin row[3]..row[4] THEN Fail(p, row[5])
        ELSE [p EXCEPT !.t[row[2]] = unit_atoi(row[2], number)]

\* The statistics are sampled at the reporting interval.
ParseInterval(p, value) ==
    IF value # 0 /\ ~Within(value, MIN_INTERVAL, MAX_INTERVAL) THEN Fail(p, "IEINTERVAL")
    ELSE [p EXCEPT !.t.reporter_interval = value, !.t.stats_interval = value]

ParseRole(p, role) ==
    IF p.t.role \notin {"", role} THEN Fail(p, "IESERVCLIENT")
    ELSE [p EXCEPT !.t = iperf_set_test_role(@, role)]

\* --reverse and --bidir exclude each other.
ParseDirection(p, option) ==
    IF option = "reverse"
    THEN IF p.t.bidirectional # 0 THEN Fail(p, "IEREVERSEBIDIR")
         ELSE [p EXCEPT !.t = iperf_set_test_reverse(@, 1)]
    ELSE IF p.t.reverse # 0 THEN Fail(p, "IEREVERSEBIDIR")
         ELSE [p EXCEPT !.t = iperf_set_test_bidirectional(@, 1)]

\* -b rate/burst: the burst is read first.
ParseBurst(p, rate, burst) ==
    IF burst \notin 1..MAX_BURST THEN Fail(p, "IEBURST")
    ELSE ParseNumber([p EXCEPT !.t.burst = burst], "bitrate", rate)

\* One turn of the getopt_long loop.
ParseOption(p, option, value) ==
    CASE option \in {n[1] : n \in NumberOptions} -> ParseNumber(p, option, value)
      [] option \in {f[1] : f \in FlagOptions} ->
            [p EXCEPT !.t[(CHOOSE f \in FlagOptions : f[1] = option)[2]] = 1]
      [] option \in {f[1] : f \in NameOptions} ->
            [p EXCEPT !.t[(CHOOSE f \in NameOptions : f[1] = option)[2]] = value]
      [] option \in Unsupported -> Fail(p, "IEUNIMP")
      [] option = "interval" -> ParseInterval(p, value)
      [] option = "bitrate/burst" -> ParseBurst(p, value[1], value[2])
      [] option = "length" -> IF value = nil THEN Fail(p, "IEUNITVAL")
                              ELSE [p EXCEPT !.blksize = value]
      [] option = "dscp" -> IF parse_qos(value) < 0 THEN Fail(p, "IEBADDSCP")
                            ELSE [p EXCEPT !.t.TOS = parse_qos(value)]
      [] option = "server" -> ParseRole(p, "s")
      [] option = "client" -> [ParseRole(p, "c") EXCEPT !.t.server_hostname = value]
      [] option = "udp" -> [p EXCEPT !.t = set_protocol(@, "udp")]
      [] option \in {"reverse", "bidir"} -> ParseDirection(p, option)
      [] option = "version4" -> [p EXCEPT !.t.domain = "ipv4"]
      [] option = "version6" -> [p EXCEPT !.t.domain = "ipv6"]
      [] option = "json-stream" -> [p EXCEPT !.t.json_output = 1, !.t.json_stream = 1]
      [] option = "gsro" -> [p EXCEPT !.t.gso = 1, !.t.gro = 1]
      [] option = "file" -> [p EXCEPT !.t.diskfile_name = value]
      [] option = "username" -> [p EXCEPT !.username = value]
      [] option = "rsa-public-key-path" -> [p EXCEPT !.pubkey = value]
      [] option = "rsa-private-key-path" -> [p EXCEPT !.privkey = value]
      [] OTHER -> p

Turn(p, argument) ==
    IF p.failed THEN p
    ELSE [ParseOption(p, argument[1], argument[2]) EXCEPT !.met = @ \cup {argument[1]}]

-----------------------------------------------------------------------------
\* After the last option.

roleErrors(p) ==
    Check(p.t.role = "c" /\ p.met \cap ServerOptions # {}, "IESERVERONLY")
    \o Check(p.t.role = "s" /\ p.met \cap (ClientOptions \cup {"gsro"}) # {}, "IECLIENTONLY")

\* password is IPERF3_PASSWORD, or what is typed; nil when there is none.  A
\* users file that cannot be opened is taken for the users themselves unless
\* it has neither a comma nor a newline ("missing").
authErrors(p, password) ==
    LET client == p.t.role = "c"
        server == p.t.role = "s"
        users == p.t.server_authorized_users
    IN  Check(client /\ (p.username = nil) # (p.pubkey = nil), "IESETCLIENTAUTH")
        \o Check(client /\ p.username # nil /\ (~Decodable(p.pubkey) \/ password = nil),
                 "IESETCLIENTAUTH")
        \o Check(client /\ (p.privkey # nil \/ users # nil \/ p.t.server_skew_threshold # 0),
                 "IESERVERONLY")
        \o Check(client /\ "rcv-timeout" \in p.met /\ p.t.mode = "sender", "IERVRSONLYRCVTIMEOUT")
        \o Check(server /\ (p.privkey = nil) # (users = nil), "IESETSERVERAUTH")
        \o Check(server /\ users = "missing", "IESERVERAUTHUSERS")
        \o Check(server /\ p.privkey # nil /\ ~Decodable(p.privkey), "IESETSERVERAUTH")

\* A length of zero is the default of the transport; UDP leaves it at zero, to
\* be taken from the control connection's segment size.
parsedBlksize(p) ==
    IF p.blksize = 0 /\ p.t.protocol # "udp" THEN DEFAULT_TCP_BLKSIZE ELSE p.blksize

blksizeErrors(p) ==
    Check(p.t.diskfile_name # nil /\ p.t.protocol = "udp", "IEUDPFILETRANSFER")
    \o Check(parsedBlksize(p) > MAX_BLOCKSIZE, "IEBLOCKSIZE")
    \o Check(/\ p.t.protocol = "udp" /\ parsedBlksize(p) > 0
             /\ parsedBlksize(p) \notin MIN_UDP_BLOCKSIZE..MAX_UDP_BLOCKSIZE, "IEUDPBLOCKSIZE")

\* Segmentation offload sends a buffer that is a whole number of datagrams.
GsoSized(t, blksize) ==
    IF t.protocol # "udp" \/ t.gso = 0 THEN t
    ELSE IF blksize > 0
    THEN [t EXCEPT !.gso_dg_size = blksize, !.gso_bf_size = (@ \div blksize) * blksize]
    ELSE [t EXCEPT !.gso_dg_size = DEFAULT_UDP_BLKSIZE]

\* A file is represented by its size; the size is the byte count when no other
\* end condition is given.
parsedBytes(p) ==
    IF /\ p.t.num = 0 /\ p.t.blockcount = 0 /\ "time" \notin p.met
       /\ p.t.diskfile_name # nil /\ p.t.role = "c"
    THEN p.t.diskfile_name ELSE p.t.num

endConditionErrors(p) ==
    Check(Cardinality({x \in {"time"} : x \in p.met}
                      \cup {x \in {"num"} : parsedBytes(p) # 0}
                      \cup {x \in {"blockcount"} : p.t.blockcount # 0}) > 1, "IEENDCONDITIONS")

Finished(p, password) ==
    LET errors == roleErrors(p) \o authErrors(p, password) \o blksizeErrors(p)
                  \o endConditionErrors(p) \o Check(p.t.role = "", "IENOROLE")
    IN  IF errors # <<>> THEN Fail(p, Head(errors))
        ELSE [p EXCEPT !.t =
               [GsoSized(@, parsedBlksize(p)) EXCEPT
                  !.len = parsedBlksize(p),
                  !.bandwidth = IF p.met \cap {"bitrate", "bitrate/burst"} # {} THEN @
                                ELSE IF p.t.protocol = "udp" THEN UDP_RATE ELSE 0,
                  !.num = parsedBytes(p),
                  !.time = IF /\ parsedBytes(p) # 0 \/ p.t.blockcount # 0
                              /\ "time" \notin p.met THEN 0 ELSE @,
                  !.client_username = p.username,
                  !.client_password = IF p.username = nil THEN @ ELSE password,
                  !.client_rsa_pubkey = p.pubkey,
                  !.server_rsa_private_key = p.privkey,
                  !.server_skew_threshold = IF p.privkey # nil /\ @ = 0 THEN 10 ELSE @]]

iperf_parse_arguments(arguments, password) ==
    LET p == FoldLeft(Turn, Parser(iperf_defaults), arguments)
    IN  IF p.failed THEN p ELSE Finished(p, password)

-----------------------------------------------------------------------------
\* The command line that IperfConfiguration's documentation gives as the
\* equivalent of a configuration.

Arg(given, option, value) == IF given THEN << <<option, value>> >> ELSE <<>>
Opt(value, option) == Arg(value # nil, option, value)

EquivalentArguments(c) ==
    (IF c.role = "client" THEN << <<"client", c.address>> >>
     ELSE << <<"server", nil>> >> \o Arg(c.address # nil /\ c.address # "", "bind", c.address))
    \o Arg(TRUE, "port", c.port)
    \o Arg(c.addressFamily = "ipv4", "version4", nil) \o Arg(c.addressFamily = "ipv6", "version6", nil)
    \o Arg(c.prot = "udp", "udp", nil)
    \o Arg(c.mode = "download", "reverse", nil) \o Arg(c.mode = "bidirectional", "bidir", nil)
    \o Arg("numStreams" \in c.explicitlySet, "parallel", c.numStreams)
    \o Arg("omit" \in c.explicitlySet, "omit", c.omit)
    \o Opt(c.bindDevice, "bind-dev") \o Opt(c.rate, "bitrate") \o Opt(c.blockSize, "length")
    \o Opt(c.socketBufferSize, "window") \o Arg(c.noDelay, "no-delay", nil) \o Opt(c.mss, "set-mss")
    \o Arg(c.duration # nil, "time", IF c.duration = inf THEN nil ELSE Truncated(c.duration))
    \o Opt(c.numberOfBytes, "bytes") \o Opt(c.timeout, "connect-timeout")
    \o Opt(c.dscp, "dscp") \o Opt(c.tos, "tos") \o Opt(c.clientPort, "cport")
    \o Arg(c.udpCounters64Bit, "udp-counters-64bit", nil)
    \o Arg(c.repeatingPayload, "repeating-payload", nil)
    \o Arg(c.getServerOutput, "get-server-output", nil)
    \o Arg(c.dontFragment, "dont-fragment", nil) \o Arg(c.oneOff, "one-off", nil)
    \o Arg(c.idleTimeout # nil, "idle-timeout", Truncated(c.idleTimeout))
    \o Opt(c.rcvTimeout, "rcv-timeout") \o Opt(c.reporterInterval, "interval")
    \o Opt(c.logfile, "logfile") \o Arg(c.verbose, "verbose", nil)
    \o Arg(c.jsonStream, "json-stream", nil)
    \o Arg(c.jsonStreamFullOutput, "json-stream-full-output", nil)
    \o Arg(c.username # "", "username", c.username)
    \o Arg(c.publicKey # "", "rsa-public-key-path", c.publicKey)
    \o Arg(c.privateKey # "", "rsa-private-key-path", c.privateKey)
    \o Arg(c.authorizedUsers # "", "authorized-users-path", c.authorizedUsers)
    \o Arg("timeSkewThreshold" \in c.explicitlySet, "time-skew-threshold", c.timeSkewThreshold)
    \o Arg(c.usePkcs1Padding, "use-pkcs1-padding", nil)
=============================================================================
