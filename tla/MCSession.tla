----------------------------- MODULE MCSession ------------------------------
EXTENDS Session

\* Values at and next to every limit of every option, each a pair of the option
\* and the value.
Boundary == {
    <<"mode", "download">>, <<"mode", "bidirectional">>, <<"prot", "udp">>,
    <<"addressFamily", "ipv6">>, <<"port", 0>>, <<"port", 65535>>, <<"port", 65536>>,
    <<"address", "">>, <<"address", nil>>, <<"bindDevice", "en0">>,
    <<"numStreams", 0>>, <<"numStreams", 2>>, <<"numStreams", 128>>, <<"numStreams", 129>>,
    <<"omit", -1>>, <<"omit", 600>>, <<"omit", 601>>, <<"rate", 0>>, <<"rate", 5000>>,
    <<"rate", ExactMax + 1>>, <<"rate", LLONG_MAX + 2>>,
    <<"blockSize", -1>>, <<"blockSize", 0>>, <<"blockSize", 15>>, <<"blockSize", 16>>,
    <<"blockSize", 65507>>, <<"blockSize", 65508>>, <<"blockSize", MB>>, <<"blockSize", MB + 1>>,
    <<"socketBufferSize", -1>>, <<"socketBufferSize", 0>>, <<"socketBufferSize", MAX_TCP_BUFFER>>,
    <<"socketBufferSize", MAX_TCP_BUFFER + 1>>, <<"noDelay", TRUE>>,
    <<"mss", -1>>, <<"mss", 0>>, <<"mss", 32767>>, <<"mss", 32768>>,
    <<"duration", -1000>>, <<"duration", -500>>, <<"duration", 0>>, <<"duration", 1500>>,
    <<"duration", 86400999>>, <<"duration", 86401000>>, <<"duration", inf>>,
    <<"numberOfBytes", 0>>, <<"numberOfBytes", 1000>>, <<"numberOfBytes", 40 * ExactMax + 45>>,
    <<"numberOfBytes", LLONG_MAX>>,
    <<"timeout", 0>>, <<"timeout", 1>>, <<"timeout", -1>>, <<"timeout", inf>>,
    <<"dscp", -1>>, <<"dscp", 0>>, <<"dscp", 63>>, <<"dscp", 64>>,
    <<"tos", -1>>, <<"tos", 0>>, <<"tos", 255>>, <<"tos", 256>>,
    <<"clientPort", 0>>, <<"clientPort", 1>>, <<"clientPort", 65408>>, <<"clientPort", 65535>>,
    <<"udpCounters64Bit", TRUE>>, <<"repeatingPayload", TRUE>>, <<"getServerOutput", TRUE>>,
    <<"dontFragment", TRUE>>, <<"serverOutputByteLimit", 0>>, <<"serverOutputByteLimit", MB>>,
    <<"serverOutputByteLimit", MB + 1>>, <<"oneOff", TRUE>>, <<"idleTimeout", 0>>,
    <<"idleTimeout", 1>>, <<"idleTimeout", 2000>>, <<"idleTimeout", 86400000>>,
    <<"idleTimeout", 86400001>>, <<"rcvTimeout", 99>>, <<"rcvTimeout", 100>>,
    <<"rcvTimeout", 86400000>>, <<"rcvTimeout", 86400001>>, <<"reporterInterval", 0>>,
    <<"reporterInterval", 99>>, <<"reporterInterval", 100>>, <<"reporterInterval", 60000>>,
    <<"reporterInterval", 60001>>, <<"reporterInterval", inf>>, <<"logfile", "log">>,
    <<"logfileByteLimit", 22>>, <<"logfileByteLimit", 23>>, <<"verbose", TRUE>>,
    <<"jsonStream", TRUE>>, <<"jsonStreamFullOutput", TRUE>>, <<"isAuth", TRUE>>,
    <<"usePkcs1Padding", TRUE>>, <<"publicKey", "pair">>, <<"publicKey", "garbage">>,
    <<"username", "bob">>, <<"username", "">>, <<"password", "">>, <<"privateKey", "pair">>,
    <<"privateKey", "garbage">>, <<"authorizedUsers", "staff">>, <<"timeSkewThreshold", 0>>,
    <<"timeSkewThreshold", 10>>, <<"timeSkewThreshold", 5>> }

RECURSIVE With(_, _)
With(c, assignments) ==
    IF assignments = <<>> THEN c
    ELSE With(Assign(c, assignments[1][1], assignments[1][2]), Tail(assignments))

Client == With(DefaultConfiguration, << <<"address", "host">> >>)
Server == With(DefaultConfiguration, << <<"role", "server">> >>)
ClientAuth == With(Client, << <<"isAuth", TRUE>>, <<"username", "alice">>, <<"password", "pw">>,
                              <<"publicKey", "pair">> >>)
ServerAuth == With(Server, << <<"isAuth", TRUE>>, <<"privateKey", "pair">>,
                              <<"authorizedUsers", "staff">> >>)

MCServerConfigs == {Server, ServerAuth,
                    With(Server, << <<"serverOutputByteLimit", 1000>> >>),
                    With(Server, << <<"oneOff", TRUE>> >>)}

\* Two clients that a server serves one after the other.
Plain == With(Client, << <<"mss", 1000>>, <<"noDelay", TRUE>>, <<"getServerOutput", TRUE>> >>)
Both == With(ClientAuth, << <<"mode", "bidirectional">>, <<"numStreams", 2>>, <<"omit", 1>> >>)

\* Every pair of assignments to a client, and every one to the others.
MCConfigs ==
    {With(Client, <<a, b>>) : a, b \in Boundary}
    \cup {With(c, <<a>>) : c \in {Server, ClientAuth, ServerAuth}, a \in Boundary}
    \cup {With(ClientAuth, << <<"username", "two words">> >>), Plain, Both}

Burst == << <<"client", "host">>, <<"udp", nil>>, <<"bitrate/burst", <<5000, 10>> >>,
            <<"gsro", nil>>, <<"title", "t">>, <<"zerocopy", nil>>, <<"reverse", nil>> >>
Blocks == << <<"client", "host">>, <<"blockcount", 7>>, <<"extra-data", "x">>, <<"skip-rx-copy", nil>>,
             <<"pacing-timer", 500>>, <<"bidir", nil>> >>
MCCommandLines == {Burst, Blocks}

Swift(c) == [kind |-> "swift", config |-> c, args |-> <<>>]
Cli(args) == [kind |-> "cli", config |-> DefaultConfiguration, args |-> args]

MCLater == {Swift(Plain), Swift(Both), Cli(Burst), Cli(Blocks)}
MCFaulty == {Swift(Plain), Swift(Both)}
MCUsers == [staff |-> {<<"alice", "pw">>, <<"two words", "pw">>}]
MCSkews == {-10, 11}
=============================================================================
