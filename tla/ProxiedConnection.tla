-------------------------- MODULE ProxiedConnection --------------------------
(***************************************************************************)
(* One connection of an application from end to end: the front end that    *)
(* accepts it (Socks5), its InboundConnection and biRelay on the client    *)
(* (InboundConnection), and its OutboundConnection on the server, which    *)
(* this module extends, so that a name without "client" is the server's.   *)
(*                                                                         *)
(* In between, each direction is the ordered stream that BlockProcessor    *)
(* makes of a transport, or the end of the connection when it gives up on  *)
(* a hole (Killed): what one side puts on its sendQueue is coming or       *)
(* incoming to the other side.                                             *)
(***************************************************************************)
EXTENDS OutboundConnection, FiniteSets

CONSTANTS
    Bytes,              \* Bytes[k]: bytes in the first k data blocks
    BufSizes, OrderedRecvQueueSize, MaxWrites,
    Faults              \* bound: the faults of which a behaviour has one kind

ASSUME ClientAssumption ==
    /\ Bytes \in [0 .. TargetData -> Nat] /\ Bytes[0] = 0
    /\ \A j, k \in 0 .. TargetData : j < k => Bytes[j] < Bytes[k]
    /\ BufSizes \subseteq Nat \ {0}
    /\ OrderedRecvQueueSize \in Nat \ {0}
    /\ MaxWrites \in Nat
    /\ Faults \subseteq {"application", "client hole", "server hole"}

VARIABLES
    fault,              \* the kind of fault this behaviour may have
    stage, requireAuth, proven, reply, target,
    incoming, pushed, clientOrderedRecvQueue, queueClosed, clientCtxDone,
    readCtx, dataBuffer, clientClosed, read, waits, want, got, out, writer,
    writes, closing

Front == INSTANCE Socks5

Client == INSTANCE InboundConnection WITH
    Incoming <- <<>>,
    orderedRecvQueue <- clientOrderedRecvQueue,
    ctxDone <- clientCtxDone,
    closed <- clientClosed,
    sendQueue <- coming

frontVars == <<stage, requireAuth, proven, reply, target, fault>>
clientSide ==
    <<pushed, clientOrderedRecvQueue, queueClosed, clientCtxDone, readCtx,
      dataBuffer, clientClosed, read, waits, want, got, out, writer, writes,
      closing>>
serverSide ==
    <<orderedRecvQueue, targetVars, flagVars, relayVars, sendQueue>>
proxyVars == <<frontVars, clientSide, incoming, serverSide, coming>>

ProxyInit ==
    /\ Init
    /\ Front!Init
    /\ Client!Init
    /\ fault \in Faults

-----------------------------------------------------------------------------
\* Data blocks among the first i blocks of a sendQueue of the server, and the
\* length of its i-th block; a Disconnect, whose type is ShutdownBoth, counts
\* as an empty block.
DataBlocks(q, i) == Cardinality({j \in 1 .. i : q[j] = "data"})
BlockLength(q, i) == Bytes[DataBlocks(q, i)] - Bytes[DataBlocks(q, i - 1)]

\* What the server has put on its sendQueue is coming to the client.
ToClient ==
    incoming' = incoming \o [i \in 1 .. Len(sendQueue') - Len(sendQueue) |->
                               BlockLength(sendQueue', Len(sendQueue) + i)]

\* The application and the front end.
Negotiate ==
    /\ Front!Negotiate
    /\ UNCHANGED fault
    /\ UNCHANGED <<clientSide, incoming, serverSide, coming>>

\* Dial adds the connection to the pool and sends Connect; biRelay starts.
ClientDials ==
    /\ Front!Dial
    /\ coming' = Append(coming, "Connect")
    /\ UNCHANGED <<clientSide, incoming, serverSide, fault>>

\* What goes with a step of biRelay or of OrderedRelay at the client, and with
\* one of the server's goroutines.
OnClient == stage = "relay" /\ UNCHANGED <<frontVars, serverSide>>
OnServer == ToClient /\ UNCHANGED <<frontVars, clientSide>>

\* The dial succeeds only for an address that can be dialed.
DialsAddress ==
    HalfOpenConn = "nil" /\ HalfOpenConn' # "nil" => Front!Dialable

Fault ==
    \/ /\ fault = "application"
       /\ \E c \in Client!Relays : Client!AppFails(c)
       /\ OnClient
    \/ fault = "client hole" /\ Client!Killed /\ OnClient
    \/ fault = "server hole" /\ Killed /\ OnServer

ProxyNext ==
    \/ Negotiate
    \/ ClientDials
    \/ Client!Step /\ OnClient
    \/ Step /\ DialsAddress /\ OnServer
    \/ Fault

ProxySpec == ProxyInit /\ [][ProxyNext]_proxyVars

\* The application takes what is written to it, so that the reader comes back
\* for more.  This is an assumption about the application: io.Copy writes
\* without a deadline (client.go 173).
ApplicationTakes ==
    WF_proxyVars((\E n \in BufSizes : Client!StartRead(n)) /\ OnClient)

\* No block is lost without a later one to reveal it: what was sent arrives
\* while the connection is in its pool, or a hole ends the connection.  This is
\* an assumption about the tunnels: the code does not notice that the last
\* block of a stream, a lone Disconnect for instance, died with its tunnel.
BlocksArrive ==
    /\ WF_proxyVars(~clientCtxDone /\ Client!Push /\ OnClient)
    /\ WF_proxyVars((RecvConnect \/ ClientBlock) /\ OnServer)

\* The goroutines run; the server's dials, reads and writes end because they
\* have deadlines; a relay whose ends have an expired deadline fails.  Nothing
\* makes the application or the target send, end or fail.
ProxyFairness ==
    /\ ApplicationTakes
    /\ BlocksArrive
    /\ WF_proxyVars(ClientDials)
    /\ WF_proxyVars((Client!ReadStep \/ Client!ReaderEOF) /\ OnClient)
    /\ WF_proxyVars(Client!WriteData /\ OnClient)
    /\ \A c \in Client!Relays :
         WF_proxyVars(readCtx = "expired" /\ Client!RelayFails(c) /\ OnClient)
    /\ \A c \in Client!Closers : WF_proxyVars(Client!CloseStep(c) /\ OnClient)
    /\ WF_proxyVars(Connect /\ DialsAddress /\ OnServer)
    /\ WF_proxyVars(RecvRelay /\ OnServer)
    /\ WF_proxyVars(SendRelay /\ OnServer)

ProxyFairSpec == ProxySpec /\ ProxyFairness

-----------------------------------------------------------------------------
(* Properties *)

\* The types of both ends' state.
ProxyTypeOK ==
    /\ TypeOK
    /\ Client!TypeOK
    /\ stage \in {"methods", "auth", "request", "dial", "relay", "closed"}

\* Nothing is dialed for an application that has not shown the user and the
\* password which its listening address asks for (client.go 229-346).
Authenticated == stage = "dial" /\ requireAuth => proven

\* What the calls of Read return is the server's bytes, in order, none twice
\* and none left out, whatever the lengths of blocks and buffers
\* (inbound_connection.go 65-181).
ReadsInOrder == Client!ReadsInOrder

\* How many data blocks the server has sent before its Disconnect.
SentBlocks ==
    Cardinality({i \in 1 .. Len(sendQueue) : \A j \in 1 .. i : sendQueue[j] = "data"})

\* io.EOF means that everything the server sent was read, unless this side
\* closed the connection or gave up on a hole.
EOFMeansAll ==
    (/\ read = "ended"
     /\ ~clientCtxDone
     /\ closing["writer"] = "no" /\ closing["biRelay"] = "no")
    => Len(out) >= Bytes[SentBlocks]

\* The three properties below say of conditions that, once they hold, go on
\* holding, or of what is owed once they do, that they come to hold.  They rest
\* on ApplicationTakes and BlocksArrive.

\* What the server sends is returned without waiting for more, unless this
\* side closes the connection or gives up on a hole.
EveryByteRead ==
    []<>(Len(out) >= Bytes[SentBlocks] \/ clientClosed \/ clientCtxDone)

\* The application's connection ends, or is ended.
AppEnds == read = "ended" \/ \E c \in Client!Relays : closing[c] # "no"

\* An application that was told "success" before anything was dialed has its
\* target, or learns that it does not: when the dial fails or the target ends
\* the connection, the application's connection ends too, unless a hole ends
\* the server's (client.go 417-420, outbound_connection.go 40-46, 216-219).
Served == HalfOpenConn # "nil" /\ ~targetGone
PromiseKept == []<>(stage = "relay" => Served \/ AppEnds \/ killed)

\* Nothing is left over on the server: when the client closes the connection,
\* the connection to the target is closed or never comes about, unless a hole
\* ends it; and when the context is cancelled, for whatever reason, both
\* relays end, although one of them may be inside a read.
RelaysEnded ==
    /\ connect # "dialing"
    /\ recvRelay \in {"none", "ended"} /\ sendRelay \in {"none", "ended"}
Released ==
    []<>(/\ clientClosed => HalfOpenConn = "closed" \/ ctxDone
         /\ ctxDone => RelaysEnded)
==============================================================================
