-------------------------- MODULE OutboundConnection --------------------------
(***************************************************************************)
(* One OutboundConnection of the server: connect, which dials the target;  *)
(* RecvRelay, from the target to the client; SendRelay, from the client to *)
(* the target; and the ways in which they end each other and tell the      *)
(* client.                                                                 *)
(*                                                                         *)
(* Blocks reach orderedRecvQueue in order (BlockProcessor) and what is put *)
(* on sendQueue is kept as a history; a put is a step of its own, which    *)
(* the queue may delay.  What the target does is modelled from the results *)
(* of the reads and writes: data, end of file, errors and timeouts.        *)
(***************************************************************************)
EXTENDS Naturals, Sequences

CONSTANTS
    TargetData,         \* bound: reads that return data
    DrainReads          \* reads made after a cancellation, 5 in the code

ASSUME TargetAssumption == {TargetData, DrainReads} \subseteq Nat

VARIABLES
    coming,             \* client blocks that OrderedRelay has not passed on
    orderedRecvQueue,
    ctxDone,            \* oc.ctx is cancelled
    killed,             \* ghost: it was cancelled by OrderedRelay
    closed,             \* oc.closed
    HalfOpenConn,       \* "nil", "open" or "closed" by this side
    readShut,           \* CloseRead was called
    connect,            \* where connect is
    recvRelay,          \* where RecvRelay is
    sendRelay,          \* where SendRelay is
    drains,             \* reads made since RecvRelay saw ctx done
    available,          \* reads of the target that will still return data
    targetGone,         \* the target closed or reset the connection
    sendQueue           \* ghost: what was put on sendQueue, in order

clientVars == <<coming, orderedRecvQueue>>
targetVars == <<available, targetGone>>
flagVars == <<ctxDone, killed, closed, HalfOpenConn, readShut>>
relayVars == <<connect, recvRelay, sendRelay, drains>>
vars == <<clientVars, targetVars, flagVars, relayVars, sendQueue>>

ClientBlocks == {"Connect", "data", "ShutdownRead", "ShutdownWrite", "ShutdownBoth"}

\* The types of the connection's state; the relays run only when there is a
\* HalfOpenConn, and a bounded number of reads follows a cancellation.
TypeOK ==
    /\ coming \in Seq(ClientBlocks)
    /\ orderedRecvQueue \in Seq(ClientBlocks)
    /\ {ctxDone, killed, closed, readShut, targetGone} \subseteq BOOLEAN
    /\ HalfOpenConn \in {"nil", "open", "closed"}
    /\ connect \in {"none", "dialing", "failed", "ended"}
    /\ recvRelay \in {"none", "top", "read", "data", "after", "drain",
                      "drained", "disconnect", "ended"}
    /\ sendRelay \in {"none", "select", "disconnect", "lastDisconnect", "ended"}
    /\ (HalfOpenConn = "nil") <=> (recvRelay = "none")
    /\ drains \in 0 .. DrainReads
    /\ available \in 0 .. TargetData
    /\ sendQueue \in Seq({"data", "Disconnect"})

\* No block has come, so that the server does not know of the connection.
Init ==
    /\ coming = <<>>
    /\ orderedRecvQueue = <<>>
    /\ ctxDone = FALSE
    /\ killed = FALSE
    /\ closed = TRUE
    /\ HalfOpenConn = "nil"
    /\ readShut = FALSE
    /\ connect = "none"
    /\ recvRelay = "none"
    /\ sendRelay = "none"
    /\ drains = 0
    /\ available = TargetData
    /\ targetGone = FALSE
    /\ sendQueue = <<>>

-----------------------------------------------------------------------------
(* The surroundings *)

\* RecvBlock gets the Connect block, which may overtake or be overtaken by
\* others: connect is started, and the block goes the way of all others.
RecvConnect ==
    /\ connect = "none"
    /\ coming # <<>>
    /\ ~ctxDone
    /\ connect' = "dialing"
    /\ UNCHANGED <<clientVars, targetVars, flagVars, recvRelay, sendRelay,
                   drains, sendQueue>>

\* OrderedRelay passes on the client's next block.
ClientBlock ==
    /\ coming # <<>>
    /\ connect # "none"
    /\ ~ctxDone
    /\ orderedRecvQueue' = Append(orderedRecvQueue, Head(coming))
    /\ coming' = Tail(coming)
    /\ UNCHANGED <<targetVars, flagVars, relayVars, sendQueue>>

\* OrderedRelay gives up on a hole: removeFromPool.
Killed ==
    /\ coming # <<>> \/ connect # "none"
    /\ ~ctxDone
    /\ ctxDone' = TRUE
    /\ killed' = TRUE
    /\ UNCHANGED <<clientVars, targetVars, closed, HalfOpenConn, readShut,
                   relayVars, sendQueue>>

\* The target closes or resets the connection; some of what it would have
\* sent can still be read.
TargetEnds ==
    /\ HalfOpenConn # "nil"
    /\ ~targetGone
    /\ targetGone' = TRUE
    /\ \E n \in 0 .. available : available' = n
    /\ UNCHANGED <<clientVars, flagVars, relayVars, sendQueue>>

-----------------------------------------------------------------------------
(* connect *)

\* Mutant of Relaying: HalfOpenConn is set after the relays are started.
RelayingFirst == "nil"

\* HalfOpenConn when RecvRelay and SendRelay are started.
Relaying == "open"

\* The dial succeeds: the relays start, whatever became of the context.
DialSucceeds ==
    /\ connect = "dialing"
    /\ connect' = "ended"
    /\ HalfOpenConn' = Relaying
    /\ closed' = ~closed
    /\ recvRelay' = "top"
    /\ sendRelay' = "select"
    /\ UNCHANGED <<clientVars, targetVars, ctxDone, killed, readShut, drains,
                   sendQueue>>

\* The dial fails.
DialFails ==
    /\ connect = "dialing"
    /\ connect' = "failed"
    /\ UNCHANGED <<clientVars, targetVars, flagVars, recvRelay, sendRelay,
                   drains, sendQueue>>

\* SendDisconnect(ShutdownBoth) after a failed dial.
DialFailed ==
    /\ connect = "failed"
    /\ connect' = "ended"
    /\ sendQueue' = Append(sendQueue, "Disconnect")
    /\ ctxDone' = TRUE
    /\ UNCHANGED <<clientVars, targetVars, killed, closed, HalfOpenConn, readShut,
                   recvRelay, sendRelay, drains>>

-----------------------------------------------------------------------------
(* Closing *)

\* Mutant of closeThenCancel: the connection is left to its relays.
cancelOnly ==
    /\ UNCHANGED HalfOpenConn
    /\ ctxDone' = TRUE

closeThenCancel ==
    /\ HalfOpenConn' = "closed"
    /\ ctxDone' = TRUE

\* Mutants of Once: closed is not consulted; nobody is told.
Always(busy, done) == busy
Never(busy, done) == done

\* Whoever sets closed sends the Disconnect (busy), the others do not (done).
Once(busy, done) == IF closed THEN done ELSE busy

\* closeThenCancelWithOnceSend up to the SendDisconnect, which is a step of
\* its own.
closeThenCancelWithOnceSend(pc, busy, done) ==
    /\ closeThenCancel
    /\ closed' = TRUE
    /\ pc' = Once(busy, done)

-----------------------------------------------------------------------------
(* RecvRelay *)

\* Both looks at the context: the one that starts a round and the one that
\* ends it.
RecvRelayChecks ==
    /\ \/ recvRelay = "top" /\ recvRelay' = IF ctxDone THEN "ended" ELSE "read"
       \/ recvRelay = "after" /\ recvRelay' = IF ctxDone THEN "drain" ELSE "top"
    /\ UNCHANGED <<clientVars, targetVars, flagVars, connect, sendRelay, drains,
                   sendQueue>>

\* Read returns data ...
RecvRelayReads ==
    /\ recvRelay \in {"read", "drain"}
    /\ HalfOpenConn = "open"
    /\ ~readShut
    /\ available > 0
    /\ drains < DrainReads
    /\ available' = available - 1
    /\ \/ recvRelay = "read" /\ recvRelay' = "data" /\ UNCHANGED drains
       \/ recvRelay = "drain" /\ recvRelay' = "drained" /\ drains' = drains + 1
    /\ UNCHANGED <<clientVars, targetGone, flagVars, connect, sendRelay, sendQueue>>

\* ... which sendData puts on sendQueue.
RecvRelaySends ==
    /\ \/ recvRelay = "data" /\ recvRelay' = "after"
       \/ recvRelay = "drained" /\ recvRelay' = "drain"
    /\ sendQueue' = Append(sendQueue, "data")
    /\ UNCHANGED <<clientVars, targetVars, flagVars, connect, sendRelay, drains>>

\* Mutant of ReadDeadline: none is set.
NoReadDeadline == FALSE

\* SetReadDeadline before every Read.
ReadDeadline == TRUE

\* The read deadline passes; the target was silent.
RecvRelayTimeout ==
    /\ ReadDeadline
    /\ recvRelay = "read"
    /\ HalfOpenConn = "open"
    /\ ~readShut
    /\ ~targetGone
    /\ recvRelay' = "after"
    /\ UNCHANGED <<clientVars, targetVars, flagVars, connect, sendRelay, drains,
                   sendQueue>>

\* End of file, or an error of a connection that is reset or closed.
ReadEnds == HalfOpenConn = "closed" \/ readShut \/ (targetGone /\ available = 0)

RecvRelayEOF ==
    /\ recvRelay = "read"
    /\ ReadEnds
    /\ closeThenCancelWithOnceSend(recvRelay, "disconnect", "ended")
    /\ UNCHANGED <<clientVars, targetVars, killed, readShut, connect, sendRelay,
                   drains, sendQueue>>

\* The SendDisconnect that ends RecvRelay.
RecvRelayDisconnects ==
    /\ recvRelay = "disconnect"
    /\ recvRelay' = "ended"
    /\ sendQueue' = Append(sendQueue, "Disconnect")
    /\ UNCHANGED <<clientVars, targetVars, flagVars, connect, sendRelay, drains>>

\* The reads after the cancellation end: all were made, or one brought
\* nothing.
RecvRelayDrained ==
    /\ recvRelay = "drain"
    /\ recvRelay' = "ended"
    /\ UNCHANGED <<clientVars, targetVars, flagVars, connect, sendRelay, drains,
                   sendQueue>>

-----------------------------------------------------------------------------
(* SendRelay: select picks any case that is ready *)

\* The first ctx.Done case returns.
SendRelayExits ==
    /\ sendRelay = "select"
    /\ ctxDone
    /\ sendRelay' = "ended"
    /\ UNCHANGED <<clientVars, targetVars, flagVars, connect, recvRelay, drains,
                   sendQueue>>

\* The last ctx.Done case closes first.
SendRelayCloses ==
    /\ sendRelay = "select"
    /\ ctxDone
    /\ closeThenCancelWithOnceSend(sendRelay, "lastDisconnect", "ended")
    /\ UNCHANGED <<clientVars, targetVars, killed, readShut, connect, recvRelay,
                   drains, sendQueue>>

SendRelayTakes(blks) ==
    /\ sendRelay = "select"
    /\ orderedRecvQueue # <<>>
    /\ Head(orderedRecvQueue) \in blks
    /\ orderedRecvQueue' = Tail(orderedRecvQueue)

\* A block that is ignored, or data that is written.
SendRelayWrites ==
    /\ SendRelayTakes({"Connect", "data"})
    /\ Head(orderedRecvQueue) = "data" => HalfOpenConn = "open"
    /\ UNCHANGED <<coming, targetVars, flagVars, relayVars, sendQueue>>

\* The write fails, or its deadline passes.
SendRelayWriteFails ==
    /\ SendRelayTakes({"data"})
    /\ closeThenCancelWithOnceSend(sendRelay, "disconnect", "select")
    /\ UNCHANGED <<coming, targetVars, killed, readShut, connect, recvRelay,
                   drains, sendQueue>>

\* CloseRead or CloseWrite of the target's connection.
SendRelayHalfCloses ==
    /\ SendRelayTakes({"ShutdownRead", "ShutdownWrite"})
    /\ readShut' = (readShut \/ Head(orderedRecvQueue) = "ShutdownRead")
    /\ UNCHANGED <<coming, targetVars, ctxDone, killed, closed, HalfOpenConn,
                   relayVars, sendQueue>>

\* The client is done with the connection.
SendRelayShutdown ==
    /\ SendRelayTakes({"ShutdownBoth"})
    /\ closeThenCancel
    /\ UNCHANGED <<coming, targetVars, killed, closed, readShut, relayVars,
                   sendQueue>>

\* SendDisconnect, after which SendRelay goes on or returns.
SendRelayDisconnects ==
    /\ \/ sendRelay = "disconnect" /\ sendRelay' = "select"
       \/ sendRelay = "lastDisconnect" /\ sendRelay' = "ended"
    /\ sendQueue' = Append(sendQueue, "Disconnect")
    /\ UNCHANGED <<clientVars, targetVars, flagVars, connect, recvRelay, drains>>

-----------------------------------------------------------------------------
Connect == DialSucceeds \/ DialFails \/ DialFailed

RecvRelay ==
    \/ RecvRelayChecks
    \/ RecvRelayReads
    \/ RecvRelaySends
    \/ RecvRelayTimeout
    \/ RecvRelayEOF
    \/ RecvRelayDisconnects
    \/ RecvRelayDrained

SendRelay ==
    \/ SendRelayExits
    \/ SendRelayCloses
    \/ SendRelayWrites
    \/ SendRelayWriteFails
    \/ SendRelayHalfCloses
    \/ SendRelayShutdown
    \/ SendRelayDisconnects

Step ==
    \/ RecvConnect
    \/ ClientBlock
    \/ TargetEnds
    \/ Connect
    \/ RecvRelay
    \/ SendRelay

-----------------------------------------------------------------------------
(* Properties *)

\* The client is told of the end at most once, although both relays and
\* connect can find out about it at the same time.
OneDisconnect ==
    \A i, j \in 1 .. Len(sendQueue) :
        (sendQueue[i] = "Disconnect" /\ sendQueue[j] = "Disconnect") => i = j

\* The context is cancelled by this connection's own relays only after its
\* TCP connection is closed: no end of a relay leaks it.
CancelledIsClosed == ctxDone /\ HalfOpenConn = "open" => killed
===============================================================================
