-------------------------- MODULE InboundConnection --------------------------
(***************************************************************************)
(* One InboundConnection of the client and the biRelay around it: a reader *)
(* that copies from the connection to the application, a writer that       *)
(* copies from the application to the connection, and biRelay itself,      *)
(* which closes both when the two have ended.  Each of the three may call  *)
(* Close.                                                                  *)
(*                                                                         *)
(* Bytes are numbered in the order in which the server sent them.  The     *)
(* server sends data and ShutdownBoth blocks only (OutboundConnection).    *)
(* What happens when recvRelay or OrderedRelay sends on a closed channel   *)
(* is the subject of ConnectionPool (RecvBlockPanics, OrderedRelayPanics): *)
(* a process that panics takes no further steps.                           *)
(***************************************************************************)
EXTENDS Naturals, Sequences

CONSTANTS
    Incoming,           \* lengths of the data blocks the server sends; 0 is
                        \* its ShutdownBoth
    BufSizes,           \* lengths of the buffers passed to Read
    OrderedRecvQueueSize,
    MaxWrites           \* bound: blocks the application sends

Relays == {"reader", "writer"}
Closers == Relays \cup {"biRelay"}

VARIABLES
    incoming,           \* what of Incoming is still to come
    pushed,             \* bytes put on orderedRecvQueue so far
    orderedRecvQueue,   \* blocks: sequences of bytes, <<>> is ShutdownBoth
    queueClosed,        \* Close closed the channels
    ctxDone,            \* the connection's context is done
    readCtx,            \* "own": the connection's context; "expired": the one
                        \* SetDeadline put in its place
    dataBuffer,         \* what the ring buffer holds
    closed,
    read,               \* where the reader's Read is
    waits,              \* the context its blocking select waits on
    want,               \* len(b) of the current Read
    got,                \* b[:readN]
    out,                \* ghost: bytes that Read has returned
    writer,             \* where the writer is
    writes,             \* blocks it has sent
    closing,            \* where each caller of Close is
    sendQueue           \* ghost: what was put on sendQueue

serverVars == <<incoming, pushed>>
ctxVars == <<ctxDone, readCtx>>
resultVars == <<read, got, out>>
readVars == <<dataBuffer, waits, want, resultVars>>
writeVars == <<writer, writes>>
endVars == <<closed, closing, sendQueue>>
vars == <<serverVars, orderedRecvQueue, queueClosed, ctxVars, readVars,
          writeVars, endVars>>

\* The types of the connection's state; orderedRecvQueue keeps to its capacity
\* and Read never returns more than len(b).
TypeOK ==
    /\ incoming \in Seq(Nat) /\ pushed \in Nat
    /\ orderedRecvQueue \in Seq(Seq(Nat))
    /\ Len(orderedRecvQueue) =< OrderedRecvQueueSize
    /\ {queueClosed, ctxDone, closed} \subseteq BOOLEAN
    /\ dataBuffer \in Seq(Nat) /\ out \in Seq(Nat)
    /\ {readCtx, waits} \subseteq {"own", "expired"}
    /\ read \in {"idle", "write", "drain", "first", "more", "ended"}
    /\ want \in BufSizes \cup {0}
    /\ got \in Seq(Nat) /\ Len(got) =< want
    /\ writer \in {"idle", "send", "ended"}
    /\ writes \in 0 .. MaxWrites
    /\ closing \in [Closers -> {"no", "deadline", "send", "channels", "yes"}]
    /\ sendQueue \in Seq({"Connect", "data", "ShutdownRead", "ShutdownWrite",
                         "ShutdownBoth"})

Init ==
    /\ incoming = Incoming
    /\ pushed = 0
    /\ orderedRecvQueue = <<>>
    /\ queueClosed = FALSE
    /\ ctxDone = FALSE
    /\ readCtx = "own"
    /\ waits = "own"
    /\ dataBuffer = <<>>
    /\ closed = FALSE
    /\ read = "idle"
    /\ want = 0
    /\ got = <<>>
    /\ out = <<>>
    /\ writer = "idle"
    /\ writes = 0
    /\ closing = [c \in Closers |-> "no"]
    /\ sendQueue = <<>>

-----------------------------------------------------------------------------
(* OrderedRelay *)

\* The next block is put on orderedRecvQueue.
Push ==
    /\ incoming # <<>>
    /\ ~queueClosed
    /\ Len(orderedRecvQueue) < OrderedRecvQueueSize
    /\ orderedRecvQueue' = Append(orderedRecvQueue,
                                  [i \in 1 .. Head(incoming) |-> pushed + i])
    /\ pushed' = pushed + Head(incoming)
    /\ incoming' = Tail(incoming)
    /\ UNCHANGED <<queueClosed, ctxVars, readVars, writeVars, endVars>>

\* It gives up on a hole: removeFromPool.
Killed ==
    /\ ~ctxDone
    /\ ctxDone' = TRUE
    /\ UNCHANGED <<serverVars, orderedRecvQueue, queueClosed, readCtx, readVars,
                   writeVars, endVars>>

-----------------------------------------------------------------------------
(* Read *)

\* Where Read goes with what it has so far: back to the relay with data, to be
\* written to the application (nothing is written for an empty result) ...
ReturnData(bytes) ==
    /\ out' = out \o bytes
    /\ got' = <<>>
    /\ read' = IF bytes = <<>> THEN "idle" ELSE "write"

\* ... or with io.EOF.
ReturnEOF ==
    /\ out' = out
    /\ got' = <<>>
    /\ read' = "ended"

\* Read is called: the ring buffer comes first.
StartRead(n) ==
    LET k == IF n < Len(dataBuffer) THEN n ELSE Len(dataBuffer)
        bytes == SubSeq(dataBuffer, 1, k)
    IN  /\ read \in {"idle", "write"}
        /\ closing["reader"] = "no"
        /\ want' = n
        /\ dataBuffer' = SubSeq(dataBuffer, k + 1, Len(dataBuffer))
        /\ IF k = n THEN ReturnData(bytes)
           ELSE /\ got' = bytes
                /\ read' = IF closed THEN "drain" ELSE IF k = 0 THEN "first" ELSE "more"
                /\ UNCHANGED out
        /\ waits' = readCtx
        /\ UNCHANGED <<serverVars, orderedRecvQueue, queueClosed, ctxVars,
                       writeVars, endVars>>

\* How many bytes of the block the rest of b takes.
Fits(blk) == IF want - Len(got) < Len(blk) THEN want - Len(got) ELSE Len(blk)

\* Mutant of LeftOver: what was copied to b is kept too.
LeftOverAll(blk) == IF Fits(blk) < Len(blk) THEN blk ELSE dataBuffer

\* The ring buffer after readBlock: OverWrite with a block that does not fit.
LeftOver(blk) ==
    IF Fits(blk) < Len(blk) THEN SubSeq(blk, Fits(blk) + 1, Len(blk)) ELSE dataBuffer

\* Mutant of AtShutdown: io.EOF in place of what was read so far.
AtShutdownEOF(bytes) == ReturnEOF

\* Read comes upon ShutdownBoth: with nothing read that is io.EOF, else what
\* was read is returned.
AtShutdown(bytes) == IF read = "first" THEN ReturnEOF ELSE ReturnData(bytes)

\* A block is taken in one of the three places and readBlock is called.  A
\* ShutdownBoth sets closed and is the end of this Read, but in the drain
\* loop it is ignored.
ReadBlock ==
    LET blk == Head(orderedRecvQueue)
        bytes == got \o SubSeq(blk, 1, Fits(blk))
        ends == blk = <<>> /\ read # "drain"
    IN  /\ read \in {"drain", "first", "more"}
        /\ orderedRecvQueue # <<>>
        /\ orderedRecvQueue' = Tail(orderedRecvQueue)
        /\ dataBuffer' = LeftOver(blk)
        /\ closed' = (closed \/ blk = <<>>)
        /\ \/ ends /\ AtShutdown(bytes)
           \/ ~ends /\ Len(bytes) = want /\ ReturnData(bytes)
           \/ /\ ~ends /\ Len(bytes) # want
              /\ got' = bytes
              /\ read' = IF read = "first" THEN "more" ELSE read
              /\ UNCHANGED out
        /\ UNCHANGED <<serverVars, queueClosed, ctxVars, waits, want, writeVars,
                       closing, sendQueue>>

besidesResult ==
    <<serverVars, orderedRecvQueue, queueClosed, ctxVars, dataBuffer, waits,
      want, writeVars, endVars>>

\* default of the drain loop.  A closed orderedRecvQueue is never without a
\* block: it returns empty ones, which change nothing, and the loop goes on.
Drained ==
    /\ read = "drain"
    /\ orderedRecvQueue = <<>>
    /\ ~queueClosed
    /\ IF got # <<>> THEN ReturnData(got) ELSE ReturnEOF
    /\ UNCHANGED besidesResult

\* The first select: the context is done, or the closed queue returns an
\* empty block.
FirstEnds ==
    /\ read = "first"
    /\ \/ /\ ctxDone \/ waits = "expired"
          /\ ReturnEOF
       \/ /\ queueClosed /\ orderedRecvQueue = <<>>
          /\ read' = "more"
          /\ UNCHANGED <<out, got>>
    /\ UNCHANGED besidesResult

\* Mutant of NothingMore: Read waits until b is full.
NothingMoreFull == FALSE

\* The default branch of the last loop.
NothingMore == orderedRecvQueue = <<>> /\ ~queueClosed

\* The last loop: there is no block at the moment, or the context is done.
MoreEnds ==
    /\ read = "more"
    /\ ctxDone \/ readCtx = "expired" \/ NothingMore
    /\ ReturnData(got)
    /\ UNCHANGED besidesResult

-----------------------------------------------------------------------------
(* Write, and what the relays do at the end *)

\* Write finds the connection open; sendData is still to come.
StartWrite ==
    /\ writer = "idle"
    /\ closing["writer"] = "no"
    /\ ~closed
    /\ writes < MaxWrites
    /\ writer' = "send"
    /\ UNCHANGED <<serverVars, orderedRecvQueue, queueClosed, ctxVars, readVars,
                   writes, endVars>>

\* sendData.
WriteData ==
    /\ writer = "send"
    /\ writer' = "idle"
    /\ writes' = writes + 1
    /\ sendQueue' = Append(sendQueue, "data")
    /\ UNCHANGED <<serverVars, orderedRecvQueue, queueClosed, ctxVars, readVars,
                   closed, closing>>

\* The application has sent everything: CloseWrite.
WriterEOF ==
    /\ writer = "idle"
    /\ closing["writer"] = "no"
    /\ writer' = "ended"
    /\ sendQueue' = Append(sendQueue, "ShutdownWrite")
    /\ UNCHANGED <<serverVars, orderedRecvQueue, queueClosed, ctxVars, readVars,
                   closed, writes, closing>>

\* The reader got io.EOF and calls CloseRead.
ReaderEOF ==
    /\ read = "ended"
    /\ closing["reader"] = "no"
    /\ closing' = [closing EXCEPT !["reader"] = "yes"]
    /\ sendQueue' = Append(sendQueue, "ShutdownRead")
    /\ UNCHANGED <<serverVars, orderedRecvQueue, queueClosed, ctxVars, readVars,
                   closed, writeVars>>

-----------------------------------------------------------------------------
(* Close *)

\* A relay fails: it sets the deadlines of both ends before it closes them.
Fail(c) ==
    /\ closing[c] = "no"
    /\ readCtx' = "expired"
    /\ closing' = [closing EXCEPT ![c] = "deadline"]
    /\ UNCHANGED <<serverVars, orderedRecvQueue, queueClosed, ctxDone, readVars,
                   closed, writeVars, sendQueue>>

\* The relay is reading from or writing to the application.
AtApplication(c) ==
    \/ c = "reader" /\ read = "write"
    \/ c = "writer" /\ writer = "idle"

\* The application's end fails by itself.
AppFails(c) == AtApplication(c) /\ readCtx = "own" /\ Fail(c)

\* The other relay has set its deadline and closed it, or the writer finds the
\* connection closed.
RelayFails(c) ==
    /\ AtApplication(c)
    /\ readCtx = "expired" \/ (c = "writer" /\ closed)
    /\ Fail(c)

\* Who calls Close: a relay that failed, and biRelay when both are through.
CallsClose(c) ==
    \/ c \in Relays /\ closing[c] = "deadline"
    \/ /\ c = "biRelay" /\ closing[c] = "no"
       /\ closing["reader"] = "yes"
       /\ closing["writer"] = "yes" \/ writer = "ended"

\* Close is called: the first to set closed goes on to send a Disconnect and
\* to close the channels; the others only Stop.
Close(c) ==
    /\ CallsClose(c)
    /\ closed' = TRUE
    /\ closing' = [closing EXCEPT ![c] = IF closed THEN "yes" ELSE "send"]
    /\ ctxDone' = (ctxDone \/ closed)
    /\ UNCHANGED <<serverVars, orderedRecvQueue, queueClosed, readCtx, readVars,
                   writeVars, sendQueue>>

\* SendDisconnect(ShutdownBoth), which also cancels the context.
CloseSends(c) ==
    /\ closing[c] = "send"
    /\ closing' = [closing EXCEPT ![c] = "channels"]
    /\ sendQueue' = Append(sendQueue, "ShutdownBoth")
    /\ ctxDone' = TRUE
    /\ UNCHANGED <<serverVars, orderedRecvQueue, queueClosed, readCtx, readVars,
                   closed, writeVars>>

\* close(c.recvQueue), close(c.orderedRecvQueue).
CloseChannels(c) ==
    /\ closing[c] = "channels"
    /\ closing' = [closing EXCEPT ![c] = "yes"]
    /\ queueClosed' = TRUE
    /\ UNCHANGED <<serverVars, orderedRecvQueue, ctxDone, readCtx, readVars, closed,
                   writeVars, sendQueue>>

-----------------------------------------------------------------------------
ReadStep == ReadBlock \/ Drained \/ FirstEnds \/ MoreEnds
Reader == (\E n \in BufSizes : StartRead(n)) \/ ReadStep \/ ReaderEOF
CloseStep(c) == Close(c) \/ CloseSends(c) \/ CloseChannels(c)

Step ==
    \/ Push
    \/ Reader
    \/ StartWrite
    \/ WriteData
    \/ WriterEOF
    \/ \E c \in Relays : RelayFails(c)
    \/ \E c \in Closers : CloseStep(c)

Next == Step \/ Killed \/ \E c \in Relays : AppFails(c)

Spec == Init /\ [][Next]_vars

\* The reader keeps reading, which assumes that the application takes what is
\* written to it; a relay whose ends have an expired deadline fails, and calls
\* finish.
Fairness ==
    /\ WF_vars(Reader)
    /\ WF_vars(WriteData)
    /\ \A c \in Relays : WF_vars(readCtx = "expired" /\ RelayFails(c))
    /\ \A c \in Closers : WF_vars(CloseStep(c))

FairSpec == Spec /\ Fairness

-----------------------------------------------------------------------------
(* Properties *)

\* Whatever the lengths of blocks and buffers, what the calls of Read return
\* is the server's bytes, in order, none twice and none left out.
ReadsInOrder == out = [i \in 1 .. Len(out) |-> i]

\* "Connection is closed, should read all data left in channel": a Read that
\* is under way when this side closes the connection, and every later one,
\* comes to an end, and so does the reader (inbound_connection.go 77-94).
ReaderStops == closed ~> (read = "ended" \/ closing["reader"] # "no")
=============================================================================
