---------------------------- MODULE ConnectionPool ----------------------------
(***************************************************************************)
(* A peer's ConnectionPool: recvRelay, which takes the blocks of all the   *)
(* peer's connections from one queue and hands each to its connection;     *)
(* sendRelay, which takes what the connections send to the tunnel pool;    *)
(* and the mapping of connectionIDs, from which a connection is removed by *)
(* a goroutine of its own after its context is cancelled.                  *)
(*                                                                         *)
(* With acceptNewConnection it is the server's pool, which creates an      *)
(* OutboundConnection for an unknown connectionID; without, the client's,  *)
(* whose InboundConnections are dialed.  Only the recvQueue of a           *)
(* connection and the OrderedRelay that empties it are modelled here; what *)
(* OrderedRelay does with a block is in BlockProcessor, except that its    *)
(* sends on orderedRecvQueue may find that closed.  For each connectionID  *)
(* it is those of its latest connection.                                   *)
(***************************************************************************)
EXTENDS Naturals, Sequences, Functions

CONSTANTS
    ConnIDs,            \* connectionIDs
    Accepting,          \* which of the two pools: values acceptNewConnection
                        \* may have
    Incoming,           \* names of the blocks that arrive for a connectionID
    Outgoing,           \* names of the blocks a connectionID sends
    PoolQueueSize,      \* capacity of the tunnel pool's recvQueue and
                        \* sendQueue, and of the pool's sendQueue
    RecvQueueSize,      \* capacity of a connection's recvQueue
    MaxCancels,         \* bound: connections of one ID that end
    MaxCloses,          \* bound: those the client's application closes
    MayStop             \* whether the peer's context may be cancelled

ASSUME ConnectionBounds ==
    /\ {MaxCancels, MaxCloses} \subseteq Nat
    /\ {PoolQueueSize, RecvQueueSize} \subseteq Nat \ {0}
    /\ Accepting \subseteq BOOLEAN /\ MayStop \in BOOLEAN

VARIABLES
    acceptNewConnection,
    arriving,           \* blocks the tunnels will bring, in any order
    tunnelRecvQueue,    \* tunnelPool.recvQueue
    recvRelay,          \* where recvRelay is
    recvHolding,        \* the block it is delivering (at most one)
    poolDone,           \* cp.ctx is cancelled
    connectionMapping,  \* connectionIDs in the mapping
    connCtx,            \* context of the latest connection with each ID
    removing,           \* goroutines about to call removeConnection
    recvQueue,          \* its recvQueue
    queueClosed,        \* InboundConnection.Close closed it and orderedRecvQueue
    orderedRelay,       \* its OrderedRelay runs
    received,           \* blocks its OrderedRelay took
    cancels,            \* ghost: connections of each ID cancelled so far
    closing,            \* InboundConnection.Close has cancelled and not
                        \* yet closed the channels
    panicked,           \* what ended the process: "no" (nothing), "send" on a
                        \* closed channel, or two goroutines in the "map"
    unsent,             \* blocks the connections have yet to send
    sendQueue,          \* cp.sendQueue
    sendRelay,          \* where sendRelay is
    sendHolding,        \* the block it is passing on (at most one)
    tunnelSendQueue,    \* tunnelPool.sendQueue
    sent                \* ghost: what the tunnels took from it

recvVars == <<arriving, tunnelRecvQueue, recvRelay, recvHolding, panicked>>
connVars == <<connectionMapping, connCtx, removing, recvQueue, queueClosed,
              orderedRelay, received, cancels, closing>>
sendVars == <<unsent, sendQueue, sendRelay, sendHolding, tunnelSendQueue, sent>>
poolVars == <<poolDone, acceptNewConnection>>
vars == <<recvVars, connVars, sendVars, poolVars>>

\* Nothing here looks at a block but its connectionID.
Blocks == [conn : ConnIDs, block : Incoming]
Sends == [conn : ConnIDs, block : Outgoing]

\* The types of the pool's state; no queue exceeds its capacity, and recvRelay
\* has a block in hand exactly while it delivers one.
TypeOK ==
    /\ arriving \subseteq Blocks
    /\ tunnelRecvQueue \in Seq(Blocks) /\ Len(tunnelRecvQueue) =< PoolQueueSize
    /\ recvRelay \in {"select", "check", "put", "stopped"}
    /\ recvHolding \subseteq Blocks
    /\ (recvHolding = {}) <=> (recvRelay \in {"select", "stopped"})
    /\ acceptNewConnection \in BOOLEAN
    /\ poolDone \in BOOLEAN /\ panicked \in {"no", "send", "map"}
    /\ connectionMapping \subseteq ConnIDs
    /\ connCtx \in [ConnIDs -> {"none", "live", "done"}]
    /\ removing \in [ConnIDs -> Nat]
    /\ recvQueue \in [ConnIDs -> Seq(Blocks)]
    /\ \A id \in ConnIDs : Len(recvQueue[id]) =< RecvQueueSize
    /\ queueClosed \in [ConnIDs -> BOOLEAN] /\ closing \in [ConnIDs -> BOOLEAN]
    /\ orderedRelay \in [ConnIDs -> BOOLEAN]
    /\ received \in [ConnIDs -> SUBSET Blocks]
    /\ cancels \in [ConnIDs -> Nat]
    /\ unsent \subseteq Sends
    /\ sendQueue \in Seq(Sends) /\ Len(sendQueue) =< PoolQueueSize
    /\ tunnelSendQueue \in Seq(Sends) /\ Len(tunnelSendQueue) =< PoolQueueSize
    /\ sendRelay \in {"select", "put", "stopped"}
    /\ sendHolding \in {{}} \cup {{b} : b \in Sends}
    /\ sent \subseteq Sends

Init ==
    /\ acceptNewConnection \in Accepting
    /\ arriving = Blocks
    /\ tunnelRecvQueue = <<>>
    /\ recvRelay = "select"
    /\ recvHolding = {}
    /\ poolDone = FALSE
    /\ connectionMapping = {}
    /\ connCtx = [id \in ConnIDs |-> "none"]
    /\ removing = [id \in ConnIDs |-> 0]
    /\ recvQueue = [id \in ConnIDs |-> <<>>]
    /\ queueClosed = [id \in ConnIDs |-> FALSE]
    /\ orderedRelay = [id \in ConnIDs |-> FALSE]
    /\ received = [id \in ConnIDs |-> {}]
    /\ cancels = [id \in ConnIDs |-> 0]
    /\ closing = [id \in ConnIDs |-> FALSE]
    /\ panicked = "no"
    /\ unsent = Sends
    /\ sendQueue = <<>>
    /\ sendRelay = "select"
    /\ sendHolding = {}
    /\ tunnelSendQueue = <<>>
    /\ sent = {}

-----------------------------------------------------------------------------
(* The mapping of connections *)

\* addConnection for a new connection: its context, its queues, its
\* OrderedRelay and the goroutine that will remove it.  What an earlier
\* connection of the same ID still had queued is never looked at again.
AddConnection(id) ==
    /\ connectionMapping' = connectionMapping \cup {id}
    /\ connCtx' = [connCtx EXCEPT ![id] = IF poolDone THEN "done" ELSE "live"]
    /\ removing' = [removing EXCEPT ![id] = @ + (IF poolDone THEN 1 ELSE 0)]
    /\ recvQueue' = [recvQueue EXCEPT ![id] = <<>>]
    /\ queueClosed' = [queueClosed EXCEPT ![id] = FALSE]
    /\ orderedRelay' = [orderedRelay EXCEPT ![id] = TRUE]

\* NewPooledInboundConnection, for a freshly drawn connectionID.
Dial(id) ==
    /\ ~acceptNewConnection
    /\ connCtx[id] = "none"
    /\ AddConnection(id)
    /\ UNCHANGED <<recvVars, received, cancels, closing, sendVars, poolVars>>

Cancel(id) ==
    /\ connCtx' = [connCtx EXCEPT ![id] = "done"]
    /\ removing' = [removing EXCEPT ![id] = @ + 1]
    /\ cancels' = [cancels EXCEPT ![id] = @ + 1]

\* The connection ends: a hole, a failed dial, read or write, or a
\* Disconnect from the other side.
ConnectionEnds(id) ==
    /\ connCtx[id] = "live"
    /\ cancels[id] < MaxCancels
    /\ Cancel(id)
    /\ UNCHANGED <<recvVars, connectionMapping, recvQueue, queueClosed,
                   orderedRelay, received, closing, sendVars, poolVars>>

\* removeConnection deletes the entry of the connection's ID.
RemoveConnection(id) ==
    /\ removing[id] > 0
    /\ removing' = [removing EXCEPT ![id] = @ - 1]
    /\ connectionMapping' = connectionMapping \ {id}
    /\ UNCHANGED <<recvVars, connCtx, recvQueue, queueClosed, orderedRelay,
                   received, cancels, closing, sendVars, poolVars>>

\* The peer's context is cancelled, and with it every connection's.
PoolCancelled ==
    /\ MayStop
    /\ ~poolDone
    /\ poolDone' = TRUE
    /\ connCtx' = [id \in ConnIDs |->
                      IF connCtx[id] = "live" THEN "done" ELSE connCtx[id]]
    /\ removing' = [id \in ConnIDs |->
                      removing[id] + (IF connCtx[id] = "live" THEN 1 ELSE 0)]
    /\ UNCHANGED <<recvVars, connectionMapping, recvQueue, queueClosed,
                   orderedRelay, received, cancels, closing, sendVars,
                   acceptNewConnection>>

-----------------------------------------------------------------------------
(* The ends of a connection that the pool can tell apart *)

\* A block goes on sendQueue when that has room.
Send(b) ==
    /\ Len(sendQueue) < PoolQueueSize
    /\ unsent' = unsent \ {b}
    /\ sendQueue' = Append(sendQueue, b)

\* InboundConnection.Close: SendDisconnect, which puts a block on sendQueue
\* and cancels the context, ...
Close(id) ==
    /\ ~acceptNewConnection
    /\ connCtx[id] = "live"
    /\ cancels[id] < MaxCloses
    /\ \E b \in unsent : b.conn = id /\ Send(b)
    /\ Cancel(id)
    /\ closing' = [closing EXCEPT ![id] = TRUE]
    /\ UNCHANGED <<recvVars, connectionMapping, recvQueue, queueClosed,
                   orderedRelay, received, sendRelay, sendHolding,
                   tunnelSendQueue, sent, poolVars>>

\* ... and then close(c.recvQueue) and close(c.orderedRecvQueue).  One
\* step: what OrderedRelay sends between the two is as if sent before them.
CloseQueue(id) ==
    /\ closing[id]
    /\ closing' = [closing EXCEPT ![id] = FALSE]
    /\ queueClosed' = [queueClosed EXCEPT ![id] = TRUE]
    /\ UNCHANGED <<recvVars, connectionMapping, connCtx, removing, recvQueue,
                   orderedRelay, received, cancels, sendVars, poolVars>>

\* OrderedRelay takes a block; nothing orders this against its context.
OrderedRelayTakes(id) ==
    /\ orderedRelay[id]
    /\ recvQueue[id] # <<>>
    /\ received' = [received EXCEPT ![id] = @ \cup {Head(recvQueue[id])}]
    /\ recvQueue' = [recvQueue EXCEPT ![id] = Tail(@)]
    /\ UNCHANGED <<recvVars, connectionMapping, connCtx, removing, queueClosed,
                   orderedRelay, cancels, closing, sendVars, poolVars>>

\* OrderedRelay has taken a block that it passes on, directly or with what it
\* has cached, and finds orderedRecvQueue closed: in its select the send is
\* ready, although the context is done too, and when it is chosen the process
\* panics.  Which blocks are still in its hands is not modelled.
OrderedRelayPanics(id) ==
    /\ orderedRelay[id]
    /\ queueClosed[id]
    /\ received[id] # {}
    /\ panicked' = "send"
    /\ UNCHANGED <<arriving, tunnelRecvQueue, recvRelay, recvHolding, connVars,
                   sendVars, poolVars>>

\* OrderedRelay returns, from its outer select or from one of the sends; or
\* because it has emptied a closed recvQueue, whose context is done as well.
OrderedRelayEnds(id) ==
    /\ orderedRelay[id]
    /\ connCtx[id] = "done"
    /\ orderedRelay' = [orderedRelay EXCEPT ![id] = FALSE]
    /\ UNCHANGED <<recvVars, connectionMapping, connCtx, removing, recvQueue,
                   queueClosed, received, cancels, closing, sendVars, poolVars>>

-----------------------------------------------------------------------------
(* recvRelay *)

\* A tunnel brings a block.  A client gets blocks only for what it dialed.
BlockArrives(b) ==
    /\ b \in arriving
    /\ acceptNewConnection \/ connCtx[b.conn] # "none"
    /\ Len(tunnelRecvQueue) < PoolQueueSize
    /\ arriving' = arriving \ {b}
    /\ tunnelRecvQueue' = Append(tunnelRecvQueue, b)
    /\ UNCHANGED <<recvRelay, recvHolding, panicked, connVars, sendVars, poolVars>>

\* Mutant of Known: a connection that has ended is replaced before it was
\* removed.
KnownLive(id) == id \in connectionMapping /\ connCtx[id] = "live"

\* Mutant of Known: the result of the lookup is a variable that shadows the
\* one tested afterwards.
KnownShadowed(id) == FALSE

\* connOk: the lookup under the read lock finds the connection.
Known(id) == id \in connectionMapping

\* The relay takes a block and looks its connection up, creates it
\* (NewPooledOutboundConnection), or drops the block.
LookUp ==
    LET b == Head(tunnelRecvQueue)
    IN  /\ recvRelay = "select"
        /\ tunnelRecvQueue # <<>>
        /\ tunnelRecvQueue' = Tail(tunnelRecvQueue)
        /\ \/ /\ Known(b.conn)
              /\ UNCHANGED connVars
              /\ recvRelay' = "check" /\ recvHolding' = {b}
           \/ /\ ~Known(b.conn)
              /\ acceptNewConnection
              /\ AddConnection(b.conn)
              /\ UNCHANGED <<received, cancels, closing>>
              /\ recvRelay' = "check" /\ recvHolding' = {b}
           \/ /\ ~Known(b.conn)
              /\ ~acceptNewConnection
              /\ UNCHANGED <<recvRelay, recvHolding, connVars>>
        /\ UNCHANGED <<arriving, panicked, sendVars, poolVars>>

\* The client's peer keeps a copy of the pool, with a mappingLock of its own
\* but the same map: dials and removals, which go through the copy, exclude
\* each other but not this lookup, and the runtime stops a process that it
\* catches reading and writing a map at once.
MapFault ==
    /\ ~acceptNewConnection
    /\ recvRelay = "select"
    /\ tunnelRecvQueue # <<>>
    /\ \E id \in ConnIDs : connCtx[id] = "none" \/ removing[id] > 0
    /\ panicked' = "map"
    /\ UNCHANGED <<arriving, tunnelRecvQueue, recvRelay, recvHolding, connVars,
                   sendVars, poolVars>>

\* The select before conn.RecvBlock: cp.ctx is done, or it goes on.
CheckPool ==
    /\ recvRelay = "check"
    /\ recvRelay' = IF poolDone THEN "stopped" ELSE "put"
    /\ recvHolding' = IF poolDone THEN {} ELSE recvHolding
    /\ UNCHANGED <<arriving, tunnelRecvQueue, panicked, connVars, sendVars, poolVars>>

\* Mutant of HasRoom: the send does not wait.
HasRoomAlways(queue) == TRUE

\* A send on a connection's recvQueue goes through.
HasRoom(queue) == Len(queue) < RecvQueueSize

\* conn.RecvBlock: waits for room in the connection's recvQueue, whatever
\* has become of the connection.
RecvBlock ==
    \E b \in recvHolding :
        /\ recvRelay = "put"
        /\ ~queueClosed[b.conn]
        /\ HasRoom(recvQueue[b.conn])
        /\ recvRelay' = "select"
        /\ recvHolding' = {}
        /\ recvQueue' = [recvQueue EXCEPT ![b.conn] = Append(@, b)]
        /\ UNCHANGED <<arriving, tunnelRecvQueue, panicked, connectionMapping,
                       connCtx, removing, queueClosed, orderedRelay, received,
                       cancels, closing, sendVars, poolVars>>

\* conn.RecvBlock on a closed recvQueue: the process panics.
RecvBlockPanics ==
    /\ recvRelay = "put"
    /\ \E b \in recvHolding : queueClosed[b.conn]
    /\ panicked' = "send"
    /\ UNCHANGED <<arriving, tunnelRecvQueue, recvRelay, recvHolding, connVars,
                   sendVars, poolVars>>

\* cp.ctx.Done wins the outer select.
RecvRelayStops ==
    /\ recvRelay = "select"
    /\ poolDone
    /\ recvRelay' = "stopped"
    /\ UNCHANGED <<arriving, tunnelRecvQueue, recvHolding, panicked, connVars,
                   sendVars, poolVars>>

-----------------------------------------------------------------------------
(* sendRelay *)

\* A connection sends a block; it waits for room in sendQueue and never
\* looks at its context while it does.
ConnectionSends(b) ==
    /\ b \in unsent
    /\ connCtx[b.conn] # "none"
    /\ Send(b)
    /\ UNCHANGED <<recvVars, connVars, sendRelay, sendHolding, tunnelSendQueue,
                   sent, poolVars>>

\* The relay takes a block.
SendRelayTakes ==
    /\ sendRelay = "select"
    /\ sendQueue # <<>>
    /\ sendRelay' = "put"
    /\ sendHolding' = {Head(sendQueue)}
    /\ sendQueue' = Tail(sendQueue)
    /\ UNCHANGED <<recvVars, connVars, unsent, tunnelSendQueue, sent, poolVars>>

\* ... and passes it to the tunnel pool when that has room.
SendRelayPuts ==
    \E b \in sendHolding :
        /\ sendRelay = "put"
        /\ Len(tunnelSendQueue) < PoolQueueSize
        /\ sendRelay' = "select"
        /\ sendHolding' = {}
        /\ tunnelSendQueue' = Append(tunnelSendQueue, b)
        /\ UNCHANGED <<recvVars, connVars, unsent, sendQueue, sent, poolVars>>

\* cp.ctx.Done wins one of its two selects; a block in hand is gone.
SendRelayStops ==
    /\ sendRelay \in {"select", "put"}
    /\ poolDone
    /\ sendRelay' = "stopped"
    /\ sendHolding' = {}
    /\ UNCHANGED <<recvVars, connVars, unsent, sendQueue, tunnelSendQueue, sent,
                   poolVars>>

\* A tunnel takes the next block.
TunnelTakes ==
    /\ tunnelSendQueue # <<>>
    /\ sent' = sent \cup {Head(tunnelSendQueue)}
    /\ tunnelSendQueue' = Tail(tunnelSendQueue)
    /\ UNCHANGED <<recvVars, connVars, unsent, sendQueue, sendRelay,
                   sendHolding, poolVars>>

-----------------------------------------------------------------------------
RecvRelayStep ==
    LookUp \/ CheckPool \/ RecvBlock \/ RecvBlockPanics \/ RecvRelayStops

SendRelayStep == SendRelayTakes \/ SendRelayPuts \/ SendRelayStops

Next ==
    /\ panicked = "no"
    /\ \/ RecvRelayStep
       \/ SendRelayStep
       \/ TunnelTakes
       \/ PoolCancelled
       \/ MapFault
       \/ \E b \in Blocks : BlockArrives(b)
       \/ \E b \in Sends : ConnectionSends(b)
       \/ \E id \in ConnIDs :
             \/ Dial(id)
             \/ ConnectionEnds(id)
             \/ RemoveConnection(id)
             \/ Close(id)
             \/ CloseQueue(id)
             \/ OrderedRelayTakes(id)
             \/ OrderedRelayPanics(id)
             \/ OrderedRelayEnds(id)

Spec == Init /\ [][Next]_vars

\* Goroutines that can run do, and whoever reads a connection keeps reading.
\* Connections need not end, nor be closed.
Fairness ==
    /\ WF_vars(panicked = "no" /\ RecvRelayStep)
    /\ WF_vars(panicked = "no" /\ SendRelayStep)
    /\ WF_vars(panicked = "no" /\ TunnelTakes)
    /\ \A b \in Blocks : WF_vars(panicked = "no" /\ BlockArrives(b))
    /\ \A id \in ConnIDs :
          /\ WF_vars(panicked = "no" /\ RemoveConnection(id))
          /\ WF_vars(panicked = "no" /\ OrderedRelayTakes(id))
          /\ WF_vars(panicked = "no" /\ OrderedRelayEnds(id))

FairSpec == Spec /\ Fairness

-----------------------------------------------------------------------------
(* Properties *)

\* A connection whose context is live is in the mapping: the removeConnection
\* of an earlier connection with the same ID, which deletes by ID and runs
\* whenever its goroutine is scheduled, never takes away its successor.
LiveConnectionMapped ==
    \A id \in ConnIDs : connCtx[id] = "live" => id \in connectionMapping

\* Unless the peer has ended, a block that came out of a tunnel is still
\* queued, was received by the connection it names, or names one that ended;
\* and one that a connection sent is queued or went to a tunnel, also when the
\* connection has ended since.  Neither a full queue nor the dropping of
\* unknown connections costs a live connection a block.
NoBlockLost ==
    poolDone \/
    /\ \A b \in Blocks :
          \/ b \in arriving \cup Range(tunnelRecvQueue) \cup recvHolding
          \/ b \in Range(recvQueue[b.conn]) \cup received[b.conn]
          \/ cancels[b.conn] > 0
    /\ Sends \subseteq unsent \cup Range(sendQueue) \cup sendHolding
                 \cup Range(tunnelSendQueue) \cup sent

\* Every block of a connection that has not ended gets to it, whatever
\* becomes of the other connections of the peer.
EveryBlockReceived ==
    \A b \in Blocks :
        (connCtx[b.conn] = "live") ~>
            (b \in received[b.conn] \/ connCtx[b.conn] = "done")

\* The relays hand blocks over "safely", as the comments above their inner
\* selects say (pool.go 125, block_processor.go 55 and 72): they never send on
\* a closed channel.
NoSendOnClosed == panicked # "send"

=============================================================================
