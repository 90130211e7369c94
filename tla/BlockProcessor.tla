--------------------------- MODULE BlockProcessor ---------------------------
(***************************************************************************)
(* One direction of a proxied connection: the sending blockProcessor gives *)
(* every block the next sendBlockID, the tunnels carry the blocks in any   *)
(* order and may lose some, and OrderedRelay at the receiving end puts     *)
(* them back in order on orderedRecvQueue.                                 *)
(*                                                                         *)
(* A block is its BlockID and, as a ghost, its position in the sender's    *)
(* stream: the two differ once the uint32 BlockID has wrapped.             *)
(***************************************************************************)
EXTENDS Integers, Sequences, Functions

CONSTANTS
    IDMod,                  \* number of BlockIDs: 2^32 in the code
    MaxBlocks,              \* bound: blocks packed in a behaviour
    Window,                 \* bound: blocks packed and not yet put in order
    RecvQueueSize,          \* capacity of recvQueue
    OrderedRecvQueueSize    \* capacity of orderedRecvQueue

ASSUME IDModAssumption == IDMod \in Nat \ {0}
ASSUME BoundsAssumption == MaxBlocks \in Nat
\* Never as many blocks outstanding on one connection as there are BlockIDs.
ASSUME WindowAssumption == Window \in 0 .. IDMod
ASSUME QueueSizeAssumption ==
    /\ RecvQueueSize \in Nat \ {0}
    /\ OrderedRecvQueueSize \in Nat \ {0}

VARIABLES
    sendBlockID,        \* the sender's blockProcessor.sendBlockID
    sent,               \* ghost: blocks packed so far, never wraps
    inFlight,           \* blocks between the sender and recvQueue
    lost,               \* ghost: positions of the blocks the tunnels lost
    recvQueue,          \* the connection's recvQueue
    pc,                 \* where OrderedRelay is
    held,               \* the block it is putting on orderedRecvQueue, if any
    cache,              \* blockProcessor.cache, one block per BlockID
    recvBlockID,        \* the BlockID it waits for
    lastRecvBlockID,    \* one more than the highest BlockID it has seen
    ordered,            \* history of what was put on orderedRecvQueue
    taken,              \* how many of those its reader has taken
    relayCtxDone,       \* relayCtx is cancelled
    killed              \* ghost: it was cancelled by the packet wait timeout

senderVars   == <<sendBlockID, sent>>
transitVars  == <<inFlight, lost>>
relayVars    == <<pc, held, cache, recvBlockID, lastRecvBlockID>>
readerVars   == <<ordered, taken>>
contextVars  == <<relayCtxDone, killed>>
vars == <<senderVars, transitVars, recvQueue, relayVars, readerVars,
          contextVars>>

Block == [id : 0 .. IDMod - 1, pos : Nat]

\* The content of the orderedRecvQueue channel.
orderedRecvQueue == SubSeq(ordered, taken + 1, Len(ordered))

\* uint32 addition.
Inc(id) == (id + 1) % IDMod

Init ==
    /\ sendBlockID = 0
    /\ sent = 0
    /\ inFlight = {}
    /\ lost = {}
    /\ recvQueue = <<>>
    /\ pc = "select"
    /\ held = {}
    /\ cache = {}
    /\ recvBlockID = 0
    /\ lastRecvBlockID = 0
    /\ ordered = <<>>
    /\ taken = 0
    /\ relayCtxDone = FALSE
    /\ killed = FALSE

-----------------------------------------------------------------------------
(* The sender and the tunnels *)

\* NewConnectBlock, NewDisconnectBlock or one block of NewDataBlocks.
NewBlock == [id |-> sendBlockID, pos |-> sent]

\* packConnect, packDisconnect and each block of packData: sendBlockID.Inc()-1
Pack ==
    /\ sent < MaxBlocks
    /\ sent - Len(ordered) < Window
    /\ inFlight' = inFlight \cup {NewBlock}
    /\ sendBlockID' = Inc(sendBlockID)
    /\ sent' = sent + 1
    /\ UNCHANGED <<lost, recvQueue, relayVars, readerVars, contextVars>>

\* A tunnel dies with the block, before or after it is written to the wire.
Lose(b) ==
    /\ b \in inFlight
    /\ inFlight' = inFlight \ {b}
    /\ lost' = lost \cup {b.pos}
    /\ UNCHANGED <<senderVars, recvQueue, relayVars, readerVars, contextVars>>

\* Mutant of RecvBlock: a send that gives up when recvQueue is full.
RecvBlockNonBlocking(b) ==
    /\ b \in inFlight
    /\ inFlight' = inFlight \ {b}
    /\ recvQueue' = IF Len(recvQueue) < RecvQueueSize
                     THEN Append(recvQueue, b) ELSE recvQueue
    /\ UNCHANGED <<senderVars, lost, relayVars, readerVars, contextVars>>

\* RecvBlock, called by the connection pool: recvQueue <- blk.
RecvBlock(b) ==
    /\ b \in inFlight
    /\ Len(recvQueue) < RecvQueueSize
    /\ inFlight' = inFlight \ {b}
    /\ recvQueue' = Append(recvQueue, b)
    /\ UNCHANGED <<senderVars, lost, relayVars, readerVars, contextVars>>

-----------------------------------------------------------------------------
(* OrderedRelay *)

\* Mutant of LastAfter: only a block that fills the hole moves it.
LastAfterDirectOnly(id) == IF id = recvBlockID THEN Inc(id) ELSE lastRecvBlockID

\* lastRecvBlockID after a block with this id: the uint32 id + 1 is compared.
LastAfter(id) == IF Inc(id) > lastRecvBlockID THEN Inc(id) ELSE lastRecvBlockID

Cached(id) == {c \in cache : c.id = id}

\* Where the relay continues when it waits for this id, over this cache.
AfterSend(id, blocks) ==
    IF \E c \in blocks : c.id = id THEN "drain" ELSE "select"

\* The part of receiving a block that comes before it is looked at.
Dequeue ==
    /\ pc = "select"
    /\ recvQueue # <<>>
    /\ recvQueue' = Tail(recvQueue)
    /\ lastRecvBlockID' = LastAfter(Head(recvQueue).id)
    /\ UNCHANGED <<senderVars, transitVars, recvBlockID, readerVars,
                   contextVars>>

\* Mutant of ReceiveNext: any block not yet sent counts as the next one.
ReceiveNextNotOld ==
    /\ Dequeue
    /\ Head(recvQueue).id >= recvBlockID
    /\ held' = {Head(recvQueue)}
    /\ pc' = "direct"
    /\ UNCHANGED cache

\* The block waited for: it is held while orderedRecvQueue is full.
ReceiveNext ==
    /\ Dequeue
    /\ Head(recvQueue).id = recvBlockID
    /\ held' = {Head(recvQueue)}
    /\ pc' = "direct"
    /\ UNCHANGED cache

\* Mutant of ReceiveOld: drops whatever cannot be sent directly.
ReceiveOldAnyOther ==
    /\ Dequeue
    /\ Head(recvQueue).id # recvBlockID
    /\ UNCHANGED <<pc, held, cache>>

\* "Block is too old to cache".
ReceiveOld ==
    /\ Dequeue
    /\ Head(recvQueue).id < recvBlockID
    /\ UNCHANGED <<pc, held, cache>>

\* A block from beyond a hole: cache[blk.BlockID] = blk.
ReceiveAhead ==
    /\ Dequeue
    /\ Head(recvQueue).id > recvBlockID
    /\ cache' = (cache \ Cached(Head(recvQueue).id)) \cup {Head(recvQueue)}
    /\ UNCHANGED <<pc, held>>

\* Mutant of SendDirect: orderedRecvQueue as an unbounded list.
SendDirectUnbounded(b) ==
    /\ pc = "direct"
    /\ b \in held
    /\ ordered' = Append(ordered, b)
    /\ held' = {}
    /\ recvBlockID' = Inc(recvBlockID)
    /\ pc' = AfterSend(Inc(recvBlockID), cache)
    /\ UNCHANGED <<senderVars, transitVars, recvQueue, cache, lastRecvBlockID,
                   taken, contextVars>>

\* orderedRecvQueue <- blk, then recvBlockID++ and a look into the cache.
SendDirect(b) ==
    /\ pc = "direct"
    /\ b \in held
    /\ Len(ordered) - taken < OrderedRecvQueueSize
    /\ ordered' = Append(ordered, b)
    /\ held' = {}
    /\ recvBlockID' = Inc(recvBlockID)
    /\ pc' = AfterSend(Inc(recvBlockID), cache)
    /\ UNCHANGED <<senderVars, transitVars, recvQueue, cache, lastRecvBlockID,
                   taken, contextVars>>

\* Mutant of SendCached: drains the whole cache, in any order.
SendCachedAny(b) ==
    /\ pc = "drain"
    /\ b \in cache
    /\ Len(ordered) - taken < OrderedRecvQueueSize
    /\ ordered' = Append(ordered, b)
    /\ cache' = cache \ {b}
    /\ recvBlockID' = Inc(recvBlockID)
    /\ pc' = AfterSend(Inc(recvBlockID), cache \ {b})
    /\ UNCHANGED <<senderVars, transitVars, recvQueue, held, lastRecvBlockID,
                   taken, contextVars>>

\* orderedRecvQueue <- blk1 for a cached block, delete it, recvBlockID++.
SendCached(b) ==
    /\ pc = "drain"
    /\ b \in Cached(recvBlockID)
    /\ Len(ordered) - taken < OrderedRecvQueueSize
    /\ ordered' = Append(ordered, b)
    /\ cache' = cache \ {b}
    /\ recvBlockID' = Inc(recvBlockID)
    /\ pc' = AfterSend(Inc(recvBlockID), cache \ {b})
    /\ UNCHANGED <<senderVars, transitVars, recvQueue, held, lastRecvBlockID,
                   taken, contextVars>>

\* Mutant of PacketWaitTimeout: does not ask whether a hole is waited for.
PacketWaitTimeoutAlways ==
    /\ pc = "select"
    /\ ~relayCtxDone
    /\ relayCtxDone' = TRUE
    /\ killed' = TRUE
    /\ UNCHANGED <<senderVars, transitVars, recvQueue, relayVars, readerVars>>

\* No packet within PacketWaitTimeoutSec.  A block may reach recvQueue after
\* the timer has fired, so recvQueue need not be empty.
PacketWaitTimeout ==
    /\ pc = "select"
    /\ ~relayCtxDone
    /\ recvBlockID # lastRecvBlockID
    /\ relayCtxDone' = TRUE
    /\ killed' = TRUE
    /\ UNCHANGED <<senderVars, transitVars, recvQueue, relayVars, readerVars>>

\* <-relayCtx.Done() in any of the three selects.
StopRelay ==
    /\ pc # "stopped"
    /\ relayCtxDone
    /\ pc' = "stopped"
    /\ UNCHANGED <<senderVars, transitVars, recvQueue, held, cache,
                   recvBlockID, lastRecvBlockID, readerVars,
                   contextVars>>

-----------------------------------------------------------------------------
(* The connection around it *)

\* Stop(): the connection is closed, or a full disconnect is sent.
Stop ==
    /\ ~relayCtxDone
    /\ relayCtxDone' = TRUE
    /\ UNCHANGED <<senderVars, transitVars, recvQueue, relayVars, readerVars,
                   killed>>

\* readBlock or SendRelay takes the head of orderedRecvQueue.
Consume ==
    /\ taken < Len(ordered)
    /\ taken' = taken + 1
    /\ UNCHANGED <<senderVars, transitVars, recvQueue, relayVars, ordered,
                   contextVars>>

Transit == \E b \in inFlight : Lose(b) \/ RecvBlock(b)

OrderedRelay ==
    \/ ReceiveNext
    \/ ReceiveOld
    \/ ReceiveAhead
    \/ \E b \in held : SendDirect(b)
    \/ \E b \in cache : SendCached(b)
    \/ PacketWaitTimeout
    \/ StopRelay

Next == Pack \/ Transit \/ OrderedRelay \/ Stop \/ Consume

Spec == Init /\ [][Next]_vars

\* The goroutines and the network keep going: blocks that are not lost arrive,
\* the relay takes its steps, the reader reads until the connection is closed.
\* The packet wait timer is restarted by every packet, so it is sure to fire
\* only when none comes.  The writer may pause for ever, no block has to be
\* lost and nobody has to call Stop.
QuietTimeout == recvQueue = <<>> /\ PacketWaitTimeout

Fairness ==
    /\ WF_vars(\E b \in inFlight : RecvBlock(b))
    /\ WF_vars(ReceiveNext \/ ReceiveOld \/ ReceiveAhead)
    /\ WF_vars(\E b \in held : SendDirect(b))
    /\ WF_vars(\E b \in cache : SendCached(b))
    /\ WF_vars(QuietTimeout)
    /\ WF_vars(StopRelay)
    /\ WF_vars(~relayCtxDone /\ Consume)

FairSpec == Spec /\ Fairness

-----------------------------------------------------------------------------
(* Properties *)

\* The types of the relay's state; recvQueue and orderedRecvQueue never hold
\* more than their capacity, and the reader never gets ahead of the relay.
TypeOK ==
    /\ sendBlockID \in 0 .. IDMod - 1
    /\ sent \in Nat
    /\ inFlight \subseteq Block
    /\ lost \subseteq Nat
    /\ recvQueue \in Seq(Block) /\ Len(recvQueue) =< RecvQueueSize
    /\ pc \in {"select", "direct", "drain", "stopped"}
    /\ held \subseteq Block
    /\ cache \subseteq Block
    /\ recvBlockID \in 0 .. IDMod - 1
    /\ lastRecvBlockID \in 0 .. IDMod - 1
    /\ ordered \in Seq(Block)
    /\ taken \in Nat /\ taken =< Len(ordered)
    /\ Len(ordered) - taken =< OrderedRecvQueueSize
    /\ relayCtxDone \in BOOLEAN
    /\ killed \in BOOLEAN

\* What reaches the reader is exactly what was packed, in that order: the
\* direct sends and the drained cache together leave no gap and repeat
\* nothing, whatever order the tunnels deliver in (block_processor.go 51-83).
InOrder == \A i \in 1 .. Len(ordered) : ordered[i].pos = i - 1

\* No BlockID has been used twice yet, nor the last one: from there on the
\* comparisons of BlockIDs by < and > in OrderedRelay mislead it.
Unwrapped == sent < IDMod

Outstanding == inFlight \cup Range(recvQueue) \cup held \cup cache
Accounted ==
    \A p \in 0 .. sent - 1 :
        \/ p < Len(ordered)
        \/ p \in lost
        \/ \E b \in Outstanding : b.pos = p

\* OrderedRelay loses nothing itself: until the BlockID wraps, every block
\* packed is with the reader, on its way, held, cached, or was lost by a
\* tunnel (block_processor.go 85-92 drops only blocks the reader has).
NothingForgotten == Unwrapped => Accounted

\* The packet wait timeout closes the connection only when the processor is
\* waiting for a hole (const.go 8): a block past the one waited for is cached.
\* After a wrap it also closes connections that miss nothing.
KilledOnlyOnHole ==
    [][killed' /\ ~killed => cache # {} \/ ~Unwrapped]_vars

\* No block of the cache is stuck: a hole is filled, or the connection closed
\* by the timeout, once the tunnels have nothing more to bring.
HoleResolved == (cache # {}) ~> (cache = {} \/ relayCtxDone \/ ~Unwrapped)

\* Without losses every block packed reaches the reader, unless the connection
\* is stopped: no interleaving of full queues blocks the relay for good.
Delivery ==
    \A p \in 0 .. MaxBlocks - 1 :
        (p < sent) ~> (p < taken \/ lost # {} \/ relayCtxDone \/ ~Unwrapped)

\* One direction of a connection is an ordered stream (OrderedStream), broken
\* when the relay context is cancelled.
Stream == INSTANCE OrderedStream WITH
            written <- sent,
            read <- [i \in 1 .. Len(ordered) |-> ordered[i].pos],
            broken <- relayCtxDone
ImplementsStream == Stream!StreamSpec
=============================================================================
