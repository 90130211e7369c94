----------------------------- MODULE TunnelPool -----------------------------
(***************************************************************************)
(* How blocks cross from one peer to the other: the sending TunnelPool's   *)
(* sendQueue and sendRetryQueue, the OutboundRelay of each of its tunnels, *)
(* the TCP connections, and the InboundRelay at the far end of each, which *)
(* feeds the receiving pool's recvQueue.  Tunnels break, stall and are     *)
(* closed by either end; closing is closeThenCancel, after which a tunnel  *)
(* never comes back.                                                       *)
(*                                                                         *)
(* One direction is modelled; the other one is the same code.  Ping and    *)
(* pong blocks never enter these queues and are left out, except that a    *)
(* PingPong timeout may close either end of a tunnel at any time.          *)
(***************************************************************************)
EXTENDS Naturals, Sequences, FiniteSets, Functions

CONSTANTS
    Blocks,             \* the blocks the connection pool sends
    Tunnels,            \* bound: the tunnels ever dialed
    SendQueueSize,      \* capacity of sendQueue and of sendRetryQueue
    RecvQueueSize,      \* capacity of recvQueue
    WireSize            \* bound: blocks TCP buffers on one connection

ASSUME SizeAssumption ==
    {SendQueueSize, RecvQueueSize, WireSize} \subseteq Nat \ {0}

VARIABLES
    unsent,             \* blocks not yet on sendQueue
    sendQueue,
    sendRetryQueue,
    tunnelMapping,      \* tunnels of the sending pool
    ctxDone,            \* sending end of the tunnel closed and cancelled
    relay,              \* where the tunnel's OutboundRelay is
    holding,            \* the block it is packing and sending, if any
    retrying,           \* goroutines of packThenSend that offer a retry
    broken,             \* the network lost the connection
    wire,               \* blocks written and not yet read, oldest first
    recvCtxDone,        \* receiving end of the tunnel closed and cancelled
    recvRelay,          \* where its InboundRelay is
    recvHolding,        \* the block it is putting on recvQueue, if any
    recvQueue,
    delivered,          \* ghost: blocks taken by the far connection pool
    lost                \* ghost: blocks that nothing holds any more

queueVars == <<unsent, sendQueue, sendRetryQueue>>
outVars   == <<tunnelMapping, ctxDone, relay, holding, retrying>>
wireVars  == <<broken, wire>>
inVars    == <<recvCtxDone, recvRelay, recvHolding>>
sinkVars  == <<recvQueue, delivered, lost>>
vars == <<queueVars, outVars, wireVars, inVars, sinkVars>>

Init ==
    /\ unsent = Blocks
    /\ sendQueue = <<>>
    /\ sendRetryQueue = <<>>
    /\ tunnelMapping = {}
    /\ ctxDone = [t \in Tunnels |-> FALSE]
    /\ relay = [t \in Tunnels |-> "absent"]
    /\ holding = [t \in Tunnels |-> {}]
    /\ retrying = {}
    /\ broken = [t \in Tunnels |-> FALSE]
    /\ wire = [t \in Tunnels |-> <<>>]
    /\ recvCtxDone = [t \in Tunnels |-> FALSE]
    /\ recvRelay = [t \in Tunnels |-> "absent"]
    /\ recvHolding = [t \in Tunnels |-> {}]
    /\ recvQueue = <<>>
    /\ delivered = {}
    /\ lost = {}

-----------------------------------------------------------------------------
(* The pool *)

\* Mutant of HasRoom: a queue without a capacity.
HasRoomAlways(queue) == TRUE

\* sendQueue and sendRetryQueue are channels of the same capacity.
HasRoom(queue) == Len(queue) < SendQueueSize

\* ConnectionPool.sendRelay: tunnelPool.sendQueue <- blk.
SendBlock(b) ==
    /\ b \in unsent
    /\ HasRoom(sendQueue)
    /\ unsent' = unsent \ {b}
    /\ sendQueue' = Append(sendQueue, b)
    /\ UNCHANGED <<sendRetryQueue, outVars, wireVars, inVars, sinkVars>>

\* A tunnel has shaken hands: both pools start its relays.
AddTunnel(t) ==
    /\ relay[t] = "absent"
    /\ tunnelMapping' = tunnelMapping \cup {t}
    /\ relay' = [relay EXCEPT ![t] = "cancel"]
    /\ recvRelay' = [recvRelay EXCEPT ![t] = "read"]
    /\ UNCHANGED <<queueVars, ctxDone, holding, retrying, wireVars,
                   recvCtxDone, recvHolding, sinkVars>>

\* The goroutine of AddTunnel that waits for the tunnel's context.
RemoveTunnel(t) ==
    /\ t \in tunnelMapping
    /\ ctxDone[t]
    /\ tunnelMapping' = tunnelMapping \ {t}
    /\ UNCHANGED <<queueVars, ctxDone, relay, holding, retrying, wireVars,
                   inVars, sinkVars>>

-----------------------------------------------------------------------------
(* OutboundRelay *)

GoTo(t, pc) ==
    /\ relay' = [relay EXCEPT ![t] = pc]
    /\ UNCHANGED <<queueVars, tunnelMapping, ctxDone, holding, retrying,
                   wireVars, inVars, sinkVars>>

\* "cancel is of highest priority": the select at the top of the loop.
CheckCancel(t) ==
    /\ relay[t] = "cancel"
    /\ GoTo(t, IF ctxDone[t] THEN "ended" ELSE "retry")

\* <-tunnel.ctx.Done() in one of the two selects below it.
EndRelay(t) ==
    /\ relay[t] \in {"retry", "normal"}
    /\ ctxDone[t]
    /\ GoTo(t, "ended")

\* default of the second select: nothing to retry, not cancelled.
NoRetry(t) ==
    /\ relay[t] = "retry"
    /\ ~ctxDone[t]
    /\ sendRetryQueue = <<>>
    /\ GoTo(t, "normal")

\* Mutant of RetrySelects: the third select listens to normalQueue only.
RetrySelectsFirst == {"retry"}

\* The selects that take from sendRetryQueue.
RetrySelects == {"retry", "normal"}

\* A block from sendRetryQueue.
TakeRetry(t) ==
    /\ relay[t] \in RetrySelects
    /\ sendRetryQueue # <<>>
    /\ holding' = [holding EXCEPT ![t] = {Head(sendRetryQueue)}]
    /\ sendRetryQueue' = Tail(sendRetryQueue)
    /\ relay' = [relay EXCEPT ![t] = IF @ = "retry" THEN "sendRetry"
                                                    ELSE "sendNormal"]
    /\ UNCHANGED <<unsent, sendQueue, tunnelMapping, ctxDone, retrying,
                   wireVars, inVars, sinkVars>>

\* A block from sendQueue, in the third select.
TakeNormal(t) ==
    /\ relay[t] = "normal"
    /\ sendQueue # <<>>
    /\ holding' = [holding EXCEPT ![t] = {Head(sendQueue)}]
    /\ sendQueue' = Tail(sendQueue)
    /\ relay' = [relay EXCEPT ![t] = "sendNormal"]
    /\ UNCHANGED <<unsent, sendRetryQueue, tunnelMapping, ctxDone, retrying,
                   wireVars, inVars, sinkVars>>

\* Mutant of AfterSend: the relay returns after a block.
AfterSendReturns(pc) == "ended"

\* Where OutboundRelay goes when packThenSend returns.
AfterSend(pc) == IF pc = "sendRetry" THEN "normal" ELSE "cancel"

\* packThenSend copies the whole block to the connection.  If the far end is
\* gone already, TCP accepts the bytes and nobody will read them.
WriteBlock(t) ==
    /\ holding[t] # {}
    /\ ~ctxDone[t]
    /\ Len(wire[t]) < WireSize
    /\ \E b \in holding[t] :
         IF recvCtxDone[t]
         THEN /\ lost' = lost \cup {b}
              /\ wire' = wire
         ELSE /\ wire' = [wire EXCEPT ![t] = Append(@, b)]
              /\ lost' = lost
    /\ holding' = [holding EXCEPT ![t] = {}]
    /\ relay' = [relay EXCEPT ![t] = AfterSend(@)]
    /\ UNCHANGED <<queueVars, tunnelMapping, ctxDone, retrying, broken,
                   inVars, recvQueue, delivered>>

\* The conditions under which copying a block fails: the connection is closed
\* or reset, or TCP takes no bytes for TunnelBlockTimeoutSec.
WriteCanFail(t) ==
    ctxDone[t] \/ broken[t] \/ recvCtxDone[t] \/ Len(wire[t]) = WireSize

\* Mutant of WireAfterFailure: the whole block may have got through.
WireAfterLateFailure(t) ==
    {wire} \cup {[wire EXCEPT ![t] = Append(@, b)] :
                   b \in {x \in holding[t] : Len(wire[t]) < WireSize}}

\* The far end never gets a whole block of a write that failed.
WireAfterFailure(t) == {wire}

\* packThenSend fails: closeThenCancel, then a goroutine offers the block to
\* sendRetryQueue.
WriteFails(t) ==
    /\ holding[t] # {}
    /\ WriteCanFail(t)
    /\ ctxDone' = [ctxDone EXCEPT ![t] = TRUE]
    /\ retrying' = retrying \cup {[tunnel |-> t, block |-> b] : b \in holding[t]}
    /\ wire' \in WireAfterFailure(t)
    /\ holding' = [holding EXCEPT ![t] = {}]
    /\ relay' = [relay EXCEPT ![t] = AfterSend(@)]
    /\ UNCHANGED <<queueVars, tunnelMapping, broken, inVars, sinkVars>>

\* The goroutine's select: retryQueue <- blk.
PutRetry(r) ==
    /\ r \in retrying
    /\ HasRoom(sendRetryQueue)
    /\ retrying' = retrying \ {r}
    /\ sendRetryQueue' = Append(sendRetryQueue, r.block)
    /\ UNCHANGED <<unsent, sendQueue, tunnelMapping, ctxDone, relay, holding,
                   wireVars, inVars, sinkVars>>

\* The goroutine's select: <-tunnel.ctx.Done(), "not retrying block".
DropRetry(r) ==
    /\ r \in retrying
    /\ ctxDone[r.tunnel]
    /\ retrying' = retrying \ {r}
    /\ lost' = lost \cup {r.block}
    /\ UNCHANGED <<queueVars, tunnelMapping, ctxDone, relay, holding,
                   wireVars, inVars, recvQueue, delivered>>

\* closeThenCancel of the sending end from elsewhere: its own InboundRelay's
\* read failed, or PingPong timed out (KeepAlive).
CloseSender(t) ==
    /\ relay[t] # "absent"
    /\ ~ctxDone[t]
    /\ ctxDone' = [ctxDone EXCEPT ![t] = TRUE]
    /\ UNCHANGED <<queueVars, tunnelMapping, relay, holding, retrying,
                   wireVars, inVars, sinkVars>>

-----------------------------------------------------------------------------
(* The network and the far end's InboundRelay *)

NetworkFails(t) ==
    /\ relay[t] # "absent"
    /\ ~broken[t]
    /\ broken' = [broken EXCEPT ![t] = TRUE]
    /\ UNCHANGED <<queueVars, outVars, wire, inVars, sinkVars>>

\* NewBlockFromReader returns a block.
ReadBlock(t) ==
    /\ recvRelay[t] = "read"
    /\ ~recvCtxDone[t]
    /\ ~broken[t]
    /\ wire[t] # <<>>
    /\ recvHolding' = [recvHolding EXCEPT ![t] = {Head(wire[t])}]
    /\ wire' = [wire EXCEPT ![t] = Tail(@)]
    /\ recvRelay' = [recvRelay EXCEPT ![t] = "put"]
    /\ UNCHANGED <<queueVars, outVars, broken, recvCtxDone, sinkVars>>

\* closeThenCancel of the receiving end, because reading failed or because
\* PingPong timed out.  What is on the wire is gone.
CloseReceiver(t) ==
    /\ recvRelay[t] # "absent"
    /\ ~recvCtxDone[t]
    /\ recvCtxDone' = [recvCtxDone EXCEPT ![t] = TRUE]
    /\ lost' = lost \cup Range(wire[t])
    /\ wire' = [wire EXCEPT ![t] = <<>>]
    /\ UNCHANGED <<queueVars, outVars, broken, recvRelay, recvHolding,
                   recvQueue, delivered>>

\* output <- *blk.
PutBlock(t) ==
    /\ recvRelay[t] = "put"
    /\ Len(recvQueue) < RecvQueueSize
    /\ \E b \in recvHolding[t] : recvQueue' = Append(recvQueue, b)
    /\ recvHolding' = [recvHolding EXCEPT ![t] = {}]
    /\ recvRelay' = [recvRelay EXCEPT ![t] = "read"]
    /\ UNCHANGED <<queueVars, outVars, wireVars, recvCtxDone, delivered, lost>>

\* Mutant of GivesUp: the select has a default branch.
GivesUpWhenFull(t) == recvCtxDone[t] \/ Len(recvQueue) = RecvQueueSize

\* <-tunnel.ctx.Done() is the only other case of that select.
GivesUp(t) == recvCtxDone[t]

\* The block that waits for recvQueue is dropped.
AbandonBlock(t) ==
    /\ recvRelay[t] = "put"
    /\ GivesUp(t)
    /\ lost' = lost \cup recvHolding[t]
    /\ recvHolding' = [recvHolding EXCEPT ![t] = {}]
    /\ recvRelay' = [recvRelay EXCEPT ![t] = "ended"]
    /\ UNCHANGED <<queueVars, outVars, wireVars, recvCtxDone, recvQueue,
                   delivered>>

\* Mutant of EndInbound: the loop never looks at the context.
EndInboundNever(t) ==
    /\ recvRelay[t] = "read"
    /\ recvCtxDone[t]
    /\ UNCHANGED vars

\* The context is done: the one more read fails on the closed connection.
EndInbound(t) ==
    /\ recvRelay[t] = "read"
    /\ recvCtxDone[t]
    /\ recvRelay' = [recvRelay EXCEPT ![t] = "ended"]
    /\ UNCHANGED <<queueVars, outVars, wireVars, recvCtxDone, recvHolding,
                   sinkVars>>

\* The far ConnectionPool.recvRelay takes a block.
Deliver ==
    /\ recvQueue # <<>>
    /\ delivered' = delivered \cup {Head(recvQueue)}
    /\ recvQueue' = Tail(recvQueue)
    /\ UNCHANGED <<queueVars, outVars, wireVars, inVars, lost>>

-----------------------------------------------------------------------------
OutboundRelay(t) ==
    \/ CheckCancel(t)
    \/ EndRelay(t)
    \/ TakeRetry(t)
    \/ NoRetry(t)
    \/ TakeNormal(t)
    \/ WriteBlock(t)
    \/ WriteFails(t)

InboundRelay(t) ==
    \/ ReadBlock(t)
    \/ PutBlock(t)
    \/ AbandonBlock(t)
    \/ EndInbound(t)

Next ==
    \/ \E b \in Blocks : SendBlock(b)
    \/ \E t \in Tunnels :
         \/ AddTunnel(t) \/ RemoveTunnel(t)
         \/ OutboundRelay(t) \/ InboundRelay(t)
         \/ CloseSender(t) \/ CloseReceiver(t) \/ NetworkFails(t)
    \/ \E r \in retrying : PutRetry(r) \/ DropRetry(r)
    \/ Deliver

Spec == Init /\ [][Next]_vars

\* Reading fails, sooner or later, on a connection the other end closed or the
\* network lost; the same holds for the sending end's own reads.
NoticeClosed(t) ==
    \/ (broken[t] \/ ctxDone[t]) /\ CloseReceiver(t)
    \/ (broken[t] \/ recvCtxDone[t]) /\ CloseSender(t)

\* The goroutines run and the far pool reads.  Nothing makes a tunnel fail,
\* and the client dials the tunnels it needs.
Fairness ==
    /\ WF_vars(\E b \in Blocks : SendBlock(b))
    /\ WF_vars(Deliver)
    /\ WF_vars(\E r \in retrying : PutRetry(r) \/ DropRetry(r))
    /\ \A t \in Tunnels :
         /\ WF_vars(AddTunnel(t))
         /\ WF_vars(RemoveTunnel(t))
         /\ WF_vars(OutboundRelay(t))
         /\ WF_vars(InboundRelay(t))
         /\ WF_vars(NoticeClosed(t))

FairSpec == Spec /\ Fairness

-----------------------------------------------------------------------------
(* Properties *)

\* The types of both pools' state; no queue exceeds its capacity, and a relay
\* has a block in hand exactly while it is sending one.
TypeOK ==
    /\ unsent \subseteq Blocks
    /\ sendQueue \in Seq(Blocks) /\ Len(sendQueue) =< SendQueueSize
    /\ sendRetryQueue \in Seq(Blocks) /\ Len(sendRetryQueue) =< SendQueueSize
    /\ tunnelMapping \subseteq Tunnels
    /\ ctxDone \in [Tunnels -> BOOLEAN]
    /\ relay \in [Tunnels -> {"absent", "cancel", "retry", "normal",
                              "sendRetry", "sendNormal", "ended"}]
    /\ holding \in [Tunnels -> SUBSET Blocks]
    /\ \A t \in Tunnels :
         holding[t] # {} <=> relay[t] \in {"sendRetry", "sendNormal"}
    /\ retrying \subseteq [tunnel : Tunnels, block : Blocks]
    /\ broken \in [Tunnels -> BOOLEAN]
    /\ wire \in [Tunnels -> Seq(Blocks)]
    /\ \A t \in Tunnels : Len(wire[t]) =< WireSize
    /\ recvCtxDone \in [Tunnels -> BOOLEAN]
    /\ recvRelay \in [Tunnels -> {"absent", "read", "put", "ended"}]
    /\ recvHolding \in [Tunnels -> SUBSET Blocks]
    /\ recvQueue \in Seq(Blocks) /\ Len(recvQueue) =< RecvQueueSize
    /\ delivered \subseteq Blocks
    /\ lost \subseteq Blocks

Copies(b, q) == Cardinality({i \in 1 .. Len(q) : q[i] = b})
OneIf(cond) == IF cond THEN 1 ELSE 0

\* Every block is in exactly one place, whatever fails and however often it is
\* retried: a block is never duplicated, so the far end sees it at most once,
\* and it disappears only by being counted as lost (tunnel.go 206-241).
OnePlace ==
    \A b \in Blocks :
        OneIf(b \in unsent) + OneIf(b \in delivered) + OneIf(b \in lost)
        + Copies(b, sendQueue) + Copies(b, sendRetryQueue) + Copies(b, recvQueue)
        + Cardinality({t \in Tunnels : b \in holding[t]})
        + Cardinality({t \in Tunnels : b \in recvHolding[t]})
        + Cardinality({r \in retrying : r.block = b})
        + Cardinality({p \in Tunnels \X (1 .. WireSize) :
                         p[2] =< Len(wire[p[1]]) /\ wire[p[1]][p[2]] = b})
        = 1

\* The pools and the tunnels between them are the Transport that
\* BlockProcessor takes for granted: each block is carried once, in any order,
\* arrives or is lost, and is lost only after an end of a tunnel has closed;
\* full queues and slow readers hold blocks back but never drop them.
Carrier == INSTANCE Transport WITH
    waiting <- unsent,
    arrived <- delivered,
    faulty <- \E t \in Tunnels : ctxDone[t] \/ recvCtxDone[t]
ImplementsTransport == Carrier!Spec

\* While a tunnel lives at both ends, a block that has not arrived never waits
\* on goroutines that all wait for each other, however full the queues are.
Relaying ==
    \/ \E b \in Blocks : SendBlock(b)
    \/ \E t \in Tunnels : OutboundRelay(t) \/ InboundRelay(t) \/ NoticeClosed(t)
    \/ \E r \in retrying : PutRetry(r) \/ DropRetry(r)
    \/ Deliver
NoGridlock ==
    (/\ delivered \cup lost # Blocks
     /\ \E t \in tunnelMapping : ~ctxDone[t] /\ ~recvCtxDone[t] /\ ~broken[t])
    => ENABLED Relaying

\* No block is left behind: it arrives, or a tunnel loses it, or it is still
\* queued when all the tunnels there ever are have died.
Settled(b) ==
    \/ b \in delivered \cup lost
    \/ /\ \A t \in Tunnels : ctxDone[t]
       /\ b \in unsent \cup Range(sendQueue) \cup Range(sendRetryQueue)
EveryBlockSettled == <>(\A b \in Blocks : Settled(b))

\* Closing one end is enough: the other end notices, both relays end and the
\* pool forgets the tunnel.  (None of this is ever undone.)
DeadTunnelRemoved ==
    []<>(\A t \in Tunnels :
            (ctxDone[t] \/ recvCtxDone[t]) =>
                /\ relay[t] = "ended"
                /\ recvRelay[t] = "ended"
                /\ t \notin tunnelMapping)
=============================================================================
