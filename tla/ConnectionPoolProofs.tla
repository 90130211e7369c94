------------------------ MODULE ConnectionPoolProofs ------------------------
(***************************************************************************)
(* Proofs about ConnectionPool, for the pool of a client and of a server,  *)
(* any connections and blocks, and any queue sizes: its types, that a      *)
(* removal never takes a live connection away, and that no block of a      *)
(* connection that has not ended is lost.                                  *)
(***************************************************************************)
EXTENDS ConnectionPool, SequenceTheorems, TLAPS

(* Channels: what is in one after a receive and after a send *)

LEMMA RangeTail ==
    ASSUME NEW S, NEW q \in Seq(S), q # <<>>
    PROVE  Range(q) = {Head(q)} \cup Range(Tail(q))
<1>1. /\ Len(q) \in Nat \ {0} /\ DOMAIN q = 1 .. Len(q) /\ Head(q) = q[1]
      /\ DOMAIN Tail(q) = 1 .. Len(q) - 1
      /\ \A i \in 1 .. Len(q) - 1 : Tail(q)[i] = q[i + 1]
  OBVIOUS
<1>2. ASSUME NEW i \in 1 .. Len(q) PROVE q[i] \in {Head(q)} \cup Range(Tail(q))
  <2>1. CASE i = 1
    BY <1>1, <2>1
  <2>2. CASE i # 1
    <3>1. i - 1 \in 1 .. Len(q) - 1 /\ Tail(q)[i - 1] = q[i]
      BY <1>1, <2>2
    <3> QED  BY <1>1, <3>1 DEF Range
  <2> QED  BY <2>1, <2>2
<1>3. {Head(q)} \cup Range(Tail(q)) \subseteq Range(q)
  BY <1>1 DEF Range
<1> QED  BY <1>1, <1>2, <1>3 DEF Range

LEMMA RangeAppend ==
    ASSUME NEW S, NEW q \in Seq(S), NEW e \in S
    PROVE  Range(Append(q, e)) = Range(q) \cup {e}
<1>1. /\ Len(q) \in Nat /\ DOMAIN q = 1 .. Len(q)
      /\ DOMAIN Append(q, e) = 1 .. Len(q) + 1
      /\ \A i \in 1 .. Len(q) : Append(q, e)[i] = q[i]
      /\ Append(q, e)[Len(q) + 1] = e
  OBVIOUS
<1>2. \A i \in 1 .. Len(q) + 1 : Append(q, e)[i] \in Range(q) \cup {e}
  BY <1>1 DEF Range
<1>3. Range(q) \cup {e} \subseteq Range(Append(q, e))
  BY <1>1 DEF Range
<1> QED  BY <1>1, <1>2, <1>3 DEF Range

\* What the mapping says of the latest connection of each ID: it is mapped
\* from its creation until the one removeConnection that it is owed.
Mapping ==
    \A id \in ConnIDs :
        /\ connCtx[id] = "live" => id \in connectionMapping
        /\ id \in connectionMapping => connCtx[id] # "none"
        /\ removing[id] = IF connCtx[id] = "done" /\ id \in connectionMapping
                          THEN 1 ELSE 0

\* Only a peer that ends, or a connection that ends, has contexts done, and
\* a connection that never was has no blocks.
Contexts ==
    \A id \in ConnIDs :
        /\ connCtx[id] = "done" => poolDone \/ cancels[id] > 0
        /\ connCtx[id] = "none" => recvQueue[id] = <<>>

\* recvRelay delivers to a connection that is or was, one block at a time;
\* the client gets blocks only for such connections.
Relays ==
    /\ \A b, c \in recvHolding : b = c
    /\ \A b \in recvHolding : connCtx[b.conn] # "none"
    /\ \A b \in Range(tunnelRecvQueue) :
         acceptNewConnection \/ connCtx[b.conn] # "none"
    /\ sendHolding # {} => sendRelay = "put"

Inv == TypeOK /\ Mapping /\ Contexts /\ Relays /\ NoBlockLost

LEMMA BlocksAndIDs ==
    /\ \A b \in Blocks \cup Sends : b.conn \in ConnIDs
    /\ TypeOK => Range(tunnelRecvQueue) \subseteq Blocks
    /\ TypeOK /\ tunnelRecvQueue # <<>> => /\ Head(tunnelRecvQueue) \in Blocks
                                           /\ Head(tunnelRecvQueue).conn \in ConnIDs
<1>1. \A b \in Blocks \cup Sends : b.conn \in ConnIDs
  BY DEF Blocks, Sends
<1>2. ASSUME TypeOK PROVE Range(tunnelRecvQueue) \subseteq Blocks
  BY <1>2 DEF TypeOK, Range
<1>3. ASSUME TypeOK, tunnelRecvQueue # <<>> PROVE Head(tunnelRecvQueue) \in Blocks
  BY <1>3, HeadTailProperties DEF TypeOK
<1> QED
  BY <1>1, <1>2, <1>3

LEMMA TypeInit == Init => TypeOK
<1> SUFFICES ASSUME Init PROVE TypeOK
  OBVIOUS
<1>1. acceptNewConnection \in BOOLEAN
  BY ConnectionBounds DEF Init
<1>2. /\ tunnelRecvQueue \in Seq(Blocks) /\ Len(tunnelRecvQueue) =< PoolQueueSize
      /\ recvQueue \in [ConnIDs -> Seq(Blocks)]
      /\ \A id \in ConnIDs : Len(recvQueue[id]) =< RecvQueueSize
      /\ sendQueue \in Seq(Sends) /\ Len(sendQueue) =< PoolQueueSize
      /\ tunnelSendQueue \in Seq(Sends) /\ Len(tunnelSendQueue) =< PoolQueueSize
  BY ConnectionBounds DEF Init
<1> QED
  BY <1>1, <1>2 DEF Init, TypeOK

\* addConnection sets every field of the connection.
LEMMA TypeAddConnection ==
    ASSUME TypeOK, NEW id \in ConnIDs, AddConnection(id)
    PROVE  /\ connectionMapping' \subseteq ConnIDs
           /\ connCtx' \in [ConnIDs -> {"none", "live", "done"}]
           /\ removing' \in [ConnIDs -> Nat]
           /\ recvQueue' \in [ConnIDs -> Seq(Blocks)]
           /\ \A i \in ConnIDs : Len(recvQueue'[i]) =< RecvQueueSize
           /\ queueClosed' \in [ConnIDs -> BOOLEAN]
           /\ orderedRelay' \in [ConnIDs -> BOOLEAN]
  BY ConnectionBounds DEF TypeOK, AddConnection

LEMMA TypeStep == TypeOK /\ [Next]_vars => TypeOK'
<1> SUFFICES ASSUME TypeOK, [Next]_vars PROVE TypeOK'
  OBVIOUS
<1> USE ConnectionBounds DEF TypeOK, recvVars, connVars, sendVars, poolVars
<1>0. \A b \in Blocks : b.conn \in ConnIDs
  BY BlocksAndIDs
<1>1. CASE LookUp
  <2>1. /\ Head(tunnelRecvQueue) \in Blocks
        /\ tunnelRecvQueue' \in Seq(Blocks)
        /\ Len(tunnelRecvQueue') =< PoolQueueSize
    BY <1>1, HeadTailProperties DEF LookUp
  <2>2. CASE UNCHANGED connVars
    BY <1>1, <2>1, <2>2 DEF LookUp
  <2>3. CASE AddConnection(Head(tunnelRecvQueue).conn) /\ recvRelay' = "check"
    BY <1>0, <1>1, <2>1, <2>3, TypeAddConnection DEF LookUp
  <2> QED
    BY <1>1, <2>2, <2>3 DEF LookUp
<1>2. CASE CheckPool
  BY <1>2 DEF CheckPool
<1>3. CASE RecvBlock
  <2>1. PICK b \in recvHolding :
          /\ recvQueue' = [recvQueue EXCEPT ![b.conn] = Append(@, b)]
          /\ HasRoom(recvQueue[b.conn])
    BY <1>3 DEF RecvBlock
  <2>2. /\ recvQueue' \in [ConnIDs -> Seq(Blocks)]
        /\ \A i \in ConnIDs : Len(recvQueue'[i]) =< RecvQueueSize
    <3>1. b \in Blocks /\ b.conn \in ConnIDs
      BY <1>0, <2>1
    <3>2. /\ Append(recvQueue[b.conn], b) \in Seq(Blocks)
          /\ Len(Append(recvQueue[b.conn], b)) = Len(recvQueue[b.conn]) + 1
      BY <3>1, AppendProperties
    <3>3. Len(recvQueue[b.conn]) + 1 =< RecvQueueSize
      BY <2>1, <3>1 DEF HasRoom
    <3> QED
      BY <2>1, <3>1, <3>2, <3>3
  <2> QED
    BY <1>3, <2>2 DEF RecvBlock
<1>4. CASE RecvBlockPanics \/ RecvRelayStops \/ MapFault
  BY <1>4 DEF RecvBlockPanics, RecvRelayStops, MapFault
<1>5. CASE SendRelayTakes
  <2>1. /\ Head(sendQueue) \in Sends /\ sendQueue' \in Seq(Sends)
        /\ Len(sendQueue') =< PoolQueueSize
    BY <1>5, HeadTailProperties DEF SendRelayTakes
  <2>2. sendHolding' \in {{}} \cup {{b} : b \in Sends}
    BY <1>5, <2>1 DEF SendRelayTakes
  <2> QED
    BY <1>5, <2>1, <2>2 DEF SendRelayTakes
<1>6. CASE SendRelayPuts
  BY <1>6, AppendProperties DEF SendRelayPuts
<1>7. CASE SendRelayStops
  BY <1>7 DEF SendRelayStops
<1>8. CASE TunnelTakes
  BY <1>8, HeadTailProperties DEF TunnelTakes
<1>9. CASE PoolCancelled
  BY <1>9 DEF PoolCancelled
<1>10. ASSUME NEW b \in Blocks, BlockArrives(b) PROVE TypeOK'
  BY <1>10, AppendProperties DEF BlockArrives
<1>11. ASSUME NEW b \in Sends, ConnectionSends(b) PROVE TypeOK'
  BY <1>11, AppendProperties DEF ConnectionSends, Send
<1>12. ASSUME NEW id \in ConnIDs, Dial(id) PROVE TypeOK'
  BY <1>12, TypeAddConnection DEF Dial
<1>13. ASSUME NEW id \in ConnIDs, ConnectionEnds(id) PROVE TypeOK'
  BY <1>13 DEF ConnectionEnds, Cancel
<1>14. ASSUME NEW id \in ConnIDs, RemoveConnection(id) PROVE TypeOK'
  BY <1>14 DEF RemoveConnection
<1>15. ASSUME NEW id \in ConnIDs, Close(id) PROVE TypeOK'
  <2>1. PICK b \in unsent : Send(b)
    BY <1>15 DEF Close
  <2>2. unsent' \subseteq Sends /\ sendQueue' \in Seq(Sends) /\ Len(sendQueue') =< PoolQueueSize
    BY <2>1, AppendProperties DEF Send
  <2> QED
    BY <1>15, <2>2 DEF Close, Cancel
<1>16. ASSUME NEW id \in ConnIDs, CloseQueue(id) PROVE TypeOK'
  BY <1>16 DEF CloseQueue
<1>17. ASSUME NEW id \in ConnIDs, OrderedRelayTakes(id) PROVE TypeOK'
  <2>1. /\ Head(recvQueue[id]) \in Blocks /\ Tail(recvQueue[id]) \in Seq(Blocks)
        /\ Len(Tail(recvQueue[id])) =< RecvQueueSize
    BY <1>17, HeadTailProperties DEF OrderedRelayTakes
  <2> QED
    BY <1>17, <2>1 DEF OrderedRelayTakes
<1>18. ASSUME NEW id \in ConnIDs, OrderedRelayPanics(id) \/ OrderedRelayEnds(id)
       PROVE  TypeOK'
  BY <1>18 DEF OrderedRelayPanics, OrderedRelayEnds
<1>19. CASE UNCHANGED vars
  BY <1>19 DEF vars
<1> QED
  BY <1>1, <1>2, <1>3, <1>4, <1>5, <1>6, <1>7, <1>8, <1>9, <1>10, <1>11, <1>12,
     <1>13, <1>14, <1>15, <1>16, <1>17, <1>18, <1>19
  DEF Next, RecvRelayStep, SendRelayStep

\* Every state of the pool is well typed: no queue exceeds its capacity, and
\* recvRelay has a block in hand exactly while it delivers one.
THEOREM TypeCorrectness == Spec => []TypeOK
  BY TypeInit, TypeStep, PTL DEF Spec

-----------------------------------------------------------------------------
(* The mapping and the contexts *)

\* The steps that touch neither.
LEMMA SameMapping ==
    ASSUME UNCHANGED <<connectionMapping, connCtx, removing>>, Mapping
    PROVE  Mapping'
  BY DEF Mapping

\* A new connection takes an ID that the mapping does not have, so no
\* removeConnection is on its way.
LEMMA MappingAdd ==
    ASSUME TypeOK, Mapping, NEW id \in ConnIDs, id \notin connectionMapping,
           AddConnection(id)
    PROVE  Mapping'
<1>1. removing[id] = 0
  BY DEF Mapping
<1>2. /\ connCtx'[id] = IF poolDone THEN "done" ELSE "live"
      /\ removing'[id] = IF poolDone THEN 1 ELSE 0
      /\ id \in connectionMapping'
      /\ \A i \in ConnIDs \ {id} : /\ connCtx'[i] = connCtx[i]
                                   /\ removing'[i] = removing[i]
                                   /\ i \in connectionMapping' <=> i \in connectionMapping
  BY <1>1 DEF AddConnection, TypeOK
<1> QED
  BY <1>2 DEF Mapping

\* A live connection that is cancelled is mapped and owed one removal.
LEMMA MappingCancel ==
    ASSUME TypeOK, Mapping, NEW id \in ConnIDs, connCtx[id] = "live", Cancel(id),
           connectionMapping' = connectionMapping
    PROVE  Mapping'
<1>1. id \in connectionMapping /\ removing[id] = 0
  BY DEF Mapping
<1>2. /\ connCtx'[id] = "done" /\ removing'[id] = 1
      /\ \A i \in ConnIDs \ {id} : connCtx'[i] = connCtx[i] /\ removing'[i] = removing[i]
  BY <1>1 DEF Cancel, TypeOK
<1> QED
  BY <1>1, <1>2 DEF Mapping

LEMMA MappingStep == TypeOK /\ Mapping /\ [Next]_vars => Mapping'
<1> SUFFICES ASSUME TypeOK, Mapping, [Next]_vars PROVE Mapping'
  OBVIOUS
<1> USE DEF recvVars, connVars, sendVars, poolVars
<1>1. CASE LookUp
  <2>1. Head(tunnelRecvQueue).conn \in ConnIDs
    BY <1>1, BlocksAndIDs DEF LookUp
  <2>2. CASE UNCHANGED connVars
    BY <2>2, SameMapping
  <2>3. CASE /\ Head(tunnelRecvQueue).conn \notin connectionMapping
             /\ AddConnection(Head(tunnelRecvQueue).conn)
    BY <2>1, <2>3, MappingAdd
  <2> QED
    BY <1>1, <2>2, <2>3 DEF LookUp, Known
<1>2. ASSUME NEW id \in ConnIDs, Dial(id) PROVE Mapping'
  <2>1. id \notin connectionMapping
    BY <1>2 DEF Dial, Mapping
  <2> QED
    BY <1>2, <2>1, MappingAdd DEF Dial
<1>3. ASSUME NEW id \in ConnIDs, ConnectionEnds(id) \/ Close(id) PROVE Mapping'
  BY <1>3, MappingCancel DEF ConnectionEnds, Close
<1>4. ASSUME NEW id \in ConnIDs, RemoveConnection(id) PROVE Mapping'
  <2>1. /\ connCtx[id] = "done" /\ removing[id] = 1
        /\ connCtx' = connCtx /\ connectionMapping' = connectionMapping \ {id}
    BY <1>4 DEF Mapping, RemoveConnection
  <2>2. removing'[id] = 0 /\ \A i \in ConnIDs \ {id} : removing'[i] = removing[i]
    BY <1>4, <2>1 DEF RemoveConnection, TypeOK
  <2> QED
    BY <2>1, <2>2 DEF Mapping
<1>5. CASE PoolCancelled
  <2>1. ASSUME NEW id \in ConnIDs
        PROVE  /\ connCtx'[id] = IF connCtx[id] = "live" THEN "done" ELSE connCtx[id]
               /\ removing'[id] = removing[id] + (IF connCtx[id] = "live" THEN 1 ELSE 0)
               /\ connectionMapping' = connectionMapping
    BY <1>5 DEF PoolCancelled
  <2> QED
    BY <2>1 DEF Mapping
<1>6. CASE UNCHANGED <<connectionMapping, connCtx, removing>>
  BY <1>6, SameMapping
<1> QED
  BY <1>1, <1>2, <1>3, <1>4, <1>5, <1>6
  DEF Next, RecvRelayStep, SendRelayStep, CheckPool, RecvBlock, RecvBlockPanics,
      RecvRelayStops, SendRelayTakes, SendRelayPuts, SendRelayStops, TunnelTakes,
      MapFault, BlockArrives, ConnectionSends, CloseQueue, OrderedRelayTakes,
      OrderedRelayPanics, OrderedRelayEnds, vars

\* A context never goes back to "none".
LEMMA ContextStarted ==
    ASSUME TypeOK, [Next]_vars, NEW id \in ConnIDs, connCtx[id] # "none"
    PROVE  connCtx'[id] # "none"
<1> USE DEF recvVars, connVars, sendVars, poolVars, TypeOK
<1>1. CASE LookUp
  BY <1>1 DEF LookUp, AddConnection
<1>2. ASSUME NEW i \in ConnIDs, Dial(i) \/ ConnectionEnds(i) \/ Close(i)
      PROVE  connCtx'[id] # "none"
  BY <1>2 DEF Dial, AddConnection, ConnectionEnds, Close, Cancel
<1>3. CASE PoolCancelled
  BY <1>3 DEF PoolCancelled
<1>4. CASE UNCHANGED connCtx
  BY <1>4
<1> QED
  BY <1>1, <1>2, <1>3, <1>4
  DEF Next, RecvRelayStep, SendRelayStep, CheckPool, RecvBlock, RecvBlockPanics,
      RecvRelayStops, SendRelayTakes, SendRelayPuts, SendRelayStops, TunnelTakes,
      MapFault, BlockArrives, ConnectionSends, CloseQueue, OrderedRelayTakes,
      OrderedRelayPanics, OrderedRelayEnds, RemoveConnection, vars

LEMMA ContextsStep == TypeOK /\ Contexts /\ Relays /\ [Next]_vars => Contexts'
<1> SUFFICES ASSUME TypeOK, Contexts, Relays, [Next]_vars PROVE Contexts'
  OBVIOUS
<1> USE DEF recvVars, connVars, sendVars, poolVars, TypeOK
<1>1. CASE RecvBlock
  <2>1. PICK b \in recvHolding :
          recvQueue' = [recvQueue EXCEPT ![b.conn] = Append(@, b)]
    BY <1>1 DEF RecvBlock
  <2>2. connCtx[b.conn] # "none" /\ UNCHANGED <<connCtx, poolDone, cancels>>
    BY <1>1, <2>1 DEF RecvBlock, Relays
  <2>3. \A id \in ConnIDs \ {b.conn} : recvQueue'[id] = recvQueue[id]
    BY <2>1
  <2> QED
    BY <2>2, <2>3 DEF Contexts
<1>2. ASSUME NEW id \in ConnIDs, AddConnection(id), UNCHANGED <<poolDone, cancels>>
      PROVE  Contexts'
  <2>1. /\ connCtx'[id] = IF poolDone THEN "done" ELSE "live"
        /\ \A i \in ConnIDs \ {id} : connCtx'[i] = connCtx[i] /\ recvQueue'[i] = recvQueue[i]
    BY <1>2 DEF AddConnection
  <2> QED
    BY <1>2, <2>1 DEF Contexts
<1>3. CASE LookUp
  <2>1. Head(tunnelRecvQueue).conn \in ConnIDs
    BY <1>3, BlocksAndIDs DEF LookUp
  <2>2. CASE UNCHANGED connVars
    BY <1>3, <2>2 DEF Contexts, LookUp
  <2>3. CASE AddConnection(Head(tunnelRecvQueue).conn) /\ UNCHANGED <<poolDone, cancels>>
    BY <1>2, <2>1, <2>3
  <2> QED
    BY <1>3, <2>2, <2>3 DEF LookUp
<1>4. ASSUME NEW id \in ConnIDs, Dial(id) PROVE Contexts'
  BY <1>2, <1>4 DEF Dial
<1>5. ASSUME NEW id \in ConnIDs, ConnectionEnds(id) \/ Close(id) PROVE Contexts'
  <2>1. Cancel(id) /\ UNCHANGED <<recvQueue, poolDone>>
    BY <1>5 DEF ConnectionEnds, Close
  <2>2. /\ connCtx'[id] = "done" /\ cancels'[id] > 0
        /\ \A i \in ConnIDs \ {id} : connCtx'[i] = connCtx[i] /\ cancels'[i] = cancels[i]
    BY <2>1 DEF Cancel
  <2> QED
    BY <2>1, <2>2 DEF Contexts
<1>6. CASE PoolCancelled
  BY <1>6 DEF PoolCancelled, Contexts
<1>7. ASSUME NEW id \in ConnIDs, OrderedRelayTakes(id) PROVE Contexts'
  <2>1. /\ connCtx[id] # "none" /\ UNCHANGED <<connCtx, poolDone, cancels>>
        /\ \A i \in ConnIDs \ {id} : recvQueue'[i] = recvQueue[i]
    BY <1>7 DEF OrderedRelayTakes, Contexts
  <2> QED
    BY <2>1 DEF Contexts
<1>8. CASE UNCHANGED <<connCtx, poolDone, cancels, recvQueue>>
  BY <1>8 DEF Contexts
<1> QED
  BY <1>1, <1>3, <1>4, <1>5, <1>6, <1>7, <1>8
  DEF Next, RecvRelayStep, SendRelayStep, CheckPool, RecvBlockPanics,
      RecvRelayStops, SendRelayTakes, SendRelayPuts, SendRelayStops, TunnelTakes,
      MapFault, BlockArrives, ConnectionSends, CloseQueue,
      OrderedRelayPanics, OrderedRelayEnds, RemoveConnection, vars

LEMMA RelaysStep ==
    TypeOK /\ Mapping /\ Relays /\ [Next]_vars => Relays'
<1> SUFFICES ASSUME TypeOK, Mapping, Relays, [Next]_vars PROVE Relays'
  OBVIOUS
<1> USE DEF recvVars, connVars, sendVars, poolVars
<1>0. /\ recvHolding \subseteq Blocks
      /\ Range(tunnelRecvQueue) \subseteq Blocks
      /\ \A b \in Blocks : b.conn \in ConnIDs
  BY BlocksAndIDs DEF TypeOK
<1>1. ASSUME recvHolding' \subseteq recvHolding, UNCHANGED acceptNewConnection,
             Range(tunnelRecvQueue') \subseteq Range(tunnelRecvQueue),
             sendHolding' # {} => sendRelay' = "put"
      PROVE  Relays'
  BY <1>0, <1>1, ContextStarted DEF Relays
<1>2. CASE LookUp
  <2> DEFINE b == Head(tunnelRecvQueue)
  <2>1. /\ b \in Range(tunnelRecvQueue) /\ b \in Blocks
        /\ Range(tunnelRecvQueue') \subseteq Range(tunnelRecvQueue)
    BY <1>2, HeadTailProperties, RangeTail DEF LookUp, TypeOK
  <2>2. UNCHANGED <<acceptNewConnection, sendHolding, sendRelay>>
    BY <1>2 DEF LookUp
  <2>3. CASE recvHolding' = recvHolding
    BY <1>1, <2>1, <2>2, <2>3 DEF Relays
  <2>4. CASE recvHolding' = {b} /\ connCtx'[b.conn] # "none"
    BY <1>0, <2>1, <2>2, <2>4, ContextStarted DEF Relays
  <2>5. CASE recvHolding' = {b} /\ Known(b.conn) /\ UNCHANGED connVars
    BY <1>0, <2>1, <2>4, <2>5 DEF Known, Mapping
  <2>6. CASE recvHolding' = {b} /\ AddConnection(b.conn)
    <3>1. connCtx'[b.conn] # "none"
      BY <1>0, <2>1, <2>6 DEF AddConnection, TypeOK
    <3> QED
      BY <2>4, <2>6, <3>1
  <2> QED
    BY <1>2, <2>3, <2>5, <2>6 DEF LookUp
<1>3. ASSUME NEW b \in Blocks, BlockArrives(b) PROVE Relays'
  <2>1. Range(tunnelRecvQueue') = Range(tunnelRecvQueue) \cup {b}
    BY <1>3, AppendProperties, RangeAppend DEF BlockArrives, TypeOK
  <2>2. UNCHANGED <<recvHolding, connCtx, acceptNewConnection, sendHolding, sendRelay>>
    BY <1>3 DEF BlockArrives
  <2>3. acceptNewConnection \/ connCtx[b.conn] # "none"
    BY <1>3 DEF BlockArrives
  <2> QED
    BY <2>1, <2>2, <2>3 DEF Relays
<1>4. CASE CheckPool \/ RecvBlock \/ RecvBlockPanics \/ RecvRelayStops \/ MapFault
  BY <1>1, <1>4
  DEF CheckPool, RecvBlock, RecvBlockPanics, RecvRelayStops, MapFault, Relays
<1>5. CASE SendRelayTakes \/ SendRelayPuts \/ SendRelayStops
  BY <1>1, <1>5 DEF SendRelayTakes, SendRelayPuts, SendRelayStops
<1>6. CASE UNCHANGED <<recvHolding, tunnelRecvQueue, acceptNewConnection, sendHolding, sendRelay>>
  BY <1>1, <1>6 DEF Relays
<1> QED
  BY <1>2, <1>3, <1>4, <1>5, <1>6
  DEF Next, RecvRelayStep, SendRelayStep, TunnelTakes, PoolCancelled,
      ConnectionSends, Dial, ConnectionEnds, Close, Cancel, CloseQueue,
      OrderedRelayTakes, OrderedRelayPanics, OrderedRelayEnds, RemoveConnection, vars

-----------------------------------------------------------------------------
(* No block is lost *)

Kept(b) ==
    \/ b \in arriving \/ b \in Range(tunnelRecvQueue) \/ b \in recvHolding
    \/ b \in Range(recvQueue[b.conn]) \/ b \in received[b.conn]
    \/ cancels[b.conn] > 0

SendsKept ==
    Sends \subseteq unsent \cup Range(sendQueue) \cup sendHolding
                 \cup Range(tunnelSendQueue) \cup sent

LEMMA NoBlockLostParts ==
    NoBlockLost <=> poolDone \/ ((\A b \in Blocks : Kept(b)) /\ SendsKept)
  BY DEF NoBlockLost, Kept, SendsKept

\* A new connection has an empty recvQueue; so had its ID before, unless a
\* connection of that ID has ended.
LEMMA KeptByAdd ==
    ASSUME TypeOK, Mapping, Contexts, ~poolDone, NEW b \in Blocks, Kept(b),
           NEW id \in ConnIDs, id \notin connectionMapping, AddConnection(id),
           UNCHANGED <<received, cancels>>,
           \/ b \in arriving' \/ b \in Range(tunnelRecvQueue') \/ b \in recvHolding'
           \/ ~(b \in arriving \/ b \in Range(tunnelRecvQueue) \/ b \in recvHolding)
    PROVE  Kept(b)'
<1>0. b.conn \in ConnIDs
  BY BlocksAndIDs
<1>1. CASE b.conn # id
  <2>1. recvQueue'[b.conn] = recvQueue[b.conn]
    BY <1>0, <1>1 DEF AddConnection, TypeOK
  <2> QED
    BY <2>1 DEF Kept
<1>2. CASE b.conn = id
  <2>1. connCtx[id] = "none" \/ cancels[id] > 0
    BY DEF Mapping, Contexts, TypeOK
  <2>2. connCtx[id] = "none" => Range(recvQueue[id]) = {}
    BY DEF Contexts, Range
  <2> QED
    BY <1>2, <2>1, <2>2 DEF Kept
<1> QED
  BY <1>1, <1>2

\* recvRelay's steps drop a block only when its connection has ended.
LEMMA KeptByRelay ==
    ASSUME TypeOK, Mapping, Contexts, Relays, ~poolDone, NEW b \in Blocks, Kept(b),
           LookUp \/ CheckPool \/ RecvBlock
    PROVE  Kept(b)'
<1> USE DEF recvVars, connVars, sendVars, poolVars
<1>0. b.conn \in ConnIDs
  BY BlocksAndIDs
<1>1. CASE LookUp
  <2> DEFINE h == Head(tunnelRecvQueue)
  <2>1. /\ Range(tunnelRecvQueue) = {h} \cup Range(tunnelRecvQueue')
        /\ recvHolding = {} /\ arriving' = arriving
        /\ h \in Blocks /\ h.conn \in ConnIDs
    BY <1>1, HeadTailProperties, RangeTail, BlocksAndIDs DEF LookUp, TypeOK
  <2>2. CASE recvHolding' = {h} /\ UNCHANGED connVars
    BY <2>1, <2>2 DEF Kept
  <2>3. CASE /\ h.conn \notin connectionMapping /\ AddConnection(h.conn)
             /\ UNCHANGED <<received, cancels>> /\ recvHolding' = {h}
    BY <2>1, <2>3, KeptByAdd
  <2>4. CASE /\ h.conn \notin connectionMapping /\ ~acceptNewConnection
             /\ UNCHANGED <<recvHolding, connVars>>
    <3>1. connCtx[h.conn] # "none"
      BY <2>1, <2>4 DEF Relays
    <3>2. cancels[h.conn] > 0
      BY <2>1, <2>4, <3>1 DEF Mapping, Contexts, TypeOK
    <3> QED
      BY <2>1, <2>4, <3>2 DEF Kept
  <2> QED
    BY <1>1, <2>2, <2>3, <2>4 DEF LookUp, Known
<1>2. CASE CheckPool
  BY <1>2 DEF CheckPool, Kept
<1>3. CASE RecvBlock
  <2>1. PICK c \in recvHolding :
          recvQueue' = [recvQueue EXCEPT ![c.conn] = Append(@, c)]
    BY <1>3 DEF RecvBlock
  <2>2. /\ recvHolding = {c} /\ c \in Blocks /\ c.conn \in ConnIDs
        /\ recvQueue[c.conn] \in Seq(Blocks)
    BY <2>1, BlocksAndIDs DEF Relays, TypeOK
  <2>3. Range(Append(recvQueue[c.conn], c)) = Range(recvQueue[c.conn]) \cup {c}
    BY <2>2, AppendProperties, RangeAppend
  <2>4. /\ recvQueue'[c.conn] = Append(recvQueue[c.conn], c)
        /\ \A id \in ConnIDs \ {c.conn} : recvQueue'[id] = recvQueue[id]
    BY <2>1, <2>2 DEF TypeOK
  <2>5. Range(recvQueue[b.conn]) \subseteq Range(recvQueue'[b.conn])
    BY <1>0, <2>3, <2>4
  <2>6. c \in Range(recvQueue'[c.conn])
    BY <2>3, <2>4
  <2>7. UNCHANGED <<arriving, tunnelRecvQueue, received, cancels>>
    BY <1>3 DEF RecvBlock
  <2> QED
    BY <2>2, <2>5, <2>6, <2>7 DEF Kept
<1> QED
  BY <1>1, <1>2, <1>3

LEMMA NoBlockLostStep == Inv /\ [Next]_vars => NoBlockLost'
<1> SUFFICES ASSUME Inv, [Next]_vars, ~poolDone'
             PROVE  (\A b \in Blocks : Kept(b)') /\ SendsKept'
  BY DEF NoBlockLost, Kept, SendsKept
<1> USE DEF recvVars, connVars, sendVars, poolVars
<1>0. TypeOK /\ Mapping /\ Contexts /\ Relays
  BY DEF Inv
<1>1. ~poolDone
  BY DEF Next, RecvRelayStep, SendRelayStep, LookUp, CheckPool, RecvBlock,
     RecvBlockPanics, RecvRelayStops, SendRelayTakes, SendRelayPuts, SendRelayStops,
     TunnelTakes, PoolCancelled, MapFault, BlockArrives, ConnectionSends, Dial,
     ConnectionEnds, Close, CloseQueue, OrderedRelayTakes, OrderedRelayPanics,
     OrderedRelayEnds, RemoveConnection, vars
<1>2. (\A b \in Blocks : Kept(b)) /\ SendsKept
  BY <1>1, NoBlockLostParts DEF Inv
<1>3. ASSUME NEW b \in Blocks PROVE Kept(b)'
  <2>0. Kept(b) /\ b.conn \in ConnIDs
    BY <1>2, BlocksAndIDs
  <2>1. CASE LookUp \/ CheckPool \/ RecvBlock
    BY <1>0, <1>1, <2>0, <2>1, KeptByRelay
  <2>2. ASSUME NEW id \in ConnIDs, Dial(id) PROVE Kept(b)'
    <3>1. id \notin connectionMapping
      BY <1>0, <2>2 DEF Dial, Mapping
    <3> QED
      BY <1>0, <1>1, <2>0, <2>2, <3>1, KeptByAdd DEF Dial
  <2>3. ASSUME NEW id \in ConnIDs, ConnectionEnds(id) \/ Close(id) PROVE Kept(b)'
    <3>1. Cancel(id) /\ UNCHANGED <<arriving, tunnelRecvQueue, recvHolding, recvQueue, received>>
      BY <2>3 DEF ConnectionEnds, Close
    <3>2. cancels[b.conn] > 0 => cancels'[b.conn] > 0
      BY <1>0, <2>0, <3>1 DEF Cancel, TypeOK
    <3> QED
      BY <2>0, <3>1, <3>2 DEF Kept
  <2>4. ASSUME NEW id \in ConnIDs, OrderedRelayTakes(id) PROVE Kept(b)'
    <3>1. Range(recvQueue[id]) = {Head(recvQueue[id])} \cup Range(Tail(recvQueue[id]))
      BY <1>0, <2>4, HeadTailProperties, RangeTail DEF OrderedRelayTakes, TypeOK
    <3>2. \/ UNCHANGED <<recvQueue[b.conn], received[b.conn]>>
          \/ /\ b.conn = id /\ recvQueue'[id] = Tail(recvQueue[id])
             /\ received'[id] = received[id] \cup {Head(recvQueue[id])}
      BY <1>0, <2>0, <2>4 DEF OrderedRelayTakes, TypeOK
    <3> QED
      BY <2>0, <2>4, <3>1, <3>2 DEF Kept, OrderedRelayTakes
  <2>5. ASSUME NEW c \in Blocks, BlockArrives(c) PROVE Kept(b)'
    <3>1. Range(tunnelRecvQueue') = Range(tunnelRecvQueue) \cup {c}
      BY <1>0, <2>5, AppendProperties, RangeAppend DEF BlockArrives, TypeOK
    <3> QED
      BY <2>0, <2>5, <3>1 DEF BlockArrives, Kept
  <2>6. CASE UNCHANGED <<arriving, tunnelRecvQueue, recvHolding, recvQueue, received, cancels>>
    BY <2>0, <2>6 DEF Kept
  <2> QED
    BY <2>1, <2>2, <2>3, <2>4, <2>5, <2>6
    DEF Next, RecvRelayStep, SendRelayStep, RecvBlockPanics, RecvRelayStops,
        SendRelayTakes, SendRelayPuts, SendRelayStops, TunnelTakes, PoolCancelled,
        MapFault, ConnectionSends, CloseQueue, OrderedRelayPanics, OrderedRelayEnds,
        RemoveConnection, vars
<1>4. SendsKept'
  <2>1. CASE SendRelayTakes
    <3>1. Range(sendQueue) = {Head(sendQueue)} \cup Range(sendQueue')
      BY <1>0, <2>1, HeadTailProperties, RangeTail DEF SendRelayTakes, TypeOK
    <3>2. sendHolding = {}
      BY <1>0, <2>1 DEF SendRelayTakes, Relays
    <3> QED
      BY <1>2, <2>1, <3>1, <3>2 DEF SendRelayTakes, SendsKept
  <2>2. CASE SendRelayPuts
    <3>1. PICK b \in sendHolding : tunnelSendQueue' = Append(tunnelSendQueue, b)
      BY <2>2 DEF SendRelayPuts
    <3>2. sendHolding = {b} /\ b \in Sends
      BY <1>0, <3>1 DEF TypeOK
    <3>3. Range(tunnelSendQueue') = Range(tunnelSendQueue) \cup {b}
      BY <1>0, <3>1, <3>2, AppendProperties, RangeAppend DEF TypeOK
    <3> QED
      BY <1>2, <2>2, <3>2, <3>3 DEF SendRelayPuts, SendsKept
  <2>3. CASE TunnelTakes
    <3>1. Range(tunnelSendQueue) = {Head(tunnelSendQueue)} \cup Range(tunnelSendQueue')
      BY <1>0, <2>3, HeadTailProperties, RangeTail DEF TunnelTakes, TypeOK
    <3> QED
      BY <1>2, <2>3, <3>1 DEF TunnelTakes, SendsKept
  <2>4. ASSUME NEW b \in Sends, Send(b),
               UNCHANGED <<sendHolding, tunnelSendQueue, sent>>
        PROVE  SendsKept'
    <3>1. Range(sendQueue') = Range(sendQueue) \cup {b}
      BY <1>0, <2>4, AppendProperties, RangeAppend DEF Send, TypeOK
    <3> QED
      BY <1>2, <2>4, <3>1 DEF Send, SendsKept
  <2>5. ASSUME NEW id \in ConnIDs, Close(id) PROVE SendsKept'
    BY <1>0, <2>4, <2>5 DEF Close, TypeOK
  <2>6. CASE UNCHANGED <<unsent, sendQueue, sendHolding, tunnelSendQueue, sent>>
    BY <1>2, <2>6 DEF SendsKept
  <2> QED
    BY <1>1, <2>1, <2>2, <2>3, <2>4, <2>5, <2>6
    DEF Next, RecvRelayStep, SendRelayStep, LookUp, CheckPool, RecvBlock,
        RecvBlockPanics, RecvRelayStops, SendRelayStops, PoolCancelled, MapFault,
        BlockArrives, ConnectionSends, Dial, ConnectionEnds, CloseQueue,
        OrderedRelayTakes, OrderedRelayPanics, OrderedRelayEnds, RemoveConnection, vars
<1> QED
  BY <1>3, <1>4

LEMMA InvInit == Init => Inv
<1> SUFFICES ASSUME Init PROVE Inv
  OBVIOUS
<1>1. Mapping /\ Contexts
  BY DEF Init, Mapping, Contexts
<1>2. Relays /\ NoBlockLost
  BY DEF Init, Relays, NoBlockLost, Range
<1> QED
  BY <1>1, <1>2, TypeInit DEF Inv

LEMMA InvStep == Inv /\ [Next]_vars => Inv'
  BY TypeStep, MappingStep, ContextsStep, RelaysStep, NoBlockLostStep DEF Inv

\* The inductive invariant: a connection is mapped from its creation until the
\* one removal it is owed, and a relay has one block in hand at a time.
THEOREM InvCorrectness == Spec => []Inv
  BY InvInit, InvStep, PTL DEF Spec

\* However late the goroutine that removes an ended connection runs, the
\* entry it deletes from connectionMapping is that connection's own, never
\* the one of a live successor with the same ID (connection_pool.go).
THEOREM LiveConnectionMappedCorrectness == Spec => []LiveConnectionMapped
<1>1. Inv => LiveConnectionMapped
  BY DEF Inv, Mapping, LiveConnectionMapped
<1> QED
  BY <1>1, InvCorrectness, PTL

\* Until the peer stops, no block of a connection that has not ended is
\* dropped by recvRelay or sendRelay, at the pool's limits or between its
\* lookup and its delivery (connection_pool.go).
THEOREM NoBlockLostCorrectness == Spec => []NoBlockLost
<1>1. Inv => NoBlockLost
  BY DEF Inv
<1> QED
  BY <1>1, InvCorrectness, PTL
=============================================================================
