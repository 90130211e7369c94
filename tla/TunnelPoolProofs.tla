-------------------------- MODULE TunnelPoolProofs --------------------------
(***************************************************************************)
(* Proofs about TunnelPool for any blocks, any tunnels and any queue       *)
(* sizes: its types, that no block is ever in two places, and that the     *)
(* pools implement Transport.                                              *)
(***************************************************************************)
EXTENDS TunnelPool, FiniteSetTheorems, TLAPS

(* Channels *)

\* What receiving from a channel does to the set of blocks in it.
LEMMA RangeTail ==
    ASSUME NEW S, NEW q \in Seq(S), q # <<>>
    PROVE  /\ Head(q) \in S
           /\ Tail(q) \in Seq(S)
           /\ Len(Tail(q)) = Len(q) - 1
           /\ Range(q) = {Head(q)} \cup Range(Tail(q))
           /\ IsInjective(q) => /\ IsInjective(Tail(q))
                                /\ Head(q) \notin Range(Tail(q))
<1>1. /\ Len(q) \in Nat \ {0} /\ DOMAIN q = 1 .. Len(q) /\ Head(q) = q[1]
      /\ Tail(q) \in Seq(S) /\ Len(Tail(q)) = Len(q) - 1
      /\ DOMAIN Tail(q) = 1 .. Len(q) - 1
      /\ \A i \in 1 .. Len(q) - 1 : Tail(q)[i] = q[i + 1]
  OBVIOUS
<1>2. Head(q) \in S
  BY <1>1
<1>3. Range(q) = {Head(q)} \cup Range(Tail(q))
  <2>1. ASSUME NEW x \in Range(q) PROVE x \in {Head(q)} \cup Range(Tail(q))
    <3>1. PICK i \in 1 .. Len(q) : q[i] = x
      BY <1>1 DEF Range
    <3>2. CASE i = 1
      BY <1>1, <3>1, <3>2
    <3>3. CASE i # 1
      <4>1. i - 1 \in 1 .. Len(q) - 1 /\ Tail(q)[i - 1] = x
        BY <1>1, <3>1, <3>3
      <4> QED
        BY <1>1, <4>1 DEF Range
    <3> QED
      BY <3>2, <3>3
  <2>2. ASSUME NEW x \in {Head(q)} \cup Range(Tail(q)) PROVE x \in Range(q)
    BY <1>1 DEF Range
  <2> QED
    BY <2>1, <2>2
<1>4. ASSUME IsInjective(q)
      PROVE  IsInjective(Tail(q)) /\ Head(q) \notin Range(Tail(q))
  BY <1>1, <1>4 DEF IsInjective, Range
<1> QED
  BY <1>1, <1>2, <1>3, <1>4

\* What sending on a channel does to the set of blocks in it.
LEMMA RangeAppend ==
    ASSUME NEW S, NEW q \in Seq(S), NEW e \in S
    PROVE  /\ Append(q, e) \in Seq(S)
           /\ Len(Append(q, e)) = Len(q) + 1
           /\ \A i \in 1 .. Len(q) : Append(q, e)[i] = q[i]
           /\ Append(q, e)[Len(q) + 1] = e
           /\ Range(Append(q, e)) = Range(q) \cup {e}
           /\ IsInjective(q) /\ e \notin Range(q) => IsInjective(Append(q, e))
<1>1. /\ Append(q, e) \in Seq(S)
      /\ Len(Append(q, e)) = Len(q) + 1
      /\ Len(q) \in Nat
      /\ DOMAIN q = 1 .. Len(q)
      /\ DOMAIN Append(q, e) = 1 .. Len(q) + 1
      /\ \A i \in 1 .. Len(q) : Append(q, e)[i] = q[i]
      /\ Append(q, e)[Len(q) + 1] = e
  OBVIOUS
<1>2. Range(Append(q, e)) = Range(q) \cup {e}
  <2>1. ASSUME NEW x \in Range(Append(q, e)) PROVE x \in Range(q) \cup {e}
    <3>1. PICK i \in 1 .. Len(q) + 1 : Append(q, e)[i] = x
      BY <1>1 DEF Range
    <3> QED
      BY <1>1, <3>1 DEF Range
  <2>2. ASSUME NEW x \in Range(q) \cup {e} PROVE x \in Range(Append(q, e))
    BY <1>1 DEF Range
  <2> QED
    BY <2>1, <2>2
<1>3. ASSUME IsInjective(q), e \notin Range(q)
      PROVE  IsInjective(Append(q, e))
  BY <1>1, <1>3 DEF IsInjective, Range
<1> QED
  BY <1>1, <1>2, <1>3

LEMMA TypeInit == Init => TypeOK
  BY SizeAssumption DEF Init, TypeOK

\* A block in a channel is a block, and taking it shortens the channel.
LEMMA TypeStep == TypeOK /\ [Next]_vars => TypeOK'
<1> SUFFICES ASSUME TypeOK, [Next]_vars PROVE TypeOK'
  OBVIOUS
<1> USE SizeAssumption DEF TypeOK
<1>1. ASSUME NEW b \in Blocks, SendBlock(b) PROVE TypeOK'
  BY <1>1, RangeAppend DEF SendBlock, HasRoom, outVars, wireVars, inVars, sinkVars
<1>2. ASSUME NEW t \in Tunnels, AddTunnel(t) PROVE TypeOK'
  BY <1>2 DEF AddTunnel, queueVars, wireVars, sinkVars
<1>3. ASSUME NEW t \in Tunnels, RemoveTunnel(t) PROVE TypeOK'
  BY <1>3 DEF RemoveTunnel, queueVars, wireVars, inVars, sinkVars
<1>4. ASSUME NEW t \in Tunnels, CheckCancel(t) PROVE TypeOK'
  BY <1>4 DEF CheckCancel, GoTo, queueVars, wireVars, inVars, sinkVars
<1>5. ASSUME NEW t \in Tunnels, EndRelay(t) PROVE TypeOK'
  BY <1>5 DEF EndRelay, GoTo, queueVars, wireVars, inVars, sinkVars
<1>6. ASSUME NEW t \in Tunnels, NoRetry(t) PROVE TypeOK'
  BY <1>6 DEF NoRetry, GoTo, queueVars, wireVars, inVars, sinkVars
<1>7. ASSUME NEW t \in Tunnels, TakeRetry(t) PROVE TypeOK'
  BY <1>7, RangeTail DEF TakeRetry, RetrySelects, wireVars, inVars, sinkVars
<1>8. ASSUME NEW t \in Tunnels, TakeNormal(t) PROVE TypeOK'
  BY <1>8, RangeTail DEF TakeNormal, wireVars, inVars, sinkVars
<1>9. ASSUME NEW t \in Tunnels, WriteBlock(t) PROVE TypeOK'
  <2>1. PICK b \in holding[t] :
          IF recvCtxDone[t]
          THEN lost' = lost \cup {b} /\ wire' = wire
          ELSE wire' = [wire EXCEPT ![t] = Append(@, b)] /\ lost' = lost
    BY <1>9 DEF WriteBlock
  <2>2. b \in Blocks
    BY <2>1
  <2>3. /\ wire' \in [Tunnels -> Seq(Blocks)] /\ lost' \subseteq Blocks
        /\ \A u \in Tunnels : Len(wire'[u]) =< WireSize
    <3>1. CASE recvCtxDone[t]
      BY <2>1, <2>2, <3>1
    <3>2. CASE ~recvCtxDone[t]
      <4>1. /\ Append(wire[t], b) \in Seq(Blocks)
            /\ Len(Append(wire[t], b)) = Len(wire[t]) + 1
        BY <2>2, RangeAppend
      <4>2. Len(wire[t]) + 1 =< WireSize
        BY <1>9 DEF WriteBlock
      <4>3. wire' = [wire EXCEPT ![t] = Append(wire[t], b)] /\ lost' = lost
        BY <2>1, <3>2
      <4>4. wire' \in [Tunnels -> Seq(Blocks)]
        BY <4>1, <4>3
      <4>5. ASSUME NEW u \in Tunnels PROVE Len(wire'[u]) =< WireSize
        BY <4>1, <4>2, <4>3
      <4> QED
        BY <4>3, <4>4, <4>5
    <3> QED
      BY <3>1, <3>2
  <2> QED
    BY <1>9, <2>3 DEF WriteBlock, AfterSend, queueVars, inVars
<1>10. ASSUME NEW t \in Tunnels, WriteFails(t) PROVE TypeOK'
  BY <1>10 DEF WriteFails, WireAfterFailure, AfterSend, queueVars, inVars, sinkVars
<1>11. ASSUME NEW r \in retrying, PutRetry(r) PROVE TypeOK'
  BY <1>11, RangeAppend DEF PutRetry, HasRoom, wireVars, inVars, sinkVars
<1>12. ASSUME NEW r \in retrying, DropRetry(r) PROVE TypeOK'
  BY <1>12 DEF DropRetry, queueVars, wireVars, inVars
<1>13. ASSUME NEW t \in Tunnels, CloseSender(t) PROVE TypeOK'
  BY <1>13 DEF CloseSender, queueVars, wireVars, inVars, sinkVars
<1>14. ASSUME NEW t \in Tunnels, NetworkFails(t) PROVE TypeOK'
  BY <1>14 DEF NetworkFails, queueVars, outVars, inVars, sinkVars
<1>15. ASSUME NEW t \in Tunnels, ReadBlock(t) PROVE TypeOK'
  BY <1>15, RangeTail DEF ReadBlock, queueVars, outVars, sinkVars
<1>16. ASSUME NEW t \in Tunnels, CloseReceiver(t) PROVE TypeOK'
  BY <1>16 DEF CloseReceiver, Range, queueVars, outVars
<1>17. ASSUME NEW t \in Tunnels, PutBlock(t) PROVE TypeOK'
  BY <1>17, RangeAppend DEF PutBlock, queueVars, outVars, wireVars
<1>18. ASSUME NEW t \in Tunnels, AbandonBlock(t) PROVE TypeOK'
  BY <1>18 DEF AbandonBlock, queueVars, outVars, wireVars
<1>19. ASSUME NEW t \in Tunnels, EndInbound(t) PROVE TypeOK'
  BY <1>19 DEF EndInbound, queueVars, outVars, wireVars, sinkVars
<1>20. CASE Deliver
  BY <1>20, RangeTail DEF Deliver, queueVars, outVars, wireVars, inVars
<1>21. CASE UNCHANGED vars
  BY <1>21 DEF vars, queueVars, outVars, wireVars, inVars, sinkVars
<1> QED
  BY <1>1, <1>2, <1>3, <1>4, <1>5, <1>6, <1>7, <1>8, <1>9, <1>10, <1>11,
     <1>12, <1>13, <1>14, <1>15, <1>16, <1>17, <1>18, <1>19, <1>20, <1>21
  DEF Next, OutboundRelay, InboundRelay

\* Every state of the pools is well typed: no channel exceeds its capacity, no
\* connection its buffer, and a relay that holds a block is sending it.
THEOREM TypeCorrectness == Spec => []TypeOK
  BY TypeInit, TypeStep, PTL DEF Spec

-----------------------------------------------------------------------------
(* Where a block can be, and that it is in one place only *)

\* The blocks that the tunnels hold between them, h saying which holds which.
Together(h) == {b \in Blocks : \E t \in Tunnels : b \in h[t]}

\* No two tunnels hold the same block.
Apart(h) == \A t, u \in Tunnels : \A b \in h[t] \cap h[u] : t = u

OnWire == [t \in Tunnels |-> Range(wire[t])]

Places == {"unsent", "sendQueue", "sendRetryQueue", "held", "retried",
           "wire", "read", "recvQueue", "delivered", "lost"}

\* The blocks at each place.
At == [unsent         |-> unsent,
       sendQueue      |-> Range(sendQueue),
       sendRetryQueue |-> Range(sendRetryQueue),
       held           |-> Together(holding),
       retried        |-> {r.block : r \in retrying},
       wire           |-> Together(OnWire),
       read           |-> Together(recvHolding),
       recvQueue      |-> Range(recvQueue),
       delivered      |-> delivered,
       lost           |-> lost]

\* Every block is at exactly one place.
Partition ==
    \A b \in Blocks : \E k \in Places : \A j \in Places : b \in At[j] <=> j = k

\* No place has a block twice: not in one channel, nor with two tunnels, nor
\* with two of the goroutines that offer a retry.
Once ==
    /\ IsInjective(sendQueue)
    /\ IsInjective(sendRetryQueue)
    /\ IsInjective(recvQueue)
    /\ \A t \in Tunnels : IsInjective(wire[t])
    /\ Apart(holding) /\ Apart(OnWire) /\ Apart(recvHolding)
    /\ \A r, s \in retrying : r.block = s.block => r = s

\* A relay has at most one block in hand, and InboundRelay has one exactly
\* while it puts it on recvQueue.
OneInHand ==
    \A t \in Tunnels :
        /\ \A b, c \in holding[t] : b = c
        /\ \A b, c \in recvHolding[t] : b = c
        /\ recvHolding[t] # {} <=> recvRelay[t] = "put"

\* Both ends of a tunnel start together.
Paired == \A t \in Tunnels : relay[t] = "absent" <=> recvRelay[t] = "absent"

Inv == TypeOK /\ Paired /\ Partition /\ Once /\ OneInHand

\* A block at two places is a contradiction.
LEMMA SamePlace ==
    ASSUME Partition, NEW b \in Blocks,
           NEW j \in Places, NEW k \in Places, b \in At[j], b \in At[k]
    PROVE  j = k
  BY DEF Partition

\* Blocks that leave one place for another leave every block at one place.
LEMMA Moved ==
    ASSUME Partition,
           NEW from \in Places, NEW to \in Places, from # to,
           NEW B, B \subseteq At[from],
           At'[from] = At[from] \ B,
           At'[to] = At[to] \cup B,
           \A k \in Places \ {from, to} : At'[k] = At[k]
    PROVE  Partition'
<1> SUFFICES ASSUME NEW b \in Blocks
             PROVE  \E k \in Places : \A j \in Places : b \in At'[j] <=> j = k
  BY DEF Partition
<1>1. PICK k \in Places : \A j \in Places : b \in At[j] <=> j = k
  BY DEF Partition
<1>2. CASE b \in B
  <2>1. \A j \in Places : b \in At'[j] <=> j = to
    BY <1>1, <1>2
  <2> QED
    BY <2>1
<1>3. CASE b \notin B
  <2>1. \A j \in Places : b \in At'[j] <=> b \in At[j]
    BY <1>3
  <2> QED
    BY <1>1, <2>1
<1> QED
  BY <1>2, <1>3

\* What At stands for, before and after a step.
LEMMA AtPlaces ==
    /\ At["unsent"] = unsent /\ At["sendQueue"] = Range(sendQueue)
    /\ At["sendRetryQueue"] = Range(sendRetryQueue)
    /\ At["held"] = Together(holding)
    /\ At["retried"] = {r.block : r \in retrying}
    /\ At["wire"] = Together(OnWire) /\ At["read"] = Together(recvHolding)
    /\ At["recvQueue"] = Range(recvQueue)
    /\ At["delivered"] = delivered /\ At["lost"] = lost
  BY DEF At

LEMMA AtPlacesNext ==
    /\ At'["unsent"] = unsent' /\ At'["sendQueue"] = Range(sendQueue')
    /\ At'["sendRetryQueue"] = Range(sendRetryQueue')
    /\ At'["held"] = Together(holding')
    /\ At'["retried"] = {r.block : r \in retrying'}
    /\ At'["wire"] = Together(OnWire') /\ At'["read"] = Together(recvHolding')
    /\ At'["recvQueue"] = Range(recvQueue')
    /\ At'["delivered"] = delivered' /\ At'["lost"] = lost'
  BY DEF At, Together

\* A tunnel gets a block that no tunnel has.
LEMMA Gains ==
    ASSUME NEW h, DOMAIN h = Tunnels, Apart(h), NEW t \in Tunnels,
           NEW b \in Blocks, b \notin Together(h)
    PROVE  /\ Together([h EXCEPT ![t] = @ \cup {b}]) = Together(h) \cup {b}
           /\ Apart([h EXCEPT ![t] = @ \cup {b}])
  BY DEF Together, Apart

\* A tunnel gives away some of the blocks it has.
LEMMA Yields ==
    ASSUME NEW h, DOMAIN h = Tunnels, Apart(h), NEW t \in Tunnels,
           NEW B, B \subseteq h[t]
    PROVE  /\ Together([h EXCEPT ![t] = @ \ B]) = Together(h) \ B
           /\ Apart([h EXCEPT ![t] = @ \ B])
  BY DEF Together, Apart

LEMMA PlaceInit == Init => Partition /\ Once /\ OneInHand
  BY DEF Init, Partition, At, Once, OneInHand, Together, Apart, OnWire, Places,
     Range, IsInjective

\* The steps that move no block.
Quiet ==
    /\ UNCHANGED <<unsent, sendQueue, sendRetryQueue, holding, retrying, wire,
                   recvHolding, recvQueue, delivered, lost>>
    /\ \A t \in Tunnels : recvRelay'[t] = "put" <=> recvRelay[t] = "put"

LEMMA PlaceQuiet ==
    ASSUME Inv, Quiet PROVE (Partition /\ Once /\ OneInHand)'
<1>0. \A k \in Places : At'[k] = At[k]
  BY AtPlaces, AtPlacesNext DEF Quiet, Places, OnWire
<1>1. Partition'
  BY <1>0 DEF Inv, Partition
<1>2. Once' /\ OneInHand'
  BY DEF Inv, Quiet, Once, OneInHand, Apart, OnWire
<1> QED
  BY <1>1, <1>2

LEMMA PlaceSendBlock ==
    ASSUME Inv, NEW b \in Blocks, SendBlock(b)
    PROVE  (Partition /\ Once /\ OneInHand)'
<1>0. TypeOK /\ Partition /\ Once /\ OneInHand
  BY DEF Inv
<1>1. "unsent" \in Places /\ "sendQueue" \in Places
  BY DEF Places
<1>2. b \in unsent /\ b \notin Range(sendQueue)
  BY <1>0, <1>1, SamePlace, AtPlaces DEF SendBlock
<1>3. /\ Range(sendQueue') = Range(sendQueue) \cup {b}
      /\ IsInjective(sendQueue')
  BY <1>0, <1>2, RangeAppend DEF SendBlock, TypeOK, Once
<1>4. Partition'
  <2>1. /\ {b} \subseteq At["unsent"]
        /\ At'["unsent"] = At["unsent"] \ {b}
        /\ At'["sendQueue"] = At["sendQueue"] \cup {b}
    BY <1>2, <1>3, AtPlaces, AtPlacesNext DEF SendBlock
  <2>2. ASSUME NEW k \in Places \ {"unsent", "sendQueue"} PROVE At'[k] = At[k]
    BY AtPlaces, AtPlacesNext
    DEF Places, SendBlock, OnWire, outVars, wireVars, inVars, sinkVars
  <2> QED
    BY <1>0, <1>1, <2>1, <2>2, Moved
<1>5. Once' /\ OneInHand'
  BY <1>0, <1>3
  DEF SendBlock, Once, OneInHand, Apart, OnWire, outVars, wireVars, inVars, sinkVars
<1> QED
  BY <1>4, <1>5

\* An OutboundRelay with nothing in hand takes a block that no tunnel has.
LEMMA TakeInHand ==
    ASSUME Inv, NEW t \in Tunnels, NEW b \in Blocks, b \notin Together(holding),
           relay[t] \notin {"sendRetry", "sendNormal"},
           holding' = [holding EXCEPT ![t] = {b}]
    PROVE  /\ Together(holding') = Together(holding) \cup {b}
           /\ Apart(holding')
           /\ \A u \in Tunnels : \A c, d \in holding'[u] : c = d
<1>1. holding[t] = {} /\ DOMAIN holding = Tunnels /\ Apart(holding)
  BY DEF Inv, TypeOK, Once
<1>2. holding' = [holding EXCEPT ![t] = @ \cup {b}]
  BY <1>1
<1>3. Together(holding') = Together(holding) \cup {b} /\ Apart(holding')
  <2>1. /\ Together([holding EXCEPT ![t] = @ \cup {b}]) = Together(holding) \cup {b}
        /\ Apart([holding EXCEPT ![t] = @ \cup {b}])
    BY <1>1, Gains
  <2> QED
    BY <1>2, <2>1
<1>4. \A u \in Tunnels : \A c, d \in holding'[u] : c = d
  BY <1>1 DEF Inv, OneInHand
<1> QED
  BY <1>3, <1>4

LEMMA PlaceTakeRetry ==
    ASSUME Inv, NEW t \in Tunnels, TakeRetry(t)
    PROVE  (Partition /\ Once /\ OneInHand)'
<1> DEFINE b == Head(sendRetryQueue)
<1>0. TypeOK /\ Partition /\ Once /\ OneInHand
  BY DEF Inv
<1>1. "sendRetryQueue" \in Places /\ "held" \in Places
  BY DEF Places
<1>2. /\ b \in Blocks /\ b \in Range(sendRetryQueue)
      /\ Range(sendRetryQueue') = Range(sendRetryQueue) \ {b}
      /\ IsInjective(sendRetryQueue')
  BY <1>0, RangeTail DEF TakeRetry, TypeOK, Once
<1>3. b \notin Together(holding)
  BY <1>0, <1>1, <1>2, SamePlace, AtPlaces
<1>4. /\ Together(holding') = Together(holding) \cup {b}
      /\ Apart(holding')
      /\ \A u \in Tunnels : \A c, d \in holding'[u] : c = d
  BY <1>2, <1>3, TakeInHand DEF TakeRetry, RetrySelects
<1>5. Partition'
  <2>1. /\ {b} \subseteq At["sendRetryQueue"]
        /\ At'["sendRetryQueue"] = At["sendRetryQueue"] \ {b}
        /\ At'["held"] = At["held"] \cup {b}
    BY <1>2, <1>4, AtPlaces, AtPlacesNext
  <2>2. ASSUME NEW k \in Places \ {"sendRetryQueue", "held"} PROVE At'[k] = At[k]
    BY AtPlaces, AtPlacesNext
    DEF Places, TakeRetry, OnWire, wireVars, inVars, sinkVars
  <2> QED
    BY <1>0, <1>1, <2>1, <2>2, Moved
<1>6. Once' /\ OneInHand'
  BY <1>0, <1>2, <1>4
  DEF TakeRetry, Once, OneInHand, Apart, OnWire, wireVars, inVars, sinkVars
<1> QED
  BY <1>5, <1>6

LEMMA PlaceTakeNormal ==
    ASSUME Inv, NEW t \in Tunnels, TakeNormal(t)
    PROVE  (Partition /\ Once /\ OneInHand)'
<1> DEFINE b == Head(sendQueue)
<1>0. TypeOK /\ Partition /\ Once /\ OneInHand
  BY DEF Inv
<1>1. "sendQueue" \in Places /\ "held" \in Places
  BY DEF Places
<1>2. /\ b \in Blocks /\ b \in Range(sendQueue)
      /\ Range(sendQueue') = Range(sendQueue) \ {b}
      /\ IsInjective(sendQueue')
  BY <1>0, RangeTail DEF TakeNormal, TypeOK, Once
<1>3. b \notin Together(holding)
  BY <1>0, <1>1, <1>2, SamePlace, AtPlaces
<1>4. /\ Together(holding') = Together(holding) \cup {b}
      /\ Apart(holding')
      /\ \A u \in Tunnels : \A c, d \in holding'[u] : c = d
  BY <1>2, <1>3, TakeInHand DEF TakeNormal
<1>5. Partition'
  <2>1. /\ {b} \subseteq At["sendQueue"]
        /\ At'["sendQueue"] = At["sendQueue"] \ {b}
        /\ At'["held"] = At["held"] \cup {b}
    BY <1>2, <1>4, AtPlaces, AtPlacesNext
  <2>2. ASSUME NEW k \in Places \ {"sendQueue", "held"} PROVE At'[k] = At[k]
    BY AtPlaces, AtPlacesNext
    DEF Places, TakeNormal, OnWire, wireVars, inVars, sinkVars
  <2> QED
    BY <1>0, <1>1, <2>1, <2>2, Moved
<1>6. Once' /\ OneInHand'
  BY <1>0, <1>2, <1>4
  DEF TakeNormal, Once, OneInHand, Apart, OnWire, wireVars, inVars, sinkVars
<1> QED
  BY <1>5, <1>6

\* An OutboundRelay is done with the block in its hand.
LEMMA LetGo ==
    ASSUME Inv, NEW t \in Tunnels, NEW b \in holding[t],
           holding' = [holding EXCEPT ![t] = {}]
    PROVE  /\ b \in Blocks /\ b \in Together(holding)
           /\ Together(holding') = Together(holding) \ {b}
           /\ Apart(holding')
           /\ \A u \in Tunnels : \A c, d \in holding'[u] : c = d
<1>1. /\ holding[t] = {b} /\ DOMAIN holding = Tunnels /\ Apart(holding)
      /\ b \in Blocks
  BY DEF Inv, TypeOK, Once, OneInHand
<1>2. /\ Together([holding EXCEPT ![t] = @ \ {b}]) = Together(holding) \ {b}
      /\ Apart([holding EXCEPT ![t] = @ \ {b}])
  BY <1>1, Yields
<1>3. holding' = [holding EXCEPT ![t] = @ \ {b}]
  BY <1>1
<1>4. \A u \in Tunnels : \A c, d \in holding'[u] : c = d
  BY <1>1 DEF Inv, OneInHand
<1>5. b \in Together(holding)
  BY <1>1 DEF Together
<1> QED
  BY <1>1, <1>2, <1>3, <1>4, <1>5

\* A block that no connection carries is written to one.
LEMMA ToWire ==
    ASSUME Inv, NEW t \in Tunnels, NEW b \in Blocks, b \notin Together(OnWire),
           wire' = [wire EXCEPT ![t] = Append(@, b)]
    PROVE  /\ Together(OnWire') = Together(OnWire) \cup {b}
           /\ Apart(OnWire')
           /\ \A u \in Tunnels : IsInjective(wire'[u])
<1>1. /\ wire \in [Tunnels -> Seq(Blocks)] /\ Apart(OnWire)
      /\ \A u \in Tunnels : IsInjective(wire[u])
  BY DEF Inv, TypeOK, Once
<1>2. b \notin Range(wire[t])
  BY DEF Together, OnWire
<1>3. Range(wire'[t]) = Range(wire[t]) \cup {b} /\ IsInjective(wire'[t])
  BY <1>1, <1>2, RangeAppend
<1>4. \A u \in Tunnels \ {t} : wire'[u] = wire[u]
  BY <1>1
<1>5. OnWire' = [OnWire EXCEPT ![t] = @ \cup {b}]
  <2>1. ASSUME NEW u \in Tunnels
        PROVE  Range(wire'[u]) = IF u = t THEN Range(wire[t]) \cup {b} ELSE Range(wire[u])
    <3>1. CASE u = t
      BY <1>3, <3>1
    <3>2. CASE u # t
      BY <1>4, <3>2
    <3> QED
      BY <3>1, <3>2
  <2>2. OnWire' = [u \in Tunnels |-> Range(wire'[u])]
    BY DEF OnWire
  <2>3. [OnWire EXCEPT ![t] = @ \cup {b}]
          = [u \in Tunnels |-> IF u = t THEN Range(wire[t]) \cup {b} ELSE Range(wire[u])]
    BY DEF OnWire
  <2> QED
    BY <2>1, <2>2, <2>3
<1>6. DOMAIN OnWire = Tunnels
  BY DEF OnWire
<1>7. /\ Together([OnWire EXCEPT ![t] = @ \cup {b}]) = Together(OnWire) \cup {b}
      /\ Apart([OnWire EXCEPT ![t] = @ \cup {b}])
  BY <1>1, <1>6, Gains
<1> QED
  BY <1>1, <1>3, <1>4, <1>5, <1>7

\* Blocks of one connection are read or lost.
LEMMA FromWire ==
    ASSUME Inv, NEW t \in Tunnels, NEW B, NEW q, wire' = [wire EXCEPT ![t] = q],
           B \subseteq Range(wire[t]), Range(q) = Range(wire[t]) \ B, IsInjective(q)
    PROVE  /\ Together(OnWire') = Together(OnWire) \ B
           /\ Apart(OnWire')
           /\ \A u \in Tunnels : IsInjective(wire'[u])
<1>1. /\ DOMAIN wire = Tunnels /\ Apart(OnWire)
      /\ \A u \in Tunnels : IsInjective(wire[u])
  BY DEF Inv, TypeOK, Once
<1>2. wire'[t] = q /\ \A u \in Tunnels \ {t} : wire'[u] = wire[u]
  BY <1>1
<1>3. OnWire' = [OnWire EXCEPT ![t] = @ \ B]
  <2>1. \A u \in Tunnels :
          Range(wire'[u]) = IF u = t THEN Range(wire[t]) \ B ELSE Range(wire[u])
    BY <1>2
  <2>2. OnWire' = [u \in Tunnels |-> Range(wire'[u])]
    BY DEF OnWire
  <2>3. [OnWire EXCEPT ![t] = @ \ B]
          = [u \in Tunnels |-> IF u = t THEN Range(wire[t]) \ B ELSE Range(wire[u])]
    BY DEF OnWire
  <2> QED
    BY <2>1, <2>2, <2>3
<1>4. DOMAIN OnWire = Tunnels /\ B \subseteq OnWire[t]
  BY DEF OnWire
<1>5. /\ Together([OnWire EXCEPT ![t] = @ \ B]) = Together(OnWire) \ B
      /\ Apart([OnWire EXCEPT ![t] = @ \ B])
  BY <1>1, <1>4, Yields
<1> QED
  BY <1>1, <1>2, <1>3, <1>5

LEMMA PlaceWriteBlock ==
    ASSUME Inv, NEW t \in Tunnels, WriteBlock(t)
    PROVE  (Partition /\ Once /\ OneInHand)'
<1>0. TypeOK /\ Partition /\ Once /\ OneInHand
  BY DEF Inv
<1>1. "held" \in Places /\ "wire" \in Places /\ "lost" \in Places
  BY DEF Places
<1>2. PICK b \in holding[t] :
        IF recvCtxDone[t]
        THEN lost' = lost \cup {b} /\ wire' = wire
        ELSE wire' = [wire EXCEPT ![t] = Append(@, b)] /\ lost' = lost
  BY DEF WriteBlock
<1>3. /\ b \in Blocks /\ b \in Together(holding)
      /\ Together(holding') = Together(holding) \ {b}
      /\ Apart(holding')
      /\ \A u \in Tunnels : \A c, d \in holding'[u] : c = d
  BY <1>2, LetGo DEF WriteBlock
<1>4. {b} \subseteq At["held"] /\ At'["held"] = At["held"] \ {b}
  BY <1>3, AtPlaces, AtPlacesNext
<1>5. CASE recvCtxDone[t]
  <2>1. lost' = lost \cup {b} /\ wire' = wire
    BY <1>2, <1>5
  <2>2. At'["lost"] = At["lost"] \cup {b}
    BY <2>1, AtPlaces, AtPlacesNext
  <2>3. ASSUME NEW k \in Places \ {"held", "lost"} PROVE At'[k] = At[k]
    BY <2>1, AtPlaces, AtPlacesNext DEF Places, WriteBlock, OnWire, queueVars, inVars
  <2>4. Partition'
    BY <1>0, <1>1, <1>4, <2>2, <2>3, Moved
  <2>5. Once' /\ OneInHand'
    BY <1>0, <1>3, <2>1
    DEF WriteBlock, Once, OneInHand, Apart, OnWire, queueVars, inVars
  <2> QED
    BY <2>4, <2>5
<1>6. CASE ~recvCtxDone[t]
  <2>1. wire' = [wire EXCEPT ![t] = Append(@, b)] /\ lost' = lost
    BY <1>2, <1>6
  <2>2. b \notin Together(OnWire)
    BY <1>0, <1>1, <1>3, SamePlace, AtPlaces
  <2>3. /\ Together(OnWire') = Together(OnWire) \cup {b}
        /\ Apart(OnWire')
        /\ \A u \in Tunnels : IsInjective(wire'[u])
    BY <1>3, <2>1, <2>2, ToWire
  <2>4. At'["wire"] = At["wire"] \cup {b}
    BY <2>3, AtPlaces, AtPlacesNext
  <2>5. ASSUME NEW k \in Places \ {"held", "wire"} PROVE At'[k] = At[k]
    BY <2>1, AtPlaces, AtPlacesNext DEF Places, WriteBlock, queueVars, inVars
  <2>6. Partition'
    BY <1>0, <1>1, <1>4, <2>4, <2>5, Moved
  <2>7. Once' /\ OneInHand'
    BY <1>0, <1>3, <2>3 DEF WriteBlock, Once, OneInHand, Apart, queueVars, inVars
  <2> QED
    BY <2>6, <2>7
<1> QED
  BY <1>5, <1>6

LEMMA PlaceWriteFails ==
    ASSUME Inv, NEW t \in Tunnels, WriteFails(t)
    PROVE  (Partition /\ Once /\ OneInHand)'
<1>0. TypeOK /\ Partition /\ Once /\ OneInHand
  BY DEF Inv
<1>1. "held" \in Places /\ "retried" \in Places
  BY DEF Places
<1>2. PICK b \in holding[t] : holding[t] = {b}
  BY <1>0 DEF WriteFails, OneInHand
<1>3. /\ b \in Blocks /\ b \in Together(holding)
      /\ Together(holding') = Together(holding) \ {b}
      /\ Apart(holding')
      /\ \A u \in Tunnels : \A c, d \in holding'[u] : c = d
  BY <1>2, LetGo DEF WriteFails
<1>4. retrying' = retrying \cup {[tunnel |-> t, block |-> b]} /\ wire' = wire
  BY <1>2 DEF WriteFails, WireAfterFailure
<1>5. b \notin {r.block : r \in retrying}
  BY <1>0, <1>1, <1>3, SamePlace, AtPlaces
<1>6. Partition'
  <2>1. /\ {b} \subseteq At["held"]
        /\ At'["held"] = At["held"] \ {b}
        /\ At'["retried"] = At["retried"] \cup {b}
    <3>1. {r.block : r \in retrying'} = {r.block : r \in retrying} \cup {b}
      <4> DEFINE new == [tunnel |-> t, block |-> b]
      <4>1. new.block = b
        OBVIOUS
      <4>2. retrying' = retrying \cup {new}
        BY <1>4
      <4> HIDE DEF new
      <4> QED
        BY <4>1, <4>2
    <3> QED
      BY <1>3, <3>1, AtPlaces, AtPlacesNext
  <2>2. ASSUME NEW k \in Places \ {"held", "retried"} PROVE At'[k] = At[k]
    BY <1>4, AtPlaces, AtPlacesNext
    DEF Places, WriteFails, OnWire, queueVars, inVars, sinkVars
  <2> QED
    BY <1>0, <1>1, <2>1, <2>2, Moved
<1>7. \A r, s \in retrying' : r.block = s.block => r = s
  BY <1>0, <1>4, <1>5 DEF Once
<1>8. Once' /\ OneInHand'
  BY <1>0, <1>3, <1>4, <1>7
  DEF WriteFails, Once, OneInHand, Apart, OnWire, queueVars, inVars, sinkVars
<1> QED
  BY <1>6, <1>8

\* A goroutine of packThenSend ends: its block is no longer being retried.
LEMMA RetryEnds ==
    ASSUME Inv, NEW r \in retrying, retrying' = retrying \ {r}
    PROVE  /\ r.block \in Blocks /\ r.block \in At["retried"]
           /\ At'["retried"] = At["retried"] \ {r.block}
           /\ \A p, q \in retrying' : p.block = q.block => p = q
<1>1. /\ \A p, q \in retrying : p.block = q.block => p = q
      /\ r.block \in Blocks
  BY DEF Inv, Once, TypeOK
<1> QED
  BY <1>1, AtPlaces, AtPlacesNext

LEMMA PlacePutRetry ==
    ASSUME Inv, NEW r \in retrying, PutRetry(r)
    PROVE  (Partition /\ Once /\ OneInHand)'
<1> DEFINE b == r.block
<1>0. TypeOK /\ Partition /\ Once /\ OneInHand
  BY DEF Inv
<1>1. "retried" \in Places /\ "sendRetryQueue" \in Places
  BY DEF Places
<1>2. /\ b \in Blocks /\ b \in At["retried"]
      /\ At'["retried"] = At["retried"] \ {b}
      /\ \A p, q \in retrying' : p.block = q.block => p = q
  BY RetryEnds DEF PutRetry
<1>3. b \notin Range(sendRetryQueue)
  BY <1>0, <1>1, <1>2, SamePlace, AtPlaces
<1>4. /\ Range(sendRetryQueue') = Range(sendRetryQueue) \cup {b}
      /\ IsInjective(sendRetryQueue')
  BY <1>0, <1>2, <1>3, RangeAppend DEF PutRetry, TypeOK, Once
<1>5. Partition'
  <2>1. At'["sendRetryQueue"] = At["sendRetryQueue"] \cup {b}
    BY <1>4, AtPlaces, AtPlacesNext
  <2>2. ASSUME NEW k \in Places \ {"retried", "sendRetryQueue"} PROVE At'[k] = At[k]
    BY AtPlaces, AtPlacesNext
    DEF Places, PutRetry, OnWire, wireVars, inVars, sinkVars
  <2>3. {b} \subseteq At["retried"]
    BY <1>2
  <2> QED
    BY <1>0, <1>1, <1>2, <2>1, <2>2, <2>3, Moved
<1>6. Once' /\ OneInHand'
  BY <1>0, <1>2, <1>4
  DEF PutRetry, Once, OneInHand, Apart, OnWire, wireVars, inVars, sinkVars
<1> QED
  BY <1>5, <1>6

LEMMA PlaceDropRetry ==
    ASSUME Inv, NEW r \in retrying, DropRetry(r)
    PROVE  (Partition /\ Once /\ OneInHand)'
<1> DEFINE b == r.block
<1>0. TypeOK /\ Partition /\ Once /\ OneInHand
  BY DEF Inv
<1>1. "retried" \in Places /\ "lost" \in Places
  BY DEF Places
<1>2. /\ b \in Blocks /\ b \in At["retried"]
      /\ At'["retried"] = At["retried"] \ {b}
      /\ \A p, q \in retrying' : p.block = q.block => p = q
  BY RetryEnds DEF DropRetry
<1>3. Partition'
  <2>1. At'["lost"] = At["lost"] \cup {b}
    BY AtPlaces, AtPlacesNext DEF DropRetry
  <2>2. ASSUME NEW k \in Places \ {"retried", "lost"} PROVE At'[k] = At[k]
    BY AtPlaces, AtPlacesNext
    DEF Places, DropRetry, OnWire, queueVars, wireVars, inVars
  <2>3. {b} \subseteq At["retried"]
    BY <1>2
  <2> QED
    BY <1>0, <1>1, <1>2, <2>1, <2>2, <2>3, Moved
<1>4. Once' /\ OneInHand'
  BY <1>0, <1>2
  DEF DropRetry, Once, OneInHand, Apart, OnWire, queueVars, wireVars, inVars
<1> QED
  BY <1>3, <1>4

LEMMA PlaceReadBlock ==
    ASSUME Inv, NEW t \in Tunnels, ReadBlock(t)
    PROVE  (Partition /\ Once /\ OneInHand)'
<1> DEFINE b == Head(wire[t])
<1>0. TypeOK /\ Partition /\ Once /\ OneInHand
  BY DEF Inv
<1>1. "wire" \in Places /\ "read" \in Places
  BY DEF Places
<1>2. /\ wire[t] \in Seq(Blocks) /\ wire[t] # <<>> /\ IsInjective(wire[t])
      /\ DOMAIN recvHolding = Tunnels /\ recvHolding[t] = {}
  BY <1>0 DEF ReadBlock, TypeOK, Once, OneInHand
<1>3. /\ b \in Blocks /\ b \in Range(wire[t])
      /\ Range(Tail(wire[t])) = Range(wire[t]) \ {b}
      /\ IsInjective(Tail(wire[t]))
  BY <1>2, RangeTail
<1>4. /\ Together(OnWire') = Together(OnWire) \ {b}
      /\ Apart(OnWire')
      /\ \A u \in Tunnels : IsInjective(wire'[u])
  <2>1. wire' = [wire EXCEPT ![t] = Tail(wire[t])] /\ {b} \subseteq Range(wire[t])
    BY <1>3 DEF ReadBlock
  <2> QED
    BY <1>3, <2>1, FromWire
<1>5. b \in Together(OnWire)
  BY <1>3 DEF Together, OnWire
<1>6. b \notin Together(recvHolding)
  BY <1>0, <1>1, <1>3, <1>5, SamePlace, AtPlaces
<1>7. Together(recvHolding') = Together(recvHolding) \cup {b} /\ Apart(recvHolding')
  <2>1. /\ Together([recvHolding EXCEPT ![t] = @ \cup {b}])
             = Together(recvHolding) \cup {b}
        /\ Apart([recvHolding EXCEPT ![t] = @ \cup {b}])
    BY <1>0, <1>2, <1>3, <1>6, Gains DEF Once
  <2>2. recvHolding' = [recvHolding EXCEPT ![t] = @ \cup {b}]
    BY <1>2 DEF ReadBlock
  <2> QED
    BY <2>1, <2>2
<1>8. Partition'
  <2>1. /\ {b} \subseteq At["wire"]
        /\ At'["wire"] = At["wire"] \ {b}
        /\ At'["read"] = At["read"] \cup {b}
    BY <1>4, <1>5, <1>7, AtPlaces, AtPlacesNext
  <2>2. ASSUME NEW k \in Places \ {"wire", "read"} PROVE At'[k] = At[k]
    BY AtPlaces, AtPlacesNext DEF Places, ReadBlock, queueVars, outVars, sinkVars
  <2> QED
    BY <1>0, <1>1, <2>1, <2>2, Moved
<1>9. Once'
  BY <1>0, <1>4, <1>7 DEF ReadBlock, Once, Apart, queueVars, outVars, sinkVars
<1>10. OneInHand'
  BY <1>0, <1>2 DEF ReadBlock, OneInHand, TypeOK, outVars
<1> QED
  BY <1>8, <1>9, <1>10

LEMMA PlaceCloseReceiver ==
    ASSUME Inv, NEW t \in Tunnels, CloseReceiver(t)
    PROVE  (Partition /\ Once /\ OneInHand)'
<1> DEFINE B == Range(wire[t])
<1>0. TypeOK /\ Partition /\ Once /\ OneInHand
  BY DEF Inv
<1>1. "wire" \in Places /\ "lost" \in Places
  BY DEF Places
<1>2. /\ Together(OnWire') = Together(OnWire) \ B
      /\ Apart(OnWire')
      /\ \A u \in Tunnels : IsInjective(wire'[u])
  <2>1. Range(<< >>) = B \ B /\ IsInjective(<< >>)
    BY DEF Range, IsInjective
  <2>2. wire' = [wire EXCEPT ![t] = << >>]
    BY DEF CloseReceiver
  <2> QED
    BY <2>1, <2>2, FromWire
<1>3. B \subseteq Together(OnWire)
  <2>1. B \subseteq Blocks
    BY <1>0 DEF TypeOK, Range
  <2> QED
    BY <2>1 DEF Together, OnWire
<1>4. Partition'
  <2>1. /\ B \subseteq At["wire"]
        /\ At'["wire"] = At["wire"] \ B
        /\ At'["lost"] = At["lost"] \cup B
    BY <1>2, <1>3, AtPlaces, AtPlacesNext DEF CloseReceiver
  <2>2. ASSUME NEW k \in Places \ {"wire", "lost"} PROVE At'[k] = At[k]
    BY AtPlaces, AtPlacesNext DEF Places, CloseReceiver, queueVars, outVars
  <2> QED
    BY <1>0, <1>1, <2>1, <2>2, Moved
<1>5. Once' /\ OneInHand'
  BY <1>0, <1>2 DEF CloseReceiver, Once, OneInHand, Apart, queueVars, outVars
<1> QED
  BY <1>4, <1>5

\* InboundRelay is done with the block in its hand.
LEMMA RecvLetGo ==
    ASSUME Inv, NEW t \in Tunnels, recvHolding' = [recvHolding EXCEPT ![t] = {}]
    PROVE  /\ recvHolding[t] \subseteq Together(recvHolding)
           /\ Together(recvHolding') = Together(recvHolding) \ recvHolding[t]
           /\ Apart(recvHolding')
<1>1. /\ DOMAIN recvHolding = Tunnels /\ Apart(recvHolding)
      /\ recvHolding[t] \subseteq Blocks
  BY DEF Inv, TypeOK, Once
<1>2. /\ Together([recvHolding EXCEPT ![t] = @ \ recvHolding[t]])
           = Together(recvHolding) \ recvHolding[t]
      /\ Apart([recvHolding EXCEPT ![t] = @ \ recvHolding[t]])
  BY <1>1, Yields
<1>3. recvHolding' = [recvHolding EXCEPT ![t] = @ \ recvHolding[t]]
  BY <1>1
<1>4. recvHolding[t] \subseteq Together(recvHolding)
  BY <1>1 DEF Together
<1> QED
  BY <1>2, <1>3, <1>4

LEMMA PlacePutBlock ==
    ASSUME Inv, NEW t \in Tunnels, PutBlock(t)
    PROVE  (Partition /\ Once /\ OneInHand)'
<1>0. TypeOK /\ Partition /\ Once /\ OneInHand
  BY DEF Inv
<1>1. "read" \in Places /\ "recvQueue" \in Places
  BY DEF Places
<1>2. PICK b \in recvHolding[t] : recvQueue' = Append(recvQueue, b)
  BY DEF PutBlock
<1>3. recvHolding[t] = {b} /\ b \in Blocks
  BY <1>0, <1>2 DEF OneInHand, TypeOK
<1>4. /\ {b} \subseteq Together(recvHolding)
      /\ Together(recvHolding') = Together(recvHolding) \ {b}
      /\ Apart(recvHolding')
  BY <1>3, RecvLetGo DEF PutBlock
<1>5. b \notin Range(recvQueue)
  BY <1>0, <1>1, <1>3, <1>4, SamePlace, AtPlaces
<1>6. Range(recvQueue') = Range(recvQueue) \cup {b} /\ IsInjective(recvQueue')
  BY <1>0, <1>2, <1>3, <1>5, RangeAppend DEF TypeOK, Once
<1>7. Partition'
  <2>1. /\ {b} \subseteq At["read"]
        /\ At'["read"] = At["read"] \ {b}
        /\ At'["recvQueue"] = At["recvQueue"] \cup {b}
    BY <1>4, <1>6, AtPlaces, AtPlacesNext
  <2>2. ASSUME NEW k \in Places \ {"read", "recvQueue"} PROVE At'[k] = At[k]
    BY AtPlaces, AtPlacesNext
    DEF Places, PutBlock, OnWire, queueVars, outVars, wireVars
  <2> QED
    BY <1>0, <1>1, <2>1, <2>2, Moved
<1>8. Once'
  BY <1>0, <1>4, <1>6
  DEF PutBlock, Once, Apart, OnWire, queueVars, outVars, wireVars
<1>9. OneInHand'
  BY <1>0 DEF PutBlock, OneInHand, TypeOK, outVars
<1> QED
  BY <1>7, <1>8, <1>9

LEMMA PlaceAbandonBlock ==
    ASSUME Inv, NEW t \in Tunnels, AbandonBlock(t)
    PROVE  (Partition /\ Once /\ OneInHand)'
<1> DEFINE B == recvHolding[t]
<1>0. TypeOK /\ Partition /\ Once /\ OneInHand
  BY DEF Inv
<1>1. "read" \in Places /\ "lost" \in Places
  BY DEF Places
<1>2. /\ B \subseteq Together(recvHolding)
      /\ Together(recvHolding') = Together(recvHolding) \ B
      /\ Apart(recvHolding')
  BY RecvLetGo DEF AbandonBlock
<1>3. Partition'
  <2>1. /\ B \subseteq At["read"]
        /\ At'["read"] = At["read"] \ B
        /\ At'["lost"] = At["lost"] \cup B
    BY <1>2, AtPlaces, AtPlacesNext DEF AbandonBlock
  <2>2. ASSUME NEW k \in Places \ {"read", "lost"} PROVE At'[k] = At[k]
    BY AtPlaces, AtPlacesNext
    DEF Places, AbandonBlock, OnWire, queueVars, outVars, wireVars
  <2> QED
    BY <1>0, <1>1, <2>1, <2>2, Moved
<1>4. Once'
  BY <1>0, <1>2 DEF AbandonBlock, Once, Apart, OnWire, queueVars, outVars, wireVars
<1>5. OneInHand'
  BY <1>0 DEF AbandonBlock, OneInHand, TypeOK, outVars
<1> QED
  BY <1>3, <1>4, <1>5

LEMMA PlaceDeliver ==
    ASSUME Inv, Deliver PROVE (Partition /\ Once /\ OneInHand)'
<1> DEFINE b == Head(recvQueue)
<1>0. TypeOK /\ Partition /\ Once /\ OneInHand
  BY DEF Inv
<1>1. "recvQueue" \in Places /\ "delivered" \in Places
  BY DEF Places
<1>2. /\ b \in Range(recvQueue)
      /\ Range(recvQueue') = Range(recvQueue) \ {b}
      /\ IsInjective(recvQueue')
  BY <1>0, RangeTail DEF Deliver, TypeOK, Once
<1>3. Partition'
  <2>1. /\ {b} \subseteq At["recvQueue"]
        /\ At'["recvQueue"] = At["recvQueue"] \ {b}
        /\ At'["delivered"] = At["delivered"] \cup {b}
    BY <1>2, AtPlaces, AtPlacesNext DEF Deliver
  <2>2. ASSUME NEW k \in Places \ {"recvQueue", "delivered"} PROVE At'[k] = At[k]
    BY AtPlaces, AtPlacesNext
    DEF Places, Deliver, OnWire, queueVars, outVars, wireVars, inVars
  <2> QED
    BY <1>0, <1>1, <2>1, <2>2, Moved
<1>4. Once' /\ OneInHand'
  BY <1>0, <1>2
  DEF Deliver, Once, OneInHand, Apart, OnWire, queueVars, outVars, wireVars, inVars
<1> QED
  BY <1>3, <1>4

LEMMA PairedStep == TypeOK /\ Paired /\ [Next]_vars => Paired'
<1> SUFFICES ASSUME TypeOK, Paired, [Next]_vars PROVE Paired'
  OBVIOUS
<1> USE DEF Paired
<1>0. /\ DOMAIN relay = Tunnels /\ DOMAIN recvRelay = Tunnels
      /\ \A t \in Tunnels : holding[t] # {} => relay[t] # "absent"
  BY DEF TypeOK
<1>1. ASSUME NEW t \in Tunnels, AddTunnel(t) PROVE Paired'
  BY <1>0, <1>1 DEF AddTunnel
<1>2. ASSUME NEW t \in Tunnels, OutboundRelay(t) PROVE Paired'
  BY <1>0, <1>2
  DEF OutboundRelay, CheckCancel, EndRelay, NoRetry, GoTo, TakeRetry, RetrySelects,
      TakeNormal, WriteBlock, WriteFails, AfterSend, inVars
<1>3. ASSUME NEW t \in Tunnels, InboundRelay(t) PROVE Paired'
  BY <1>0, <1>3
  DEF InboundRelay, ReadBlock, PutBlock, AbandonBlock, EndInbound, outVars
<1>4. ASSUME UNCHANGED <<relay, recvRelay>> PROVE Paired'
  BY <1>4
<1> QED
  BY <1>1, <1>2, <1>3, <1>4
  DEF Next, SendBlock, RemoveTunnel, CloseSender, CloseReceiver, NetworkFails,
      PutRetry, DropRetry, Deliver, vars, outVars, inVars

LEMMA InvInit == Init => Inv
<1>1. Init => Paired
  BY DEF Init, Paired
<1> QED
  BY <1>1, TypeInit, PlaceInit DEF Inv

LEMMA InvStep == Inv /\ [Next]_vars => Inv'
<1> SUFFICES ASSUME Inv, [Next]_vars PROVE (Partition /\ Once /\ OneInHand)'
  BY TypeStep, PairedStep DEF Inv
<1>1. ASSUME NEW t \in Tunnels,
             \/ AddTunnel(t) \/ RemoveTunnel(t) \/ CheckCancel(t) \/ EndRelay(t)
             \/ NoRetry(t) \/ CloseSender(t) \/ NetworkFails(t) \/ EndInbound(t)
      PROVE  Quiet
  <2>1. recvRelay \in [Tunnels -> {"absent", "read", "put", "ended"}] /\ Paired
    BY DEF Inv, TypeOK
  <2>2. CASE AddTunnel(t)
    BY <2>1, <2>2 DEF AddTunnel, Paired, Quiet, queueVars, wireVars, sinkVars
  <2>3. CASE ~AddTunnel(t)
    BY <1>1, <2>1, <2>3
    DEF RemoveTunnel, CheckCancel, EndRelay, NoRetry, GoTo, CloseSender,
        NetworkFails, EndInbound, Quiet, queueVars, outVars, wireVars, inVars, sinkVars
  <2> QED
    BY <2>2, <2>3
<1>2. CASE UNCHANGED vars
  BY <1>2, PlaceQuiet
  DEF Quiet, vars, queueVars, outVars, wireVars, inVars, sinkVars
<1>3. CASE Next
  BY <1>1, <1>3, PlaceQuiet, PlaceSendBlock, PlaceTakeRetry, PlaceTakeNormal,
     PlaceWriteBlock, PlaceWriteFails, PlacePutRetry, PlaceDropRetry,
     PlaceReadBlock, PlaceCloseReceiver, PlacePutBlock, PlaceAbandonBlock,
     PlaceDeliver
  DEF Next, OutboundRelay, InboundRelay
<1> QED
  BY <1>2, <1>3

\* The inductive invariant: every block is at one place and there once, and a
\* relay has at most one block in hand.
THEOREM InvCorrectness == Spec => []Inv
  BY InvInit, InvStep, PTL DEF Spec

-----------------------------------------------------------------------------
(* Counting the places of a block *)

LEMMA CountAtMostOne ==
    ASSUME NEW S, \A x, y \in S : x = y
    PROVE  Cardinality(S) = OneIf(S # {})
<1>1. CASE S = {}
  BY <1>1, FS_EmptySet DEF OneIf
<1>2. CASE S # {}
  <2>1. PICK x \in S : S = {x}
    BY <1>2
  <2>2. Cardinality({x}) = 1
    BY FS_Singleton
  <2> QED
    BY <1>2, <2>1, <2>2 DEF OneIf
<1> QED
  BY <1>1, <1>2

LEMMA CopiesInChannel ==
    ASSUME NEW q \in Seq(Blocks), IsInjective(q), NEW b
    PROVE  Copies(b, q) = OneIf(b \in Range(q))
<1> DEFINE S == {i \in 1 .. Len(q) : q[i] = b}
<1>1. \A x, y \in S : x = y
  BY DEF IsInjective
<1>2. S # {} <=> b \in Range(q)
  BY DEF Range
<1>3. Cardinality(S) = OneIf(S # {})
  <2> HIDE DEF S
  <2> QED
    BY <1>1, CountAtMostOne
<1>4. OneIf(S # {}) = OneIf(b \in Range(q))
  BY <1>2 DEF OneIf
<1> QED
  BY <1>3, <1>4 DEF Copies

LEMMA CopiesWithTunnels ==
    ASSUME NEW h, Apart(h), NEW b \in Blocks
    PROVE  Cardinality({t \in Tunnels : b \in h[t]}) = OneIf(b \in Together(h))
<1> DEFINE S == {t \in Tunnels : b \in h[t]}
<1>1. \A x, y \in S : x = y
  BY DEF Apart
<1>2. S # {} <=> b \in Together(h)
  BY DEF Together
<1>3. Cardinality(S) = OneIf(S # {})
  <2> HIDE DEF S
  <2> QED
    BY <1>1, CountAtMostOne
<1> QED
  BY <1>2, <1>3 DEF OneIf

LEMMA InvImpliesOnePlace == Inv => OnePlace
<1> SUFFICES ASSUME Inv, NEW b \in Blocks
             PROVE  OneIf(b \in unsent) + OneIf(b \in delivered) + OneIf(b \in lost)
                    + Copies(b, sendQueue) + Copies(b, sendRetryQueue)
                    + Copies(b, recvQueue)
                    + Cardinality({t \in Tunnels : b \in holding[t]})
                    + Cardinality({t \in Tunnels : b \in recvHolding[t]})
                    + Cardinality({r \in retrying : r.block = b})
                    + Cardinality({p \in Tunnels \X (1 .. WireSize) :
                         p[2] =< Len(wire[p[1]]) /\ wire[p[1]][p[2]] = b})
                    = 1
  BY DEF OnePlace
<1>0. TypeOK /\ Partition /\ Once
  BY DEF Inv
<1>1. /\ Copies(b, sendQueue) = OneIf(b \in At["sendQueue"])
      /\ Copies(b, sendRetryQueue) = OneIf(b \in At["sendRetryQueue"])
      /\ Copies(b, recvQueue) = OneIf(b \in At["recvQueue"])
  BY <1>0, CopiesInChannel, AtPlaces DEF TypeOK, Once
<1>2. /\ Cardinality({t \in Tunnels : b \in holding[t]}) = OneIf(b \in At["held"])
      /\ Cardinality({t \in Tunnels : b \in recvHolding[t]}) = OneIf(b \in At["read"])
  BY <1>0, CopiesWithTunnels, AtPlaces DEF Once
<1>3. Cardinality({r \in retrying : r.block = b}) = OneIf(b \in At["retried"])
  <2> DEFINE S == {r \in retrying : r.block = b}
  <2>1. \A x, y \in S : x = y
    BY <1>0 DEF Once
  <2>2. S # {} <=> b \in At["retried"]
    BY AtPlaces
  <2>3. Cardinality(S) = OneIf(S # {})
    <3> HIDE DEF S
    <3> QED
      BY <2>1, CountAtMostOne
  <2> QED
    BY <2>2, <2>3 DEF OneIf
<1>4. Cardinality({p \in Tunnels \X (1 .. WireSize) :
                     p[2] =< Len(wire[p[1]]) /\ wire[p[1]][p[2]] = b})
        = OneIf(b \in At["wire"])
  <2> DEFINE S == {p \in Tunnels \X (1 .. WireSize) :
                     p[2] =< Len(wire[p[1]]) /\ wire[p[1]][p[2]] = b}
  <2>0. /\ wire \in [Tunnels -> Seq(Blocks)] /\ Apart(OnWire)
        /\ \A t \in Tunnels : IsInjective(wire[t]) /\ Len(wire[t]) =< WireSize
    BY <1>0 DEF TypeOK, Once
  <2>1. ASSUME NEW x \in S, NEW y \in S PROVE x = y
    <3>1. /\ x[1] \in Tunnels /\ x[2] \in 1 .. Len(wire[x[1]])
          /\ y[1] \in Tunnels /\ y[2] \in 1 .. Len(wire[y[1]])
          /\ wire[x[1]][x[2]] = b /\ wire[y[1]][y[2]] = b
          /\ x = <<x[1], x[2]>> /\ y = <<y[1], y[2]>>
      BY <2>0
    <3>2. b \in OnWire[x[1]] /\ b \in OnWire[y[1]]
      BY <2>0, <3>1 DEF OnWire, Range
    <3>3. x[1] = y[1]
      BY <2>0, <3>1, <3>2 DEF Apart
    <3>4. x[2] = y[2]
      BY <2>0, <3>1, <3>3 DEF IsInjective
    <3> QED
      BY <3>1, <3>3, <3>4
  <2>2. ASSUME S # {} PROVE b \in Together(OnWire)
    <3>1. PICK p \in S : TRUE
      BY <2>2
    <3> QED
      BY <2>0, <3>1 DEF Together, OnWire, Range
  <2>3. ASSUME b \in Together(OnWire) PROVE S # {}
    <3>1. PICK t \in Tunnels : b \in Range(wire[t])
      BY <2>3 DEF Together, OnWire
    <3>2. PICK i \in 1 .. Len(wire[t]) : wire[t][i] = b
      BY <2>0, <3>1 DEF Range
    <3>3. i \in 1 .. WireSize
      BY <2>0, <3>2, SizeAssumption
    <3>4. <<t, i>> \in S
      BY <3>2, <3>3
    <3> QED
      BY <3>4
  <2>4. Cardinality(S) = OneIf(S # {})
    <3> HIDE DEF S
    <3> QED
      BY <2>1, CountAtMostOne
  <2> HIDE DEF S
  <2>5. Cardinality(S) = OneIf(b \in At["wire"])
    BY <2>2, <2>3, <2>4, AtPlaces DEF OneIf
  <2> QED
    BY <2>5 DEF S
<1>5. /\ OneIf(b \in unsent) = OneIf(b \in At["unsent"])
      /\ OneIf(b \in delivered) = OneIf(b \in At["delivered"])
      /\ OneIf(b \in lost) = OneIf(b \in At["lost"])
  BY AtPlaces
<1>6. PICK k \in Places : \A j \in Places : b \in At[j] <=> j = k
  BY <1>0 DEF Partition
<1>7. \A j \in Places : OneIf(b \in At[j]) = IF j = k THEN 1 ELSE 0
  BY <1>6 DEF OneIf
<1>8. OneIf(b \in At["unsent"]) + OneIf(b \in At["delivered"])
      + OneIf(b \in At["lost"]) + OneIf(b \in At["sendQueue"])
      + OneIf(b \in At["sendRetryQueue"]) + OneIf(b \in At["recvQueue"])
      + OneIf(b \in At["held"]) + OneIf(b \in At["read"])
      + OneIf(b \in At["retried"]) + OneIf(b \in At["wire"]) = 1
  BY <1>7 DEF Places
<1> QED
  BY <1>1, <1>2, <1>3, <1>4, <1>5, <1>8

\* A block is in one place only, whatever breaks and however often it is
\* retried: at every moment exactly one goroutine, channel or connection has
\* it, or the far end got it, or it is lost (tunnel.go 206-241).
THEOREM OnePlaceCorrectness == Spec => []OnePlace
  BY InvCorrectness, InvImpliesOnePlace, PTL

-----------------------------------------------------------------------------
(* The pools implement Transport *)

Faulty == \E t \in Tunnels : ctxDone[t] \/ recvCtxDone[t]

CarrierStep == [Carrier!Next]_<<unsent, delivered, lost, Faulty>>

\* A block that is neither unsent nor delivered nor lost is being carried.
LEMMA InTransit ==
    ASSUME Inv, NEW b \in Blocks,
           NEW k \in Places \ {"unsent", "delivered", "lost"}, b \in At[k]
    PROVE  b \in Carrier!Carried
<1>1. "unsent" \in Places /\ "delivered" \in Places /\ "lost" \in Places
  BY DEF Places
<1> QED
  BY <1>1, SamePlace, AtPlaces DEF Inv, Carrier!Carried

\* Steps inside the transport, and ones of an end of a tunnel that closes
\* with nothing in it.
LEMMA CarrierStutters ==
    ASSUME UNCHANGED <<unsent, delivered, lost, ctxDone, recvCtxDone>>
    PROVE  CarrierStep
  BY DEF CarrierStep, Faulty

LEMMA CarrierFaults ==
    ASSUME NEW bs \in SUBSET Carrier!Carried, NEW t \in Tunnels,
           ctxDone'[t] \/ recvCtxDone'[t], lost' = lost \cup bs,
           UNCHANGED <<unsent, delivered>>
    PROVE  CarrierStep
<1>1. Faulty'
  BY DEF Faulty
<1>2. Carrier!Fault(bs)
  BY <1>1 DEF Carrier!Fault, Faulty
<1> QED
  BY <1>2 DEF CarrierStep, Carrier!Next

LEMMA RefineInit == Init => Carrier!Init
  BY DEF Init, Carrier!Init

LEMMA RefineStep == Inv /\ [Next]_vars => CarrierStep
<1> SUFFICES ASSUME Inv, [Next]_vars PROVE CarrierStep
  OBVIOUS
<1>0. TypeOK /\ OneInHand
  BY DEF Inv
<1>1. ASSUME NEW b \in Blocks, SendBlock(b) PROVE CarrierStep
  <2>1. Carrier!Send(b)
    BY <1>1 DEF SendBlock, Carrier!Send, outVars, inVars, sinkVars
  <2> QED
    BY <2>1 DEF CarrierStep, Carrier!Next
<1>2. ASSUME NEW t \in Tunnels, WriteBlock(t) PROVE CarrierStep
  <2>1. PICK b \in holding[t] :
          IF recvCtxDone[t] THEN lost' = lost \cup {b} ELSE lost' = lost
    BY <1>2 DEF WriteBlock
  <2>2. UNCHANGED <<unsent, delivered, ctxDone, recvCtxDone>>
    BY <1>2 DEF WriteBlock, queueVars, inVars
  <2>3. CASE ~recvCtxDone[t]
    BY <2>1, <2>2, <2>3, CarrierStutters
  <2>4. CASE recvCtxDone[t]
    <3>1. b \in Blocks /\ b \in At["held"]
      BY <1>0, <2>1, AtPlaces DEF TypeOK, Together
    <3>2. {b} \in SUBSET Carrier!Carried
      BY <3>1, InTransit DEF Places
    <3> QED
      BY <2>1, <2>2, <2>4, <3>2, CarrierFaults
  <2> QED
    BY <2>3, <2>4
<1>3. ASSUME NEW t \in Tunnels, WriteFails(t) \/ CloseSender(t) PROVE CarrierStep
  <2>1. ctxDone'[t] /\ lost' = lost \cup {} /\ UNCHANGED <<unsent, delivered>>
    BY <1>0, <1>3 DEF TypeOK, WriteFails, CloseSender, queueVars, sinkVars
  <2>2. {} \in SUBSET Carrier!Carried
    OBVIOUS
  <2> QED
    BY <2>1, <2>2, CarrierFaults
<1>4. ASSUME NEW r \in retrying, DropRetry(r) PROVE CarrierStep
  <2>1. r.tunnel \in Tunnels /\ r.block \in Blocks /\ r.block \in At["retried"]
    BY <1>0, AtPlaces DEF TypeOK
  <2>2. {r.block} \in SUBSET Carrier!Carried
    BY <2>1, InTransit DEF Places
  <2>3. ctxDone'[r.tunnel] /\ lost' = lost \cup {r.block} /\ UNCHANGED <<unsent, delivered>>
    BY <1>4 DEF DropRetry, queueVars
  <2> QED
    BY <2>1, <2>2, <2>3, CarrierFaults
<1>5. ASSUME NEW t \in Tunnels, CloseReceiver(t) PROVE CarrierStep
  <2>1. ASSUME NEW b \in Range(wire[t]) PROVE b \in Carrier!Carried
    <3>1. b \in Blocks
      BY <1>0 DEF TypeOK, Range
    <3>2. b \in At["wire"]
      BY <3>1, AtPlaces DEF Together, OnWire
    <3> QED
      BY <3>1, <3>2, InTransit DEF Places
  <2>2. Range(wire[t]) \in SUBSET Carrier!Carried
    BY <2>1
  <2>3. recvCtxDone'[t] /\ lost' = lost \cup Range(wire[t]) /\ UNCHANGED <<unsent, delivered>>
    BY <1>0, <1>5 DEF TypeOK, CloseReceiver, queueVars
  <2> QED
    BY <2>2, <2>3, CarrierFaults
<1>6. ASSUME NEW t \in Tunnels, AbandonBlock(t) PROVE CarrierStep
  <2>1. ASSUME NEW b \in recvHolding[t] PROVE b \in Carrier!Carried
    <3>1. b \in Blocks /\ b \in At["read"]
      BY <1>0, AtPlaces DEF TypeOK, Together
    <3> QED
      BY <3>1, InTransit DEF Places
  <2>2. recvHolding[t] \in SUBSET Carrier!Carried
    BY <2>1
  <2>3. recvCtxDone'[t] /\ lost' = lost \cup recvHolding[t] /\ UNCHANGED <<unsent, delivered>>
    BY <1>6 DEF AbandonBlock, GivesUp, queueVars
  <2> QED
    BY <2>2, <2>3, CarrierFaults
<1>7. CASE Deliver
  <2> DEFINE b == Head(recvQueue)
  <2>1. b \in Blocks /\ b \in At["recvQueue"]
    BY <1>0, <1>7, RangeTail, AtPlaces DEF TypeOK, Deliver
  <2>2. b \in Carrier!Carried
    BY <2>1, InTransit DEF Places
  <2>3. Carrier!Arrive(b)
    BY <1>7, <2>2 DEF Deliver, Carrier!Arrive, queueVars, outVars, inVars
  <2> QED
    BY <2>1, <2>3 DEF CarrierStep, Carrier!Next
<1>8. ASSUME NEW t \in Tunnels,
             \/ AddTunnel(t) \/ RemoveTunnel(t) \/ CheckCancel(t) \/ EndRelay(t)
             \/ NoRetry(t) \/ TakeRetry(t) \/ TakeNormal(t) \/ NetworkFails(t)
             \/ ReadBlock(t) \/ PutBlock(t) \/ EndInbound(t)
      PROVE  CarrierStep
  BY <1>8, CarrierStutters
  DEF AddTunnel, RemoveTunnel, CheckCancel, EndRelay, NoRetry, GoTo, TakeRetry,
      TakeNormal, NetworkFails, ReadBlock, PutBlock, EndInbound,
      queueVars, outVars, wireVars, inVars, sinkVars
<1>9. ASSUME NEW r \in retrying, PutRetry(r) PROVE CarrierStep
  BY <1>9, CarrierStutters DEF PutRetry, inVars, sinkVars
<1>10. CASE UNCHANGED vars
  BY <1>10, CarrierStutters DEF vars, queueVars, outVars, inVars, sinkVars
<1> QED
  BY <1>1, <1>2, <1>3, <1>4, <1>5, <1>6, <1>7, <1>8, <1>9, <1>10
  DEF Next, OutboundRelay, InboundRelay

\* The pools and the tunnels between them carry every block at most once and
\* lose one only after an end of a tunnel has closed (tunnel.go 128-275,
\* pool.go): what BlockProcessor takes for granted of its transport.
THEOREM TransportCorrectness == Spec => ImplementsTransport
  BY RefineInit, RefineStep, InvCorrectness, PTL
  DEF Spec, ImplementsTransport, Carrier!Spec, CarrierStep, Faulty

-----------------------------------------------------------------------------
(* Nobody waits for everybody else *)

\* What is known of tunnels that were added, and of those whose relays ended.
Running ==
    \A t \in Tunnels :
        /\ t \in tunnelMapping => relay[t] # "absent"
        /\ relay[t] = "ended" => ctxDone[t]
        /\ recvRelay[t] = "ended" => recvCtxDone[t]
        /\ wire[t] # <<>> => relay[t] # "absent" /\ ~recvCtxDone[t]

\* The guards of the steps of Relaying.
CanSend(t) ==
    \/ relay[t] = "cancel"
    \/ relay[t] \in {"retry", "normal"} /\ ctxDone[t]
    \/ relay[t] = "retry" /\ ~ctxDone[t] /\ sendRetryQueue = <<>>
    \/ relay[t] \in RetrySelects /\ sendRetryQueue # <<>>
    \/ relay[t] = "normal" /\ sendQueue # <<>>
    \/ holding[t] # {} /\ ~ctxDone[t] /\ Len(wire[t]) < WireSize
    \/ holding[t] # {} /\ WriteCanFail(t)

CanReceive(t) ==
    \/ recvRelay[t] = "read" /\ ~recvCtxDone[t] /\ ~broken[t] /\ wire[t] # <<>>
    \/ recvRelay[t] = "put" /\ recvHolding[t] # {} /\ Len(recvQueue) < RecvQueueSize
    \/ recvRelay[t] = "put" /\ GivesUp(t)
    \/ recvRelay[t] = "read" /\ recvCtxDone[t]

CanNotice(t) ==
    \/ (broken[t] \/ ctxDone[t]) /\ recvRelay[t] # "absent" /\ ~recvCtxDone[t]
    \/ (broken[t] \/ recvCtxDone[t]) /\ relay[t] # "absent" /\ ~ctxDone[t]

CanRelay ==
    \/ unsent # {} /\ HasRoom(sendQueue)
    \/ \E t \in Tunnels : CanSend(t) \/ CanReceive(t) \/ CanNotice(t)
    \/ \E r \in retrying : HasRoom(sendRetryQueue) \/ ctxDone[r.tunnel]
    \/ recvQueue # <<>>

\* The premise of NoGridlock: a block has not arrived, and a tunnel works.
Waiting ==
    /\ delivered \cup lost # Blocks
    /\ \E t \in tunnelMapping : ~ctxDone[t] /\ ~recvCtxDone[t] /\ ~broken[t]

LEMMA RunningInit == Init => Running
  BY DEF Init, Running

LEMMA RunningStep == TypeOK /\ Paired /\ Running /\ [Next]_vars => Running'
<1> SUFFICES ASSUME TypeOK, Paired, Running, [Next]_vars PROVE Running'
  OBVIOUS
<1>0. /\ DOMAIN relay = Tunnels /\ DOMAIN recvRelay = Tunnels /\ DOMAIN wire = Tunnels
      /\ DOMAIN ctxDone = Tunnels /\ DOMAIN recvCtxDone = Tunnels
      /\ \A t \in Tunnels : holding[t] # {} => relay[t] \in {"sendRetry", "sendNormal"}
      /\ \A t \in Tunnels : wire[t] \in Seq(Blocks) /\ recvCtxDone[t] \in BOOLEAN
  BY DEF TypeOK
<1>1. ASSUME NEW t \in Tunnels, AddTunnel(t) PROVE Running'
  BY <1>0, <1>1 DEF Running, AddTunnel, wireVars
<1>2. ASSUME NEW t \in Tunnels, RemoveTunnel(t) PROVE Running'
  BY <1>0, <1>2 DEF Running, RemoveTunnel, wireVars, inVars
<1>3. ASSUME NEW t \in Tunnels, CheckCancel(t) \/ EndRelay(t) \/ NoRetry(t) PROVE Running'
  BY <1>0, <1>3 DEF Running, CheckCancel, EndRelay, NoRetry, GoTo, wireVars, inVars
<1>4. ASSUME NEW t \in Tunnels, TakeRetry(t) \/ TakeNormal(t) PROVE Running'
  BY <1>0, <1>4 DEF Running, TakeRetry, TakeNormal, RetrySelects, wireVars, inVars
<1>5. ASSUME NEW t \in Tunnels, WriteBlock(t) PROVE Running'
  <2>1. /\ relay[t] \in {"sendRetry", "sendNormal"}
        /\ relay' = [relay EXCEPT ![t] = AfterSend(@)]
        /\ UNCHANGED <<tunnelMapping, ctxDone, recvCtxDone, recvRelay>>
    BY <1>0, <1>5 DEF WriteBlock, inVars
  <2>2. relay'[t] \in {"normal", "cancel"}
    BY <1>0, <2>1 DEF AfterSend
  <2>3. \A u \in Tunnels : u # t => relay'[u] = relay[u] /\ wire'[u] = wire[u]
    BY <1>0, <1>5, <2>1 DEF WriteBlock
  <2>4. recvCtxDone[t] => wire'[t] = wire[t]
    BY <1>5 DEF WriteBlock
  <2>5. ASSUME NEW u \in Tunnels
        PROVE  /\ u \in tunnelMapping' => relay'[u] # "absent"
               /\ relay'[u] = "ended" => ctxDone'[u]
               /\ recvRelay'[u] = "ended" => recvCtxDone'[u]
               /\ wire'[u] # <<>> => relay'[u] # "absent" /\ ~recvCtxDone'[u]
    BY <2>1, <2>2, <2>3, <2>4 DEF Running
  <2> QED  BY <2>5 DEF Running
<1>6. ASSUME NEW t \in Tunnels, WriteFails(t) PROVE Running'
  BY <1>0, <1>6 DEF Running, WriteFails, WireAfterFailure, AfterSend, inVars
<1>7. ASSUME NEW t \in Tunnels, CloseSender(t) PROVE Running'
  BY <1>0, <1>7 DEF Running, CloseSender, wireVars, inVars
<1>8. ASSUME NEW t \in Tunnels, CloseReceiver(t) PROVE Running'
  BY <1>0, <1>8 DEF Running, CloseReceiver, outVars
<1>9. ASSUME NEW t \in Tunnels, ReadBlock(t) PROVE Running'
  BY <1>0, <1>9, RangeTail DEF Running, ReadBlock, outVars
<1>10. ASSUME NEW t \in Tunnels, PutBlock(t) \/ AbandonBlock(t) \/ EndInbound(t)
       PROVE  Running'
  BY <1>0, <1>10 DEF Running, PutBlock, AbandonBlock, GivesUp, EndInbound, outVars, wireVars
<1>11. ASSUME UNCHANGED <<tunnelMapping, ctxDone, relay, wire, recvCtxDone, recvRelay>>
       PROVE  Running'
  BY <1>11 DEF Running
<1> QED
  BY <1>1, <1>2, <1>3, <1>4, <1>5, <1>6, <1>7, <1>8, <1>9, <1>10, <1>11
  DEF Next, OutboundRelay, InboundRelay, SendBlock, NetworkFails, PutRetry, DropRetry,
      Deliver, vars, outVars, wireVars, inVars

\* Wherever a block waits, somebody can take a step.
LEMMA WaitingCanRelay ==
    ASSUME Inv, Running, Waiting
    PROVE  CanRelay
<1> SUFFICES ASSUME ~CanRelay PROVE FALSE
  OBVIOUS
<1>0. TypeOK /\ Paired /\ Partition /\ OneInHand
  BY DEF Inv
<1>1. PICK t \in Tunnels : t \in tunnelMapping /\ ~ctxDone[t]
  BY <1>0 DEF Waiting, TypeOK
<1>2. \A u \in Tunnels : holding[u] = {}
  <2> SUFFICES ASSUME NEW u \in Tunnels, holding[u] # {} PROVE CanSend(u)
    BY DEF CanRelay
  <2>1. Len(wire[u]) \in Nat /\ WireSize \in Nat /\ Len(wire[u]) =< WireSize
    BY <1>0, SizeAssumption DEF TypeOK
  <2> QED  BY <2>1 DEF CanSend, WriteCanFail
<1>3. recvQueue = <<>>
  BY DEF CanRelay
<1>4. \A u \in Tunnels : recvHolding[u] = {}
  <2> SUFFICES ASSUME NEW u \in Tunnels, recvHolding[u] # {} PROVE CanReceive(u)
    BY DEF CanRelay
  <2>1. Len(recvQueue) = 0 /\ 0 < RecvQueueSize
    BY <1>3, SizeAssumption
  <2> QED  BY <1>0, <2>1 DEF OneInHand, CanReceive
<1>5. \A u \in Tunnels : wire[u] = <<>>
  <2> SUFFICES ASSUME NEW u \in Tunnels, wire[u] # <<>> PROVE CanReceive(u) \/ CanNotice(u)
    BY DEF CanRelay
  <2>1. ~recvCtxDone[u] /\ recvRelay[u] # "absent" /\ recvRelay[u] # "ended"
    BY <1>0 DEF Running, Paired
  <2>2. recvRelay[u] # "put"
    BY <1>0, <1>4 DEF OneInHand
  <2>3. recvRelay[u] = "read"
    BY <1>0, <2>1, <2>2 DEF TypeOK
  <2> QED  BY <2>1, <2>3 DEF CanReceive, CanNotice
<1>6. relay[t] = "normal" /\ sendQueue = <<>> /\ sendRetryQueue = <<>>
  <2>1. relay[t] # "absent" /\ relay[t] # "ended"
    BY <1>1 DEF Running
  <2>2. relay[t] \notin {"sendRetry", "sendNormal"}
    BY <1>0, <1>2 DEF TypeOK
  <2>3. ~CanSend(t)
    BY DEF CanRelay
  <2>4. relay[t] # "cancel" /\ relay[t] # "retry"
    BY <1>1, <2>3 DEF CanSend, RetrySelects
  <2>5. relay[t] = "normal"
    BY <1>0, <2>1, <2>2, <2>4 DEF TypeOK
  <2> QED  BY <2>3, <2>5 DEF CanSend, RetrySelects
<1>7. HasRoom(sendQueue) /\ HasRoom(sendRetryQueue)
  <2>1. Len(sendQueue) = 0 /\ Len(sendRetryQueue) = 0 /\ 0 < SendQueueSize
    BY <1>6, SizeAssumption
  <2> QED  BY <2>1 DEF HasRoom
<1>8. unsent = {} /\ retrying = {}
  BY <1>7 DEF CanRelay
<1>9. PICK b \in Blocks : b \notin delivered /\ b \notin lost
  BY <1>0 DEF Waiting, TypeOK
<1>10. PICK k \in Places : b \in At[k]
  BY <1>0, <1>9 DEF Partition
<1>11. \A q : q = <<>> => Range(q) = {}
  BY DEF Range
<1>12. Together(holding) = {} /\ Together(recvHolding) = {} /\ Together(OnWire) = {}
  <2>1. \A u \in Tunnels : OnWire[u] = {}
    BY <1>5, <1>11 DEF OnWire
  <2> QED  BY <1>2, <1>4, <2>1 DEF Together
<1> QED
  BY <1>3, <1>6, <1>8, <1>9, <1>10, <1>11, <1>12, AtPlaces DEF Places

\* The argument of NoGridlock, for any blocks, tunnels and queue sizes: while a
\* tunnel works and a block has not arrived, the guard of some step of the
\* pools and relays (tunnel.go 128-275, pool.go) is true, however full the
\* queues are.
THEOREM SomebodyCanRelay == Spec => [](Waiting => CanRelay)
<1>1. Inv /\ Running /\ [Next]_vars => Running'
  BY RunningStep DEF Inv
<1>2. Spec => []Running
  BY <1>1, RunningInit, InvCorrectness, PTL DEF Spec
<1>3. Inv /\ Running => (Waiting => CanRelay)
  BY WaitingCanRelay
<1> QED  BY <1>2, <1>3, InvCorrectness, PTL
=============================================================================
