------------------------ MODULE BlockProcessorProofs ------------------------
(***************************************************************************)
(* Proofs about BlockProcessor for every number of BlockIDs, every window  *)
(* that fits in it, every number of blocks and every queue size.           *)
(***************************************************************************)
EXTENDS BlockProcessor, SequenceTheorems, TLAPS

(* Channels: what is in one after a receive and after a send *)

LEMMA RangeTail ==
    ASSUME NEW S, NEW q \in Seq(S), q # <<>>
    PROVE  Range(q) = {Head(q)} \cup Range(Tail(q))
<1>1. /\ Len(q) \in Nat \ {0} /\ DOMAIN q = 1 .. Len(q) /\ Head(q) = q[1]
      /\ DOMAIN Tail(q) = 1 .. Len(q) - 1
      /\ \A i \in 1 .. Len(q) - 1 : Tail(q)[i] = q[i + 1]
  OBVIOUS
<1>2. ASSUME NEW i \in 1 .. Len(q) PROVE q[i] \in {Head(q)} \cup Range(Tail(q))
  <2>1. CASE i = 1
    BY <1>1, <2>1
  <2>2. CASE i # 1
    <3>1. i - 1 \in 1 .. Len(q) - 1 /\ Tail(q)[i - 1] = q[i]
      BY <1>1, <2>2
    <3> QED  BY <1>1, <3>1 DEF Range
  <2> QED  BY <2>1, <2>2
<1>3. {Head(q)} \cup Range(Tail(q)) \subseteq Range(q)
  BY <1>1 DEF Range
<1> QED  BY <1>1, <1>2, <1>3 DEF Range

LEMMA RangeAppend ==
    ASSUME NEW S, NEW q \in Seq(S), NEW e \in S
    PROVE  Range(Append(q, e)) = Range(q) \cup {e}
<1>1. /\ Len(q) \in Nat /\ DOMAIN q = 1 .. Len(q)
      /\ DOMAIN Append(q, e) = 1 .. Len(q) + 1
      /\ \A i \in 1 .. Len(q) : Append(q, e)[i] = q[i]
      /\ Append(q, e)[Len(q) + 1] = e
  OBVIOUS
<1>2. \A i \in 1 .. Len(q) + 1 : Append(q, e)[i] \in Range(q) \cup {e}
  BY <1>1 DEF Range
<1>3. Range(q) \cup {e} \subseteq Range(Append(q, e))
  BY <1>1 DEF Range
<1> QED  BY <1>1, <1>2, <1>3 DEF Range

LEMMA InjectiveTail ==
    ASSUME NEW S, NEW q \in Seq(S), q # <<>>, IsInjective(q)
    PROVE  IsInjective(Tail(q)) /\ Head(q) \notin Range(Tail(q))
<1>1. /\ Len(q) \in Nat \ {0} /\ DOMAIN q = 1 .. Len(q) /\ Head(q) = q[1]
      /\ DOMAIN Tail(q) = 1 .. Len(q) - 1
      /\ \A i \in 1 .. Len(q) - 1 : Tail(q)[i] = q[i + 1]
  OBVIOUS
<1> QED  BY <1>1 DEF IsInjective, Range

LEMMA InjectiveAppend ==
    ASSUME NEW S, NEW q \in Seq(S), NEW e \in S, IsInjective(q), e \notin Range(q)
    PROVE  IsInjective(Append(q, e))
<1>1. /\ Len(q) \in Nat /\ DOMAIN q = 1 .. Len(q)
      /\ DOMAIN Append(q, e) = 1 .. Len(q) + 1
      /\ \A i \in 1 .. Len(q) : Append(q, e)[i] = q[i]
      /\ Append(q, e)[Len(q) + 1] = e
  OBVIOUS
<1> QED  BY <1>1 DEF IsInjective, Range

(* Arithmetic of the wrapping BlockID *)

LEMMA ModRange == \A a \in Nat, m \in Nat \ {0} : a % m \in 0 .. m - 1
  OBVIOUS

LEMMA DivInt == \A a \in Nat, m \in Nat \ {0} : a \div m \in Int
  OBVIOUS

LEMMA DivMod == \A a \in Nat, m \in Nat \ {0} : a = (m * (a \div m)) + (a % m)
  OBVIOUS

LEMMA SmallMultiple ==
    \A m \in Nat \ {0}, k \in Int : 0 =< m * k /\ m * k < m => k = 0
  OBVIOUS

LEMMA ModUnique ==
    ASSUME NEW m \in Nat \ {0}, NEW q \in Int, NEW r \in 0 .. m - 1
    PROVE  ((m * q) + r) % m = r
  OBVIOUS

\* Two positions less than m apart have different BlockIDs.
LEMMA ModInjective ==
    ASSUME NEW m \in Nat \ {0}, NEW a \in Nat, NEW b \in Nat,
           a =< b, b - a < m, a % m = b % m
    PROVE  a = b
<1> DEFINE k == (b \div m) - (a \div m)
<1>1. k \in Int
  BY DivInt
<1>2. b - a = (m * (b \div m)) - (m * (a \div m))
  BY DivMod, DivInt, ModRange
<1>3. (m * (b \div m)) - (m * (a \div m)) = m * k
  BY DivInt
<1>4. k = 0
  BY <1>1, <1>2, <1>3, SmallMultiple
<1> QED
  BY <1>1, <1>2, <1>3, <1>4

\* The uint32 increment of a BlockID is the BlockID of the next position.
LEMMA ModIncrement ==
    ASSUME NEW m \in Nat \ {0}, NEW a \in Nat
    PROVE  ((a % m) + 1) % m = (a + 1) % m
<1> DEFINE q == a \div m
           r == a % m
<1>1. q \in Int /\ r \in 0 .. m - 1 /\ a = (m * q) + r
  BY DivInt, DivMod, ModRange
<1> HIDE DEF q, r
<1>2. CASE r + 1 < m
  <2>1. a + 1 = (m * q) + (r + 1)
    BY <1>1
  <2>2. (a + 1) % m = r + 1
    BY <2>1, <1>1, <1>2, ModUnique
  <2>3. (r + 1) % m = r + 1
    BY <1>1, <1>2
  <2> QED
    BY <2>2, <2>3 DEF r
<1>3. CASE r + 1 = m
  <2>1. a + 1 = (m * (q + 1)) + 0
    BY <1>1, <1>3
  <2>2. (a + 1) % m = 0
    BY <2>1, <1>1, <1>3, ModUnique
  <2>3. (r + 1) % m = 0
    BY <1>1, <1>3
  <2> QED
    BY <2>2, <2>3 DEF r
<1> QED
  BY <1>1, <1>2, <1>3

-----------------------------------------------------------------------------
(* Type correctness *)

LEMMA IncType == \A id \in Nat : Inc(id) \in 0 .. IDMod - 1
<1> TAKE id \in Nat
<1>1. id + 1 \in Nat
  OBVIOUS
<1> QED
  BY <1>1, IDModAssumption, ModRange DEF Inc

LEMMA TypeInit == Init => TypeOK
<1> SUFFICES ASSUME Init PROVE TypeOK
  OBVIOUS
<1>1. /\ sendBlockID \in 0 .. IDMod - 1
      /\ recvBlockID \in 0 .. IDMod - 1
      /\ lastRecvBlockID \in 0 .. IDMod - 1
  BY IDModAssumption DEF Init
<1>2. /\ recvQueue \in Seq(Block) /\ Len(recvQueue) =< RecvQueueSize
      /\ ordered \in Seq(Block)
      /\ taken \in Nat /\ taken =< Len(ordered)
      /\ Len(ordered) - taken =< OrderedRecvQueueSize
  BY QueueSizeAssumption DEF Init
<1> QED
  BY <1>1, <1>2 DEF Init, TypeOK

LEMMA TypeStep == TypeOK /\ [Next]_vars => TypeOK'
<1> SUFFICES ASSUME TypeOK, [Next]_vars PROVE TypeOK'
  OBVIOUS
<1> USE DEF TypeOK
<1>0. ASSUME Dequeue
      PROVE  /\ Head(recvQueue) \in Block
             /\ recvQueue' \in Seq(Block) /\ Len(recvQueue') =< RecvQueueSize
             /\ lastRecvBlockID' \in 0 .. IDMod - 1
             /\ UNCHANGED <<senderVars, transitVars, recvBlockID,
                            readerVars, contextVars>>
  <2>1. /\ Head(recvQueue) \in Block
        /\ Tail(recvQueue) \in Seq(Block)
        /\ Len(Tail(recvQueue)) = Len(recvQueue) - 1
    BY <1>0, HeadTailProperties DEF Dequeue
  <2>2. Head(recvQueue).id \in Nat
    BY <2>1 DEF Block
  <2>3. Inc(Head(recvQueue).id) \in 0 .. IDMod - 1
    BY <2>2, IncType
  <2>4. lastRecvBlockID' \in 0 .. IDMod - 1
    BY <1>0, <2>3 DEF Dequeue, LastAfter
  <2>5. Len(recvQueue') =< RecvQueueSize
    BY <1>0, <2>1, QueueSizeAssumption DEF Dequeue
  <2> QED
    BY <1>0, <2>1, <2>4, <2>5 DEF Dequeue
<1>1. CASE Pack
  <2>1. [id |-> sendBlockID, pos |-> sent] \in Block
    BY DEF Block
  <2>2. Inc(sendBlockID) \in 0 .. IDMod - 1
    BY IncType
  <2> QED
    BY <1>1, <2>1, <2>2 DEF Pack, NewBlock, relayVars, readerVars, contextVars
<1>2. ASSUME NEW b \in inFlight, Lose(b) PROVE TypeOK'
  BY <1>2 DEF Lose, senderVars, relayVars, readerVars, contextVars, Block
<1>3. ASSUME NEW b \in inFlight, RecvBlock(b) PROVE TypeOK'
  BY <1>3, QueueSizeAssumption DEF RecvBlock, senderVars, relayVars, readerVars, contextVars
<1>4. CASE ReceiveNext
  BY <1>0, <1>4 DEF ReceiveNext, senderVars, transitVars, readerVars,
                    contextVars
<1>5. CASE ReceiveOld
  BY <1>0, <1>5 DEF ReceiveOld, senderVars, transitVars, readerVars,
                    contextVars
<1>6. CASE ReceiveAhead
  BY <1>0, <1>6 DEF ReceiveAhead, senderVars, transitVars, readerVars,
                    contextVars
<1>7. ASSUME NEW b \in held, SendDirect(b) PROVE TypeOK'
  <2>1. b \in Block /\ Append(ordered, b) \in Seq(Block)
        /\ Len(Append(ordered, b)) = Len(ordered) + 1
    OBVIOUS
  <2>2. Inc(recvBlockID) \in 0 .. IDMod - 1
    BY IncType
  <2> QED
    BY <1>7, <2>1, <2>2, QueueSizeAssumption
    DEF SendDirect, AfterSend, senderVars, transitVars,
                            contextVars
<1>8. ASSUME NEW b \in cache, SendCached(b) PROVE TypeOK'
  <2>1. b \in Block /\ Append(ordered, b) \in Seq(Block)
        /\ Len(Append(ordered, b)) = Len(ordered) + 1
    OBVIOUS
  <2>2. Inc(recvBlockID) \in 0 .. IDMod - 1
    BY IncType
  <2> QED
    BY <1>8, <2>1, <2>2, QueueSizeAssumption
    DEF SendCached, AfterSend, senderVars, transitVars,
                            contextVars
<1>9. CASE PacketWaitTimeout
  BY <1>9 DEF PacketWaitTimeout, senderVars, transitVars, relayVars,
              readerVars
<1>10. CASE StopRelay
  BY <1>10 DEF StopRelay, senderVars, transitVars, readerVars, contextVars
<1>11. CASE Stop
  BY <1>11 DEF Stop, senderVars, transitVars, relayVars, readerVars
<1>12. CASE Consume
  BY <1>12, QueueSizeAssumption DEF Consume, senderVars, transitVars, relayVars, contextVars
<1>13. CASE UNCHANGED vars
  BY <1>13 DEF vars, senderVars, transitVars, relayVars, readerVars,
               contextVars
<1> QED
  BY <1>1, <1>2, <1>3, <1>4, <1>5, <1>6, <1>7, <1>8, <1>9, <1>10, <1>11,
     <1>12, <1>13 DEF Next, Transit, OrderedRelay

\* Every variable of the receiving end keeps its type: in particular neither
\* channel is ever over its capacity and the reader never runs ahead.
THEOREM TypeCorrectness == Spec => []TypeOK
  BY TypeInit, TypeStep, PTL DEF Spec

-----------------------------------------------------------------------------
(***************************************************************************)
(* The order in which blocks reach the reader.                             *)
(*                                                                         *)
(* InOrder alone is not inductive: that the block whose BlockID is waited  *)
(* for is the one whose turn it is needs (a) that BlockIDs are the         *)
(* positions modulo IDMod, (b) that every outstanding block lies in a      *)
(* window of fewer than IDMod positions past the reader, and (c) that no   *)
(* block is in two places, so that nothing delivered comes back.           *)
(***************************************************************************)
BlockIDOf(p) == p % IDMod

Numbered ==
    /\ sendBlockID = BlockIDOf(sent)
    /\ recvBlockID = BlockIDOf(Len(ordered))
    /\ \A b \in Outstanding : b.id = BlockIDOf(b.pos)

InWindow ==
    /\ Len(ordered) =< sent
    /\ sent - Len(ordered) =< Window
    /\ \A b \in Outstanding : Len(ordered) =< b.pos /\ b.pos < sent

OnePlace ==
    /\ IsInjective(recvQueue)
    /\ inFlight \cap Range(recvQueue) = {}
    /\ (inFlight \cup Range(recvQueue)) \cap (held \cup cache) = {}
    /\ held \cap cache = {}

HeldIsNext == \A b \in held : b.id = recvBlockID

OrderInv == TypeOK /\ Numbered /\ InWindow /\ OnePlace /\ HeldIsNext /\ InOrder

LEMMA IDIncrement == \A p \in Nat : Inc(BlockIDOf(p)) = BlockIDOf(p + 1)
  BY IDModAssumption, ModIncrement DEF Inc, BlockIDOf

LEMMA IDInjective ==
    ASSUME NEW a \in Nat, NEW b \in Nat,
           a =< b, b - a < IDMod, BlockIDOf(a) = BlockIDOf(b)
    PROVE  a = b
  BY IDModAssumption, ModInjective DEF BlockIDOf

LEMMA IDInjectiveInWindow ==
    ASSUME NEW n \in Nat, NEW a \in Nat, NEW b \in Nat,
           n =< a, n =< b, a - n < Window, b - n < Window,
           BlockIDOf(a) = BlockIDOf(b)
    PROVE  a = b
<1>1. a - b < IDMod /\ b - a < IDMod
  BY IDModAssumption, WindowAssumption
<1> QED
  BY <1>1, IDInjective

\* The block with the BlockID waited for is the one whose turn it is, and
\* everything else outstanding comes later in the stream.
LEMMA NextBlock ==
    ASSUME OrderInv, NEW b \in Outstanding, b.id = recvBlockID
    PROVE  /\ b \in Block
           /\ b.pos = Len(ordered)
           /\ \A c \in Outstanding : c # b => Len(ordered) + 1 =< c.pos
<1>1. Outstanding \subseteq Block
  <2>1. Range(recvQueue) \subseteq Block
    BY DEF OrderInv, TypeOK, Range
  <2> QED
    BY <2>1 DEF OrderInv, TypeOK, Outstanding
<1>2. /\ Len(ordered) \in Nat /\ sent \in Nat /\ Window \in Nat
      /\ \A c \in Outstanding : c.pos \in Nat
  <2>1. Len(ordered) \in Nat /\ sent \in Nat
    BY DEF OrderInv, TypeOK
  <2>2. Window \in Nat
    BY WindowAssumption
  <2>3. \A c \in Outstanding : c.pos \in Nat
    BY <1>1 DEF Block
  <2> QED
    BY <2>1, <2>2, <2>3
<1>3. \A c \in Outstanding : Len(ordered) =< c.pos /\ c.pos - Len(ordered) < Window
  BY <1>2 DEF OrderInv, InWindow
<1>4. ASSUME NEW c \in Outstanding, c.id = recvBlockID
      PROVE  c.pos = Len(ordered)
  <2>1. BlockIDOf(Len(ordered)) = BlockIDOf(c.pos)
    BY <1>4 DEF OrderInv, Numbered
  <2>2. Len(ordered) - Len(ordered) < Window
    BY <1>2, <1>3
  <2> QED
    BY <1>2, <1>3, <2>1, <2>2, IDInjectiveInWindow
<1>5. b.pos = Len(ordered)
  BY <1>4
<1>6. ASSUME NEW c \in Outstanding, c # b PROVE Len(ordered) + 1 =< c.pos
  <2>1. c.pos # Len(ordered)
    <3> SUFFICES ASSUME c.pos = Len(ordered) PROVE FALSE
      OBVIOUS
    <3>1. c.id = b.id /\ c.pos = b.pos
      BY <1>5 DEF OrderInv, Numbered
    <3> QED
      BY <1>1, <3>1, <1>6 DEF Block
  <2> QED
    BY <1>2, <1>3, <2>1
<1> QED
  BY <1>1, <1>5, <1>6

\* A step that hands nothing to the reader and packs nothing can only move or
\* drop outstanding blocks.
LEMMA NoDelivery ==
    ASSUME OrderInv, UNCHANGED <<sendBlockID, sent, recvBlockID, ordered>>,
           Outstanding' \subseteq Outstanding
    PROVE  Numbered' /\ InWindow' /\ InOrder'
  BY DEF OrderInv, Numbered, InWindow, InOrder

\* A step that hands the awaited block to the reader.
LEMMA OneDelivery ==
    ASSUME OrderInv, NEW b \in Outstanding, b.id = recvBlockID,
           UNCHANGED <<sendBlockID, sent>>,
           recvBlockID' = Inc(recvBlockID),
           ordered' = Append(ordered, b),
           Outstanding' \subseteq Outstanding \ {b}
    PROVE  Numbered' /\ InWindow' /\ InOrder'
<1>1. /\ b \in Block
      /\ b.pos = Len(ordered)
      /\ \A c \in Outstanding : c # b => Len(ordered) + 1 =< c.pos
  BY NextBlock
<1>2. /\ ordered \in Seq(Block)
      /\ Len(ordered) \in Nat
      /\ sent \in Nat
      /\ Len(ordered') = Len(ordered) + 1
      /\ \A i \in 1 .. Len(ordered) : ordered'[i] = ordered[i]
      /\ ordered'[Len(ordered) + 1] = b
  BY <1>1 DEF OrderInv, TypeOK
<1>3. Numbered'
  <2>1. recvBlockID' = BlockIDOf(Len(ordered) + 1)
    BY <1>2, IDIncrement DEF OrderInv, Numbered
  <2> QED
    BY <1>2, <2>1 DEF OrderInv, Numbered
<1>4. InWindow'
  <2>1. Len(ordered) < sent
    BY <1>1 DEF OrderInv, InWindow
  <2>2. sent - (Len(ordered) + 1) =< Window
    BY <1>2, WindowAssumption, IDModAssumption DEF OrderInv, InWindow
  <2>3. \A c \in Outstanding' : Len(ordered) + 1 =< c.pos /\ c.pos < sent
    BY <1>1 DEF OrderInv, InWindow
  <2> QED
    BY <1>2, <2>1, <2>2, <2>3 DEF InWindow
<1>5. InOrder'
  <2> SUFFICES ASSUME NEW i \in 1 .. Len(ordered) + 1
               PROVE  ordered'[i].pos = i - 1
    BY <1>2 DEF InOrder
  <2>1. CASE i \in 1 .. Len(ordered)
    BY <1>2, <2>1 DEF OrderInv, InOrder
  <2>2. CASE i = Len(ordered) + 1
    BY <1>1, <1>2, <2>2
  <2> QED
    BY <1>2, <2>1, <2>2
<1> QED
  BY <1>3, <1>4, <1>5

\* Receiving from recvQueue, at the level of the set of blocks in it.
LEMMA DequeueEffect ==
    ASSUME OrderInv, Dequeue
    PROVE  /\ Head(recvQueue) \in Block
           /\ Range(recvQueue) = {Head(recvQueue)} \cup Range(recvQueue')
           /\ Head(recvQueue) \notin Range(recvQueue')
           /\ IsInjective(recvQueue')
           /\ UNCHANGED <<sendBlockID, sent, inFlight, recvBlockID, ordered>>
<1>1. recvQueue \in Seq(Block) /\ recvQueue # <<>> /\ IsInjective(recvQueue)
  BY DEF OrderInv, TypeOK, OnePlace, Dequeue
<1>2. recvQueue' = Tail(recvQueue)
  BY DEF Dequeue
<1> QED
  BY <1>1, <1>2, HeadTailProperties, RangeTail, InjectiveTail
     DEF Dequeue, senderVars, transitVars, readerVars

LEMMA OrderInit == Init => OrderInv
<1> SUFFICES ASSUME Init PROVE OrderInv
  OBVIOUS
<1>1. TypeOK
  BY TypeInit
<1>2. Range(recvQueue) = {} /\ IsInjective(recvQueue)
  BY DEF Init, Range, IsInjective
<1>3. BlockIDOf(0) = 0
  BY IDModAssumption DEF BlockIDOf
<1>4. Numbered /\ OnePlace /\ HeldIsNext /\ InOrder
  BY <1>2, <1>3 DEF Init, Numbered, OnePlace, HeldIsNext, InOrder, Outstanding
<1>5. InWindow
  BY <1>2, WindowAssumption, IDModAssumption DEF Init, InWindow, Outstanding
<1> QED
  BY <1>1, <1>4, <1>5 DEF OrderInv

LEMMA OrderPack ==
    ASSUME OrderInv, Pack
    PROVE  Numbered' /\ InWindow' /\ OnePlace' /\ HeldIsNext' /\ InOrder'
<1> DEFINE b == [id |-> sendBlockID, pos |-> sent]
<1>1. /\ inFlight' = inFlight \cup {b}
      /\ sendBlockID' = Inc(sendBlockID)
      /\ sent' = sent + 1
      /\ UNCHANGED <<recvQueue, held, cache, recvBlockID, ordered>>
  BY DEF Pack, NewBlock, relayVars, readerVars
<1>2. Outstanding' = Outstanding \cup {b}
  BY <1>1 DEF Outstanding
<1>3. /\ sent \in Nat /\ Len(ordered) \in Nat /\ b.pos = sent /\ b.id = sendBlockID
      /\ Len(ordered) =< sent /\ sent - Len(ordered) < Window
      /\ \A c \in Outstanding : Len(ordered) =< c.pos /\ c.pos < sent
  BY DEF OrderInv, TypeOK, InWindow, Pack, NewBlock
<1>4. b \notin Outstanding
  BY <1>3
<1> HIDE DEF b
<1>5. Numbered'
  <2>1. Inc(BlockIDOf(sent)) = BlockIDOf(sent + 1)
    BY <1>3, IDIncrement
  <2> QED
    BY <1>1, <1>2, <1>3, <2>1 DEF OrderInv, Numbered
<1>6. InWindow'
  <2>1. \A c \in Outstanding' : Len(ordered) =< c.pos /\ c.pos < sent + 1
    <3>1. \A c \in Outstanding : c.pos \in Nat
      <4>1. Range(recvQueue) \subseteq Block
        BY DEF OrderInv, TypeOK, Range
      <4> QED
        BY <4>1 DEF OrderInv, TypeOK, Outstanding, Block
    <3> QED
      BY <1>2, <1>3, <3>1
  <2>2. Len(ordered) =< sent + 1 /\ (sent + 1) - Len(ordered) =< Window
    BY <1>3, WindowAssumption, IDModAssumption
  <2> QED
    BY <1>1, <2>1, <2>2 DEF InWindow
<1>7. OnePlace'
  BY <1>1, <1>4 DEF OrderInv, OnePlace, Outstanding
<1>8. HeldIsNext' /\ InOrder'
  BY <1>1 DEF OrderInv, HeldIsNext, InOrder
<1> QED
  BY <1>5, <1>6, <1>7, <1>8

LEMMA OrderStep == OrderInv /\ [Next]_vars => OrderInv'
<1> SUFFICES ASSUME OrderInv, [Next]_vars PROVE OrderInv'
  OBVIOUS
<1> DEFINE Goal == Numbered' /\ InWindow' /\ OnePlace' /\ HeldIsNext' /\ InOrder'
<1>0. TypeOK'
  BY TypeStep DEF OrderInv
<1>1. CASE Pack
  BY <1>0, <1>1, OrderPack DEF OrderInv
<1>2. ASSUME NEW b \in inFlight, Lose(b) PROVE Goal
  <2>1. /\ inFlight' = inFlight \ {b}
        /\ UNCHANGED <<recvQueue, held, cache>>
        /\ UNCHANGED <<sendBlockID, sent, recvBlockID, ordered>>
    BY <1>2 DEF Lose, senderVars, relayVars, readerVars
  <2>2. Outstanding' \subseteq Outstanding
    BY <2>1 DEF Outstanding
  <2>3. OnePlace' /\ HeldIsNext'
    BY <2>1 DEF OrderInv, OnePlace, HeldIsNext
  <2> QED
    BY <2>1, <2>2, <2>3, NoDelivery
<1>3. ASSUME NEW b \in inFlight, RecvBlock(b) PROVE Goal
  <2>1. /\ inFlight' = inFlight \ {b}
        /\ recvQueue' = Append(recvQueue, b)
        /\ UNCHANGED <<held, cache>>
        /\ UNCHANGED <<sendBlockID, sent, recvBlockID, ordered>>
    BY <1>3 DEF RecvBlock, senderVars, relayVars, readerVars
  <2>2. recvQueue \in Seq(Block) /\ b \in Block /\ b \notin Range(recvQueue)
    BY DEF OrderInv, TypeOK, OnePlace
  <2>3. Range(recvQueue') = Range(recvQueue) \cup {b} /\ IsInjective(recvQueue')
    BY <2>1, <2>2, RangeAppend, InjectiveAppend DEF OrderInv, OnePlace
  <2>4. Outstanding' \subseteq Outstanding
    BY <2>1, <2>3 DEF Outstanding
  <2>5. OnePlace' /\ HeldIsNext'
    BY <2>1, <2>3 DEF OrderInv, OnePlace, HeldIsNext
  <2> QED
    BY <2>1, <2>4, <2>5, NoDelivery
<1>4. ASSUME ReceiveNext PROVE Goal
  <2>1. /\ Range(recvQueue) = {Head(recvQueue)} \cup Range(recvQueue')
        /\ Head(recvQueue) \notin Range(recvQueue')
        /\ IsInjective(recvQueue')
        /\ UNCHANGED <<sendBlockID, sent, inFlight, recvBlockID, ordered>>
    BY <1>4, DequeueEffect DEF ReceiveNext
  <2>2. /\ held' = {Head(recvQueue)} /\ cache' = cache
        /\ Head(recvQueue).id = recvBlockID
    BY <1>4 DEF ReceiveNext
  <2>3. Outstanding' \subseteq Outstanding
    BY <2>1, <2>2 DEF Outstanding
  <2>4. OnePlace' /\ HeldIsNext'
    BY <2>1, <2>2 DEF OrderInv, OnePlace, HeldIsNext
  <2> QED
    BY <2>1, <2>3, <2>4, NoDelivery
<1>5. ASSUME ReceiveOld PROVE Goal
  <2>1. /\ Range(recvQueue) = {Head(recvQueue)} \cup Range(recvQueue')
        /\ IsInjective(recvQueue')
        /\ UNCHANGED <<sendBlockID, sent, inFlight, recvBlockID, ordered>>
    BY <1>5, DequeueEffect DEF ReceiveOld
  <2>2. UNCHANGED <<held, cache>>
    BY <1>5 DEF ReceiveOld
  <2>3. Outstanding' \subseteq Outstanding
    BY <2>1, <2>2 DEF Outstanding
  <2>4. OnePlace' /\ HeldIsNext'
    BY <2>1, <2>2 DEF OrderInv, OnePlace, HeldIsNext
  <2> QED
    BY <2>1, <2>3, <2>4, NoDelivery
<1>6. ASSUME ReceiveAhead PROVE Goal
  <2>1. /\ Range(recvQueue) = {Head(recvQueue)} \cup Range(recvQueue')
        /\ Head(recvQueue) \notin Range(recvQueue')
        /\ IsInjective(recvQueue')
        /\ UNCHANGED <<sendBlockID, sent, inFlight, recvBlockID, ordered>>
    BY <1>6, DequeueEffect DEF ReceiveAhead
  <2>2. cache' \subseteq cache \cup {Head(recvQueue)} /\ held' = held
    BY <1>6 DEF ReceiveAhead
  <2>3. Outstanding' \subseteq Outstanding
    BY <2>1, <2>2 DEF Outstanding
  <2>4. OnePlace' /\ HeldIsNext'
    BY <2>1, <2>2 DEF OrderInv, OnePlace, HeldIsNext
  <2> QED
    BY <2>1, <2>3, <2>4, NoDelivery
<1>7. ASSUME NEW b \in held, SendDirect(b) PROVE Goal
  <2>1. /\ ordered' = Append(ordered, b)
        /\ held' = {}
        /\ recvBlockID' = Inc(recvBlockID)
        /\ UNCHANGED <<sendBlockID, sent, inFlight, recvQueue, cache>>
    BY <1>7 DEF SendDirect, senderVars, transitVars
  <2>2. b \in Outstanding /\ b.id = recvBlockID
    BY DEF Outstanding, OrderInv, HeldIsNext
  <2>3. Outstanding' \subseteq Outstanding \ {b}
    BY <2>1 DEF Outstanding, OrderInv, OnePlace
  <2>4. OnePlace' /\ HeldIsNext'
    BY <2>1 DEF OrderInv, OnePlace, HeldIsNext
  <2> QED
    BY <2>1, <2>2, <2>3, <2>4, OneDelivery
<1>8. ASSUME NEW b \in cache, SendCached(b) PROVE Goal
  <2>1. /\ ordered' = Append(ordered, b)
        /\ cache' = cache \ {b}
        /\ recvBlockID' = Inc(recvBlockID)
        /\ UNCHANGED <<sendBlockID, sent, inFlight, recvQueue, held>>
    BY <1>8 DEF SendCached, senderVars, transitVars
  <2>2. b \in Outstanding /\ b.id = recvBlockID
    BY <1>8 DEF Outstanding, SendCached, Cached
  <2>3. Outstanding' \subseteq Outstanding \ {b}
    BY <2>1 DEF Outstanding, OrderInv, OnePlace
  <2>4. held = {}
    \* a held block would have the same BlockID, hence be b itself
    <3> SUFFICES ASSUME NEW h \in held PROVE FALSE
      OBVIOUS
    <3>1. h \in Outstanding /\ h.id = recvBlockID /\ h # b
      BY DEF Outstanding, OrderInv, HeldIsNext, OnePlace
    <3>2. /\ h.pos = Len(ordered)
          /\ Len(ordered) + 1 =< h.pos
          /\ Len(ordered) \in Nat
      BY <2>2, <3>1, NextBlock DEF OrderInv, TypeOK
    <3> QED
      BY <3>2
  <2>5. OnePlace' /\ HeldIsNext'
    BY <2>1, <2>4 DEF OrderInv, OnePlace, HeldIsNext
  <2> QED
    BY <2>1, <2>2, <2>3, <2>5, OneDelivery
<1>9. ASSUME PacketWaitTimeout \/ StopRelay \/ Stop \/ Consume \/ UNCHANGED vars
      PROVE  Goal
  <2>1. UNCHANGED <<sendBlockID, sent, inFlight, recvQueue, held, cache,
                    recvBlockID, ordered>>
    BY <1>9 DEF PacketWaitTimeout, StopRelay, Stop, Consume, vars, senderVars,
                transitVars, relayVars, readerVars
  <2>2. Outstanding' \subseteq Outstanding
    BY <2>1 DEF Outstanding
  <2>3. OnePlace' /\ HeldIsNext'
    BY <2>1 DEF OrderInv, OnePlace, HeldIsNext
  <2> QED
    BY <2>1, <2>2, <2>3, NoDelivery
<1> QED
  BY <1>0, <1>1, <1>2, <1>3, <1>4, <1>5, <1>6, <1>7, <1>8, <1>9
  DEF Next, Transit, OrderedRelay, OrderInv

\* The reader gets the packed stream in order, also across the wrap of the
\* uint32 BlockID, whatever the tunnels lose or reorder.
THEOREM OrderPreserved == Spec => []InOrder
<1>1. OrderInv => InOrder
  BY DEF OrderInv
<1> QED
  BY OrderInit, OrderStep, <1>1, PTL DEF Spec

-----------------------------------------------------------------------------
(* The connection as an ordered stream *)

\* A step that hands the awaited block to the reader is a step Deliver.
LEMMA DeliveryRefines ==
    ASSUME OrderInv, NEW b \in Outstanding, b.id = recvBlockID,
           ordered' = Append(ordered, b), UNCHANGED <<sent, relayCtxDone>>
    PROVE  Stream!Deliver
<1> DEFINE R(q) == [i \in 1 .. Len(q) |-> q[i].pos]
<1>1. /\ b \in Block /\ b.pos = Len(ordered)
      /\ ordered \in Seq(Block) /\ Len(ordered) \in Nat
  BY NextBlock DEF OrderInv, TypeOK
<1>2. Len(ordered) < sent
  BY <1>1 DEF OrderInv, InWindow
<1>3. R(ordered) \in Seq(Nat) /\ Len(R(ordered)) = Len(ordered)
  <2>1. \A c \in Block : c.pos \in Nat
    BY DEF Block
  <2>2. \A i \in 1 .. Len(ordered) : ordered[i].pos \in Nat
    BY <1>1, <2>1
  <2> QED
    BY <1>1, <2>2
<1>4. R(ordered') = Append(R(ordered), Len(R(ordered)))
  <2>1. /\ Len(ordered') = Len(ordered) + 1
        /\ \A i \in 1 .. Len(ordered) : ordered'[i] = ordered[i]
        /\ ordered'[Len(ordered) + 1] = b
    BY <1>1
  <2>2. \A i \in 1 .. Len(ordered) + 1 :
          Append(R(ordered), Len(ordered))[i] = R(ordered')[i]
    BY <1>1, <1>3, <2>1
  <2>3. /\ Append(R(ordered), Len(ordered)) \in Seq(Nat)
        /\ Len(Append(R(ordered), Len(ordered))) = Len(ordered) + 1
    BY <1>1, <1>3
  <2>4. R(ordered') \in Seq(Nat) /\ Len(R(ordered')) = Len(ordered) + 1
    <3>1. \A c \in Block : c.pos \in Nat
      BY DEF Block
    <3>2. \A i \in 1 .. Len(ordered) + 1 : ordered'[i].pos \in Nat
      BY <1>1, <2>1, <3>1
    <3> QED
      BY <1>1, <2>1, <3>2
  <2> QED
    BY <1>3, <2>2, <2>3, <2>4
<1> QED
  BY <1>2, <1>3, <1>4 DEF Stream!Deliver

\* The detailed receiving end implements the abstract ordered stream: each
\* step of the relay is a delivery of the next block or invisible, and the
\* cancellation of the relay context is the only way the stream breaks.
THEOREM StreamRefinement == Spec => ImplementsStream
<1>1. Init => Stream!StreamInit
  BY DEF Init, Stream!StreamInit
<1>2. ASSUME OrderInv, [Next]_vars
      PROVE  [Stream!StreamNext]_(Stream!streamVars)
  <2> USE DEF Stream!StreamNext, Stream!streamVars
  <2>1. CASE Pack
    BY <2>1 DEF Pack, NewBlock, readerVars, contextVars, Stream!Write
  <2>2. ASSUME NEW b \in held, SendDirect(b)
        PROVE  [Stream!StreamNext]_(Stream!streamVars)
    <3>1. b \in Outstanding /\ b.id = recvBlockID
      BY <1>2 DEF Outstanding, OrderInv, HeldIsNext
    <3>2. ordered' = Append(ordered, b) /\ UNCHANGED <<sent, relayCtxDone>>
      BY <2>2 DEF SendDirect, senderVars, contextVars
    <3> QED
      BY <1>2, <3>1, <3>2, DeliveryRefines
  <2>3. ASSUME NEW b \in cache, SendCached(b)
        PROVE  [Stream!StreamNext]_(Stream!streamVars)
    <3>1. b \in Outstanding /\ b.id = recvBlockID
      BY <2>3 DEF Outstanding, SendCached, Cached
    <3>2. ordered' = Append(ordered, b) /\ UNCHANGED <<sent, relayCtxDone>>
      BY <2>3 DEF SendCached, senderVars, contextVars
    <3> QED
      BY <1>2, <3>1, <3>2, DeliveryRefines
  <2>4. CASE PacketWaitTimeout \/ Stop
    BY <2>4 DEF PacketWaitTimeout, Stop, senderVars, readerVars, Stream!Break
  <2>5. ASSUME \/ \E b \in inFlight : Lose(b) \/ RecvBlock(b)
               \/ ReceiveNext \/ ReceiveOld \/ ReceiveAhead
               \/ StopRelay \/ Consume \/ UNCHANGED vars
        PROVE  [Stream!StreamNext]_(Stream!streamVars)
    <3>1. UNCHANGED <<sent, ordered, relayCtxDone>>
      BY <2>5 DEF Lose, RecvBlock, ReceiveNext, ReceiveOld, ReceiveAhead,
                  Dequeue, StopRelay, Consume, vars, senderVars, readerVars,
                  contextVars
    <3> QED
      BY <3>1
  <2> QED
    BY <1>2, <2>1, <2>2, <2>3, <2>4, <2>5 DEF Next, Transit, OrderedRelay
<1> QED
  BY <1>1, <1>2, OrderInit, OrderStep, PTL
  DEF Spec, ImplementsStream, Stream!StreamSpec

-----------------------------------------------------------------------------
(***************************************************************************)
(* The packet wait timeout and the blocks OrderedRelay drops, as long as   *)
(* the BlockID does not wrap.  Then BlockIDs are positions, and            *)
(* lastRecvBlockID is past the awaited block exactly when a cached block   *)
(* witnesses a hole: that block is kept until everything before it has     *)
(* been sent.                                                              *)
(***************************************************************************)
\* The block the relay will wait for once it has sent what it holds.
NextAwaited == IF pc = "direct" THEN Len(ordered) + 1 ELSE Len(ordered)

HeldWhenDirect == pc \in {"select", "drain"} => held = {}

CacheAhead ==
    /\ \A c \in cache : c.pos < lastRecvBlockID
    /\ pc = "select" => \A c \in cache : Len(ordered) < c.pos

LastSeen ==
    pc # "stopped" =>
        /\ NextAwaited =< lastRecvBlockID
        /\ NextAwaited < lastRecvBlockID =>
             \E c \in cache : c.pos + 1 = lastRecvBlockID

HoleInv ==
    /\ OrderInv
    /\ Unwrapped
    /\ HeldWhenDirect
    /\ CacheAhead
    /\ LastSeen
    /\ Accounted

\* Without a wrap the modulus never bites.
LEMMA SmallID ==
    ASSUME NEW p \in Nat, p < IDMod
    PROVE  BlockIDOf(p) = p
  BY IDModAssumption DEF BlockIDOf

LEMMA UnwrappedIDs ==
    ASSUME OrderInv, Unwrapped
    PROVE  /\ recvBlockID = Len(ordered)
           /\ Len(ordered) \in Nat
           /\ sent \in Nat
           /\ \A b \in Outstanding :
                /\ b \in Block
                /\ b.pos \in Nat
                /\ b.id = b.pos
                /\ Inc(b.id) = b.pos + 1
                /\ Len(ordered) =< b.pos
                /\ b.pos < sent
<1>1. Len(ordered) \in Nat /\ sent \in Nat /\ Len(ordered) =< sent
  BY DEF OrderInv, TypeOK, InWindow
<1>2. Len(ordered) < IDMod
  BY <1>1, IDModAssumption DEF Unwrapped
<1>3. recvBlockID = Len(ordered)
  BY <1>1, <1>2, SmallID DEF OrderInv, Numbered
<1>4. ASSUME NEW b \in Outstanding
      PROVE  /\ b \in Block
             /\ b.pos \in Nat
             /\ b.id = b.pos
             /\ Inc(b.id) = b.pos + 1
             /\ Len(ordered) =< b.pos
             /\ b.pos < sent
  <2>1. b \in Block
    <3>1. Range(recvQueue) \subseteq Block
      BY DEF OrderInv, TypeOK, Range
    <3> QED
      BY <3>1 DEF OrderInv, TypeOK, Outstanding
  <2>2. b.pos \in Nat
    BY <2>1 DEF Block
  <2>3. Len(ordered) =< b.pos /\ b.pos < sent /\ b.id = BlockIDOf(b.pos)
    BY DEF OrderInv, InWindow, Numbered
  <2>4. b.pos < IDMod /\ b.pos + 1 < IDMod /\ b.pos + 1 \in Nat
    BY <1>1, <2>2, <2>3, IDModAssumption DEF Unwrapped
  <2>5. b.id = b.pos
    BY <2>2, <2>3, <2>4, SmallID
  <2>6. Inc(b.id) = b.pos + 1
    <3>1. Inc(BlockIDOf(b.pos)) = BlockIDOf(b.pos + 1)
      BY <2>2, IDIncrement
    <3>2. BlockIDOf(b.pos + 1) = b.pos + 1
      BY <2>4, SmallID
    <3> QED
      BY <2>3, <3>1, <3>2
  <2> QED
    BY <2>1, <2>2, <2>3, <2>5, <2>6
<1> QED
  BY <1>1, <1>3, <1>4

\* A block received without a wrap: what LastAfter makes of its BlockID.
LEMMA ReceivedBlock ==
    ASSUME HoleInv, Dequeue
    PROVE  LET h == Head(recvQueue) IN
           /\ h \in Outstanding
           /\ h \in Range(recvQueue)
           /\ h.pos \in Nat
           /\ h.id = h.pos
           /\ lastRecvBlockID' = IF h.pos + 1 > lastRecvBlockID
                                 THEN h.pos + 1 ELSE lastRecvBlockID
<1> DEFINE h == Head(recvQueue)
<1>1. h \in Range(recvQueue)
  BY DequeueEffect DEF HoleInv
<1>2. h \in Outstanding
  BY <1>1 DEF Outstanding
<1>3. h.pos \in Nat /\ h.id = h.pos /\ Inc(h.id) = h.pos + 1
  BY <1>2, UnwrappedIDs DEF HoleInv
<1> QED
  BY <1>1, <1>2, <1>3 DEF Dequeue, LastAfter

\* Blocks move from place to place without being forgotten.
LEMMA KeepAll ==
    ASSUME Accounted,
           UNCHANGED <<sent, lost, ordered>>, Outstanding \subseteq Outstanding'
    PROVE  Accounted'
  BY DEF Accounted

\* The block handed to the reader is accounted for by Len(ordered).
LEMMA KeepDelivered ==
    ASSUME OrderInv, Accounted, UNCHANGED <<sent, lost>>,
           NEW b \in Outstanding, b.pos = Len(ordered), b \in Block,
           ordered' = Append(ordered, b),
           Outstanding \ {b} \subseteq Outstanding'
    PROVE  Accounted'
<1>1. Len(ordered') = Len(ordered) + 1 /\ Len(ordered) \in Nat /\ sent \in Nat
  BY DEF OrderInv, TypeOK
<1> SUFFICES ASSUME NEW p \in 0 .. sent - 1
             PROVE  \/ p < Len(ordered) + 1
                    \/ p \in lost
                    \/ \E c \in Outstanding' : c.pos = p
  BY <1>1 DEF Accounted
<1>2. CASE p < Len(ordered) \/ p \in lost
  BY <1>1, <1>2
<1>3. CASE \E c \in Outstanding : c.pos = p
  <2>1. PICK c \in Outstanding : c.pos = p
    BY <1>3
  <2>2. CASE c = b
    BY <1>1, <2>1, <2>2
  <2>3. CASE c # b
    BY <2>1, <2>3
  <2> QED
    BY <2>2, <2>3
<1> QED
  BY <1>2, <1>3 DEF Accounted

LEMMA HoleInit == Init => HoleInv
<1> SUFFICES ASSUME Init PROVE HoleInv
  OBVIOUS
<1>1. OrderInv
  BY OrderInit
<1>2. Unwrapped
  BY IDModAssumption DEF Init, Unwrapped
<1> QED
  BY <1>1, <1>2 DEF Init, HoleInv, HeldWhenDirect, CacheAhead, LastSeen,
                    NextAwaited, Accounted

\* The conjuncts about holes do not see steps that leave the relay alone.
LEMMA RelayUntouched ==
    ASSUME HoleInv, UNCHANGED <<pc, held, cache, lastRecvBlockID, ordered>>
    PROVE  HeldWhenDirect' /\ CacheAhead' /\ LastSeen'
  BY DEF HoleInv, HeldWhenDirect, CacheAhead, LastSeen, NextAwaited

LEMMA HoleStep ==
    ASSUME HoleInv, [Next]_vars, Unwrapped'
    PROVE  HoleInv'
<1> DEFINE Goal == /\ Unwrapped'
                   /\ HeldWhenDirect' /\ CacheAhead' /\ LastSeen'
                   /\ Accounted'
<1>0. OrderInv'
  BY OrderStep DEF HoleInv
<1>t. /\ recvBlockID = Len(ordered)
      /\ Len(ordered) \in Nat /\ sent \in Nat /\ lastRecvBlockID \in Nat
      /\ Unwrapped
      /\ \A b \in Outstanding : /\ b \in Block /\ b.pos \in Nat /\ b.id = b.pos
                                /\ Len(ordered) =< b.pos
  BY UnwrappedIDs, IDModAssumption DEF HoleInv, OrderInv, TypeOK
<1>c. \A c \in cache : c \in Outstanding /\ c.pos \in Nat /\ c.id = c.pos
  BY <1>t DEF Outstanding
<1>1. ASSUME Pack PROVE Goal
  <2>1. sent' = sent + 1 /\ sent < MaxBlocks
        /\ inFlight' = inFlight \cup {[id |-> sendBlockID, pos |-> sent]}
        /\ UNCHANGED <<lost, recvQueue, pc, held, cache, lastRecvBlockID,
                       ordered>>
    BY <1>1 DEF Pack, NewBlock, relayVars, readerVars
  <2>2. Accounted'
    <3>1. Outstanding' = Outstanding \cup {[id |-> sendBlockID, pos |-> sent]}
      BY <2>1 DEF Outstanding
    <3> SUFFICES ASSUME NEW p \in 0 .. (sent + 1) - 1
                 PROVE  \/ p < Len(ordered)
                        \/ p \in lost
                        \/ \E b \in Outstanding' : b.pos = p
      BY <2>1 DEF Accounted
    <3>2. CASE p \in 0 .. sent - 1
      BY <3>1, <3>2 DEF HoleInv, Accounted
    <3>3. CASE p = sent
      <4> DEFINE new == [id |-> sendBlockID, pos |-> sent]
      <4>1. new \in Outstanding' /\ new.pos = sent
        BY <3>1
      <4> HIDE DEF new
      <4> QED
        BY <3>3, <4>1
    <3> QED
      BY <1>t, <3>2, <3>3
  <2> QED
    BY <2>1, <2>2, RelayUntouched
<1>2. ASSUME NEW b \in inFlight, Lose(b) PROVE Goal
  <2>1. /\ inFlight' = inFlight \ {b} /\ lost' = lost \cup {b.pos}
        /\ UNCHANGED <<sent, recvQueue, pc, held, cache, lastRecvBlockID,
                       ordered>>
    BY <1>2 DEF Lose, senderVars, relayVars, readerVars
  <2>2. Outstanding \subseteq Outstanding' \cup {b}
    BY <2>1 DEF Outstanding
  <2>3. Accounted'
    BY <2>1, <2>2 DEF HoleInv, Accounted
  <2> QED
    BY <1>t, <2>1, <2>3, RelayUntouched
<1>3. ASSUME NEW b \in inFlight, RecvBlock(b) PROVE Goal
  <2>1. /\ inFlight' = inFlight \ {b} /\ recvQueue' = Append(recvQueue, b)
        /\ UNCHANGED <<sent, lost, pc, held, cache, lastRecvBlockID, ordered>>
    BY <1>3 DEF RecvBlock, senderVars, relayVars, readerVars
  <2>2. recvQueue \in Seq(Block) /\ b \in Block
    BY DEF HoleInv, OrderInv, TypeOK
  <2>3. Range(recvQueue') = Range(recvQueue) \cup {b}
    BY <2>1, <2>2, RangeAppend
  <2>4. Outstanding \subseteq Outstanding'
    BY <2>1, <2>3 DEF Outstanding
  <2>5. Accounted'
    BY <2>1, <2>4, KeepAll DEF HoleInv
  <2> QED
    BY <1>t, <2>1, <2>5, RelayUntouched
<1>4. ASSUME ReceiveNext PROVE Goal
  <2> DEFINE h == Head(recvQueue)
  <2>1. /\ h \in Outstanding /\ h.pos \in Nat /\ h.id = h.pos
        /\ lastRecvBlockID' = IF h.pos + 1 > lastRecvBlockID
                              THEN h.pos + 1 ELSE lastRecvBlockID
    BY <1>4, ReceivedBlock DEF ReceiveNext
  <2>2. /\ Range(recvQueue) = {h} \cup Range(recvQueue')
        /\ UNCHANGED <<inFlight, sent, ordered>>
    BY <1>4, DequeueEffect DEF ReceiveNext, HoleInv
  <2>3. /\ pc = "select" /\ pc' = "direct" /\ held' = {h} /\ UNCHANGED cache
        /\ h.id = recvBlockID /\ UNCHANGED lost
    BY <1>4 DEF ReceiveNext, Dequeue, transitVars
  <2> HIDE DEF h
  <2>4. held = {}
    BY <2>3 DEF HoleInv, HeldWhenDirect
  <2>5. HeldWhenDirect'
    BY <2>3 DEF HeldWhenDirect
  <2>6. lastRecvBlockID' >= lastRecvBlockID /\ lastRecvBlockID' \in Nat
    BY <1>t, <2>1
  <2>7. CacheAhead'
    BY <1>t, <1>c, <2>3, <2>6 DEF HoleInv, CacheAhead
  <2>8. LastSeen'
    BY <1>t, <1>c, <2>1, <2>2, <2>3 DEF HoleInv, LastSeen, NextAwaited
  <2>9. Outstanding \subseteq Outstanding'
    BY <2>2, <2>3, <2>4 DEF Outstanding
  <2>10. Accounted'
    BY <2>2, <2>3, <2>9, KeepAll DEF HoleInv
  <2> QED
    BY <1>t, <2>2, <2>5, <2>7, <2>8, <2>10
<1>5. ASSUME ReceiveOld PROVE FALSE
  \* an old block would lie behind the reader
  <2>1. Head(recvQueue) \in Outstanding
    BY <1>5, ReceivedBlock DEF ReceiveOld
  <2>2. Head(recvQueue).id < recvBlockID
    BY <1>5 DEF ReceiveOld
  <2> QED
    BY <1>t, <2>1, <2>2
<1>6. ASSUME ReceiveAhead PROVE Goal
  <2> DEFINE h == Head(recvQueue)
  <2>1. /\ h \in Outstanding /\ h.pos \in Nat /\ h.id = h.pos
        /\ lastRecvBlockID' = IF h.pos + 1 > lastRecvBlockID
                              THEN h.pos + 1 ELSE lastRecvBlockID
    BY <1>6, ReceivedBlock DEF ReceiveAhead
  <2>2. /\ Range(recvQueue) = {h} \cup Range(recvQueue')
        /\ UNCHANGED <<inFlight, sent, ordered>>
    BY <1>6, DequeueEffect DEF ReceiveAhead, HoleInv
  <2>3. /\ pc = "select" /\ UNCHANGED <<pc, held, lost>>
        /\ cache' = (cache \ Cached(h.id)) \cup {h}
        /\ h.id > recvBlockID
    BY <1>6 DEF ReceiveAhead, Dequeue, transitVars
  <2> HIDE DEF h
  <2>4. Cached(h.id) \subseteq {h}
    <3> SUFFICES ASSUME NEW c \in cache, c.id = h.id PROVE c = h
      BY DEF Cached
    <3>1. c.pos = h.pos /\ c \in Block /\ h \in Block
      BY <1>t, <1>c, <2>1
    <3> QED
      BY <3>1 DEF Block
  <2>5. cache \subseteq cache' /\ h \in cache' /\ cache' \subseteq cache \cup {h}
    BY <2>3, <2>4
  <2>6. HeldWhenDirect'
    BY <2>3 DEF HoleInv, HeldWhenDirect
  <2>7. CacheAhead'
    <3>1. \A c \in cache' : c.pos < lastRecvBlockID'
      <4>1. \A c \in cache : c.pos < lastRecvBlockID
        BY DEF HoleInv, CacheAhead
      <4>2. h.pos < lastRecvBlockID' /\ lastRecvBlockID =< lastRecvBlockID'
            /\ lastRecvBlockID' \in Nat
        BY <1>t, <2>1
      <4> QED
        BY <1>t, <1>c, <2>5, <4>1, <4>2
    <3>2. \A c \in cache' : Len(ordered) < c.pos
      BY <1>t, <2>1, <2>3, <2>5 DEF HoleInv, CacheAhead
    <3> QED
      BY <2>2, <3>1, <3>2 DEF CacheAhead
  <2>8. LastSeen'
    BY <1>t, <1>c, <2>1, <2>2, <2>3, <2>5 DEF HoleInv, LastSeen, NextAwaited
  <2>9. Outstanding \subseteq Outstanding'
    BY <2>2, <2>3, <2>5 DEF Outstanding
  <2>10. Accounted'
    BY <2>2, <2>3, <2>9, KeepAll DEF HoleInv
  <2> QED
    BY <1>t, <2>2, <2>6, <2>7, <2>8, <2>10
<1>7. ASSUME NEW b \in held, SendDirect(b) PROVE Goal
  <2>1. /\ pc = "direct" /\ ordered' = Append(ordered, b) /\ held' = {}
        /\ recvBlockID' = Inc(recvBlockID)
        /\ pc' = AfterSend(Inc(recvBlockID), cache)
        /\ UNCHANGED <<sent, inFlight, lost, recvQueue, cache, lastRecvBlockID>>
    BY <1>7 DEF SendDirect, senderVars, transitVars
  <2>2. b \in Outstanding /\ b.id = recvBlockID
    BY DEF Outstanding, HoleInv, OrderInv, HeldIsNext
  <2>3. b \in Block /\ b.pos = Len(ordered)
    BY <2>2, NextBlock DEF HoleInv
  <2>4. Len(ordered') = Len(ordered) + 1
    BY <2>1, <2>3 DEF HoleInv, OrderInv, TypeOK
  <2>5. Inc(recvBlockID) = Len(ordered) + 1
    BY <2>2, <2>3, UnwrappedIDs DEF HoleInv
  <2>6. pc' \in {"drain", "select"}
        /\ (pc' = "select" => \A c \in cache : c.pos # Len(ordered) + 1)
    BY <1>c, <2>1, <2>5 DEF AfterSend
  <2>7. \A c \in cache : Len(ordered) < c.pos
    <3>1. \A c \in cache : c # b
      BY DEF HoleInv, OrderInv, OnePlace
    <3>2. \A c \in cache : Len(ordered) + 1 =< c.pos
      BY <1>c, <2>2, <3>1, NextBlock DEF HoleInv
    <3> QED
      BY <1>t, <1>c, <3>2
  <2>8. HeldWhenDirect'
    BY <2>1 DEF HeldWhenDirect
  <2>9. CacheAhead'
    <3>1. pc' = "select" => \A c \in cache : Len(ordered) + 1 < c.pos
      BY <1>t, <1>c, <2>6, <2>7
    <3> QED
      BY <2>1, <2>4, <3>1 DEF HoleInv, CacheAhead
  <2>10. LastSeen'
    BY <2>1, <2>4, <2>6 DEF HoleInv, LastSeen, NextAwaited
  <2>11. Accounted'
    <3>1. held \subseteq {b}
      <4> SUFFICES ASSUME NEW h \in held PROVE h = b
        OBVIOUS
      <4>1. h \in Outstanding /\ h.id = recvBlockID
        BY DEF Outstanding, HoleInv, OrderInv, HeldIsNext
      <4>2. h \in Block /\ h.pos = Len(ordered)
        BY <4>1, NextBlock DEF HoleInv
      <4> QED
        BY <2>2, <2>3, <4>1, <4>2 DEF Block
    <3>2. Outstanding \ {b} \subseteq Outstanding'
      BY <2>1, <3>1 DEF Outstanding
    <3> QED
      BY <2>1, <2>2, <2>3, <3>2, KeepDelivered DEF HoleInv
  <2> QED
    BY <1>t, <2>1, <2>8, <2>9, <2>10, <2>11
<1>8. ASSUME NEW b \in cache, SendCached(b) PROVE Goal
  <2>1. /\ pc = "drain" /\ ordered' = Append(ordered, b)
        /\ cache' = cache \ {b}
        /\ recvBlockID' = Inc(recvBlockID)
        /\ pc' = AfterSend(Inc(recvBlockID), cache \ {b})
        /\ UNCHANGED <<sent, inFlight, lost, recvQueue, held, lastRecvBlockID>>
    BY <1>8 DEF SendCached, senderVars, transitVars
  <2>2. b \in Outstanding /\ b.id = recvBlockID
    BY <1>8 DEF Outstanding, SendCached, Cached
  <2>3. b \in Block /\ b.pos = Len(ordered)
    BY <2>2, NextBlock DEF HoleInv
  <2>4. Len(ordered') = Len(ordered) + 1
    BY <2>1, <2>3 DEF HoleInv, OrderInv, TypeOK
  <2>5. Inc(recvBlockID) = Len(ordered) + 1
    BY <2>2, <2>3, UnwrappedIDs DEF HoleInv
  <2>6. pc' \in {"drain", "select"}
        /\ (pc' = "select" => \A c \in cache' : c.pos # Len(ordered) + 1)
    BY <1>c, <2>1, <2>5 DEF AfterSend
  <2>7. \A c \in cache' : Len(ordered) + 1 =< c.pos
    BY <1>c, <2>1, <2>2, NextBlock DEF HoleInv
  <2>8. HeldWhenDirect'
    BY <2>1 DEF HoleInv, HeldWhenDirect
  <2>9. CacheAhead'
    <3>1. pc' = "select" => \A c \in cache' : Len(ordered) + 1 < c.pos
      BY <1>t, <1>c, <2>1, <2>6, <2>7
    <3> QED
      BY <2>1, <2>4, <3>1 DEF HoleInv, CacheAhead
  <2>10. LastSeen'
    <3>1. b.pos < lastRecvBlockID
      BY DEF HoleInv, CacheAhead
    <3>2. Len(ordered) + 1 =< lastRecvBlockID
      BY <1>t, <2>3, <3>1
    <3>3. ASSUME Len(ordered) + 1 < lastRecvBlockID
          PROVE  \E c \in cache' : c.pos + 1 = lastRecvBlockID
      <4>1. PICK c \in cache : c.pos + 1 = lastRecvBlockID
        BY <1>t, <2>1, <3>3 DEF HoleInv, LastSeen, NextAwaited
      <4>2. c # b
        BY <1>t, <2>3, <3>3, <4>1
      <4> QED
        BY <2>1, <4>1, <4>2
    <3> QED
      BY <2>1, <2>4, <2>6, <3>2, <3>3 DEF LastSeen, NextAwaited
  <2>11. Accounted'
    <3>1. Outstanding \ {b} \subseteq Outstanding'
      BY <2>1 DEF Outstanding
    <3> QED
      BY <2>1, <2>2, <2>3, <3>1, KeepDelivered DEF HoleInv
  <2> QED
    BY <1>t, <2>1, <2>8, <2>9, <2>10, <2>11
<1>9. ASSUME StopRelay PROVE Goal
  <2>1. /\ pc' = "stopped"
        /\ UNCHANGED <<sent, inFlight, lost, recvQueue, held, cache,
                       lastRecvBlockID, ordered>>
    BY <1>9 DEF StopRelay, senderVars, transitVars, readerVars
  <2>2. HeldWhenDirect' /\ CacheAhead' /\ LastSeen'
    BY <2>1 DEF HoleInv, HeldWhenDirect, CacheAhead, LastSeen
  <2>3. Outstanding \subseteq Outstanding'
    BY <2>1 DEF Outstanding
  <2> QED
    BY <1>t, <2>1, <2>2, <2>3, KeepAll DEF HoleInv
<1>10. ASSUME PacketWaitTimeout \/ Stop \/ Consume \/ UNCHANGED vars PROVE Goal
  <2>1. UNCHANGED <<sent, inFlight, lost, recvQueue, pc, held, cache,
                    lastRecvBlockID, ordered>>
    BY <1>10 DEF PacketWaitTimeout, Stop, Consume, vars, senderVars,
                 transitVars, relayVars, readerVars
  <2>2. Outstanding \subseteq Outstanding'
    BY <2>1 DEF Outstanding
  <2> QED
    BY <1>t, <2>1, <2>2, RelayUntouched, KeepAll DEF HoleInv
<1> QED
  BY <1>0, <1>1, <1>2, <1>3, <1>4, <1>5, <1>6, <1>7, <1>8, <1>9, <1>10
  DEF Next, Transit, OrderedRelay, HoleInv

LEMMA UnwrappedBefore ==
    ASSUME OrderInv, [Next]_vars, Unwrapped'
    PROVE  Unwrapped
<1>1. sent' = sent \/ sent' = sent + 1
  BY DEF Next, Transit, OrderedRelay, Pack, Lose, RecvBlock, ReceiveNext,
         ReceiveOld, ReceiveAhead, Dequeue, SendDirect, SendCached,
         PacketWaitTimeout, StopRelay, Stop, Consume, vars, senderVars
<1> QED
  BY <1>1, IDModAssumption DEF Unwrapped, OrderInv, TypeOK

\* What holds for ever: the order, and what is said of holes until the wrap.
UntilWrap == OrderInv /\ (Unwrapped => HoleInv)

LEMMA UntilWrapHolds == Spec => []UntilWrap
<1>1. Init => UntilWrap
  BY OrderInit, HoleInit DEF UntilWrap
<1>2. UntilWrap /\ [Next]_vars => UntilWrap'
  <2> SUFFICES ASSUME UntilWrap, [Next]_vars PROVE UntilWrap'
    OBVIOUS
  <2>1. OrderInv'
    BY OrderStep DEF UntilWrap
  <2>2. ASSUME Unwrapped' PROVE HoleInv'
    BY <2>2, UnwrappedBefore, HoleStep DEF UntilWrap
  <2> QED
    BY <2>1, <2>2 DEF UntilWrap
<1> QED
  BY <1>1, <1>2, PTL DEF Spec

\* OrderedRelay forgets no block until the BlockID wraps: whatever has not
\* reached the reader is on its way, held, cached, or was lost by a tunnel.
THEOREM NothingIsForgotten == Spec => []NothingForgotten
<1>1. UntilWrap => NothingForgotten
  BY DEF UntilWrap, HoleInv, NothingForgotten
<1> QED
  BY <1>1, UntilWrapHolds, PTL

\* Until the BlockID wraps, the packet wait timeout kills a connection only
\* when a block from beyond a hole is waiting in the cache.
THEOREM TimeoutOnlyOnHole == Spec => KilledOnlyOnHole
<1>1. UntilWrap /\ [Next]_vars
        => [killed' /\ ~killed => cache # {} \/ ~Unwrapped]_vars
  <2> SUFFICES ASSUME UntilWrap, [Next]_vars, killed' # killed, Unwrapped
               PROVE  cache # {}
    BY DEF vars, contextVars
  <2>1. HoleInv
    BY DEF UntilWrap
  <2>2. PacketWaitTimeout
    BY DEF Next, Transit, OrderedRelay, Pack, NewBlock, Lose, RecvBlock, ReceiveNext,
           ReceiveOld, ReceiveAhead, Dequeue, SendDirect, SendCached,
           StopRelay, Stop, Consume, vars, contextVars
  <2>3. /\ recvBlockID = Len(ordered)
        /\ Len(ordered) \in Nat /\ lastRecvBlockID \in Nat
    BY <2>1, UnwrappedIDs, IDModAssumption DEF HoleInv, OrderInv, TypeOK
  <2> QED
    BY <2>1, <2>2, <2>3 DEF PacketWaitTimeout, HoleInv, LastSeen, NextAwaited
<1> QED
  BY <1>1, UntilWrapHolds, PTL DEF Spec, KilledOnlyOnHole
=============================================================================
