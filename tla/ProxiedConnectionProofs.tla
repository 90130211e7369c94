----------------------- MODULE ProxiedConnectionProofs -----------------------
(***************************************************************************)
(* Proofs about ProxiedConnection, for any lengths of blocks and buffers,  *)
(* any queue size and any number of reads and writes: its types, that      *)
(* nothing is dialed unauthenticated, that the server tells of the end of  *)
(* a connection once and leaks no socket, and that the application reads   *)
(* the server's bytes in order.                                            *)
(***************************************************************************)
EXTENDS ProxiedConnection, SequenceTheorems, FiniteSetTheorems, TLAPS

-----------------------------------------------------------------------------
(* The front end *)

\* From the request on, an application that has to show a password has.
Admitted == requireAuth /\ stage \in {"request", "dial"} => proven

Stages == {"methods", "auth", "request", "dial", "relay", "closed"}

FrontInv == Admitted /\ stage \in Stages

LEMMA FrontInit == Front!Init => FrontInv
  BY DEF Front!Init, FrontInv, Admitted, Stages

LEMMA FrontStep ==
    ASSUME FrontInv, Front!Negotiate \/ Front!Dial \/ UNCHANGED frontVars
    PROVE  FrontInv'
<1> USE DEF FrontInv, Admitted, Stages
<1>1. ASSUME NEW version5 \in BOOLEAN, NEW offered,
             Front!Handshake(version5, offered)
      PROVE  FrontInv'
  BY <1>1 DEF Front!Handshake, Front!Refuse, Front!Proceed, Front!MethodFor
<1>2. ASSUME NEW version1 \in BOOLEAN, NEW right \in BOOLEAN,
             Front!PasswordAuth(version1, right)
      PROVE  FrontInv'
  BY <1>2 DEF Front!PasswordAuth, Front!Refuse
<1>3. ASSUME NEW version5 \in BOOLEAN, NEW conn \in BOOLEAN, NEW atyp,
             Front!ProcessRequest(version5, conn, atyp)
      PROVE  FrontInv'
  BY <1>3 DEF Front!ProcessRequest, Front!Refuse
<1>4. CASE Front!Leave \/ Front!Dial \/ UNCHANGED frontVars
  BY <1>4 DEF Front!Leave, Front!Refuse, Front!Dial, frontVars
<1> QED
  BY <1>1, <1>2, <1>3, <1>4 DEF Front!Negotiate

-----------------------------------------------------------------------------
(* The server *)

Told == \E i \in 1 .. Len(sendQueue) : sendQueue[i] = "Disconnect"

\* SendRelay is about to send a Disconnect.
SendRelayTells == sendRelay \in {"disconnect", "lastDisconnect"}

\* The relays run only on a connection; until connect is through nobody has
\* told the client of an end and only a hole has cancelled the context; and
\* of those who find closed unset, one at most is about to tell.
ServerInv ==
    /\ (HalfOpenConn = "nil") <=> (sendRelay = "none")
    /\ connect \in {"none", "dialing", "failed"} =>
         closed /\ HalfOpenConn = "nil" /\ ~Told /\ (ctxDone => killed)
    /\ recvRelay = "disconnect" => closed /\ ~Told /\ ~SendRelayTells
    /\ SendRelayTells => closed /\ ~Told
    /\ Told => closed
    /\ OneDisconnect
    /\ CancelledIsClosed

\* What putting a block on sendQueue does to Told and OneDisconnect.
LEMMA Tells ==
    ASSUME NEW blk, sendQueue \in Seq({"data", "Disconnect"}),
           blk \in {"data", "Disconnect"}, sendQueue' = Append(sendQueue, blk)
    PROVE  /\ sendQueue' \in Seq({"data", "Disconnect"})
           /\ blk = "data" => (Told' <=> Told) /\ (OneDisconnect => OneDisconnect')
           /\ blk = "Disconnect" /\ ~Told => Told' /\ OneDisconnect'
<1>1. /\ sendQueue' \in Seq({"data", "Disconnect"})
      /\ Len(sendQueue') = Len(sendQueue) + 1 /\ Len(sendQueue) \in Nat
      /\ \A i \in 1 .. Len(sendQueue) : sendQueue'[i] = sendQueue[i]
      /\ sendQueue'[Len(sendQueue) + 1] = blk
  BY AppendProperties
<1> QED
  BY <1>1 DEF Told, OneDisconnect

LEMMA ServerInit == Init => TypeOK /\ ServerInv
<1> SUFFICES ASSUME Init PROVE TypeOK /\ ServerInv
  OBVIOUS
<1>1. TypeOK
  <2>1. {ctxDone, killed, closed, readShut, targetGone} \subseteq BOOLEAN
    BY DEF Init
  <2>2. drains \in 0 .. DrainReads /\ available \in 0 .. TargetData
    BY TargetAssumption DEF Init
  <2>3. /\ coming \in Seq(ClientBlocks) /\ orderedRecvQueue \in Seq(ClientBlocks)
        /\ sendQueue \in Seq({"data", "Disconnect"})
    BY DEF Init
  <2> QED
    BY <2>1, <2>2, <2>3 DEF Init, TypeOK
<1>2. ServerInv
  BY DEF Init, ServerInv, Told, OneDisconnect, CancelledIsClosed, SendRelayTells
<1> QED
  BY <1>1, <1>2

\* What SendRelay takes from orderedRecvQueue is a client's block.
LEMMA TakesBlock ==
    ASSUME TypeOK, NEW blks, SendRelayTakes(blks)
    PROVE  /\ sendRelay = "select"
           /\ orderedRecvQueue' \in Seq(ClientBlocks)
  BY HeadTailProperties DEF TypeOK, SendRelayTakes

LEMMA ServerTypeStep ==
    ASSUME TypeOK, ServerInv, Step \/ Killed PROVE TypeOK'
<1> USE TargetAssumption DEF TypeOK, clientVars, targetVars, flagVars, relayVars
<1>1. CASE RecvConnect
  BY <1>1 DEF RecvConnect
<1>2. CASE ClientBlock
  <2>1. /\ Head(coming) \in ClientBlocks /\ coming' \in Seq(ClientBlocks)
        /\ orderedRecvQueue' \in Seq(ClientBlocks)
    BY <1>2, HeadTailProperties, AppendProperties DEF ClientBlock
  <2> QED
    BY <1>2, <2>1 DEF ClientBlock
<1>3. CASE Killed
  BY <1>3 DEF Killed
<1>4. CASE TargetEnds
  <2>1. available' \in 0 .. TargetData
    BY <1>4 DEF TargetEnds
  <2> QED
    BY <1>4, <2>1 DEF TargetEnds
<1>5. CASE DialSucceeds
  BY <1>5 DEF DialSucceeds, Relaying
<1>6. CASE DialFails
  BY <1>6 DEF DialFails
<1>7. CASE DialFailed
  BY <1>7, Tells DEF DialFailed
<1>8. CASE RecvRelayChecks
  BY <1>8 DEF RecvRelayChecks
<1>9. CASE RecvRelayReads
  <2>1. available' \in 0 .. TargetData /\ drains' \in 0 .. DrainReads
    BY <1>9 DEF RecvRelayReads
  <2> QED
    BY <1>9, <2>1 DEF RecvRelayReads
<1>10. CASE RecvRelaySends
  BY <1>10, Tells DEF RecvRelaySends
<1>11. CASE RecvRelayTimeout
  BY <1>11 DEF RecvRelayTimeout
<1>12. CASE RecvRelayEOF
  BY <1>12 DEF RecvRelayEOF, closeThenCancelWithOnceSend, closeThenCancel, Once
<1>13. CASE RecvRelayDisconnects
  BY <1>13, Tells DEF RecvRelayDisconnects
<1>14. CASE RecvRelayDrained
  BY <1>14 DEF RecvRelayDrained
<1>15. CASE SendRelayExits
  BY <1>15 DEF SendRelayExits
<1>16. sendRelay = "select" => recvRelay # "none"
  BY DEF ServerInv
<1>17. CASE SendRelayCloses
  BY <1>16, <1>17
  DEF SendRelayCloses, closeThenCancelWithOnceSend, closeThenCancel, Once
<1>18. CASE SendRelayWrites
  BY <1>18, TakesBlock DEF SendRelayWrites
<1>19. CASE SendRelayWriteFails
  <2>1. sendRelay = "select" /\ orderedRecvQueue' \in Seq(ClientBlocks)
    BY <1>19, TakesBlock DEF SendRelayWriteFails
  <2> QED
    BY <1>16, <1>19, <2>1
    DEF SendRelayWriteFails, closeThenCancelWithOnceSend, closeThenCancel, Once
<1>20. CASE SendRelayHalfCloses
  <2>1. orderedRecvQueue' \in Seq(ClientBlocks) /\ readShut' \in BOOLEAN
    BY <1>20, TakesBlock DEF SendRelayHalfCloses
  <2> QED
    BY <1>20, <2>1 DEF SendRelayHalfCloses
<1>21. CASE SendRelayShutdown
  <2>1. sendRelay = "select" /\ orderedRecvQueue' \in Seq(ClientBlocks)
    BY <1>21, TakesBlock DEF SendRelayShutdown
  <2> QED
    BY <1>16, <1>21, <2>1 DEF SendRelayShutdown, closeThenCancel
<1>22. CASE SendRelayDisconnects
  BY <1>22, Tells DEF SendRelayDisconnects
<1> QED
  BY <1>1, <1>2, <1>3, <1>4, <1>5, <1>6, <1>7, <1>8, <1>9, <1>10, <1>11, <1>12,
     <1>13, <1>14, <1>15, <1>17, <1>18, <1>19, <1>20, <1>21, <1>22
  DEF Step, Connect, RecvRelay, SendRelay

LEMMA ServerInvStep ==
    ASSUME TypeOK, ServerInv, Step \/ Killed PROVE ServerInv'
<1> USE DEF clientVars, targetVars, flagVars, relayVars, ServerInv, SendRelayTells,
            CancelledIsClosed
<1>0. sendQueue' = sendQueue => (Told' <=> Told) /\ (OneDisconnect => OneDisconnect')
  BY DEF Told, OneDisconnect
<1>1. CASE RecvConnect \/ ClientBlock \/ TargetEnds
  BY <1>0, <1>1 DEF RecvConnect, ClientBlock, TargetEnds
<1>2. CASE Killed
  BY <1>0, <1>2 DEF Killed
<1>3. CASE DialSucceeds
  BY <1>0, <1>3 DEF DialSucceeds, Relaying, TypeOK
<1>4. CASE DialFails
  BY <1>0, <1>4 DEF DialFails
<1>5. CASE DialFailed
  BY <1>5, Tells DEF DialFailed, TypeOK
<1>6. CASE RecvRelayChecks \/ RecvRelayReads \/ RecvRelayTimeout \/ RecvRelayDrained
  BY <1>0, <1>6 DEF RecvRelayChecks, RecvRelayReads, RecvRelayTimeout, RecvRelayDrained
<1>7. CASE RecvRelaySends
  BY <1>7, Tells DEF RecvRelaySends, TypeOK
<1>8. CASE RecvRelayEOF
  BY <1>0, <1>8
  DEF RecvRelayEOF, closeThenCancelWithOnceSend, closeThenCancel, Once, TypeOK
<1>9. CASE RecvRelayDisconnects
  BY <1>9, Tells DEF RecvRelayDisconnects, TypeOK
<1>10. CASE SendRelayExits \/ SendRelayWrites \/ SendRelayHalfCloses
  BY <1>0, <1>10
  DEF SendRelayExits, SendRelayWrites, SendRelayHalfCloses, SendRelayTakes
<1>11. CASE SendRelayCloses \/ SendRelayWriteFails
  BY <1>0, <1>11
  DEF SendRelayCloses, SendRelayWriteFails, SendRelayTakes,
      closeThenCancelWithOnceSend, closeThenCancel, Once, TypeOK
<1>12. CASE SendRelayShutdown
  BY <1>0, <1>12 DEF SendRelayShutdown, SendRelayTakes, closeThenCancel
<1>13. CASE SendRelayDisconnects
  BY <1>13, Tells DEF SendRelayDisconnects, TypeOK
<1> QED
  BY <1>1, <1>2, <1>3, <1>4, <1>5, <1>6, <1>7, <1>8, <1>9, <1>10, <1>11, <1>12,
     <1>13
  DEF Step, Connect, RecvRelay, SendRelay

-----------------------------------------------------------------------------
(* What comes to the client *)

\* The data blocks among the first i of q are counted as one would expect.
LEMMA DataBlocksType ==
    ASSUME NEW q, NEW i \in Nat
    PROVE  /\ IsFiniteSet({j \in 1 .. i : q[j] = "data"})
           /\ DataBlocks(q, i) \in Nat
<1>1. IsFiniteSet(1 .. i)
  BY FS_Interval
<1>2. IsFiniteSet({j \in 1 .. i : q[j] = "data"})
  BY <1>1, FS_Subset
<1> QED
  BY <1>2, FS_CardinalityType DEF DataBlocks

LEMMA DataBlocksNext ==
    ASSUME NEW q, NEW i \in Nat
    PROVE  /\ q[i + 1] = "data" => DataBlocks(q, i + 1) = DataBlocks(q, i) + 1
           /\ q[i + 1] # "data" => DataBlocks(q, i + 1) = DataBlocks(q, i)
<1> DEFINE D == {j \in 1 .. i : q[j] = "data"}
           E == {j \in 1 .. i + 1 : q[j] = "data"}
<1>1. IsFiniteSet(D) /\ i + 1 \notin D
  BY DataBlocksType
<1>2. ASSUME q[i + 1] = "data" PROVE DataBlocks(q, i + 1) = DataBlocks(q, i) + 1
  <2>1. E = D \cup {i + 1}
    BY <1>2
  <2> HIDE DEF D, E
  <2>2. Cardinality(E) = Cardinality(D) + 1
    BY <1>1, <2>1, FS_AddElement
  <2> QED
    BY <2>2 DEF D, E, DataBlocks
<1>3. ASSUME q[i + 1] # "data" PROVE DataBlocks(q, i + 1) = DataBlocks(q, i)
  <2>1. E = D
    BY <1>3
  <2> QED
    BY <2>1 DEF DataBlocks
<1> QED
  BY <1>2, <1>3

LEMMA DataBlocksMonotonic ==
    ASSUME NEW q, NEW i \in Nat, NEW k \in Nat, i =< k
    PROVE  DataBlocks(q, i) =< DataBlocks(q, k)
<1> DEFINE D == {j \in 1 .. i : q[j] = "data"}
           E == {j \in 1 .. k : q[j] = "data"}
<1>1. IsFiniteSet(E) /\ D \subseteq E
  BY DataBlocksType
<1> HIDE DEF D, E
<1>2. Cardinality(D) =< Cardinality(E)
  BY <1>1, FS_Subset
<1> QED
  BY <1>2 DEF D, E, DataBlocks

LEMMA DataBlocksSame ==
    ASSUME NEW q, NEW r, NEW i \in Nat, \A j \in 1 .. i : q[j] = r[j]
    PROVE  DataBlocks(q, i) = DataBlocks(r, i)
<1>1. {j \in 1 .. i : q[j] = "data"} = {j \in 1 .. i : r[j] = "data"}
  OBVIOUS
<1> QED
  BY <1>1 DEF DataBlocks

\* A data block of the server is one of the reads that the target answered.
Counted ==
    DataBlocks(sendQueue, Len(sendQueue)) + available
        + (IF recvRelay \in {"data", "drained"} THEN 1 ELSE 0) =< TargetData

LEMMA DataSends ==
    ASSUME TypeOK, NEW blk \in {"data", "Disconnect"}, sendQueue' = Append(sendQueue, blk)
    PROVE  /\ Len(sendQueue') = Len(sendQueue) + 1 /\ Len(sendQueue) \in Nat
           /\ \A i \in 1 .. Len(sendQueue) : sendQueue'[i] = sendQueue[i]
           /\ sendQueue'[Len(sendQueue) + 1] = blk
           /\ DataBlocks(sendQueue', Len(sendQueue')) =
                DataBlocks(sendQueue, Len(sendQueue)) + IF blk = "data" THEN 1 ELSE 0
<1>1. /\ Len(sendQueue') = Len(sendQueue) + 1 /\ Len(sendQueue) \in Nat
      /\ \A i \in 1 .. Len(sendQueue) : sendQueue'[i] = sendQueue[i]
      /\ sendQueue'[Len(sendQueue) + 1] = blk
  BY AppendProperties DEF TypeOK
<1>2. DataBlocks(sendQueue', Len(sendQueue)) = DataBlocks(sendQueue, Len(sendQueue))
  BY <1>1, DataBlocksSame
<1>3. DataBlocks(sendQueue, Len(sendQueue)) \in Nat
  BY <1>1, DataBlocksType
<1>4. /\ blk = "data" => DataBlocks(sendQueue', Len(sendQueue) + 1) =
                            DataBlocks(sendQueue', Len(sendQueue)) + 1
      /\ blk # "data" => DataBlocks(sendQueue', Len(sendQueue) + 1) =
                            DataBlocks(sendQueue', Len(sendQueue))
  BY <1>1, DataBlocksNext
<1> QED
  BY <1>1, <1>2, <1>3, <1>4

LEMMA CountedStep ==
    ASSUME TypeOK, Counted, Step \/ Killed PROVE Counted'
<1> USE DEF clientVars, targetVars, flagVars, relayVars
<1>0. /\ available \in Nat /\ TargetData \in Nat
      /\ DataBlocks(sendQueue, Len(sendQueue)) \in Nat
  <2>1. Len(sendQueue) \in Nat /\ available \in Nat /\ TargetData \in Nat
    BY TargetAssumption DEF TypeOK
  <2> QED
    BY <2>1, DataBlocksType
<1>1. ASSUME UNCHANGED sendQueue
      PROVE  DataBlocks(sendQueue', Len(sendQueue')) = DataBlocks(sendQueue, Len(sendQueue))
  BY <1>1
<1>2. CASE RecvRelaySends
  BY <1>0, <1>2, DataSends DEF RecvRelaySends, Counted
<1>3. CASE DialFailed \/ RecvRelayDisconnects \/ SendRelayDisconnects
  BY <1>0, <1>3, DataSends
  DEF DialFailed, RecvRelayDisconnects, SendRelayDisconnects, Counted
<1>4. CASE TargetEnds
  BY <1>0, <1>1, <1>4 DEF TargetEnds, Counted
<1>5. CASE RecvRelayReads
  BY <1>0, <1>1, <1>5 DEF RecvRelayReads, Counted
<1>6. ASSUME UNCHANGED <<sendQueue, available>>,
             recvRelay' \in {"data", "drained"} => recvRelay' = recvRelay
      PROVE  Counted'
  BY <1>0, <1>1, <1>6 DEF Counted
<1> QED
  BY <1>2, <1>3, <1>4, <1>5, <1>6
  DEF Step, Connect, RecvRelay, SendRelay, RecvConnect, ClientBlock, Killed,
      DialSucceeds, DialFails, RecvRelayChecks, RecvRelayTimeout, RecvRelayEOF,
      RecvRelayDrained, SendRelayExits, SendRelayCloses, SendRelayWrites,
      SendRelayWriteFails, SendRelayHalfCloses, SendRelayShutdown,
      closeThenCancelWithOnceSend, Once

\* A server's step puts at most one block on sendQueue.
LEMMA OnePut ==
    ASSUME Step \/ Killed
    PROVE  \/ sendQueue' = sendQueue
           \/ sendQueue' = Append(sendQueue, "data")
           \/ sendQueue' = Append(sendQueue, "Disconnect")
  BY DEF Step, Killed, Connect, RecvRelay, SendRelay, RecvConnect, ClientBlock, TargetEnds,
      DialSucceeds, DialFails, DialFailed, RecvRelayChecks, RecvRelayReads,
      RecvRelaySends, RecvRelayTimeout, RecvRelayEOF, RecvRelayDisconnects,
      RecvRelayDrained, SendRelayExits, SendRelayCloses, SendRelayWrites,
      SendRelayWriteFails, SendRelayHalfCloses, SendRelayShutdown, SendRelayDisconnects

\* A data block has bytes.
LEMMA BytesIncrease ==
    /\ Bytes[0] = 0
    /\ \A k \in 0 .. TargetData : Bytes[k] \in Nat
    /\ \A j, k \in 0 .. TargetData : j < k => Bytes[j] < Bytes[k]
<1>1. /\ Bytes \in [0 .. TargetData -> Nat] /\ Bytes[0] = 0
      /\ \A j, k \in 0 .. TargetData : j < k => Bytes[j] < Bytes[k]
  BY ClientAssumption, Zenon
<1> QED
  BY <1>1

\* What a block adds to the bytes before it.
LEMMA LengthOfBlock ==
    ASSUME NEW q, NEW i \in Nat, DataBlocks(q, i + 1) =< TargetData
    PROVE  /\ BlockLength(q, i + 1) \in Nat
           /\ Bytes[DataBlocks(q, i)] \in Nat
           /\ Bytes[DataBlocks(q, i + 1)] = Bytes[DataBlocks(q, i)] + BlockLength(q, i + 1)
           /\ BlockLength(q, i + 1) = 0 <=> q[i + 1] # "data"
<1> DEFINE m == DataBlocks(q, i)
           n == DataBlocks(q, i + 1)
<1>0. m \in Nat /\ n \in Nat /\ TargetData \in Nat /\ n =< TargetData
  <2>1. i + 1 \in Nat /\ TargetData \in Nat
    BY TargetAssumption
  <2>2. m \in Nat
    BY DataBlocksType
  <2>3. n \in Nat
    BY <2>1, DataBlocksType
  <2> QED
    BY <2>1, <2>2, <2>3
<1>1. /\ q[i + 1] = "data" => n = m + 1
      /\ q[i + 1] # "data" => n = m
  BY DataBlocksNext
<1>2. BlockLength(q, i + 1) = Bytes[n] - Bytes[m]
  <2>1. (i + 1) - 1 = i
    OBVIOUS
  <2> QED
    BY <2>1 DEF BlockLength
<1> HIDE DEF m, n
<1>3. m \in 0 .. TargetData /\ n \in 0 .. TargetData
  BY <1>0, <1>1
<1>4. Bytes[m] \in Nat /\ Bytes[n] \in Nat
  BY <1>3, BytesIncrease
<1>5. CASE q[i + 1] = "data"
  <2>1. Bytes[m] < Bytes[n]
    BY <1>0, <1>1, <1>3, <1>5, BytesIncrease
  <2>2. BlockLength(q, i + 1) \in Nat \ {0} /\ Bytes[n] = Bytes[m] + BlockLength(q, i + 1)
    BY <1>2, <1>4, <2>1
  <2> QED
    BY <1>4, <1>5, <2>2 DEF m, n
<1>6. CASE q[i + 1] # "data"
  <2>1. BlockLength(q, i + 1) = 0 /\ Bytes[n] = Bytes[m] + BlockLength(q, i + 1)
    BY <1>1, <1>2, <1>4, <1>6
  <2> QED
    BY <1>4, <1>6, <2>1 DEF m, n
<1> QED
  BY <1>5, <1>6

\* No block of the server is beyond the bytes there are.
LEMMA WithinBytes ==
    ASSUME TypeOK, Counted, NEW i \in 0 .. Len(sendQueue)
    PROVE  DataBlocks(sendQueue, i) \in 0 .. TargetData
<1>1. /\ Len(sendQueue) \in Nat /\ i \in Nat /\ i =< Len(sendQueue)
      /\ available \in Nat /\ TargetData \in Nat
  BY TargetAssumption DEF TypeOK
<1>2. DataBlocks(sendQueue, i) \in Nat /\ DataBlocks(sendQueue, Len(sendQueue)) \in Nat
  BY <1>1, DataBlocksType
<1>3. DataBlocks(sendQueue, i) =< DataBlocks(sendQueue, Len(sendQueue))
  BY <1>1, DataBlocksMonotonic
<1> QED
  BY <1>1, <1>2, <1>3 DEF Counted

\* What a step of the server brings the client: nothing, or the length of the
\* one block it put on sendQueue.
LEMMA ComesToClient ==
    ASSUME TypeOK, ServerInv, Counted, Step \/ Killed, incoming \in Seq(Nat), ToClient
    PROVE  /\ incoming' \in Seq(Nat)
           /\ \/ sendQueue' = sendQueue /\ incoming' = incoming
              \/ /\ Len(sendQueue') = Len(sendQueue) + 1
                 /\ \A i \in 1 .. Len(sendQueue) : sendQueue'[i] = sendQueue[i]
                 /\ incoming' = Append(incoming, BlockLength(sendQueue', Len(sendQueue) + 1))
<1> DEFINE n == Len(sendQueue') - Len(sendQueue)
           new == [i \in 1 .. n |-> BlockLength(sendQueue', Len(sendQueue) + i)]
<1>0. Counted' /\ TypeOK' /\ Len(sendQueue) \in Nat
  BY CountedStep, ServerTypeStep DEF TypeOK
<1>1. CASE sendQueue' = sendQueue
  <2>1. n = 0
    BY <1>0, <1>1
  <2>2. new = << >>
    BY <2>1
  <2>3. incoming' = incoming
    <3>1. incoming' = incoming \o new
      BY DEF ToClient
    <3> HIDE DEF new
    <3> QED
      BY <2>2, <3>1, ConcatEmptySeq
  <2> QED
    BY <1>1, <2>3
<1>2. ASSUME NEW blk \in {"data", "Disconnect"}, sendQueue' = Append(sendQueue, blk)
      PROVE  /\ Len(sendQueue') = Len(sendQueue) + 1
             /\ \A i \in 1 .. Len(sendQueue) : sendQueue'[i] = sendQueue[i]
             /\ incoming' = Append(incoming, BlockLength(sendQueue', Len(sendQueue) + 1))
             /\ BlockLength(sendQueue', Len(sendQueue) + 1) \in Nat
  <2> DEFINE length == BlockLength(sendQueue', Len(sendQueue) + 1)
  <2>1. /\ n = 1 /\ Len(sendQueue') = Len(sendQueue) + 1
        /\ \A i \in 1 .. Len(sendQueue) : sendQueue'[i] = sendQueue[i]
    BY <1>0, <1>2, DataSends
  <2>2. DataBlocks(sendQueue', Len(sendQueue) + 1) =< TargetData
    <3>1. Len(sendQueue') \in Nat /\ available' \in Nat /\ TargetData \in Nat
      BY <1>0, <2>1, TargetAssumption DEF TypeOK
    <3>2. DataBlocks(sendQueue', Len(sendQueue')) \in Nat
      BY <3>1, DataBlocksType
    <3>3. DataBlocks(sendQueue', Len(sendQueue')) =< TargetData
      BY <1>0, <3>1, <3>2 DEF Counted
    <3> QED
      BY <2>1, <3>3
  <2>3. length \in Nat
    BY <1>0, <2>2, LengthOfBlock
  <2>4. new = << length >>
    BY <2>1
  <2> HIDE DEF length, new
  <2>5. incoming \o << length >> = Append(incoming, length)
    BY <2>3, AppendIsConcat
  <2>6. incoming' = Append(incoming, length)
    BY <2>4, <2>5 DEF ToClient, new
  <2> QED
    BY <2>1, <2>3, <2>6 DEF length
<1>3. CASE \E blk \in {"data", "Disconnect"} : sendQueue' = Append(sendQueue, blk)
  <2>1. PICK blk \in {"data", "Disconnect"} : sendQueue' = Append(sendQueue, blk)
    BY <1>3
  <2> DEFINE length == BlockLength(sendQueue', Len(sendQueue) + 1)
  <2>2. /\ Len(sendQueue') = Len(sendQueue) + 1
        /\ \A i \in 1 .. Len(sendQueue) : sendQueue'[i] = sendQueue[i]
        /\ incoming' = Append(incoming, length) /\ length \in Nat
    BY <1>2, <2>1
  <2> HIDE DEF length
  <2>3. incoming' \in Seq(Nat)
    BY <2>2, AppendProperties
  <2> QED
    BY <2>2, <2>3 DEF length
<1> QED
  BY <1>1, <1>3, OnePut

-----------------------------------------------------------------------------
(* Runs of bytes *)

\* The bytes are the ones that follow byte number from.
Run(bytes, from) == \A i \in 1 .. Len(bytes) : bytes[i] = from + i

\* The blocks of q are the bytes from number from on up to number to.
Runs(q, from, to) ==
    \E start \in [1 .. Len(q) + 1 -> Nat] :
        /\ start[1] = from /\ start[Len(q) + 1] = to
        /\ \A i \in 1 .. Len(q) : /\ start[i + 1] = start[i] + Len(q[i])
                                  /\ Run(q[i], start[i])

LEMMA RunConcat ==
    ASSUME NEW a \in Seq(Nat), NEW b \in Seq(Nat), NEW from \in Nat,
           Run(a, from), Run(b, from + Len(a))
    PROVE  /\ a \o b \in Seq(Nat) /\ Len(a \o b) = Len(a) + Len(b)
           /\ Run(a \o b, from)
<1>1. /\ a \o b \in Seq(Nat) /\ Len(a \o b) = Len(a) + Len(b)
      /\ \A i \in 1 .. Len(a) + Len(b) :
           (a \o b)[i] = IF i =< Len(a) THEN a[i] ELSE b[i - Len(a)]
      /\ Len(a) \in Nat /\ Len(b) \in Nat
  BY ConcatProperties
<1>2. ASSUME NEW i \in 1 .. Len(a) + Len(b) PROVE (a \o b)[i] = from + i
  <2>1. CASE i =< Len(a)
    BY <1>1, <2>1 DEF Run
  <2>2. CASE i > Len(a)
    <3>1. i - Len(a) \in 1 .. Len(b)
      BY <1>1, <2>2
    <3>2. b[i - Len(a)] = (from + Len(a)) + (i - Len(a))
      BY <3>1 DEF Run
    <3> QED
      BY <1>1, <2>2, <3>2
  <2> QED
    BY <1>1, <2>1, <2>2
<1> QED
  BY <1>1, <1>2 DEF Run

\* The bytes m + 1 to n of a run.
LEMMA RunSub ==
    ASSUME NEW a \in Seq(Nat), NEW from \in Nat, Run(a, from),
           NEW m \in Nat, NEW n \in Nat, m =< n, n =< Len(a)
    PROVE  /\ SubSeq(a, m + 1, n) \in Seq(Nat) /\ Len(SubSeq(a, m + 1, n)) = n - m
           /\ Run(SubSeq(a, m + 1, n), from + m)
<1>1. /\ SubSeq(a, m + 1, n) \in Seq(Nat) /\ Len(SubSeq(a, m + 1, n)) = n - m
      /\ \A i \in 1 .. n - m : SubSeq(a, m + 1, n)[i] = a[m + i]
  OBVIOUS
<1>2. ASSUME NEW i \in 1 .. n - m PROVE SubSeq(a, m + 1, n)[i] = (from + m) + i
  <2>1. m + i \in 1 .. Len(a)
    OBVIOUS
  <2> QED
    BY <1>1, <2>1 DEF Run
<1> QED
  BY <1>1, <1>2 DEF Run

\* OrderedRelay puts the next block at the end.
LEMMA RunsAppend ==
    ASSUME NEW q \in Seq(Seq(Nat)), NEW from \in Nat, NEW to \in Nat, Runs(q, from, to),
           NEW blk \in Seq(Nat), Run(blk, to)
    PROVE  Runs(Append(q, blk), from, to + Len(blk))
<1> DEFINE n == Len(q)
           new == Append(q, blk)
<1>1. /\ n \in Nat /\ Len(new) = n + 1 /\ Len(blk) \in Nat
      /\ \A i \in 1 .. n : new[i] = q[i]
      /\ new[n + 1] = blk
  BY AppendProperties
<1>2. PICK start \in [1 .. n + 1 -> Nat] :
        /\ start[1] = from /\ start[n + 1] = to
        /\ \A i \in 1 .. n : /\ start[i + 1] = start[i] + Len(q[i])
                             /\ Run(q[i], start[i])
  BY DEF Runs
<1> DEFINE then == [i \in 1 .. n + 2 |-> IF i = n + 2 THEN to + Len(blk) ELSE start[i]]
<1>3. /\ then \in [1 .. Len(new) + 1 -> Nat]
      /\ then[1] = from /\ then[Len(new) + 1] = to + Len(blk)
  BY <1>1, <1>2
<1>4. ASSUME NEW i \in 1 .. Len(new)
      PROVE  then[i + 1] = then[i] + Len(new[i]) /\ Run(new[i], then[i])
  <2>1. CASE i = n + 1
    BY <1>1, <1>2, <2>1
  <2>2. CASE i \in 1 .. n
    <3>1. then[i] = start[i] /\ then[i + 1] = start[i + 1] /\ new[i] = q[i]
      BY <1>1, <2>2
    <3> QED
      BY <1>2, <2>2, <3>1
  <2> QED
    BY <1>1, <2>1, <2>2
<1> HIDE DEF then, new
<1>5. Runs(new, from, to + Len(blk))
  BY <1>3, <1>4 DEF Runs
<1> QED
  BY <1>5 DEF new

\* Read takes the first block.
LEMMA RunsTail ==
    ASSUME NEW q \in Seq(Seq(Nat)), q # <<>>, NEW from \in Nat, NEW to, Runs(q, from, to)
    PROVE  /\ Run(Head(q), from)
           /\ Runs(Tail(q), from + Len(Head(q)), to)
<1> DEFINE n == Len(q)
<1>1. /\ n \in Nat \ {0} /\ Head(q) = q[1] /\ Len(Tail(q)) = n - 1
      /\ \A i \in 1 .. n - 1 : Tail(q)[i] = q[i + 1]
  OBVIOUS
<1>2. PICK start \in [1 .. n + 1 -> Nat] :
        /\ start[1] = from /\ start[n + 1] = to
        /\ \A i \in 1 .. n : /\ start[i + 1] = start[i] + Len(q[i])
                             /\ Run(q[i], start[i])
  BY DEF Runs
<1>3. Run(Head(q), from) /\ start[2] = from + Len(Head(q))
  <2>1. 1 \in 1 .. n
    BY <1>1
  <2> QED
    BY <1>1, <1>2, <2>1
<1> DEFINE then == [i \in 1 .. n |-> start[i + 1]]
<1>4. /\ then \in [1 .. Len(Tail(q)) + 1 -> Nat]
      /\ then[1] = from + Len(Head(q)) /\ then[Len(Tail(q)) + 1] = to
  BY <1>1, <1>2, <1>3
<1>5. ASSUME NEW i \in 1 .. Len(Tail(q))
      PROVE  then[i + 1] = then[i] + Len(Tail(q)[i]) /\ Run(Tail(q)[i], then[i])
  <2>1. /\ i + 1 \in 1 .. n /\ then[i] = start[i + 1] /\ then[i + 1] = start[(i + 1) + 1]
        /\ Tail(q)[i] = q[i + 1]
    BY <1>1
  <2> QED
    BY <1>2, <2>1
<1> HIDE DEF then
<1>6. Runs(Tail(q), from + Len(Head(q)), to)
  BY <1>4, <1>5 DEF Runs
<1> QED
  BY <1>3, <1>6

-----------------------------------------------------------------------------
(* The client's Read *)

\* The types of what Read works on.
ReadTypes ==
    /\ incoming \in Seq(Nat) /\ pushed \in Nat
    /\ clientOrderedRecvQueue \in Seq(Seq(Nat))
    /\ Len(clientOrderedRecvQueue) =< OrderedRecvQueueSize
    /\ dataBuffer \in Seq(Nat) /\ out \in Seq(Nat)
    /\ read \in {"idle", "write", "drain", "first", "more", "ended"}
    /\ want \in BufSizes \cup {0}
    /\ got \in Seq(Nat) /\ Len(got) =< want

\* A Read that waits for blocks has emptied the ring buffer, so that OverWrite
\* loses nothing, and has room; between Reads, and before the first block,
\* nothing is held back.
Reading ==
    /\ read \in {"drain", "first", "more"} => dataBuffer = <<>> /\ Len(got) < want
    /\ read \notin {"drain", "more"} => got = <<>>
    /\ read = "ended" => dataBuffer = <<>>

\* What was returned, what the current Read has so far, the ring buffer and
\* the queue are, one after the other, the bytes pushed so far.
InOrder ==
    /\ Run(out, 0)
    /\ Run(got, Len(out))
    /\ Run(dataBuffer, Len(out) + Len(got))
    /\ Runs(clientOrderedRecvQueue, Len(out) + Len(got) + Len(dataBuffer), pushed)

ClientInv == ReadTypes /\ Reading /\ InOrder

\* How many of the server's bytes Read has taken from the queue so far.
Held == Len(out) + Len(got) + Len(dataBuffer)

\* The sizes of queue and buffers.
LEMMA Sizes ==
    /\ OrderedRecvQueueSize \in Nat \ {0}
    /\ \A n \in BufSizes : n \in Nat \ {0}
  BY ClientAssumption, Zenon

LEMMA EmptyRun == ASSUME NEW from PROVE Run(<<>>, from)
  BY DEF Run

LEMMA ClientInit == Client!Init => ClientInv
<1> SUFFICES ASSUME Client!Init PROVE ClientInv
  OBVIOUS
<1>1. ReadTypes /\ Reading
  BY Sizes DEF Client!Init, ReadTypes, Reading
<1>2. Runs(<<>>, 0, 0)
  <2> DEFINE none == << >>
             start == [i \in 1 .. 1 |-> 0]
  <2>1. /\ start \in [1 .. Len(none) + 1 -> Nat]
        /\ start[1] = 0 /\ start[Len(none) + 1] = 0 /\ Len(none) = 0
    OBVIOUS
  <2>2. \A i \in 1 .. Len(none) : /\ start[i + 1] = start[i] + Len(none[i])
                                  /\ Run(none[i], start[i])
    BY <2>1
  <2> HIDE DEF start, none
  <2>3. Runs(none, 0, 0)
    BY <2>1, <2>2 DEF Runs
  <2> QED
    BY <2>3 DEF none
<1>3. Len(out) + Len(got) + Len(dataBuffer) = 0 /\ Len(out) = 0 /\ Len(out) + Len(got) = 0
  BY DEF Client!Init
<1>4. InOrder
  BY <1>2, <1>3, EmptyRun, Zenon DEF Client!Init, InOrder
<1> QED
  BY <1>1, <1>4 DEF ClientInv

\* Read returns bytes that follow the ones returned before.
LEMMA Returns ==
    ASSUME ClientInv, NEW bytes \in Seq(Nat), Run(bytes, Len(out)),
           Client!ReturnData(bytes)
    PROVE  /\ out' \in Seq(Nat) /\ Len(out') = Len(out) + Len(bytes) /\ Run(out', 0)
           /\ got' = <<>> /\ read' \in {"idle", "write"}
<1>1. /\ out \in Seq(Nat) /\ Run(out, 0) /\ Len(out) \in Nat /\ out' = out \o bytes
      /\ got' = <<>> /\ read' \in {"idle", "write"}
  BY DEF ClientInv, ReadTypes, InOrder, Client!ReturnData
<1>2. Run(bytes, 0 + Len(out))
  BY <1>1
<1> QED
  BY <1>1, <1>2, RunConcat

\* Nothing is in order after a step if it was before and the step changes
\* nothing that Read works on.
LEMMA ReadUntouched ==
    ASSUME ClientInv,
           UNCHANGED <<incoming, pushed, clientOrderedRecvQueue, dataBuffer, out,
                       read, want, got>>
    PROVE  ClientInv' /\ Held' = Held
  BY DEF ClientInv, ReadTypes, Reading, InOrder, Held

\* The block that OrderedRelay pushes.
LEMMA NewBlock ==
    ASSUME NEW n \in Nat, NEW from \in Nat
    PROVE  /\ [i \in 1 .. n |-> from + i] \in Seq(Nat)
           /\ Len([i \in 1 .. n |-> from + i]) = n
<1>1. [i \in 1 .. n |-> from + i] \in [1 .. n -> Nat]
  OBVIOUS
<1>2. [i \in 1 .. n |-> from + i] \in Seq(Nat)
  BY <1>1, SeqDef
<1> QED
  BY <1>1, <1>2, LenProperties

LEMMA PushStep == ClientInv /\ Client!Push => ClientInv' /\ Held' = Held
<1> SUFFICES ASSUME ClientInv, Client!Push PROVE ClientInv' /\ Held' = Held
  OBVIOUS
<1> DEFINE blk == [i \in 1 .. Head(incoming) |-> pushed + i]
<1>0. ReadTypes /\ Reading /\ InOrder
  BY DEF ClientInv
<1>1. /\ Head(incoming) \in Nat /\ incoming' \in Seq(Nat)
      /\ pushed' = pushed + Head(incoming) /\ pushed \in Nat
      /\ UNCHANGED <<dataBuffer, out, read, want, got>>
  BY <1>0, HeadTailProperties
  DEF Client!Push, ReadTypes, Client!readVars, Client!resultVars
<1>2. blk \in Seq(Nat) /\ Len(blk) = Head(incoming) /\ Run(blk, pushed)
  <2>1. blk \in Seq(Nat) /\ Len(blk) = Head(incoming)
    BY <1>1, NewBlock
  <2>2. \A i \in 1 .. Len(blk) : blk[i] = pushed + i
    BY <1>1, <2>1
  <2> HIDE DEF blk
  <2> QED
    BY <2>1, <2>2 DEF Run
<1>3. /\ clientOrderedRecvQueue \in Seq(Seq(Nat))
      /\ clientOrderedRecvQueue' = Append(clientOrderedRecvQueue, blk)
      /\ Len(clientOrderedRecvQueue) < OrderedRecvQueueSize
  BY <1>0 DEF Client!Push, ReadTypes
<1> HIDE DEF blk
<1>4. /\ clientOrderedRecvQueue' \in Seq(Seq(Nat))
      /\ Len(clientOrderedRecvQueue') =< OrderedRecvQueueSize
  <2>1. /\ clientOrderedRecvQueue' \in Seq(Seq(Nat))
        /\ Len(clientOrderedRecvQueue') = Len(clientOrderedRecvQueue) + 1
    BY <1>2, <1>3, AppendProperties
  <2> QED
    BY <1>3, <2>1, Sizes
<1>5. Len(out) + Len(got) + Len(dataBuffer) \in Nat
  BY <1>0 DEF ReadTypes
<1>6. Runs(clientOrderedRecvQueue', Len(out) + Len(got) + Len(dataBuffer), pushed')
  BY <1>0, <1>1, <1>2, <1>3, <1>5, RunsAppend DEF InOrder
<1>7. ReadTypes' /\ Reading'
  <2>1. pushed' \in Nat
    BY <1>1
  <2>2. ReadTypes'
    BY <1>0, <1>1, <1>4, <2>1 DEF ReadTypes
  <2> QED
    BY <1>0, <1>1, <2>2 DEF Reading
<1>8. InOrder'
  <2>1. dataBuffer' = dataBuffer /\ out' = out /\ got' = got
    BY <1>1
  <2>2. /\ Run(out, 0) /\ Run(got, Len(out)) /\ Run(dataBuffer, Len(out) + Len(got))
    BY <1>0 DEF InOrder
  <2> QED
    BY <1>6, <2>1, <2>2 DEF InOrder
<1>9. Held' = Held
  BY <1>1 DEF Held
<1> QED
  BY <1>7, <1>8, <1>9 DEF ClientInv

LEMMA StartReadStep ==
    ASSUME ClientInv, NEW n \in BufSizes, Client!StartRead(n)
    PROVE  ClientInv' /\ Held' = Held
<1> DEFINE k == IF n < Len(dataBuffer) THEN n ELSE Len(dataBuffer)
           bytes == SubSeq(dataBuffer, 1, k)
<1>0. ReadTypes /\ Reading /\ InOrder
  BY DEF ClientInv
<1>1. /\ n \in Nat \ {0} /\ k \in Nat /\ k =< n /\ k =< Len(dataBuffer)
      /\ k # n => k = Len(dataBuffer)
  BY <1>0, Sizes DEF ReadTypes
<1>2. /\ got = <<>> /\ want' = n
      /\ dataBuffer' = SubSeq(dataBuffer, k + 1, Len(dataBuffer))
      /\ UNCHANGED <<incoming, pushed, clientOrderedRecvQueue>>
  BY <1>0 DEF Client!StartRead, Reading, Client!serverVars
<1>3. /\ dataBuffer \in Seq(Nat) /\ out \in Seq(Nat) /\ Len(out) \in Nat
      /\ Len(dataBuffer) \in Nat /\ Run(dataBuffer, Len(out))
      /\ Runs(clientOrderedRecvQueue, Len(out) + Len(dataBuffer), pushed)
      /\ Held = Len(out) + Len(dataBuffer)
  BY <1>0, <1>2 DEF ReadTypes, InOrder, Held
<1>4. bytes \in Seq(Nat) /\ Len(bytes) = k /\ Run(bytes, Len(out))
  <2>1. /\ SubSeq(dataBuffer, 0 + 1, k) \in Seq(Nat)
        /\ Len(SubSeq(dataBuffer, 0 + 1, k)) = k - 0
        /\ Run(SubSeq(dataBuffer, 0 + 1, k), Len(out) + 0)
    <3> HIDE DEF k
    <3>1. /\ dataBuffer \in Seq(Nat) /\ Len(out) \in Nat /\ Run(dataBuffer, Len(out))
          /\ 0 \in Nat /\ k \in Nat /\ 0 =< k /\ k =< Len(dataBuffer)
      BY <1>1, <1>3
    <3> QED
      BY <3>1, RunSub
  <2> QED
    BY <1>1, <1>3, <2>1
<1>5. /\ dataBuffer' \in Seq(Nat) /\ Len(dataBuffer') = Len(dataBuffer) - k
      /\ Run(dataBuffer', Len(out) + k)
  <2> HIDE DEF k
  <2> QED
    BY <1>1, <1>2, <1>3, RunSub
<1>6. \/ k = n /\ Client!ReturnData(bytes)
      \/ /\ k # n /\ got' = bytes /\ out' = out
         /\ read' \in {"drain", "first", "more"} /\ (read' = "first" => k = 0)
  BY DEF Client!StartRead
<1> HIDE DEF k, bytes
<1>7. CASE k = n /\ Client!ReturnData(bytes)
  <2>1. /\ out' \in Seq(Nat) /\ Len(out') = Len(out) + k /\ Run(out', 0)
        /\ got' = <<>> /\ read' \in {"idle", "write"}
    BY <1>4, <1>7, Returns
  <2>2. ReadTypes' /\ Reading'
    <3>1. got' \in Seq(Nat) /\ Len(got') =< want'
      BY <1>1, <1>2, <2>1
    <3>2. ReadTypes'
      BY <1>0, <1>2, <1>5, <2>1, <3>1 DEF ReadTypes
    <3> QED
      BY <2>1, <3>2 DEF Reading
  <2>3. Len(out') + Len(got') + Len(dataBuffer') = Len(out) + Len(dataBuffer)
    BY <1>1, <1>3, <1>5, <2>1
  <2>4. Run(got', Len(out'))
    BY <2>1 DEF Run
  <2>5. Len(out') + Len(got') = Len(out) + k
    BY <1>1, <1>3, <2>1
  <2>6. InOrder'
    BY <1>2, <1>3, <1>5, <2>1, <2>3, <2>4, <2>5 DEF InOrder
  <2> QED
    BY <1>3, <2>2, <2>3, <2>6 DEF ClientInv, Held
<1>8. CASE /\ k # n /\ got' = bytes /\ out' = out
           /\ read' \in {"drain", "first", "more"} /\ (read' = "first" => k = 0)
  <2>1. dataBuffer' = <<>> /\ k = Len(dataBuffer) /\ k < n
    BY <1>1, <1>3, <1>5, <1>8
  <2>2. read' = "first" => got' = <<>>
    BY <1>4, <1>8
  <2>3. ReadTypes' /\ Reading'
    BY <1>0, <1>1, <1>2, <1>4, <1>8, <2>1, <2>2 DEF ReadTypes, Reading
  <2>4. /\ Len(out') + Len(got') + Len(dataBuffer') = Len(out) + Len(dataBuffer)
        /\ Len(out') + Len(got') = Len(out) + k
    <3>1. Len(dataBuffer') = 0 /\ Len(got') = k /\ Len(out') = Len(out)
      BY <1>4, <1>8, <2>1
    <3> QED
      BY <1>1, <1>3, <2>1, <3>1
  <2>5. Run(got', Len(out'))
    BY <1>4, <1>8
  <2>6. InOrder'
    BY <1>0, <1>2, <1>3, <1>5, <1>8, <2>4, <2>5 DEF InOrder
  <2> QED
    BY <1>3, <2>3, <2>4, <2>6 DEF ClientInv, Held
<1> QED
  BY <1>6, <1>7, <1>8

\* Read returns data while the bytes that follow are still in the ring buffer
\* and in the queue.
LEMMA ReturnsRest ==
    ASSUME ClientInv, NEW bytes \in Seq(Nat), Run(bytes, Len(out)),
           Client!ReturnData(bytes), UNCHANGED <<incoming, pushed, want>>,
           clientOrderedRecvQueue' \in Seq(Seq(Nat)),
           Len(clientOrderedRecvQueue') =< OrderedRecvQueueSize,
           dataBuffer' \in Seq(Nat), Run(dataBuffer', Len(out) + Len(bytes)),
           Runs(clientOrderedRecvQueue', Len(out) + Len(bytes) + Len(dataBuffer'), pushed)
    PROVE  ClientInv' /\ Held' = Len(out) + Len(bytes) + Len(dataBuffer')
<1>1. /\ out' \in Seq(Nat) /\ Len(out') = Len(out) + Len(bytes) /\ Run(out', 0)
      /\ got' = <<>> /\ read' \in {"idle", "write"}
  BY Returns
<1>2. want \in Nat /\ Len(out') \in Nat
  BY <1>1, Sizes DEF ClientInv, ReadTypes
<1>3. got' \in Seq(Nat) /\ Len(got') = 0 /\ Len(got') =< want'
  BY <1>1, <1>2
<1>4. ReadTypes'
  BY <1>1, <1>3 DEF ClientInv, ReadTypes
<1>5. Reading'
  BY <1>1 DEF Reading
<1>6. /\ Len(out') + Len(got') = Len(out) + Len(bytes)
      /\ Len(out') + Len(got') + Len(dataBuffer') = Len(out) + Len(bytes) + Len(dataBuffer')
  BY <1>1, <1>2, <1>3
<1>7. Run(got', Len(out'))
  BY <1>1, EmptyRun
<1>8. InOrder'
  BY <1>1, <1>6, <1>7 DEF InOrder
<1> QED
  BY <1>4, <1>5, <1>6, <1>8 DEF ClientInv, Held

\* Read returns io.EOF, or goes on to the last loop, with nothing in hand and
\* nothing in the ring buffer.
LEMMA NothingInHand ==
    ASSUME ClientInv, read \in {"drain", "first"}, got = <<>>,
           \/ Client!ReturnEOF
           \/ read' = "more" /\ UNCHANGED <<out, got>>,
           UNCHANGED <<incoming, pushed, want, dataBuffer>>,
           clientOrderedRecvQueue' \in Seq(Seq(Nat)),
           Len(clientOrderedRecvQueue') =< OrderedRecvQueueSize,
           Runs(clientOrderedRecvQueue', Len(out) + Len(got) + Len(dataBuffer), pushed)
    PROVE  ClientInv' /\ Held' = Held
<1>1. /\ out' = out /\ got' = got /\ read' \in {"ended", "more"}
  BY DEF Client!ReturnEOF
<1>2. dataBuffer = <<>> /\ Len(got) < want
  BY DEF ClientInv, Reading
<1>3. ReadTypes'
  BY <1>1 DEF ClientInv, ReadTypes
<1>4. Reading'
  BY <1>1, <1>2 DEF Reading
<1>5. InOrder'
  BY <1>1 DEF ClientInv, InOrder
<1>6. Held' = Held
  BY <1>1 DEF Held
<1> QED
  BY <1>3, <1>4, <1>5, <1>6 DEF ClientInv

\* Read takes a block: b takes what fits, the ring buffer the rest.
LEMMA ReadBlockStep ==
    ClientInv /\ Client!ReadBlock =>
        ClientInv' /\ Held' = Held + Len(Head(clientOrderedRecvQueue))
<1> SUFFICES ASSUME ClientInv, Client!ReadBlock
             PROVE  ClientInv' /\ Held' = Held + Len(Head(clientOrderedRecvQueue))
  OBVIOUS
<1> DEFINE q == clientOrderedRecvQueue
           blk == Head(q)
           f == Client!Fits(blk)
           piece == SubSeq(blk, 1, f)
           bytes == got \o piece
           from == Len(out) + Len(got)
<1>0. ReadTypes /\ Reading /\ InOrder
  BY DEF ClientInv
<1>1. /\ q \in Seq(Seq(Nat)) /\ q # <<>> /\ q' = Tail(q)
      /\ read \in {"drain", "first", "more"}
      /\ UNCHANGED <<incoming, pushed, want>>
      /\ dataBuffer' = Client!LeftOver(blk)
      /\ \/ Client!ReturnEOF /\ blk = <<>> /\ read = "first"
         \/ Client!ReturnData(bytes)
         \/ /\ got' = bytes /\ out' = out /\ Len(bytes) # want
            /\ read' \in {"drain", "more"}
  BY <1>0 DEF Client!ReadBlock, Client!AtShutdown, Client!serverVars, ReadTypes
<1>2. /\ dataBuffer = <<>> /\ Len(dataBuffer) = 0 /\ Len(got) < want
      /\ want \in Nat /\ Len(got) \in Nat
      /\ Len(out) \in Nat /\ out \in Seq(Nat) /\ got \in Seq(Nat)
  BY <1>0, <1>1, Sizes DEF ReadTypes, Reading
<1>3. /\ blk \in Seq(Nat) /\ Len(blk) \in Nat
      /\ q' \in Seq(Seq(Nat)) /\ Len(q') =< OrderedRecvQueueSize
  <2>1. blk \in Seq(Nat) /\ q' \in Seq(Seq(Nat)) /\ Len(q') = Len(q) - 1
    BY <1>1, HeadTailProperties
  <2>2. Len(q) \in Nat /\ Len(q) =< OrderedRecvQueueSize
    BY <1>0 DEF ReadTypes
  <2> QED
    BY <2>1, <2>2, Sizes
<1>4. /\ from \in Nat /\ Run(blk, from) /\ Runs(q', from + Len(blk), pushed)
  <2>1. from \in Nat /\ from + Len(dataBuffer) = from
    BY <1>2
  <2>2. Runs(q, from + Len(dataBuffer), pushed)
    BY <1>0 DEF InOrder
  <2> QED
    BY <1>1, <2>1, <2>2, RunsTail
<1>5. Held = from
  BY <1>2 DEF Held
<1>6. /\ f \in Nat /\ f =< Len(blk) /\ f =< want - Len(got)
      /\ f < Len(blk) => f = want - Len(got)
  BY <1>2, <1>3 DEF Client!Fits
<1>7. dataBuffer' = IF f < Len(blk) THEN SubSeq(blk, f + 1, Len(blk)) ELSE << >>
  BY <1>1, <1>2 DEF Client!LeftOver
<1> HIDE DEF f, blk
<1>8. piece \in Seq(Nat) /\ Len(piece) = f /\ Run(piece, from)
  <2> HIDE DEF from
  <2>1. /\ SubSeq(blk, 0 + 1, f) \in Seq(Nat)
        /\ Len(SubSeq(blk, 0 + 1, f)) = f - 0
        /\ Run(SubSeq(blk, 0 + 1, f), from + 0)
    <3>1. /\ blk \in Seq(Nat) /\ from \in Nat /\ Run(blk, from)
          /\ 0 \in Nat /\ f \in Nat /\ 0 =< f /\ f =< Len(blk)
      BY <1>3, <1>4, <1>6
    <3> QED
      BY <3>1, RunSub
  <2>2. from + 0 = from /\ f - 0 = f /\ 0 + 1 = 1
    BY <1>4, <1>6
  <2> QED
    BY <2>1, <2>2
<1> HIDE DEF piece
<1>9. bytes \in Seq(Nat) /\ Len(bytes) = Len(got) + f /\ Run(bytes, Len(out))
  BY <1>0, <1>2, <1>8, RunConcat DEF InOrder
<1>10. /\ dataBuffer' \in Seq(Nat) /\ Len(dataBuffer') = Len(blk) - f
      /\ Run(dataBuffer', from + f)
  <2>1. CASE f < Len(blk)
    BY <1>3, <1>4, <1>6, <1>7, <2>1, RunSub
  <2>2. CASE f = Len(blk)
    BY <1>3, <1>7, <2>2, EmptyRun
  <2> QED
    BY <1>3, <1>6, <2>1, <2>2
<1> HIDE DEF bytes
<1>11. CASE Client!ReturnEOF /\ blk = <<>> /\ read = "first"
  <2>1. got = <<>> /\ Len(blk) = 0 /\ Len(got) = 0
    BY <1>0, <1>11 DEF Reading
  <2>2. f = 0
    BY <1>3, <1>6, <2>1
  <2>3. UNCHANGED dataBuffer
    BY <1>2, <1>7, <2>1, <2>2
  <2>4. from + Len(blk) = Len(out) + Len(got) + Len(dataBuffer)
    BY <1>2, <2>1
  <2> HIDE DEF from
  <2>5. Runs(q', Len(out) + Len(got) + Len(dataBuffer), pushed)
    BY <1>4, <2>4
  <2>6. ClientInv' /\ Held' = Held
    BY <1>1, <1>3, <1>11, <2>1, <2>3, <2>5, NothingInHand
  <2>7. Held = Held + Len(blk)
    BY <1>4, <1>5, <2>1
  <2> QED
    BY <2>6, <2>7 DEF blk
<1>12. CASE Client!ReturnData(bytes)
  <2>1. /\ Len(out) + Len(bytes) = from + f
        /\ Len(out) + Len(bytes) + Len(dataBuffer') = from + Len(blk)
    BY <1>2, <1>3, <1>6, <1>9, <1>10
  <2> HIDE DEF from
  <2>2. /\ Run(dataBuffer', Len(out) + Len(bytes))
        /\ Runs(q', Len(out) + Len(bytes) + Len(dataBuffer'), pushed)
    BY <1>4, <1>10, <2>1
  <2>3. ClientInv' /\ Held' = Len(out) + Len(bytes) + Len(dataBuffer')
    BY <1>1, <1>3, <1>9, <1>10, <1>12, <2>2, ReturnsRest
  <2> QED
    BY <1>5, <2>1, <2>3 DEF blk
<1>13. CASE /\ got' = bytes /\ out' = out /\ Len(bytes) # want
            /\ read' \in {"drain", "more"}
  <2>1. f = Len(blk) /\ Len(bytes) < want
    <3>1. Len(bytes) # want /\ Len(bytes) = Len(got) + f
      BY <1>9, <1>13
    <3>2. f # want - Len(got)
      BY <1>2, <1>6, <3>1
    <3>3. f = Len(blk)
      BY <1>3, <1>6, <3>2
    <3>4. Len(got) + f < want
      BY <1>2, <1>6, <3>2
    <3> QED
      BY <3>1, <3>3, <3>4
  <2>2. dataBuffer' = <<>> /\ Len(dataBuffer') = 0
    BY <1>7, <2>1, <1>3
  <2>3. ReadTypes'
    BY <1>0, <1>1, <1>2, <1>3, <1>9, <1>10, <1>13, <2>1 DEF ReadTypes
  <2>4. Reading'
    BY <1>1, <1>13, <2>1, <2>2 DEF Reading
  <2>5. /\ Len(out') + Len(got') + Len(dataBuffer') = from + Len(blk)
        /\ Len(out') + Len(got') = from + f
    <3>1. Len(got') = Len(got) + f /\ Len(out') = Len(out)
      BY <1>9, <1>13
    <3> QED
      BY <1>2, <1>3, <1>6, <2>1, <2>2, <3>1
  <2> HIDE DEF from
  <2>6. /\ Run(out', 0) /\ Run(got', Len(out'))
        /\ Run(dataBuffer', Len(out') + Len(got'))
        /\ Runs(q', Len(out') + Len(got') + Len(dataBuffer'), pushed')
    BY <1>0, <1>1, <1>4, <1>9, <1>10, <1>13, <2>5 DEF InOrder
  <2>7. InOrder'
    BY <2>6 DEF InOrder
  <2>8. Held' = Held + Len(blk)
    BY <1>5, <2>5 DEF Held
  <2> QED
    BY <2>3, <2>4, <2>7, <2>8 DEF ClientInv, blk
<1> QED
  BY <1>1, <1>11, <1>12, <1>13

\* Read ends without another block.
LEMMA ReadEndsStep ==
    ClientInv /\ (Client!Drained \/ Client!FirstEnds \/ Client!MoreEnds) =>
        ClientInv' /\ Held' = Held
<1> SUFFICES ASSUME ClientInv, Client!Drained \/ Client!FirstEnds \/ Client!MoreEnds
             PROVE  ClientInv' /\ Held' = Held
  OBVIOUS
<1>0. ReadTypes /\ Reading /\ InOrder
  BY DEF ClientInv
<1>1. /\ UNCHANGED <<incoming, pushed, want, dataBuffer, clientOrderedRecvQueue>>
      /\ \/ read = "drain" /\ got # <<>> /\ Client!ReturnData(got)
         \/ read = "drain" /\ got = <<>> /\ Client!ReturnEOF
         \/ read = "first" /\ Client!ReturnEOF
         \/ read = "first" /\ read' = "more" /\ UNCHANGED <<out, got>>
         \/ read = "more" /\ Client!ReturnData(got)
  BY DEF Client!Drained, Client!FirstEnds, Client!MoreEnds, Client!besidesResult,
     Client!serverVars
<1>2. /\ clientOrderedRecvQueue' \in Seq(Seq(Nat))
      /\ Len(clientOrderedRecvQueue') =< OrderedRecvQueueSize
      /\ dataBuffer' \in Seq(Nat) /\ got \in Seq(Nat)
  BY <1>0, <1>1 DEF ReadTypes
<1>3. /\ Run(got, Len(out)) /\ Run(dataBuffer', Len(out) + Len(got))
      /\ Runs(clientOrderedRecvQueue', Len(out) + Len(got) + Len(dataBuffer'), pushed)
      /\ Runs(clientOrderedRecvQueue', Len(out) + Len(got) + Len(dataBuffer), pushed)
  BY <1>0, <1>1 DEF InOrder
<1>4. CASE Client!ReturnData(got)
  <2>1. ClientInv' /\ Held' = Len(out) + Len(got) + Len(dataBuffer')
    BY <1>1, <1>2, <1>3, <1>4, ReturnsRest
  <2> QED
    BY <1>1, <2>1 DEF Held
<1>5. CASE /\ read \in {"drain", "first"} /\ got = <<>>
           /\ Client!ReturnEOF \/ (read' = "more" /\ UNCHANGED <<out, got>>)
  BY <1>1, <1>2, <1>3, <1>5, NothingInHand
<1>6. read = "first" => got = <<>>
  BY <1>0 DEF Reading
<1> QED
  BY <1>1, <1>4, <1>5, <1>6

\* The steps of the client that are not a Read's.
OtherClientStep ==
    \/ Client!ReaderEOF \/ Client!StartWrite \/ Client!WriteData \/ Client!WriterEOF
    \/ \E c \in Client!Relays : Client!AtApplication(c) /\ Client!Fail(c)
    \/ \E c \in Client!Closers : Client!CloseStep(c)
    \/ Client!Killed

LEMMA OtherClientStepKeeps ==
    OtherClientStep => UNCHANGED <<incoming, pushed, clientOrderedRecvQueue, dataBuffer,
                                   out, read, want, got>>
  BY DEF OtherClientStep, Client!ReaderEOF, Client!StartWrite, Client!WriteData,
     Client!WriterEOF, Client!Fail, Client!CloseStep, Client!Close, Client!CloseSends,
     Client!CloseChannels, Client!Killed, Client!serverVars, Client!readVars,
     Client!resultVars

LEMMA ClientSteps ==
    Client!Step \/ Client!Killed \/ (\E c \in Client!Relays : Client!AppFails(c)) =>
        \/ Client!Push
        \/ \E n \in BufSizes : Client!StartRead(n)
        \/ Client!ReadBlock
        \/ Client!Drained \/ Client!FirstEnds \/ Client!MoreEnds
        \/ OtherClientStep
  BY DEF Client!Step, Client!Reader, Client!ReadStep, OtherClientStep, Client!RelayFails,
     Client!AppFails

LEMMA ClientInvStep ==
    ASSUME ClientInv,
           Client!Step \/ Client!Killed \/ \E c \in Client!Relays : Client!AppFails(c)
    PROVE  ClientInv'
  BY ClientSteps, PushStep, StartReadStep, ReadBlockStep, ReadEndsStep,
     OtherClientStepKeeps, ReadUntouched

-----------------------------------------------------------------------------
(* The rest of the client's state *)

\* Its types; a block that Write has begun to send is within the bound.
ControlTypes ==
    /\ {queueClosed, clientCtxDone, clientClosed} \subseteq BOOLEAN
    /\ {readCtx, waits} \subseteq {"own", "expired"}
    /\ writer \in {"idle", "send", "ended"}
    /\ writes \in 0 .. MaxWrites
    /\ writer = "send" => writes < MaxWrites
    /\ closing \in [Client!Closers -> {"no", "deadline", "send", "channels", "yes"}]

LEMMA WritesBound == MaxWrites \in Nat
  BY ClientAssumption, Zenon

LEMMA ControlInit == Client!Init => ControlTypes
<1> SUFFICES ASSUME Client!Init PROVE ControlTypes
  OBVIOUS
<1>1. {queueClosed, clientCtxDone, clientClosed} \subseteq BOOLEAN
  BY DEF Client!Init
<1>2. writes \in 0 .. MaxWrites
  BY WritesBound DEF Client!Init
<1> QED
  BY <1>1, <1>2 DEF Client!Init, ControlTypes

\* What a step of the client puts on sendQueue is one of its blocks.
LEMMA ClientSends ==
    ASSUME coming \in Seq(ClientBlocks), NEW blk \in ClientBlocks,
           coming' = coming \/ coming' = Append(coming, blk)
    PROVE  coming' \in Seq(ClientBlocks)
  BY AppendProperties

LEMMA ControlStep ==
    ASSUME ControlTypes, coming \in Seq(ClientBlocks),
           Client!Step \/ Client!Killed \/ \E c \in Client!Relays : Client!AppFails(c)
    PROVE  ControlTypes' /\ coming' \in Seq(ClientBlocks)
<1> USE DEF Client!serverVars, Client!ctxVars, Client!resultVars, Client!readVars,
            Client!writeVars, Client!endVars
<1>1. ASSUME UNCHANGED <<queueClosed, clientCtxDone, clientClosed, readCtx, writer,
                         writes, closing, coming>>, waits' \in {waits, readCtx}
      PROVE  ControlTypes' /\ coming' \in Seq(ClientBlocks)
  BY <1>1 DEF ControlTypes
<1>2. CASE Client!Push
  BY <1>1, <1>2 DEF Client!Push
<1>3. ASSUME NEW n \in BufSizes, Client!StartRead(n)
      PROVE  ControlTypes' /\ coming' \in Seq(ClientBlocks)
  BY <1>1, <1>3 DEF Client!StartRead
<1>4. CASE Client!ReadBlock
  <2>1. clientClosed' \in BOOLEAN
    BY <1>4 DEF Client!ReadBlock
  <2> QED
    BY <1>4, <2>1 DEF Client!ReadBlock, ControlTypes
<1>5. CASE Client!Drained \/ Client!FirstEnds \/ Client!MoreEnds
  BY <1>1, <1>5 DEF Client!Drained, Client!FirstEnds, Client!MoreEnds,
     Client!besidesResult
<1>6. CASE Client!ReaderEOF \/ Client!WriterEOF
  <2>1. coming' \in Seq(ClientBlocks)
    BY <1>6, ClientSends DEF Client!ReaderEOF, Client!WriterEOF, ClientBlocks
  <2> QED
    BY <1>6, <2>1 DEF Client!ReaderEOF, Client!WriterEOF, ControlTypes
<1>7. CASE Client!StartWrite
  BY <1>7 DEF Client!StartWrite, ControlTypes
<1>8. CASE Client!WriteData
  <2>1. coming' \in Seq(ClientBlocks)
    BY <1>8, ClientSends DEF Client!WriteData, ClientBlocks
  <2>2. writes' \in 0 .. MaxWrites
    BY <1>8, WritesBound DEF Client!WriteData, ControlTypes
  <2> QED
    BY <1>8, <2>1, <2>2 DEF Client!WriteData, ControlTypes
<1>9. ASSUME NEW c \in Client!Relays, Client!Fail(c)
      PROVE  ControlTypes' /\ coming' \in Seq(ClientBlocks)
  BY <1>9 DEF Client!Fail, ControlTypes
<1>10. ASSUME NEW c \in Client!Closers, Client!Close(c)
       PROVE  ControlTypes' /\ coming' \in Seq(ClientBlocks)
  <2>1. clientCtxDone' \in BOOLEAN
    BY <1>10 DEF Client!Close
  <2> QED
    BY <1>10, <2>1 DEF Client!Close, ControlTypes
<1>11. ASSUME NEW c \in Client!Closers, Client!CloseSends(c)
       PROVE  ControlTypes' /\ coming' \in Seq(ClientBlocks)
  <2>1. coming' \in Seq(ClientBlocks)
    BY <1>11, ClientSends DEF Client!CloseSends, ClientBlocks
  <2> QED
    BY <1>11, <2>1 DEF Client!CloseSends, ControlTypes
<1>12. ASSUME NEW c \in Client!Closers, Client!CloseChannels(c)
       PROVE  ControlTypes' /\ coming' \in Seq(ClientBlocks)
  BY <1>12 DEF Client!CloseChannels, ControlTypes
<1>13. CASE Client!Killed
  BY <1>13 DEF Client!Killed, ControlTypes
<1>14. CASE OtherClientStep
  BY <1>6, <1>7, <1>8, <1>9, <1>10, <1>11, <1>12, <1>13, <1>14
  DEF OtherClientStep, Client!CloseStep
<1> QED
  BY <1>2, <1>3, <1>4, <1>5, <1>14, ClientSteps

-----------------------------------------------------------------------------
(* Where the server's blocks are *)

\* How many of them OrderedRelay has put on the queue, and Read has taken.
PushedBlocks == Len(sendQueue) - Len(incoming)
TakenBlocks == PushedBlocks - Len(clientOrderedRecvQueue)

\* The blocks on sendQueue are taken, in the queue or still to come, in this
\* order, and Read has all the bytes of those that it has taken.
Positions ==
    /\ TakenBlocks \in Nat
    /\ \A i \in 1 .. Len(incoming) :
         incoming[i] = BlockLength(sendQueue, PushedBlocks + i)
    /\ \A i \in 1 .. Len(clientOrderedRecvQueue) :
         Len(clientOrderedRecvQueue[i]) = BlockLength(sendQueue, TakenBlocks + i)
    /\ Held = Bytes[DataBlocks(sendQueue, TakenBlocks)]

\* Read has taken the server's Disconnect.
EndTaken == \E j \in 1 .. TakenBlocks : sendQueue[j] # "data"

LEMMA PositionsTypes ==
    ASSUME TypeOK, ClientInv, Positions
    PROVE  /\ Len(sendQueue) \in Nat /\ Len(incoming) \in Nat
           /\ Len(clientOrderedRecvQueue) \in Nat
           /\ TakenBlocks \in Nat
           /\ PushedBlocks = TakenBlocks + Len(clientOrderedRecvQueue)
           /\ Len(sendQueue) = PushedBlocks + Len(incoming)
<1>1. /\ Len(sendQueue) \in Nat /\ Len(incoming) \in Nat
      /\ Len(clientOrderedRecvQueue) \in Nat
  BY DEF TypeOK, ClientInv, ReadTypes
<1> QED
  BY <1>1 DEF Positions, PushedBlocks, TakenBlocks

LEMMA PositionsInit ==
    ASSUME Init, Client!Init PROVE Positions
<1>1. Len(sendQueue) = 0 /\ Len(incoming) = 0 /\ Len(clientOrderedRecvQueue) = 0
  BY DEF Init, Client!Init
<1>2. PushedBlocks = 0 /\ TakenBlocks = 0
  BY <1>1 DEF PushedBlocks, TakenBlocks
<1>3. Held = 0
  BY DEF Client!Init, Held
<1>4. DataBlocks(sendQueue, 0) = 0
  BY FS_EmptySet DEF DataBlocks
<1> QED
  BY <1>1, <1>2, <1>3, <1>4, BytesIncrease DEF Positions

LEMMA PositionsUntouched ==
    ASSUME Positions, UNCHANGED <<sendQueue, incoming, clientOrderedRecvQueue>>,
           Held' = Held
    PROVE  Positions' /\ TakenBlocks' = TakenBlocks
<1>1. PushedBlocks' = PushedBlocks /\ TakenBlocks' = TakenBlocks
  BY DEF PushedBlocks, TakenBlocks
<1> QED
  BY <1>1 DEF Positions

\* A block goes from the stream to the queue.
LEMMA PositionsPush ==
    ASSUME TypeOK, ClientInv, Positions, Client!Push, UNCHANGED sendQueue
    PROVE  Positions' /\ TakenBlocks' = TakenBlocks
<1> DEFINE q == clientOrderedRecvQueue
           blk == [i \in 1 .. Head(incoming) |-> pushed + i]
<1>1. /\ incoming \in Seq(Nat) /\ incoming # <<>> /\ incoming' = Tail(incoming)
      /\ pushed \in Nat /\ q \in Seq(Seq(Nat)) /\ q' = Append(q, blk)
  BY DEF Client!Push, ClientInv, ReadTypes
<1>2. /\ Head(incoming) = incoming[1] /\ Head(incoming) \in Nat
      /\ Len(incoming) \in Nat \ {0} /\ Len(incoming') = Len(incoming) - 1
      /\ \A i \in 1 .. Len(incoming') : incoming'[i] = incoming[i + 1]
  BY <1>1
<1>3. blk \in Seq(Nat) /\ Len(blk) = Head(incoming)
  BY <1>1, <1>2, NewBlock
<1> HIDE DEF blk
<1>4. /\ Len(q') = Len(q) + 1 /\ q'[Len(q) + 1] = blk
      /\ \A i \in 1 .. Len(q) : q'[i] = q[i]
  BY <1>1, <1>3, AppendProperties
<1>5. /\ PushedBlocks \in Nat /\ TakenBlocks \in Nat /\ Len(q) \in Nat
      /\ PushedBlocks = TakenBlocks + Len(q)
  BY PositionsTypes
<1>6. PushedBlocks' = PushedBlocks + 1 /\ TakenBlocks' = TakenBlocks
  <2>1. Len(sendQueue) \in Nat /\ Len(incoming) \in Nat /\ Len(sendQueue') = Len(sendQueue)
    BY PositionsTypes
  <2> QED
    BY <1>2, <1>4, <1>5, <2>1 DEF PushedBlocks, TakenBlocks
<1>7. ASSUME NEW i \in 1 .. Len(incoming')
      PROVE  incoming'[i] = BlockLength(sendQueue', PushedBlocks' + i)
  <2>0. /\ Len(incoming) \in Nat /\ Len(incoming') = Len(incoming) - 1
        /\ PushedBlocks \in Nat /\ PushedBlocks' = PushedBlocks + 1
    BY <1>2, <1>5, <1>6
  <2>1. i + 1 \in 1 .. Len(incoming) /\ PushedBlocks' + i = PushedBlocks + (i + 1)
    BY <2>0
  <2> QED
    BY <1>2, <2>1 DEF Positions
<1>8. ASSUME NEW i \in 1 .. Len(q')
      PROVE  Len(q'[i]) = BlockLength(sendQueue', TakenBlocks' + i)
  <2>1. CASE i \in 1 .. Len(q)
    BY <1>4, <1>6, <2>1 DEF Positions
  <2>2. CASE i = Len(q) + 1
    <3>1. 1 \in 1 .. Len(incoming) /\ TakenBlocks' + i = PushedBlocks + 1
      BY <1>2, <1>5, <1>6, <2>2
    <3>2. incoming[1] = BlockLength(sendQueue, PushedBlocks + 1)
      BY <3>1 DEF Positions
    <3> QED
      BY <1>2, <1>3, <1>4, <2>2, <3>1, <3>2
  <2> QED
    BY <1>4, <1>5, <2>1, <2>2
<1>9. Held' = Held
  BY PushStep
<1> QED
  BY <1>5, <1>6, <1>7, <1>8, <1>9 DEF Positions

\* Read takes a block; an empty one is the server's Disconnect.
LEMMA PositionsTake ==
    ASSUME TypeOK, Counted, ClientInv, Positions, Client!ReadBlock, UNCHANGED sendQueue
    PROVE  /\ Positions' /\ TakenBlocks' = TakenBlocks + 1
           /\ Head(clientOrderedRecvQueue) = <<>> => EndTaken'
<1> DEFINE q == clientOrderedRecvQueue
<1>1. /\ q \in Seq(Seq(Nat)) /\ q # <<>> /\ q' = Tail(q) /\ incoming' = incoming
  BY DEF Client!ReadBlock, ClientInv, ReadTypes, Client!serverVars
<1>2. /\ Head(q) = q[1] /\ Len(q) \in Nat \ {0} /\ Len(q') = Len(q) - 1
      /\ \A i \in 1 .. Len(q') : q'[i] = q[i + 1]
  BY <1>1
<1>3. /\ PushedBlocks \in Nat /\ TakenBlocks \in Nat
      /\ PushedBlocks = TakenBlocks + Len(q)
      /\ Len(sendQueue) \in Nat /\ TakenBlocks + 1 =< Len(sendQueue)
  BY <1>2, PositionsTypes
<1>4. PushedBlocks' = PushedBlocks /\ TakenBlocks' = TakenBlocks + 1
  BY <1>1, <1>2, <1>3 DEF PushedBlocks, TakenBlocks
<1>5. ASSUME NEW i \in 1 .. Len(q')
      PROVE  Len(q'[i]) = BlockLength(sendQueue', TakenBlocks' + i)
  <2>1. i + 1 \in 1 .. Len(q) /\ TakenBlocks' + i = TakenBlocks + (i + 1)
    BY <1>2, <1>3, <1>4
  <2> QED
    BY <1>2, <2>1 DEF Positions
<1>6. Len(Head(q)) = BlockLength(sendQueue, TakenBlocks + 1)
  <2>1. 1 \in 1 .. Len(q)
    BY <1>2
  <2> QED
    BY <1>2, <2>1 DEF Positions
<1>7. /\ Bytes[DataBlocks(sendQueue, TakenBlocks + 1)] =
           Bytes[DataBlocks(sendQueue, TakenBlocks)] + BlockLength(sendQueue, TakenBlocks + 1)
      /\ BlockLength(sendQueue, TakenBlocks + 1) = 0 <=> sendQueue[TakenBlocks + 1] # "data"
  <2>1. TakenBlocks + 1 \in 0 .. Len(sendQueue)
    BY <1>3
  <2>2. DataBlocks(sendQueue, TakenBlocks + 1) \in 0 .. TargetData
    BY <2>1, WithinBytes
  <2>3. DataBlocks(sendQueue, TakenBlocks + 1) =< TargetData
    BY <2>2, TargetAssumption
  <2> QED
    BY <1>3, <2>3, LengthOfBlock
<1>8. Held' = Held + Len(Head(q))
  BY ReadBlockStep
<1>9. Held' = Bytes[DataBlocks(sendQueue', TakenBlocks')]
  BY <1>4, <1>6, <1>7, <1>8 DEF Positions
<1>10. Positions'
  BY <1>1, <1>3, <1>4, <1>5, <1>9 DEF Positions
<1>11. ASSUME Head(q) = <<>> PROVE EndTaken'
  <2>1. Len(Head(q)) = 0
    BY <1>11
  <2>2. sendQueue[TakenBlocks + 1] # "data"
    BY <1>6, <1>7, <2>1
  <2>3. TakenBlocks + 1 \in 1 .. TakenBlocks'
    BY <1>3, <1>4
  <2> QED
    BY <2>2, <2>3 DEF EndTaken
<1> QED
  BY <1>4, <1>10, <1>11

\* The server puts a block on sendQueue.
LEMMA PositionsServer ==
    ASSUME TypeOK, ServerInv, Counted, ClientInv, Positions, Step \/ Killed, ToClient,
           UNCHANGED clientSide
    PROVE  Positions' /\ (EndTaken => EndTaken')
<1>0. incoming \in Seq(Nat) /\ UNCHANGED <<clientOrderedRecvQueue, Held>>
  BY DEF ClientInv, ReadTypes, clientSide, Held
<1>1. CASE sendQueue' = sendQueue /\ incoming' = incoming
  <2>1. Positions' /\ TakenBlocks' = TakenBlocks
    BY <1>0, <1>1, PositionsUntouched
  <2> QED
    BY <1>1, <2>1 DEF EndTaken
<1>2. CASE /\ Len(sendQueue') = Len(sendQueue) + 1
           /\ \A i \in 1 .. Len(sendQueue) : sendQueue'[i] = sendQueue[i]
           /\ incoming' = Append(incoming, BlockLength(sendQueue', Len(sendQueue) + 1))
           /\ incoming' \in Seq(Nat)
  <2> DEFINE length == BlockLength(sendQueue', Len(sendQueue) + 1)
  <2>1. /\ Len(incoming') = Len(incoming) + 1 /\ incoming'[Len(incoming) + 1] = length
        /\ \A i \in 1 .. Len(incoming) : incoming'[i] = incoming[i]
    <3> HIDE DEF length
    <3> QED
      BY <1>0, <1>2 DEF length
  <2>2. /\ Len(sendQueue) \in Nat /\ Len(incoming) \in Nat
        /\ Len(clientOrderedRecvQueue) \in Nat /\ TakenBlocks \in Nat
        /\ PushedBlocks = TakenBlocks + Len(clientOrderedRecvQueue)
        /\ Len(sendQueue) = PushedBlocks + Len(incoming)
    BY PositionsTypes
  <2>3. PushedBlocks' = PushedBlocks /\ TakenBlocks' = TakenBlocks
    BY <1>0, <1>2, <2>1, <2>2 DEF PushedBlocks, TakenBlocks
  <2>4. ASSUME NEW i \in 0 .. Len(sendQueue)
        PROVE  DataBlocks(sendQueue', i) = DataBlocks(sendQueue, i)
    <3>1. i \in Nat /\ \A j \in 1 .. i : sendQueue'[j] = sendQueue[j]
      BY <1>2, <2>2
    <3> QED
      BY <3>1, DataBlocksSame
  <2>5. ASSUME NEW i \in 1 .. Len(sendQueue)
        PROVE  BlockLength(sendQueue', i) = BlockLength(sendQueue, i)
    <3>1. i \in 0 .. Len(sendQueue) /\ i - 1 \in 0 .. Len(sendQueue)
      BY <2>2
    <3> QED
      BY <2>4, <3>1 DEF BlockLength
  <2>6. ASSUME NEW i \in 1 .. Len(incoming')
        PROVE  incoming'[i] = BlockLength(sendQueue', PushedBlocks' + i)
    <3>1. CASE i \in 1 .. Len(incoming)
      <4>1. PushedBlocks + i \in 1 .. Len(sendQueue)
        BY <2>2, <3>1
      <4> QED
        BY <2>1, <2>3, <2>5, <3>1, <4>1 DEF Positions
    <3>2. CASE i = Len(incoming) + 1
      <4>1. PushedBlocks' + i = Len(sendQueue) + 1
        BY <2>2, <2>3, <3>2
      <4> QED
        BY <2>1, <3>2, <4>1
    <3> QED
      BY <2>1, <2>2, <3>1, <3>2
  <2>7. ASSUME NEW i \in 1 .. Len(clientOrderedRecvQueue')
        PROVE  Len(clientOrderedRecvQueue'[i]) = BlockLength(sendQueue', TakenBlocks' + i)
    <3>1. i \in 1 .. Len(clientOrderedRecvQueue) /\ TakenBlocks + i \in 1 .. Len(sendQueue)
      BY <1>0, <2>2
    <3> QED
      BY <1>0, <2>3, <2>5, <3>1 DEF Positions
  <2>8. Held' = Bytes[DataBlocks(sendQueue', TakenBlocks')]
    <3>1. TakenBlocks \in 0 .. Len(sendQueue)
      BY <2>2
    <3> QED
      BY <1>0, <2>3, <2>4, <3>1 DEF Positions
  <2>9. Positions'
    BY <2>2, <2>3, <2>6, <2>7, <2>8 DEF Positions
  <2>10. EndTaken => EndTaken'
    <3>1. \A j \in 1 .. TakenBlocks : j \in 1 .. Len(sendQueue)
      BY <2>2
    <3> QED
      BY <1>2, <2>3, <3>1 DEF EndTaken
  <2> QED
    BY <2>9, <2>10
<1> QED
  BY <1>0, <1>1, <1>2, ComesToClient

-----------------------------------------------------------------------------
(* How a Read comes to its io.EOF *)

\* This side closes the connection, or has given up on a hole.
Excused == clientCtxDone \/ closing["writer"] # "no" \/ closing["biRelay"] # "no"

\* The reader failed at the application and does not read again.
ReaderFailed == read = "write" /\ closing["reader"] # "no"

\* An expired deadline, a closed connection and the end of the reader have a
\* reason: Read took the server's Disconnect, the reader failed, or this side
\* is excused.
Ends ==
    /\ closing["reader"] # "no" => read \in {"write", "ended"}
    /\ closing["reader"] \in {"deadline", "send", "channels"} => read = "write"
    /\ readCtx = "expired" => Excused \/ ReaderFailed
    /\ waits = "expired" => Excused
    /\ clientClosed => Excused \/ ReaderFailed \/ EndTaken
    /\ read \in {"drain", "ended"} => Excused \/ EndTaken

LEMMA EndsInit == Client!Init => Ends
  BY DEF Client!Init, Ends, Client!Closers, Client!Relays

\* A step that only lets Read take more.
LEMMA EndsUntouched ==
    ASSUME Ends, EndTaken => EndTaken',
           UNCHANGED <<clientCtxDone, closing, read, readCtx, waits, clientClosed>>
    PROVE  Ends'
  BY DEF Ends, Excused, ReaderFailed

LEMMA EndsStep ==
    ASSUME ControlTypes, Ends, EndTaken => EndTaken',
           Client!ReadBlock /\ Head(clientOrderedRecvQueue) = <<>> => EndTaken',
           Client!Step \/ Client!Killed \/ \E c \in Client!Relays : Client!AppFails(c)
    PROVE  Ends'
<1> USE DEF Client!serverVars, Client!ctxVars, Client!resultVars, Client!readVars,
            Client!writeVars, Client!endVars
<1>0. /\ closing \in [Client!Closers -> {"no", "deadline", "send", "channels", "yes"}]
      /\ "reader" \in Client!Closers /\ "writer" \in Client!Closers
      /\ "biRelay" \in Client!Closers
      /\ \A c \in Client!Closers : c \in {"reader", "writer", "biRelay"}
      /\ \A c \in Client!Relays : c \in {"reader", "writer"}
  BY DEF ControlTypes, Client!Closers, Client!Relays
<1>1. CASE Client!Push
  BY <1>1, EndsUntouched DEF Client!Push
<1>2. ASSUME NEW n \in BufSizes, Client!StartRead(n) PROVE Ends'
  BY <1>2 DEF Client!StartRead, Client!ReturnData, Ends, Excused, ReaderFailed
<1>3. CASE Client!ReadBlock
  BY <1>3 DEF Client!ReadBlock, Client!AtShutdown, Client!ReturnData, Client!ReturnEOF,
     Ends, Excused, ReaderFailed
<1>4. CASE Client!Drained \/ Client!FirstEnds \/ Client!MoreEnds
  BY <1>4 DEF Client!Drained, Client!FirstEnds, Client!MoreEnds, Client!besidesResult,
     Client!ReturnData, Client!ReturnEOF, Ends, Excused, ReaderFailed
<1>5. CASE Client!StartWrite \/ Client!WriteData \/ Client!WriterEOF
  BY <1>5, EndsUntouched DEF Client!StartWrite, Client!WriteData, Client!WriterEOF
<1>6. CASE Client!ReaderEOF
  BY <1>0, <1>6 DEF Client!ReaderEOF, Ends, Excused, ReaderFailed
<1>7. ASSUME NEW c \in Client!Relays, Client!AtApplication(c), Client!Fail(c) PROVE Ends'
  BY <1>0, <1>7 DEF Client!AtApplication, Client!Fail, Ends, Excused, ReaderFailed
<1>8. ASSUME NEW c \in Client!Closers, Client!Close(c) PROVE Ends'
  BY <1>0, <1>8 DEF Client!Close, Client!CallsClose, Ends, Excused, ReaderFailed
<1>9. ASSUME NEW c \in Client!Closers, Client!CloseSends(c) PROVE Ends'
  BY <1>0, <1>9 DEF Client!CloseSends, Ends, Excused, ReaderFailed
<1>10. ASSUME NEW c \in Client!Closers, Client!CloseChannels(c) PROVE Ends'
  BY <1>0, <1>10 DEF Client!CloseChannels, Ends, Excused, ReaderFailed
<1>11. CASE Client!Killed
  BY <1>11 DEF Client!Killed, Ends, Excused, ReaderFailed
<1>12. CASE OtherClientStep
  BY <1>5, <1>6, <1>7, <1>8, <1>9, <1>10, <1>11, <1>12
  DEF OtherClientStep, Client!CloseStep
<1> QED
  BY <1>1, <1>2, <1>3, <1>4, <1>12, ClientSteps

\* Where the blocks are, and why Read ended, after a step of the client.
LEMMA DeliveryStep ==
    ASSUME TypeOK, Counted, ControlTypes, ClientInv, Positions, Ends,
           UNCHANGED sendQueue,
           Client!Step \/ Client!Killed \/ \E c \in Client!Relays : Client!AppFails(c)
    PROVE  Positions' /\ Ends'
<1>1. /\ Positions' /\ TakenBlocks' \in {TakenBlocks, TakenBlocks + 1}
      /\ Client!ReadBlock /\ Head(clientOrderedRecvQueue) = <<>> => EndTaken'
  <2>1. CASE Client!ReadBlock
    BY <2>1, PositionsTake
  <2>2. ASSUME ~ Client!ReadBlock PROVE Positions' /\ TakenBlocks' = TakenBlocks
    <3>1. CASE Client!Push
      BY <3>1, PositionsPush
    <3>2. CASE \/ \E n \in BufSizes : Client!StartRead(n)
               \/ Client!Drained \/ Client!FirstEnds \/ Client!MoreEnds
      <4>1. Held' = Held
        BY <3>2, StartReadStep, ReadEndsStep
      <4>2. UNCHANGED <<incoming, clientOrderedRecvQueue>>
        BY <3>2 DEF Client!StartRead, Client!Drained, Client!FirstEnds, Client!MoreEnds,
           Client!besidesResult, Client!serverVars
      <4> QED
        BY <4>1, <4>2, PositionsUntouched
    <3>3. CASE OtherClientStep
      <4>1. Held' = Held /\ UNCHANGED <<incoming, clientOrderedRecvQueue>>
        BY <3>3, OtherClientStepKeeps, ReadUntouched
      <4> QED
        BY <4>1, PositionsUntouched
    <3> QED
      BY <2>2, <3>1, <3>2, <3>3, ClientSteps
  <2> QED
    BY <2>1, <2>2
<1>2. EndTaken => EndTaken'
  <2>1. \A j \in 1 .. TakenBlocks : j \in 1 .. TakenBlocks'
    BY <1>1 DEF Positions
  <2> QED
    BY <2>1 DEF EndTaken
<1> QED
  BY <1>1, <1>2, EndsStep

\* What Positions and Ends are for.
LEMMA EverythingRead ==
    ASSUME TypeOK, Counted, ClientInv, Positions, Ends PROVE EOFMeansAll
<1> SUFFICES ASSUME read = "ended", ~ Excused PROVE Len(out) >= Bytes[SentBlocks]
  BY DEF EOFMeansAll, Excused
<1> DEFINE n == DataBlocks(sendQueue, TakenBlocks)
           Before == {i \in 1 .. Len(sendQueue) : \A j \in 1 .. i : sendQueue[j] = "data"}
           Data == {j \in 1 .. TakenBlocks : sendQueue[j] = "data"}
<1>1. Len(out) = Bytes[n]
  <2>1. got = <<>> /\ dataBuffer = <<>> /\ Len(out) \in Nat
    BY DEF ClientInv, Reading, ReadTypes
  <2>2. Held = Len(out)
    BY <2>1 DEF Held
  <2> QED
    BY <2>2 DEF Positions
<1>2. TakenBlocks \in Nat /\ TakenBlocks \in 0 .. Len(sendQueue) /\ Len(sendQueue) \in Nat
  BY PositionsTypes
<1>3. PICK e \in 1 .. TakenBlocks : sendQueue[e] # "data"
  BY DEF Ends, EndTaken
<1>4. Before \subseteq Data
  <2>1. ASSUME NEW i \in Before PROVE i \in Data
    <3>1. i \in 1 .. Len(sendQueue) /\ \A j \in 1 .. i : sendQueue[j] = "data"
      OBVIOUS
    <3>2. e \notin 1 .. i
      BY <1>3, <3>1
    <3>3. i \in 1 .. TakenBlocks /\ i \in 1 .. i
      BY <1>2, <1>3, <3>1, <3>2
    <3> QED
      BY <3>1, <3>3
  <2> QED
    BY <2>1
<1>5. IsFiniteSet(Data)
  BY <1>2, DataBlocksType
<1>6. /\ SentBlocks = Cardinality(Before) /\ n = Cardinality(Data)
  BY DEF SentBlocks, DataBlocks
<1>7. n \in 0 .. TargetData
  BY <1>2, WithinBytes
<1> HIDE DEF Before, Data, n
<1>8. SentBlocks \in Nat /\ SentBlocks =< n
  BY <1>4, <1>5, <1>6, FS_Subset, FS_CardinalityType
<1>9. SentBlocks \in 0 .. TargetData /\ (SentBlocks < n \/ SentBlocks = n)
  BY <1>7, <1>8, TargetAssumption
<1>10. Bytes[SentBlocks] \in Nat /\ Bytes[n] \in Nat /\ Bytes[SentBlocks] =< Bytes[n]
  BY <1>7, <1>9, BytesIncrease
<1> QED
  BY <1>1, <1>10

-----------------------------------------------------------------------------
(* Both ends *)

\* The inductive invariant.
ProxyInv ==
    /\ TypeOK /\ ServerInv /\ Counted
    /\ ControlTypes /\ ClientInv
    /\ Positions /\ Ends
    /\ FrontInv

LEMMA ProxyInvInit == ProxyInit => ProxyInv
<1> SUFFICES ASSUME ProxyInit PROVE ProxyInv
  OBVIOUS
<1>1. Counted
  <2>1. Len(sendQueue) = 0 /\ available = TargetData /\ recvRelay = "none"
    BY DEF ProxyInit, Init
  <2>2. DataBlocks(sendQueue, 0) = 0 /\ TargetData \in Nat
    BY FS_EmptySet, TargetAssumption DEF DataBlocks
  <2> QED
    BY <2>1, <2>2 DEF Counted
<1> QED
  BY <1>1, ServerInit, ControlInit, ClientInit, PositionsInit, EndsInit, FrontInit
  DEF ProxyInit, ProxyInv

\* A step that leaves the server alone.
LEMMA ServerUntouched ==
    ASSUME ProxyInv, UNCHANGED serverSide, coming' \in Seq(ClientBlocks)
    PROVE  TypeOK' /\ ServerInv' /\ Counted'
<1> USE DEF serverSide, targetVars, flagVars, relayVars, ProxyInv
<1>1. TypeOK'
  BY DEF TypeOK
<1>2. ServerInv'
  BY DEF ServerInv, Told, OneDisconnect, CancelledIsClosed, SendRelayTells
<1>3. Counted'
  BY DEF Counted
<1> QED
  BY <1>1, <1>2, <1>3

\* A step that leaves the client alone.
LEMMA ClientUntouched ==
    ASSUME ProxyInv, UNCHANGED clientSide, incoming' \in Seq(Nat)
    PROVE  ControlTypes' /\ ClientInv'
<1> USE DEF clientSide, ProxyInv, ClientInv
<1>1. ControlTypes'
  BY DEF ControlTypes
<1>2. ReadTypes' /\ Reading'
  BY DEF ReadTypes, Reading
<1>3. InOrder'
  BY DEF InOrder
<1> QED
  BY <1>1, <1>2, <1>3

LEMMA ProxyInvStep == ProxyInv /\ [ProxyNext]_proxyVars => ProxyInv'
<1> SUFFICES ASSUME ProxyInv, [ProxyNext]_proxyVars PROVE ProxyInv'
  OBVIOUS
<1>0. incoming \in Seq(Nat) /\ coming \in Seq(ClientBlocks)
  BY DEF ProxyInv, ClientInv, ReadTypes, TypeOK
<1>1. ASSUME UNCHANGED <<clientSide, incoming, serverSide>>,
             coming' \in Seq(ClientBlocks),
             Front!Negotiate \/ Front!Dial \/ UNCHANGED frontVars
      PROVE  ProxyInv'
  <2>1. Positions' /\ Ends'
    <3>1. /\ UNCHANGED <<sendQueue, incoming, clientOrderedRecvQueue, Held>>
          /\ UNCHANGED <<clientCtxDone, closing, read, readCtx, waits, clientClosed>>
      BY <1>1 DEF clientSide, serverSide, Held
    <3>2. Positions' /\ TakenBlocks' = TakenBlocks
      BY <3>1, PositionsUntouched DEF ProxyInv
    <3>3. EndTaken => EndTaken'
      BY <3>1, <3>2 DEF EndTaken
    <3> QED
      BY <3>1, <3>2, <3>3, EndsUntouched DEF ProxyInv
  <2>2. incoming' \in Seq(Nat)
    BY <1>0, <1>1
  <2> QED
    BY <1>1, <2>1, <2>2, ServerUntouched, ClientUntouched, FrontStep DEF ProxyInv
<1>2. CASE UNCHANGED proxyVars \/ Negotiate \/ ClientDials
  <2>1. coming' \in Seq(ClientBlocks)
    BY <1>0, <1>2, ClientSends DEF proxyVars, Negotiate, ClientDials, ClientBlocks
  <2> QED
    BY <1>1, <1>2, <2>1 DEF proxyVars, Negotiate, ClientDials
<1>3. CASE /\ \/ Client!Step \/ Client!Killed
              \/ \E c \in Client!Relays : Client!AppFails(c)
           /\ OnClient
  <2>1. ControlTypes' /\ ClientInv' /\ coming' \in Seq(ClientBlocks)
    BY <1>0, <1>3, ControlStep, ClientInvStep DEF ProxyInv
  <2>2. UNCHANGED <<frontVars, serverSide>> /\ UNCHANGED sendQueue
    BY <1>3 DEF OnClient, serverSide
  <2>3. Positions' /\ Ends'
    BY <1>3, <2>2, DeliveryStep DEF ProxyInv
  <2> QED
    BY <2>1, <2>2, <2>3, ServerUntouched, FrontStep DEF ProxyInv
<1>4. CASE (Step \/ Killed) /\ OnServer
  <2>1. TypeOK' /\ ServerInv' /\ Counted' /\ incoming' \in Seq(Nat)
    BY <1>0, <1>4, ServerTypeStep, ServerInvStep, CountedStep, ComesToClient
    DEF ProxyInv, OnServer
  <2>2. UNCHANGED <<frontVars, clientSide>>
    BY <1>4 DEF OnServer
  <2>3. Positions' /\ (EndTaken => EndTaken')
    BY <1>4, <2>2, PositionsServer DEF ProxyInv, OnServer
  <2>4. Ends'
    BY <2>2, <2>3, EndsUntouched DEF ProxyInv, clientSide
  <2> QED
    BY <2>1, <2>2, <2>3, <2>4, ClientUntouched, FrontStep DEF ProxyInv
<1> QED
  BY <1>2, <1>3, <1>4 DEF ProxyNext, Fault

\* What the invariant says of the properties.
LEMMA ProxyInvImplies ==
    ProxyInv => /\ ProxyTypeOK /\ Authenticated
                /\ OneDisconnect /\ CancelledIsClosed /\ ReadsInOrder /\ EOFMeansAll
<1> SUFFICES ASSUME ProxyInv
             PROVE  /\ ProxyTypeOK /\ Authenticated
                    /\ OneDisconnect /\ CancelledIsClosed /\ ReadsInOrder /\ EOFMeansAll
  OBVIOUS
<1>1. Client!TypeOK
  BY DEF ProxyInv, TypeOK, ControlTypes, ClientInv, ReadTypes, Client!TypeOK, ClientBlocks
<1>2. ProxyTypeOK /\ Authenticated
  BY <1>1 DEF ProxyInv, ProxyTypeOK, FrontInv, Stages, Admitted, Authenticated
<1>3. OneDisconnect /\ CancelledIsClosed
  BY DEF ProxyInv, ServerInv
<1>4. ReadsInOrder
  <2>1. out \in Seq(Nat) /\ \A i \in 1 .. Len(out) : out[i] = 0 + i
    BY DEF ProxyInv, ClientInv, ReadTypes, InOrder, Run
  <2>2. out \in [1 .. Len(out) -> Nat]
    BY <2>1, LenProperties
  <2>3. \A i \in 1 .. Len(out) : out[i] = i
    BY <2>1
  <2> QED
    BY <2>2, <2>3 DEF ReadsInOrder, Client!ReadsInOrder
<1>5. EOFMeansAll
  BY EverythingRead DEF ProxyInv
<1> QED
  BY <1>2, <1>3, <1>4, <1>5

LEMMA ProxyInvCorrectness == ProxySpec => []ProxyInv
  BY ProxyInvInit, ProxyInvStep, PTL DEF ProxySpec

\* The state of both ends keeps its types: queues, ring buffer and results of
\* Read stay within their sizes, and the relays run only on a connection.
THEOREM TypeCorrectness == ProxySpec => []ProxyTypeOK
  BY ProxyInvCorrectness, ProxyInvImplies, PTL

\* Nothing is dialed for an application that owes a password (client.go
\* 229-346).
THEOREM AuthenticatedCorrectness == ProxySpec => []Authenticated
  BY ProxyInvCorrectness, ProxyInvImplies, PTL

\* connect, RecvRelay and SendRelay tell the client of the end of the
\* connection once at most (outbound_connection.go 84-104).
THEOREM OneDisconnectCorrectness == ProxySpec => []OneDisconnect
  BY ProxyInvCorrectness, ProxyInvImplies, PTL

\* A context that the connection's own relays cancelled belongs to a closed
\* TCP connection.
THEOREM CancelledIsClosedCorrectness == ProxySpec => []CancelledIsClosed
  BY ProxyInvCorrectness, ProxyInvImplies, PTL

\* Read returns the server's bytes in order, none twice and none left out, for
\* all lengths of blocks and buffers (inbound_connection.go 65-181).
THEOREM ReadsInOrderCorrectness == ProxySpec => []ReadsInOrder
  BY ProxyInvCorrectness, ProxyInvImplies, PTL

\* io.EOF means that everything the server sent before its Disconnect was
\* read, unless this side closed the connection or gave up on a hole
\* (inbound_connection.go 77-137).
THEOREM EOFMeansAllCorrectness == ProxySpec => []EOFMeansAll
  BY ProxyInvCorrectness, ProxyInvImplies, PTL
==============================================================================
