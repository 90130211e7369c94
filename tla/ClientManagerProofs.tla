------------------------- MODULE ClientManagerProofs -------------------------
(***************************************************************************)
(* Proofs about ClientManager for every tunnelNum, every list of           *)
(* endpoints, every set of reachable ones and any number of failures.      *)
(***************************************************************************)
EXTENDS ClientManager, TLAPS

LEMMA ModRange == \A a \in Nat, m \in Nat : m > 0 => a % m \in 0 .. m - 1
  OBVIOUS

LEMMA TypeInit == Init => TypeOK
<1> SUFFICES ASSUME Init PROVE TypeOK
  OBVIOUS
<1>1. endpoints \in Seq(Endpoints) /\ Len(endpoints) = Len(InitialEndpoints)
  <2>1. /\ Len(InitialEndpoints) \in Nat
        /\ InitialEndpoints \in [1 .. Len(InitialEndpoints) -> Endpoints]
    BY EndpointsAssumption DEF Endpoints
  <2> QED
    BY <2>1 DEF Init
<1>2. /\ tunnelCount \in Nat /\ waiting \in Nat /\ tunnelToCreate \in Int
      /\ removals \in Nat /\ flakes \in Nat
  BY DEF Init
<1>3. poolDone \in BOOLEAN /\ pc \in {"idle", "loop", "handshake"}
  BY DEF Init
<1>4. lastfailed \in Endpoints \cup {NoEndpoint}
  BY DEF Init
<1> QED
  BY <1>1, <1>2, <1>3, <1>4 DEF TypeOK

\* While it dials, the index is one of the endpoints list.
LEMMA CurIndexInRange ==
    ASSUME TypeOK, Dialing
    PROVE  CurIndex \in 1 .. Len(endpoints) /\ endpoints[CurIndex] \in Endpoints
<1>1. Len(endpoints) \in Nat /\ Len(endpoints) > 0 /\ tunnelToCreate - 1 \in Nat
  BY EndpointsAssumption DEF TypeOK, Dialing
<1>2. (tunnelToCreate - 1) % Len(endpoints) \in 0 .. Len(endpoints) - 1
  BY <1>1, ModRange
<1>3. CurIndex \in 1 .. Len(endpoints)
  BY <1>1, <1>2 DEF CurIndex
<1> QED
  BY <1>3 DEF TypeOK

LEMMA RotatedType ==
    ASSUME TypeOK, NEW i \in 1 .. Len(endpoints)
    PROVE  Rotated(i) \in Seq(Endpoints) /\ Len(Rotated(i)) = Len(endpoints)
<1>1. Len(endpoints) \in Nat /\ endpoints \in [1 .. Len(endpoints) -> Endpoints]
  BY DEF TypeOK
<1>2. Rotated(i) \in [1 .. Len(endpoints) -> Endpoints]
  BY <1>1 DEF Rotated
<1> QED
  BY <1>1, <1>2

LEMMA TypeStep == TypeOK /\ [Next]_vars => TypeOK'
<1> SUFFICES ASSUME TypeOK, [Next]_vars PROVE TypeOK'
  OBVIOUS
<1> USE DEF TypeOK
<1>1. CASE Lock
  BY <1>1, TunnelNumAssumption DEF Lock, Missing, boundVars
<1>2. CASE Return
  BY <1>2 DEF Return, Done, boundVars
<1>3. CASE DialFails
  <2>1. CurIndex \in 1 .. Len(endpoints) /\ endpoints[CurIndex] \in Endpoints
    BY <1>3, CurIndexInRange DEF DialFails
  <2>2. /\ Rotated(CurIndex) \in Seq(Endpoints)
        /\ Len(Rotated(CurIndex)) = Len(endpoints)
    BY <2>1, RotatedType
  <2>3. endpoints' \in Seq(Endpoints) /\ Len(endpoints') = Len(endpoints)
    BY <1>3, <2>2 DEF DialFails
  <2>4. flakes' \in Nat /\ lastfailed' \in Endpoints
    BY <1>3, <2>1 DEF DialFails
  <2> QED
    BY <1>3, <2>3, <2>4 DEF DialFails
<1>4. CASE DialSucceeds
  BY <1>4 DEF DialSucceeds, boundVars
<1>5. CASE HandshakeFails
  BY <1>5 DEF HandshakeFails
<1>6. CASE AddTunnel
  BY <1>6 DEF AddTunnel, boundVars
<1>7. CASE RemoveTunnel
  BY <1>7 DEF RemoveTunnel, Mapped, Notified, loopVars
<1>8. CASE CancelPool
  BY <1>8 DEF CancelPool, loopVars, boundVars
<1>9. CASE UNCHANGED vars
  BY <1>9 DEF vars, loopVars, boundVars
<1> QED
  BY <1>1, <1>2, <1>3, <1>4, <1>5, <1>6, <1>7, <1>8, <1>9
  DEF Next, DecreaseNotify

\* The rotations keep the list of endpoints whole and the number of tunnels
\* never becomes negative, whichever dials fail and tunnels die.
THEOREM TypeCorrectness == Spec => []TypeOK
  BY TypeInit, TypeStep, PTL DEF Spec

-----------------------------------------------------------------------------
(***************************************************************************)
(* The size of the pool.  NeverOverfull is not inductive: what bounds the  *)
(* pool while tunnels are being dialed is that the pool and what the lock  *)
(* holder still owes never exceed tunnelNum together.                      *)
(***************************************************************************)
Quota ==
    /\ tunnelCount + Owed =< TunnelNum
    /\ Owed >= 0
    /\ pc = "handshake" => Owed > 0

PoolInv == TypeOK /\ Quota /\ RefillUnderway

LEMMA PoolInit == Init => PoolInv
  BY TypeInit, TunnelNumAssumption DEF Init, PoolInv, Quota, Owed, RefillUnderway

LEMMA PoolStep == PoolInv /\ [Next]_vars => PoolInv'
<1> SUFFICES ASSUME PoolInv, [Next]_vars PROVE PoolInv'
  OBVIOUS
<1>0. TypeOK'
  BY TypeStep DEF PoolInv
<1>t. /\ tunnelCount \in Nat /\ tunnelToCreate \in Int /\ waiting \in Nat
      /\ TunnelNum \in Nat /\ pc \in {"idle", "loop", "handshake"}
  BY TunnelNumAssumption DEF PoolInv, TypeOK
<1> USE DEF PoolInv, Quota, Owed, RefillUnderway
<1>1. CASE Lock
  BY <1>0, <1>t, <1>1 DEF Lock, Missing
<1>2. CASE Return
  BY <1>0, <1>t, <1>2 DEF Return, Done
<1>3. CASE DialFails
  BY <1>0, <1>t, <1>3 DEF DialFails
<1>4. CASE DialSucceeds
  BY <1>0, <1>t, <1>4 DEF DialSucceeds, Dialing
<1>5. CASE HandshakeFails
  BY <1>0, <1>t, <1>5 DEF HandshakeFails
<1>6. CASE AddTunnel
  BY <1>0, <1>t, <1>6 DEF AddTunnel
<1>7. CASE RemoveTunnel
  BY <1>0, <1>t, <1>7 DEF RemoveTunnel, Mapped, Notified, loopVars
<1>8. CASE CancelPool
  BY <1>0, <1>t, <1>8 DEF CancelPool, loopVars
<1>9. CASE UNCHANGED vars
  BY <1>0, <1>t, <1>9 DEF vars, loopVars
<1> QED
  BY <1>1, <1>2, <1>3, <1>4, <1>5, <1>6, <1>7, <1>8, <1>9
  DEF Next, DecreaseNotify

\* The manager never dials the pool beyond tunnelNum, however tunnels die and
\* DecreaseNotify calls pile up while it dials.
THEOREM PoolNeverOverfull == Spec => []NeverOverfull
<1>1. PoolInv => NeverOverfull
  BY TunnelNumAssumption DEF PoolInv, TypeOK, Quota, Owed, NeverOverfull
<1> QED
  BY PoolInit, PoolStep, <1>1, PTL DEF Spec

\* No death of a tunnel goes unanswered, although the call that dials counts
\* the pool only once: another call is then waiting for the lock.
THEOREM RefillAlwaysUnderway == Spec => []RefillUnderway
<1>1. PoolInv => RefillUnderway
  BY DEF PoolInv
<1> QED
  BY PoolInit, PoolStep, <1>1, PTL DEF Spec
==============================================================================
