--------------------------- MODULE PeerGroupProofs ---------------------------
(* The safety properties of PeerGroup, for any clients, tunnels and
   listeners. *)
EXTENDS PeerGroup, TLAPS

\* A tunnel that was not accepted yet has created no peer.
Fresh == \A t \in Tunnels : tunnel[t] = "new" => peerContext[t] = "none"

\* A peer that was created has a peerID.
Known == \A p \in ServerPeers : peerContext[p] # "none" => peerID[p] \in PeerIDs

\* triggered is set only while the pool is empty, and a countdown that was
\* not cancelled only while it is set.
TriggeredWhenEmpty ==
    \A p \in ServerPeers :
        /\ triggered[p] => tunnelMapping[p] = {}
        /\ countDown[p] => triggered[p]

GroupInv ==
    /\ TypeOK
    /\ Fresh
    /\ Known
    /\ LivePeerMapped
    /\ TriggeredWhenEmpty
    /\ EmptyPoolCounted

\* The empty group satisfies the invariant.
LEMMA InitInv == Init => GroupInv
<1> SUFFICES ASSUME Init PROVE GroupInv
  OBVIOUS
<1>1. TypeOK
  BY DEF Init, TypeOK, Idle, ServerPeers
<1>2. Fresh /\ Known /\ LivePeerMapped
  BY DEF Init, Fresh, Known, LivePeerMapped, ServerPeers
<1>3. TriggeredWhenEmpty /\ EmptyPoolCounted
  BY DEF Init, TriggeredWhenEmpty, EmptyPoolCounted, ServerPeers
<1> QED
  BY <1>1, <1>2, <1>3 DEF GroupInv

\* Notify keeps the manager's variables Boolean and its two facts, given the
\* pool it is told of.
LEMMA NotifyKeeps ==
    ASSUME GroupInv,
           NEW p \in ServerPeers, NEW tunnels \in SUBSET Tunnels,
           Notify(p, tunnels),
           tunnelMapping' = [tunnelMapping EXCEPT ![p] = tunnels],
           tunnelMapping[p] # {} \/ tunnels # {}
    PROVE  /\ triggered' \in [ServerPeers -> BOOLEAN]
           /\ countDown' \in [ServerPeers -> BOOLEAN]
           /\ expired' \in [ServerPeers -> BOOLEAN]
           /\ TriggeredWhenEmpty'
           /\ tunnels = {} => countDown'[p]
           /\ \A q \in ServerPeers \ {p} : /\ tunnelMapping'[q] = tunnelMapping[q]
                                           /\ countDown'[q] = countDown[q]
                                           /\ expired'[q] = expired[q]
           /\ tunnelMapping'[p] = tunnels
<1> DEFINE starts == tunnels = {} /\ ~triggered[p]
           cancels == tunnels # {} /\ triggered[p]
<1>1. /\ tunnelMapping \in [ServerPeers -> SUBSET Tunnels]
      /\ triggered \in [ServerPeers -> BOOLEAN]
      /\ countDown \in [ServerPeers -> BOOLEAN]
      /\ expired \in [ServerPeers -> BOOLEAN]
      /\ TriggeredWhenEmpty
  BY DEF GroupInv, TypeOK
<1>2. /\ triggered' = [triggered EXCEPT ![p] = (@ \/ starts) /\ ~cancels]
      /\ countDown' = [countDown EXCEPT ![p] = (@ \/ starts) /\ ~cancels]
      /\ expired' = expired
  BY DEF Notify, Triggered, CountsDown
<1>3. /\ triggered' \in [ServerPeers -> BOOLEAN]
      /\ countDown' \in [ServerPeers -> BOOLEAN]
      /\ expired' \in [ServerPeers -> BOOLEAN]
  BY <1>1, <1>2, Zenon
<1>4. /\ triggered'[p] <=> ((triggered[p] \/ starts) /\ ~cancels)
      /\ countDown'[p] <=> ((countDown[p] \/ starts) /\ ~cancels)
  BY <1>1, <1>2, Zenon
<1>5. \A q \in ServerPeers \ {p} : /\ triggered'[q] = triggered[q]
                                   /\ countDown'[q] = countDown[q]
                                   /\ expired'[q] = expired[q]
                                   /\ tunnelMapping'[q] = tunnelMapping[q]
  BY <1>1, <1>2, Zenon
<1>6. tunnelMapping'[p] = tunnels
  BY <1>1, Zenon
<1>7. /\ triggered[p] => tunnelMapping[p] = {}
      /\ countDown[p] => triggered[p]
  BY <1>1 DEF TriggeredWhenEmpty
<1>8. TriggeredWhenEmpty'
  BY <1>1, <1>4, <1>5, <1>6, <1>7, Zenon DEF TriggeredWhenEmpty
<1>9. tunnels = {} => countDown'[p]
  BY <1>4, <1>7, Zenon
<1> QED
  BY <1>3, <1>5, <1>6, <1>8, <1>9, Zenon

\* Every step preserves the invariant.
LEMMA NextInv == GroupInv /\ [Next]_vars => GroupInv'
<1> SUFFICES ASSUME GroupInv, [Next]_vars PROVE GroupInv'
  OBVIOUS
<1> USE DEF ServerPeers
<1>0. /\ TypeOK /\ Fresh /\ Known /\ LivePeerMapped
      /\ TriggeredWhenEmpty /\ EmptyPoolCounted
  BY DEF GroupInv
<1>1. ASSUME NEW l \in Listeners, NEW t \in Tunnels, RefuseTunnel(l, t)
      PROVE  GroupInv'
  <2>1. TypeOK'
    BY <1>0, <1>1 DEF RefuseTunnel, managerVars, TypeOK
  <2>2. Fresh' /\ Known' /\ LivePeerMapped'
    BY <1>0, <1>1 DEF RefuseTunnel, TypeOK, Fresh, Known, LivePeerMapped
  <2>3. TriggeredWhenEmpty' /\ EmptyPoolCounted'
    BY <1>0, <1>1 DEF RefuseTunnel, managerVars, TriggeredWhenEmpty,
                      EmptyPoolCounted
  <2> QED
    BY <2>1, <2>2, <2>3 DEF GroupInv
<1>2. ASSUME NEW l \in Listeners, NEW t \in Tunnels, NEW id \in PeerIDs,
             FindPeer(l, t, id)
      PROVE  GroupInv'
  <2>1. TypeOK'
    BY <1>0, <1>2, NoneAssumption
    DEF FindPeer, PeerFor, IsMapped, managerVars, TypeOK
  <2>2. peerContext[t] = "none"
    BY <1>0, <1>2 DEF FindPeer, PeerFor, IsMapped, Fresh
  <2>3. Fresh' /\ Known'
    BY <1>0, <1>2 DEF FindPeer, PeerFor, IsMapped, TypeOK, Fresh, Known
  <2>4. LivePeerMapped'
    <3> SUFFICES ASSUME NEW p \in ServerPeers, peerContext'[p] \in {"live", "done"}
                 PROVE  peerMapping'[peerID'[p]] = p
      BY DEF LivePeerMapped
    <3>1. CASE p = t
      BY <1>0, <1>2, <2>2, <3>1 DEF FindPeer, PeerFor, IsMapped, TypeOK
    <3>2. CASE p # t
      <4>1. /\ peerContext[p] \in {"live", "done"}
            /\ peerID'[p] = peerID[p]
            /\ peerID[p] \in PeerIDs
        BY <1>0, <1>2, <3>2 DEF FindPeer, PeerFor, IsMapped, TypeOK, Known
      <4>2. peerMapping[peerID[p]] = p
        BY <1>0, <4>1 DEF LivePeerMapped
      <4> QED
        BY <1>0, <1>2, <4>1, <4>2, NoneAssumption DEF FindPeer, PeerFor, IsMapped, TypeOK
    <3> QED
      BY <3>1, <3>2
  <2>5. TriggeredWhenEmpty'
    BY <1>0, <1>2 DEF FindPeer, PeerFor, IsMapped, managerVars, TriggeredWhenEmpty
  <2>6. EmptyPoolCounted'
    <3> SUFFICES ASSUME NEW p \in ServerPeers,
                        peerContext'[p] = "live",
                        tunnelMapping'[p] = {},
                        \A k \in Listeners : adding'[k].peer # p
                 PROVE  countDown'[p] \/ expired'[p]
      BY DEF EmptyPoolCounted
    <3>1. peerContext[p] = "live"
      BY <1>0, <1>2 DEF FindPeer, PeerFor, IsMapped, TypeOK
    <3>2. \A k \in Listeners : adding[k].peer # p
      BY <1>0, <1>2, NoneAssumption DEF FindPeer, PeerFor, IsMapped, TypeOK, Idle
    <3> QED
      BY <1>0, <1>2, <3>1, <3>2
        DEF FindPeer, PeerFor, IsMapped, managerVars, EmptyPoolCounted
  <2> QED
    BY <2>1, <2>3, <2>4, <2>5, <2>6 DEF GroupInv
<1>3. ASSUME NEW l \in Listeners, AddTunnel(l)
      PROVE  GroupInv'
  <2> DEFINE t == adding[l].tunnel
             p == adding[l].peer
             pool == tunnelMapping[p] \cup {t}
  <2>1. t \in Tunnels /\ p \in ServerPeers
    BY <1>0, <1>3 DEF AddTunnel, TypeOK
  <2>2. pool \in SUBSET Tunnels /\ pool # {}
    BY <1>0, <2>1 DEF TypeOK
  <2>3. Notify(p, pool) /\ tunnelMapping' = [tunnelMapping EXCEPT ![p] = pool]
    BY <1>3 DEF AddTunnel
  <2> HIDE DEF t, p, pool
  <2>4. /\ triggered' \in [ServerPeers -> BOOLEAN]
        /\ countDown' \in [ServerPeers -> BOOLEAN]
        /\ expired' \in [ServerPeers -> BOOLEAN]
        /\ TriggeredWhenEmpty'
        /\ \A q \in ServerPeers \ {p} : /\ tunnelMapping'[q] = tunnelMapping[q]
                                        /\ countDown'[q] = countDown[q]
                                        /\ expired'[q] = expired[q]
        /\ tunnelMapping'[p] = pool
    BY <2>1, <2>2, <2>3, NotifyKeeps
  <2>5. /\ tunnel' = [tunnel EXCEPT ![t] = "open"]
        /\ adding' = [adding EXCEPT ![l] = Idle]
        /\ UNCHANGED <<peerID, peerMapping, peerContext>>
    BY <1>3 DEF AddTunnel, t
  <2>6. TypeOK'
    BY <1>0, <2>1, <2>2, <2>3, <2>4, <2>5 DEF TypeOK
  <2>7. Fresh' /\ Known' /\ LivePeerMapped'
    BY <1>0, <2>1, <2>5 DEF TypeOK, Fresh, Known, LivePeerMapped
  <2>8. EmptyPoolCounted'
    <3> SUFFICES ASSUME NEW q \in ServerPeers,
                        peerContext'[q] = "live",
                        tunnelMapping'[q] = {},
                        \A k \in Listeners : adding'[k].peer # q
                 PROVE  countDown'[q] \/ expired'[q]
      BY DEF EmptyPoolCounted
    <3>1. q # p
      BY <2>2, <2>4
    <3>2. \A k \in Listeners : adding[k].peer # q
      BY <1>0, <2>5, <3>1 DEF TypeOK, p
    <3>3. countDown[q] \/ expired[q]
      BY <1>0, <2>4, <2>5, <3>1, <3>2 DEF EmptyPoolCounted
    <3> QED
      BY <2>4, <3>1, <3>3, Zenon
  <2> QED
    BY <2>4, <2>6, <2>7, <2>8 DEF GroupInv
<1>4. ASSUME NEW t \in Tunnels, TunnelCloses(t)
      PROVE  GroupInv'
  <2>1. TypeOK'
    BY <1>0, <1>4 DEF TunnelCloses, managerVars, TypeOK
  <2>2. Fresh' /\ Known' /\ LivePeerMapped'
    BY <1>0, <1>4 DEF TunnelCloses, TypeOK, Fresh, Known, LivePeerMapped
  <2>3. TriggeredWhenEmpty' /\ EmptyPoolCounted'
    BY <1>0, <1>4 DEF TunnelCloses, managerVars, TriggeredWhenEmpty,
                      EmptyPoolCounted
  <2> QED
    BY <2>1, <2>2, <2>3 DEF GroupInv
<1>5. ASSUME NEW p \in ServerPeers, NEW t \in Tunnels, RemoveTunnel(p, t)
      PROVE  GroupInv'
  <2> DEFINE pool == tunnelMapping[p] \ {t}
  <2>1. pool \in SUBSET Tunnels /\ tunnelMapping[p] # {}
    BY <1>0, <1>5 DEF RemoveTunnel, TypeOK
  <2>2. Notify(p, pool) /\ tunnelMapping' = [tunnelMapping EXCEPT ![p] = pool]
    BY <1>5 DEF RemoveTunnel
  <2> HIDE DEF pool
  <2>3. /\ triggered' \in [ServerPeers -> BOOLEAN]
        /\ countDown' \in [ServerPeers -> BOOLEAN]
        /\ expired' \in [ServerPeers -> BOOLEAN]
        /\ TriggeredWhenEmpty'
        /\ pool = {} => countDown'[p]
        /\ \A q \in ServerPeers \ {p} : /\ tunnelMapping'[q] = tunnelMapping[q]
                                        /\ countDown'[q] = countDown[q]
                                        /\ expired'[q] = expired[q]
        /\ tunnelMapping'[p] = pool
    BY <2>1, <2>2, NotifyKeeps
  <2>4. /\ tunnel' = [tunnel EXCEPT ![t] = "removed"]
        /\ UNCHANGED <<peerID, adding, peerMapping, peerContext>>
    BY <1>5 DEF RemoveTunnel
  <2>5. TypeOK'
    BY <1>0, <2>1, <2>2, <2>3, <2>4 DEF TypeOK
  <2>6. Fresh' /\ Known' /\ LivePeerMapped'
    BY <1>0, <2>4 DEF TypeOK, Fresh, Known, LivePeerMapped
  <2>7. EmptyPoolCounted'
    <3> SUFFICES ASSUME NEW q \in ServerPeers,
                        peerContext'[q] = "live",
                        tunnelMapping'[q] = {},
                        \A k \in Listeners : adding'[k].peer # q
                 PROVE  countDown'[q] \/ expired'[q]
      BY DEF EmptyPoolCounted
    <3>1. CASE q = p
      BY <2>3, <3>1, Zenon
    <3>2. CASE q # p
      <4>1. countDown[q] \/ expired[q]
        BY <1>0, <2>3, <2>4, <3>2 DEF EmptyPoolCounted
      <4> QED
        BY <2>3, <3>2, <4>1, Zenon
    <3> QED
      BY <3>1, <3>2
  <2> QED
    BY <2>3, <2>5, <2>6, <2>7 DEF GroupInv
<1>6. ASSUME NEW p \in ServerPeers, CountDownExpires(p)
      PROVE  GroupInv'
  <2>1. TypeOK'
    BY <1>0, <1>6 DEF CountDownExpires, TypeOK
  <2>2. Fresh' /\ Known' /\ LivePeerMapped'
    BY <1>0, <1>6 DEF CountDownExpires, Fresh, Known, LivePeerMapped
  <2>3. TriggeredWhenEmpty' /\ EmptyPoolCounted'
    BY <1>0, <1>6 DEF CountDownExpires, TypeOK, TriggeredWhenEmpty,
                      EmptyPoolCounted
  <2> QED
    BY <2>1, <2>2, <2>3 DEF GroupInv
<1>7. ASSUME NEW p \in ServerPeers, CancelPeer(p)
      PROVE  GroupInv'
  <2>1. TypeOK'
    BY <1>0, <1>7 DEF CancelPeer, TypeOK
  <2>2. Fresh' /\ Known' /\ LivePeerMapped'
    BY <1>0, <1>7 DEF CancelPeer, TypeOK, Fresh, Known, LivePeerMapped
  <2>3. TriggeredWhenEmpty'
    BY <1>0, <1>7 DEF CancelPeer, TriggeredWhenEmpty
  <2>4. EmptyPoolCounted'
    BY <1>0, <1>7 DEF CancelPeer, TypeOK, EmptyPoolCounted
  <2> QED
    BY <2>1, <2>2, <2>3, <2>4 DEF GroupInv
<1>8. ASSUME NEW p \in ServerPeers, RemovePeer(p)
      PROVE  GroupInv'
  <2>1. TypeOK'
    BY <1>0, <1>8 DEF RemovePeer, managerVars, TypeOK
  <2>2. Fresh' /\ Known'
    BY <1>0, <1>8 DEF RemovePeer, TypeOK, Fresh, Known
  <2>3. LivePeerMapped'
    BY <1>0, <1>8 DEF RemovePeer, TypeOK, Known, LivePeerMapped
  <2>4. TriggeredWhenEmpty' /\ EmptyPoolCounted'
    BY <1>0, <1>8 DEF RemovePeer, managerVars, TypeOK, TriggeredWhenEmpty,
                      EmptyPoolCounted
  <2> QED
    BY <2>1, <2>2, <2>3, <2>4 DEF GroupInv
<1>9. CASE UNCHANGED vars
  BY <1>0, <1>9 DEF vars, managerVars, GroupInv, TypeOK, Fresh, Known,
                    LivePeerMapped, TriggeredWhenEmpty, EmptyPoolCounted
<1> QED
  BY <1>1, <1>2, <1>3, <1>4, <1>5, <1>6, <1>7, <1>8, <1>9 DEF Next

\* The invariant holds in every behaviour of the group.
LEMMA GroupInvariant == Spec => []GroupInv
BY InitInv, NextInv, PTL DEF Spec

\* Whoever adds a tunnel has a peer to add it to, whatever listeners, removals
\* and countdowns do in between.
THEOREM TypeCorrectness == Spec => []TypeOK
<1>1. GroupInv => TypeOK
  BY DEF GroupInv
<1> QED
  BY GroupInvariant, <1>1, PTL

\* A client never has two live peers, and RemovePeer never takes a live peer
\* out of the group, however late it runs.
THEOREM OneLivePeer == Spec => []LivePeerMapped
<1>1. GroupInv => LivePeerMapped
  BY DEF GroupInv
<1> QED
  BY <1>1, GroupInvariant, PTL

\* No order of AddTunnel and RemoveTunnel leaves an uncancelled countdown
\* over a pool with tunnels.
THEOREM CountDownCancelled == Spec => []CountDownOnlyWhenEmpty
<1>1. GroupInv => CountDownOnlyWhenEmpty
  BY DEF GroupInv, TriggeredWhenEmpty, CountDownOnlyWhenEmpty
<1> QED
  BY <1>1, GroupInvariant, PTL

\* An empty pool of a live peer is always being counted down.
THEOREM EmptyPoolAlwaysCounted == Spec => []EmptyPoolCounted
<1>1. GroupInv => EmptyPoolCounted
  BY DEF GroupInv
<1> QED
  BY <1>1, GroupInvariant, PTL
==============================================================================
