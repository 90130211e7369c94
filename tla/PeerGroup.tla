------------------------------ MODULE PeerGroup ------------------------------
(***************************************************************************)
(* The server's PeerGroup and the ServerManager of each ServerPeer.  Every *)
(* listening address has a goroutine (ServeThread) that accepts a tunnel,  *)
(* exchanges the peerID and calls AddTunnel: find or create the ServerPeer *)
(* under the group's lock, release the lock, add the tunnel to the peer's  *)
(* pool.  The manager counts down while the pool is empty and then cancels *)
(* the peer's context, upon which another goroutine calls RemovePeer.      *)
(*                                                                         *)
(* A ServerPeer is named by the tunnel whose AddTunnel created it.  What   *)
(* the tunnels carry is in TunnelPool; PeerGroup.Stop, which runs only     *)
(* when the process exits, is not modelled.                                *)
(***************************************************************************)

CONSTANTS
    PeerIDs,            \* the clients' peerIDs
    Tunnels,            \* bound: the tunnels ever accepted
    Listeners,          \* the ServeThread goroutines
    None                \* no tunnel, no peer, no peerID

ASSUME NoneAssumption == None \notin PeerIDs \cup Tunnels

ServerPeers == Tunnels

VARIABLES
    tunnel,             \* what became of each tunnel
    peerID,             \* the peerID each tunnel was accepted with
    adding,             \* per listener: the tunnel it is adding and the
                        \* peer it found for it
    peerMapping,        \* pg.peerMapping
    peerContext,        \* per peer: its context, and "gone" when the
                        \* goroutine that waits for its end has ended
    tunnelMapping,      \* per peer: tunnelPool.tunnelMapping
    triggered,          \* per peer: the manager's triggered
    countDown,          \* per peer: a countdown runs that was not cancelled
    expired             \* per peer: a countdown chose its timer and has not
                        \* yet called removePeerFunc

managerVars == <<triggered, countDown, expired>>
vars == <<tunnel, peerID, adding, peerMapping, peerContext, tunnelMapping,
          managerVars>>

Idle == [tunnel |-> None, peer |-> None]

\* The types of the group's state; whoever adds a tunnel has a peer to add it
\* to.
TypeOK ==
    /\ tunnel \in [Tunnels -> {"new", "adding", "open", "closed", "removed"}]
    /\ peerID \in [Tunnels -> PeerIDs \cup {None}]
    /\ adding \in [Listeners -> {Idle} \cup [tunnel : Tunnels, peer : ServerPeers]]
    /\ peerMapping \in [PeerIDs -> ServerPeers \cup {None}]
    /\ peerContext \in [ServerPeers -> {"none", "live", "done", "gone"}]
    /\ tunnelMapping \in [ServerPeers -> SUBSET Tunnels]
    /\ triggered \in [ServerPeers -> BOOLEAN]
    /\ countDown \in [ServerPeers -> BOOLEAN]
    /\ expired \in [ServerPeers -> BOOLEAN]

Init ==
    /\ tunnel = [t \in Tunnels |-> "new"]
    /\ peerID = [t \in Tunnels |-> None]
    /\ adding = [l \in Listeners |-> Idle]
    /\ peerMapping = [id \in PeerIDs |-> None]
    /\ peerContext = [p \in ServerPeers |-> "none"]
    /\ tunnelMapping = [p \in ServerPeers |-> {}]
    /\ triggered = [p \in ServerPeers |-> FALSE]
    /\ countDown = [p \in ServerPeers |-> FALSE]
    /\ expired = [p \in ServerPeers |-> FALSE]

-----------------------------------------------------------------------------
(* ServeThread and PeerGroup.AddTunnel *)

\* NewPassiveTunnel fails to exchange the peerID; the connection is closed.
RefuseTunnel(l, t) ==
    /\ adding[l] = Idle
    /\ tunnel[t] = "new"
    /\ tunnel' = [tunnel EXCEPT ![t] = "removed"]
    /\ UNCHANGED <<peerID, adding, peerMapping, peerContext, tunnelMapping,
                   managerVars>>

\* Mutant of IsMapped: a peer whose context is done is replaced.
IsMappedLive(id) ==
    peerMapping[id] # None /\ peerContext[peerMapping[id]] = "live"

\* The lookup in peerMapping finds a peer.
IsMapped(id) == peerMapping[id] # None

\* Mutant of PeerFor: the created peer is assigned to a variable of the inner
\* block, and the outer one stays nil.
PeerForShadowed(id, t) == peerMapping[id]

\* The peer that t is added to.
PeerFor(id, t) == IF IsMapped(id) THEN peerMapping[id] ELSE t

\* The tunnel's peerID is known; the part of AddTunnel under pg.lock.
FindPeer(l, t, id) ==
    /\ adding[l] = Idle
    /\ tunnel[t] = "new"
    /\ tunnel' = [tunnel EXCEPT ![t] = "adding"]
    /\ peerID' = [peerID EXCEPT ![t] = id]
    /\ adding' = [adding EXCEPT ![l] = [tunnel |-> t, peer |-> PeerFor(id, t)]]
    /\ IF IsMapped(id)
       THEN UNCHANGED <<peerMapping, peerContext>>
       ELSE /\ peerMapping' = [peerMapping EXCEPT ![id] = t]
            /\ peerContext' = [peerContext EXCEPT ![t] = "live"]
    /\ UNCHANGED <<tunnelMapping, managerVars>>

-----------------------------------------------------------------------------
(* The pool of a peer and its ServerManager *)

\* Mutant of Triggered: it is not reset when a tunnel comes back.
TriggeredOnce(was, starts, cancels) == was \/ starts

\* triggered after the two compare-and-swaps.
Triggered(was, starts, cancels) == (was \/ starts) /\ ~cancels

\* Mutant of CountsDown: the countdown is not cancelled.
CountsDownAnyway(was, starts, cancels) == was \/ starts

\* Mutant of CountsDown: cancelCountDownFunc is called after it was replaced,
\* so that it cancels the new countdown.
CountsDownCancelled(was, starts, cancels) == was /\ ~starts /\ ~cancels

\* Whether a countdown runs after that.
CountsDown(was, starts, cancels) == (was \/ starts) /\ ~cancels

\* ServerManager.Notify: a countdown starts when the pool becomes empty and
\* is cancelled when it no longer is.  A countdown that already chose its
\* timer does not see the cancellation.
Notify(p, tunnels) ==
    LET starts == tunnels = {} /\ ~triggered[p]
        cancels == tunnels # {} /\ triggered[p]
    IN  /\ triggered' = [triggered EXCEPT ![p] = Triggered(@, starts, cancels)]
        /\ countDown' = [countDown EXCEPT ![p] = CountsDown(@, starts, cancels)]
        /\ UNCHANGED expired

\* tunnelPool.AddTunnel, on the peer FindPeer found.
AddTunnel(l) ==
    LET t == adding[l].tunnel
        p == adding[l].peer
    IN  /\ adding[l] # Idle
        /\ tunnelMapping' = [tunnelMapping EXCEPT ![p] = @ \cup {t}]
        /\ Notify(p, tunnelMapping[p] \cup {t})
        /\ tunnel' = [tunnel EXCEPT ![t] = "open"]
        /\ adding' = [adding EXCEPT ![l] = Idle]
        /\ UNCHANGED <<peerID, peerMapping, peerContext>>

\* The tunnel breaks or times out: closeThenCancel.
TunnelCloses(t) ==
    /\ tunnel[t] = "open"
    /\ tunnel' = [tunnel EXCEPT ![t] = "closed"]
    /\ UNCHANGED <<peerID, adding, peerMapping, peerContext, tunnelMapping,
                   managerVars>>

\* The goroutine that AddTunnel started for t on p's pool: RemoveTunnel.
RemoveTunnel(p, t) ==
    /\ tunnel[t] = "closed"
    /\ t \in tunnelMapping[p]
    /\ tunnelMapping' = [tunnelMapping EXCEPT ![p] = @ \ {t}]
    /\ Notify(p, tunnelMapping[p] \ {t})
    /\ tunnel' = [tunnel EXCEPT ![t] = "removed"]
    /\ UNCHANGED <<peerID, adding, peerMapping, peerContext>>

\* time.After(EmptyPoolDestroySec) wins the countdown's select.
CountDownExpires(p) ==
    /\ countDown[p]
    /\ countDown' = [countDown EXCEPT ![p] = FALSE]
    /\ expired' = [expired EXCEPT ![p] = TRUE]
    /\ UNCHANGED <<tunnel, peerID, adding, peerMapping, peerContext,
                   tunnelMapping, triggered>>

\* The expired countdown calls removePeerFunc.
CancelPeer(p) ==
    /\ expired[p]
    /\ expired' = [expired EXCEPT ![p] = FALSE]
    /\ peerContext' = [peerContext EXCEPT ![p] =
                          IF @ = "live" THEN "done" ELSE @]
    /\ UNCHANGED <<tunnel, peerID, adding, peerMapping, tunnelMapping,
                   triggered, countDown>>

\* The goroutine that FindPeer started with the peer sees the context done;
\* RemovePeer deletes whatever peer the peerID maps to, and the goroutine
\* ends.
RemovePeer(p) ==
    /\ peerContext[p] = "done"
    /\ peerContext' = [peerContext EXCEPT ![p] = "gone"]
    /\ peerMapping' = [peerMapping EXCEPT ![peerID[p]] = None]
    /\ UNCHANGED <<tunnel, peerID, adding, tunnelMapping, managerVars>>

-----------------------------------------------------------------------------
Next ==
    \/ \E l \in Listeners, t \in Tunnels :
          \/ RefuseTunnel(l, t)
          \/ \E id \in PeerIDs : FindPeer(l, t, id)
    \/ \E l \in Listeners : AddTunnel(l)
    \/ \E t \in Tunnels : TunnelCloses(t)
    \/ \E p \in ServerPeers, t \in Tunnels : RemoveTunnel(p, t)
    \/ \E p \in ServerPeers :
          CountDownExpires(p) \/ CancelPeer(p) \/ RemovePeer(p)

Spec == Init /\ [][Next]_vars

\* Every goroutine that can run does, and timers expire.  Clients need not
\* connect and tunnels need not break.
Fairness ==
    /\ \A l \in Listeners : WF_vars(AddTunnel(l))
    /\ \A p \in ServerPeers, t \in Tunnels : WF_vars(RemoveTunnel(p, t))
    /\ \A p \in ServerPeers :
          /\ WF_vars(CountDownExpires(p))
          /\ WF_vars(CancelPeer(p))
          /\ WF_vars(RemovePeer(p))

FairSpec == Spec /\ Fairness

-----------------------------------------------------------------------------
(* Properties *)

\* A peer whose context is live is the one its peerID maps to.  So a client
\* never has two live peers at once, and the late RemovePeer of an earlier
\* peer never takes the client's current peer out of the group.
LivePeerMapped ==
    \A p \in ServerPeers :
        peerContext[p] \in {"live", "done"} => peerMapping[peerID[p]] = p

\* A countdown that can still be cancelled runs only while the pool of its
\* peer is empty: no order of adds and removals leaves one behind that will
\* destroy a peer with tunnels.
CountDownOnlyWhenEmpty ==
    \A p \in ServerPeers : countDown[p] => tunnelMapping[p] = {}

\* A live peer whose pool is empty, and to which no listener is about to
\* add a tunnel, has a countdown: it cannot stay in the group for ever.
EmptyPoolCounted ==
    \A p \in ServerPeers :
        (/\ peerContext[p] = "live"
         /\ tunnelMapping[p] = {}
         /\ \A l \in Listeners : adding[l].peer # p)
        => countDown[p] \/ expired[p]

\* A peer whose pool is empty gets a tunnel or leaves the group, whatever
\* its listeners and countdowns were doing when it became empty.
EmptyPeerRemoved ==
    \A id \in PeerIDs, p \in ServerPeers :
        (peerMapping[id] = p /\ tunnelMapping[p] = {}) ~>
            (peerMapping[id] # p \/ tunnelMapping[p] # {})
=============================================================================
