---------------------------- MODULE ClientManager ----------------------------
(***************************************************************************)
(* The client's ClientManager, which keeps the tunnel pool filled:         *)
(* DecreaseNotify, started once with the pool and once by every            *)
(* RemoveTunnel, dials tunnelNum minus the current number of tunnels while *)
(* it holds decreaseNotifyLock, and rotates the endpoints that fail.       *)
(*                                                                         *)
(* A tunnel is only counted.  retryweight is left out: it only sets how    *)
(* long a failed dial sleeps.                                              *)
(***************************************************************************)
EXTENDS Integers, Sequences

CONSTANTS
    InitialEndpoints,   \* the configured endpoints, in order
    TunnelNum,          \* tunnelNum
    RetryFailed,        \* retryFailed
    Reachable,          \* endpoints that can be dialed
    MaxRemovals,        \* bound: tunnels that die
    MaxFlakes           \* bound: failures of dials to reachable endpoints
                        \* and of handshakes

Endpoints == {InitialEndpoints[i] : i \in 1 .. Len(InitialEndpoints)}
NoEndpoint == "none"    \* lastfailed = ""

ASSUME EndpointsAssumption ==
    /\ InitialEndpoints \in Seq(STRING)
    /\ InitialEndpoints # <<>>
    /\ NoEndpoint \notin Endpoints
ASSUME TunnelNumAssumption == TunnelNum \in Nat
ASSUME RetryFailedAssumption == RetryFailed \in BOOLEAN
ASSUME BoundsAssumption == MaxRemovals \in Nat /\ MaxFlakes \in Nat

VARIABLES
    tunnelCount,        \* len(pool.tunnelMapping)
    poolDone,           \* pool.ctx is cancelled
    waiting,            \* DecreaseNotify calls waiting for decreaseNotifyLock
    pc,                 \* where the one that holds the lock is
    tunnelToCreate,
    lastfailed,
    endpoints,          \* the manager's endpoints, rotated in place
    removals,           \* ghost: tunnels that died
    flakes              \* ghost: chance failures so far

loopVars == <<pc, tunnelToCreate, lastfailed>>
boundVars == <<removals, flakes>>
vars == <<tunnelCount, poolDone, waiting, loopVars, endpoints, boundVars>>

\* NewTunnelPool starts the first DecreaseNotify.
Init ==
    /\ tunnelCount = 0
    /\ poolDone = FALSE
    /\ waiting = 1
    /\ pc = "idle"
    /\ tunnelToCreate = 0
    /\ lastfailed = NoEndpoint
    /\ endpoints = InitialEndpoints
    /\ removals = 0
    /\ flakes = 0

-----------------------------------------------------------------------------
(* DecreaseNotify *)

\* Mutant of Missing: what the pool has is not counted.
MissingAll == TunnelNum

Missing == TunnelNum - tunnelCount

\* decreaseNotifyLock.Lock() and the statements before the loop.
Lock ==
    /\ pc = "idle"
    /\ waiting > 0
    /\ waiting' = waiting - 1
    /\ pc' = "loop"
    /\ tunnelToCreate' = Missing
    /\ lastfailed' = NoEndpoint
    /\ UNCHANGED <<tunnelCount, poolDone, endpoints, boundVars>>

\* Mutant of Done: the loop does not look at pool.ctx.
DoneWhenFull == tunnelToCreate =< 0

Done == tunnelToCreate =< 0 \/ poolDone

\* The loop ends, or pool.ctx is done; the lock is released.
Return ==
    /\ pc = "loop"
    /\ Done
    /\ pc' = "idle"
    /\ UNCHANGED <<tunnelCount, poolDone, waiting, tunnelToCreate, lastfailed,
                   endpoints, boundVars>>

Dialing == pc = "loop" /\ tunnelToCreate > 0 /\ ~poolDone

\* The index into endpoints, from 1 here.
CurIndex == ((tunnelToCreate - 1) % Len(endpoints)) + 1

\* Mutant of Rotated: the endpoint keeps its place.
RotatedNot(i) == endpoints

\* The endpoint at i moves one place down, the last one to the front.
Rotated(i) ==
    IF i = Len(endpoints)
    THEN [endpoints EXCEPT ![i] = endpoints[1], ![1] = endpoints[i]]
    ELSE [endpoints EXCEPT ![i] = endpoints[i + 1], ![i + 1] = endpoints[i]]

\* net.DialTimeout fails; the second failure in a row rotates the endpoints.
DialFails ==
    /\ Dialing
    /\ \/ endpoints[CurIndex] \notin Reachable /\ UNCHANGED flakes
       \/ /\ endpoints[CurIndex] \in Reachable
          /\ flakes < MaxFlakes
          /\ flakes' = flakes + 1
    /\ endpoints' = IF ~RetryFailed /\ lastfailed = endpoints[CurIndex]
                    THEN Rotated(CurIndex) ELSE endpoints
    /\ lastfailed' = endpoints[CurIndex]
    /\ UNCHANGED <<tunnelCount, poolDone, waiting, pc, tunnelToCreate,
                   removals>>

\* net.DialTimeout succeeds.
DialSucceeds ==
    /\ Dialing
    /\ endpoints[CurIndex] \in Reachable
    /\ lastfailed' = IF lastfailed = endpoints[CurIndex] THEN NoEndpoint
                     ELSE lastfailed
    /\ pc' = "handshake"
    /\ UNCHANGED <<tunnelCount, poolDone, waiting, tunnelToCreate, endpoints,
                   boundVars>>

\* NewActiveTunnel fails to exchange the peerID.
HandshakeFails ==
    /\ pc = "handshake"
    /\ flakes < MaxFlakes
    /\ flakes' = flakes + 1
    /\ pc' = "loop"
    /\ UNCHANGED <<tunnelCount, poolDone, waiting, tunnelToCreate, lastfailed,
                   endpoints, removals>>

\* pool.AddTunnel(&tun) and tunnelToCreate--.
AddTunnel ==
    /\ pc = "handshake"
    /\ tunnelCount' = tunnelCount + 1
    /\ tunnelToCreate' = tunnelToCreate - 1
    /\ pc' = "loop"
    /\ UNCHANGED <<poolDone, waiting, lastfailed, endpoints, boundVars>>

-----------------------------------------------------------------------------
(* The pool around it *)

\* Mutant of Mapped: it is removed a second time.
MappedAgain == TRUE

\* The tunnel is still in the mapping.
Mapped == tunnelCount > 0

\* Mutant of Notified: not while a call is already running.
NotifiedOnce == IF pc = "idle" THEN waiting + 1 ELSE waiting

\* go manager.DecreaseNotify(tp).
Notified == waiting + 1

\* A tunnel dies and leaves the mapping.
RemoveTunnel ==
    /\ Mapped
    /\ removals < MaxRemovals
    /\ tunnelCount' = tunnelCount - 1
    /\ removals' = removals + 1
    /\ waiting' = Notified
    /\ UNCHANGED <<poolDone, loopVars, endpoints, flakes>>

\* TunnelPool.Close or the peer's context cancels pool.ctx.
CancelPool ==
    /\ ~poolDone
    /\ poolDone' = TRUE
    /\ UNCHANGED <<tunnelCount, waiting, loopVars, endpoints, boundVars>>

DecreaseNotify ==
    \/ Lock
    \/ Return
    \/ DialFails
    \/ DialSucceeds
    \/ HandshakeFails
    \/ AddTunnel

Next == DecreaseNotify \/ RemoveTunnel \/ CancelPool

Spec == Init /\ [][Next]_vars

\* DecreaseNotify keeps running: dials and handshakes end, successfully unless
\* they fail, and the sleeps pass.  Nothing has to fail or to be cancelled.
FairSpec == Spec /\ WF_vars(DecreaseNotify)

-----------------------------------------------------------------------------
(* Properties *)

\* The types of the manager's state; the number of tunnels never becomes
\* negative and the list of endpoints keeps its length.
TypeOK ==
    /\ tunnelCount \in Nat
    /\ poolDone \in BOOLEAN
    /\ waiting \in Nat
    /\ pc \in {"idle", "loop", "handshake"}
    /\ tunnelToCreate \in Int
    /\ lastfailed \in Endpoints \cup {NoEndpoint}
    /\ endpoints \in Seq(Endpoints)
    /\ Len(endpoints) = Len(InitialEndpoints)
    /\ removals \in Nat
    /\ flakes \in Nat

\* The tunnels still to be dialed by the call that holds the lock.
Owed == IF pc = "idle" THEN 0 ELSE tunnelToCreate

\* The pool never has more than tunnelNum tunnels, although the number to dial
\* is computed once and tunnels come and go while it is worked off.
NeverOverfull == tunnelCount =< TunnelNum

\* No removal is forgotten: a pool that is short of tunnels always has a
\* DecreaseNotify that dials the missing ones or is about to count again.
RefillUnderway ==
    ~poolDone /\ waiting = 0 => tunnelCount + Owed >= TunnelNum

\* "keep tunnelPool size above tunnelNum" (manager.go 89), giving up on the
\* endpoints that cannot be reached (c.yaml 17-18): unless the pool is
\* cancelled it is eventually full, and stays so when no more tunnels die.
PoolFills == <>(poolDone \/ [](tunnelCount = TunnelNum))

\* A cancelled pool's DecreaseNotify calls all return, also when no endpoint
\* can be reached.
CancelStops == poolDone ~> [](pc = "idle" /\ waiting = 0)
=============================================================================
