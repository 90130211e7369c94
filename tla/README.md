# TLA+ models of rabbit-mtcp-socks5

Rabbit carries many proxied TCP connections over a few long-lived "tunnels"
(TCP connections between a client and a server). A connection's bytes are cut
into numbered blocks, every block takes whatever tunnel is free, and the other
end puts the blocks of each connection back in order. All of it is goroutines,
bounded channels and contexts, and most of what can go wrong lies between
them. The models follow that structure: one module per component, one action
per step of a goroutine.

## Inventory

| Component | State | Operations | Talks to |
|---|---|---|---|
| SOCKS5 front end (`client/client.go`) | stage of the negotiation, user and password | `socks5Handshake`, `performPasswordAuth`, `socks5ProcessRequest`, `ServeForward`, `Dial` | application socket, the client's peer |
| block processor (`connection/block_processor.go`) | `sendBlockID`; `cache`, `recvBlockID`, `lastRecvBlockID`; relay context | pack data, connect and disconnect blocks; `OrderedRelay`; packet wait timeout | takes from the connection's `recvQueue`, puts on `orderedRecvQueue` |
| inbound connection (client side, `connection/inbound_connection.go`, `ring_buffer.go`, `biRelay` in `client/client.go`) | `closed`, `readClosed`, `writeClosed`, `readCtx`, ring buffer | `Read`, `Write`, `CloseRead`, `CloseWrite`, `SetDeadline`, `Close`; `biRelay` and its two relays | application socket, `orderedRecvQueue`, the pool's `sendQueue` |
| outbound connection (server side, `connection/outbound_connection.go`) | `HalfOpenConn`, once-send flag, context | dial, `RecvRelay`, `SendRelay`, half-close, close | target socket, `orderedRecvQueue`, `sendQueue` |
| connection pool (`connection_pool/pool.go`) | `connectionMapping`, `sendQueue` | `recvRelay`, `sendRelay`, `addConnection`, `removeConnection` | the tunnel pool's queues, every connection |
| tunnel pool and tunnels (`tunnel_pool/pool.go`, `tunnel.go`) | `tunnelMapping`, `sendQueue`, `sendRetryQueue`, `recvQueue`; a context, a write deadline and `LastActivity` per tunnel | handshake, `AddTunnel`, `RemoveTunnel`, `OutboundRelay`, `packThenSend`, `InboundRelay`, `PingPong`, `closeThenCancel` | encrypted connections, connection pool, manager |
| client manager (`tunnel_pool/manager.go`) | `endpoints`, `decreaseNotifyLock` | `DecreaseNotify`: dial until `tunnelNum` tunnels exist | called on every removal |
| server manager, peer group (`tunnel_pool/manager.go`, `peer/peer_group.go`, `server/server.go`) | `peerMapping`; `triggered`, the countdown's cancel function | accept, `AddTunnel`, `Notify`, `RemovePeer` | listeners, peer contexts |
| encrypted stream, block codec (`tunnel/tunnel.go`, `block/block.go`) | a buffer and a nonce per direction, `leftover` | `Pack`, `ReadFrom`, `Read`, `NewBlockFromReader` | TCP |
| peers (`peer/client.go`, `server.go`) | copies of both pools | `Dial`; constructors | pools |
| cipher, statistics, command line and status page, logger | | | not modelled, see below |

A block's path: `InboundConnection.Write` → `blockProcessor` → connection
pool's `sendQueue` → `sendRelay` → tunnel pool's `sendQueue` → some tunnel's
`OutboundRelay` → record writer → TCP → record reader → `InboundRelay` → the
far tunnel pool's `recvQueue` → `recvRelay` → the connection's `recvQueue` →
`OrderedRelay` → `orderedRecvQueue` → `SendRelay` to the target. The other
direction is the same with the roles exchanged.

What is hard:

* *Order and numbering.* Blocks overtake each other; BlockIDs are `uint32`
  and are compared with `<` and `>`.
* *Cancellation.* Selects that mix `ctx.Done()` with other ready cases choose
  at random; a context may be cancelled between any two of them.
* *Shared relays.* One `recvRelay` serves all connections of a peer; one
  encrypted writer serves three goroutines.
* *Deferred clean-up.* Removal of peers and connections happens by ID, in
  goroutines of their own, when the ID may name a successor.
* *Failure in the middle.* A tunnel dies with a block in its hands, at either
  end; a dial succeeds and its handshake fails; a ping is written half.
* *Promises made early.* The application is told "success" before the server
  has dialed anything, and two hosts have to end four relays, in any order.
* *Clocks.* Pings, pongs and write deadlines have to fit together, on a link
  that may carry nothing any more without saying so.
* *Progress.* Every queue is bounded, senders block, and timeouts (packet
  wait, read deadline, empty pool) are what resolves it.

The list `hazards` in `PROJECT.json` has each of them at its line, with the
properties that would catch it.

## Modules

| Module | Models | Abstraction |
|---|---|---|
| `OrderedStream` | what a direction of a connection promises: what is read is a prefix of what was written, until it breaks | |
| `BlockProcessor` | `blockProcessor` at both ends, the transit between them as a set that may lose blocks | a block is its BlockID and, as a ghost, its position; arithmetic on IDs is modulo `IDMod` (2^32 in the code) |
| `Transport` | what the tunnels of a peer promise: each block carried at most once, in any order, lost only after a tunnel has closed | |
| `TunnelPool` | queues, `OutboundRelay` / `packThenSend` with retry goroutines, the wire, `InboundRelay` | blocks are model values; one direction; a `PingPong` timeout is a close that may happen at any time |
| `KeepAlive` | one tunnel with a clock: `activeExchangePeerID` / `passiveExchangePeerID`, `PingPong`, the pong replies, the shared write deadline, a link that may go silent | a message is its kind; a second passes when nothing is left that takes no time |
| `ClientManager` | `DecreaseNotify` and the removals that call it | a tunnel is a number in a count; sleeps are steps |
| `PeerGroup` | `PeerGroup`, `ServerManager`, `ServeThread` | a peer is named by the tunnel that created it |
| `ConnectionPool` | both relays and the mapping, for client and server | a connection is its queue and its context |
| `Socks5` | the negotiation of one application connection and the dial | a message is what the code looks at; an address is whether it can be dialed |
| `OutboundConnection` | dial, `RecvRelay`, `SendRelay` and who closes what | data is a kind of block, not bytes |
| `InboundConnection` | `Read` with the ring buffer, `Write`, deadlines, half-closes, `Close`, `biRelay` and its relays | bytes are numbered, so that order and loss show |
| `ProxiedConnection` | the composition of the three above: one application connection from end to end | each direction between the pools is an ordered stream, or a hole ends it |
| `StreamConn` | `Pack`, the record writer and reader, `NewBlockFromReader` | bytes are numbered; sealing records the nonce, opening compares it |
| `…Proofs` | theorems | |
| `MC…` | constants for TLC | |

Every definition that models code keeps the code's name where there is one
(`SendDirect`, `packThenSend` as `WriteBlock` / `WriteFails`, …) and
`PROJECT.json` maps it to its lines. A goroutine is a program counter with one
value per point where it can wait or be overtaken: a select, a channel
operation, I/O, a lock. What it does between two such points is one action,
trailing calls included.

One composition and two refinements are checked, the other links are
interfaces. `ProxiedConnection` extends `OutboundConnection` and instantiates
`InboundConnection` and `Socks5`; what one side puts on its `sendQueue` comes
to the other. `TunnelPool` implements `Transport`, `BlockProcessor` implements
`OrderedStream`. `BlockProcessor` assumes of the tunnels what `Transport`
says: blocks may be reordered and lost but not duplicated. `ProxiedConnection`
assumes that `orderedRecvQueue` delivers in order until a hole ends the
connection (`InOrder`, `ImplementsStream`, `KilledOnlyOnHole`). `TunnelPool`
assumes that a written block is read whole or the tunnel fails; `StreamConn`
shows this (`WholeBlocks`) for one writer at a time, and `KeepAlive` lets
writes that overlap spoil each other.

How the state corresponds to the code, where it is not obvious:

* `KeepAlive`. `end[e]` is a `Tunnel`: `stage` its progress through
  `NewActiveTunnel` / `NewPassiveTunnel` and its context, `ticks` the seconds
  begun since `LastActivity` (the code divides nanoseconds, so the seconds it
  sees are `ticks` or one less), `due` the tick in the channel of `PingPong`'s
  ticker, `writing` the goroutines inside `packThenSend`, `blocked` the one
  TCP makes wait, `deadline` the connection's write deadline. `Write`,
  `WriteFails` and `ReturnTo` are `packThenSend`, `Tick` and `ReturnTo` one
  round of `PingPong`, `Receive` one of `InboundRelay`.
* `Socks5`. One action for each of the three functions, with every refusal as
  a disjunct; `Leave` is any read that fails.
* `InboundConnection`. `read` says where the reader is: in the first select,
  in the loop that takes more, in the drain after `Close`, or writing to the
  application. `waits` is the context that the first select evaluated;
  `SetReadDeadline` replaces `readCtx`, which only later selects see.
  `closing[c]` is how far each of the three callers of `Close` has come.
* `ConnectionPool`. `MapFault`: `newClientPeerWithID` copies the pool by value
  (`peer/client.go:35`), so that `Dial` and the removals it starts use a
  `mappingLock` of their own while `recvRelay` uses the original's, for the
  same map. Go's runtime stops a process in which it notices this.
  `queueClosed` stands for both channels that `InboundConnection.Close`
  closes; `RecvBlockPanics` and `OrderedRelayPanics` are the sends on them,
  by `recvRelay` and by the connection's `OrderedRelay`. `panicked` says what
  ended the process, after which there is no further step.

Definitions whose comment calls them a mutant (for instance
`GivesUpWhenFull`) are not part of any specification. Each one is a plausible
mistake and replaces the definition it varies, to show that a property notices.

## Runs

Runs that pass (`tlc -config X.cfg` with the `MC` module, or the module itself
where there is none), with what they show:

| cfg | checks | shows |
|---|---|---|
| `BlockProcessor` | `TypeOK InOrder NothingForgotten KilledOnlyOnHole ImplementsStream HoleResolved Delivery` | blocks in any order and with any losses: the reader gets a prefix of the stream, wraps of the BlockID included; until the wrap the relay drops nothing, the timeout means a hole, and no full queue or hole blocks the connection for good |
| `TunnelPool` | `TypeOK OnePlace NoGridlock ImplementsTransport EveryBlockSettled DeadTunnelRemoved` | no duplicates; losses only after a tunnel has closed; full queues never wait for each other in a circle; blocks and dead tunnels do not linger |
| `KeepAlive` | `NoFalseAlarm DeafTunnelCloses` | a tunnel that works is not given up, unless a relay was held up; one that nobody answers is, in time; deadlock is checked too: time can always go on |
| `ClientManager` | `TypeOK NeverOverfull RefillUnderway PoolFills CancelStops` | removals during dialing are neither forgotten nor counted twice; the pool fills although one endpoint is dead; cancellation ends dialing |
| `PeerGroup` | `TypeOK LivePeerMapped CountDownOnlyWhenEmpty EmptyPoolCounted EmptyPeerRemoved` | concurrent adds, removals and late `RemovePeer` calls keep one live peer for each client and its countdown right; an empty peer does not stay |
| `ConnectionPool` | `TypeOK LiveConnectionMapped NoBlockLost` | in a server's and in a client's pool, reuse of IDs, late removals and full queues cost no live connection a block, in either direction |
| `ProxiedConnection` | `ProxyTypeOK Authenticated OneDisconnect CancelledIsClosed ReadsInOrder EOFMeansAll EveryByteRead PromiseKept Released` | nothing is dialed without the password; reads of any size return the stream without waiting for more, and EOF is its end; one disconnect and no leaked socket, whoever ends first; a target that cannot be had is noticed; nothing is left on the server |
| `StreamConn` | `WholeBlocks WrittenCanBeOpened EveryBlockArrives` | records and reads of all relations of sizes give back whole blocks, and all of them, unless two goroutines wrote at once |

Runs in which TLC finds a violation, each of a sentence in the repository
(`findings` in `PROJECT.json` quotes it):

| cfg | property | what the counterexample shows |
|---|---|---|
| `ClientManagerGivesUp` | `PoolFills` | with three endpoints of which only the last can be reached, the rotation swaps the two dead ones for ever |
| `ConnectionPoolStall` | `EveryBlockReceived` | `recvRelay` is stuck on an ended connection's full queue, and with it every other connection of the peer |
| `ConnectionPoolPanic` | `NoSendOnClosed` | `Close` closes a channel under its sender: `recvQueue` under `recvRelay` in the trace; two steps later it can be `orderedRecvQueue` under `OrderedRelay` |
| `InboundConnectionSpin` | `ReaderStops` | a `Read` after `Close` drains a closed channel, which is never empty, for ever |

### Exceptions the passing properties make

Where the code falls short of what its comments say, the models do what the
code does, and the property names the case it excepts:

* **Past the wrap of the BlockID** (`~Unwrapped` in `BlockProcessor`).
  `block_processor.go:47` and `:86` compare `uint32` IDs with `>` and `<`.
  After the wrap the timeout can fire on a quiet connection
  (`KilledOnlyOnHole`), and a needed block can be dropped as an old one
  (`NothingForgotten`). The order survives (`InOrder` has no exception). A
  wrap needs 2^32 blocks on one connection, 128 TiB at 32 KiB each and far
  less with small writes.
* **A cancelled tunnel still takes a block.** The comment in `OutboundRelay`
  gives cancellation the highest priority (`tunnel.go:165`), but the later
  selects (`:187`) choose among ready cases at random. The block then fails
  and is retried.
* **The retry of a failed block may drop it.** The goroutine at
  `tunnel.go:229-235` selects between the retry queue and a context that the
  same failure has cancelled. `Transport` counts this as a loss after a tunnel
  has closed.
* **A loaded tunnel can be taken for a dead one.** `InboundRelay` reads no
  pong while `recvQueue` is full. `NoFalseAlarm` excepts a relay that was held
  up (`delayed`).
* **A write can lose its deadline.** `packThenSend` sets and clears the write
  deadline of a connection that three goroutines share
  (`tunnel.go:210`, `:238`). A block whose write waits while a pong goes
  through has none afterwards. `DeafTunnelCloses` excepts it (`undated`).
* **A tunnel can join a peer that is being destroyed**
  (`peer_group.go:60`, after the group lock is released). The properties of
  `PeerGroup` are about live peers, so none of them covers such a tunnel: it
  stays open, in a pool that nobody uses, as long as it answers pings.
* **A hole leaves the target's TCP connection open.** When `OrderedRelay`
  gives up, `SendRelay` returns on a path that does not close `HalfOpenConn`
  (`outbound_connection.go:125-128`). `CancelledIsClosed` excepts `killed`;
  `Released` shows that the relays, at least, end.
* **The loss of a last block goes unnoticed.** A hole is found by a later block
  (`block_processor.go:94-101`); when the last block of a stream, or a lone
  Disconnect, dies with its tunnel, no timeout fires. `Delivery` excludes lost
  blocks, and `EveryByteRead`, `PromiseKept` and `Released` assume that what
  was sent arrives or leaves a hole that is found (`BlocksArrive`): without
  it, the other side keeps its relays and its socket.
* **An application that does not read holds its connection up.** The relay to
  the application is `io.Copy`, whose writes have no deadline
  (`client.go:173`). `EveryByteRead`, `PromiseKept` and `Released` assume that
  the application takes what is written to it (`ApplicationTakes`).
* **connectionIDs are taken to be fresh.** The client draws them with
  `rand.Uint32` and does not look whether one is in use
  (`inbound_connection.go:31`); `Dial` of `ConnectionPool` draws unused ones.
* **`Read` after `Close` spins** (`inbound_connection.go:79-93`, the run
  `InboundConnectionSpin`). `EveryByteRead` excepts `clientClosed`.
* **IPv6 targets cannot be dialed.** The target is formatted without brackets
  (`client.go:415`) and the server's dial fails, after the application was
  told "success". `PromiseKept` shows that it learns of it.
* **Two writers on one encrypted connection.** `OutboundRelay`, `PingPong` and
  the pong reply share a buffer and a nonce without a lock
  (`tunnel_pool/tunnel.go:211`). `WrittenCanBeOpened` and `EveryBlockArrives`
  except `overlapped`, as does `WholeBlocks`; in `KeepAlive` such writes may
  become garbage, which closes the tunnel.

Also seen while reading: the comment at `outbound_connection.go:100` announces
at most 3 attempts to drain, the code makes 5. It is the constant
`DrainReads` of the model.

### Bounds

Queues have one or two places, so that full, empty and in-between all occur,
and there are more blocks than places in any queue a run fills. The two blocks
of `TunnelPool` fill its queues in pairs, not all at once; for that case there
is the theorem `SomebodyCanRelay`, for all sizes and numbers. Two tunnels
are enough for overtaking and for one to outlive another; two connections for
one to hold up the other; two listeners and two clients for the races on the
group lock, with three tunnels so that a peer can be emptied, destroyed and
replaced. Three endpoints are the least with which a swap can leave one out.
Seven blocks with `IDMod = 5` and a window of 4 give holes before the wrap
and blocks in flight on both sides of it. In `StreamConn` the header, a record
and the blocks keep the order of their sizes in the code (a header fits a
record, a full block with its header does not), and in `InboundConnection`
the buffer is longer than one block and shorter than another. A connection of
`ConnectionPool` receives two blocks, one more than its queue holds, and sends
one. `MaxRemovals`, `MaxFlakes`, `MaxCancels`, `MaxCloses`, `MaxWrites`,
`MaxBlocks` and `TargetData` bound how often the environment acts, as do the
sets of blocks of `TunnelPool` and `ConnectionPool`. `WireSize` and
`SendBuffer` are TCP's buffering.

`ProxiedConnection` is the largest state space. A behaviour has faults of one
kind (`Faults`: the application's end fails, or either `OrderedRelay` gives up
on a hole), at any time; ends that are not faults, of application, client and
target, come in all combinations. The target sends two blocks; one read after
a cancellation (`DrainReads = 1`) is enough to drain data that is left.
`KeepAlive` keeps the order of the code's times (a ping interval shorter than
the timeout, a write deadline no longer than either, a round trip that fits) with
1, 4 and 1 seconds for 30, 40 and 8; blocks come from one end, so that pings,
pongs and blocks meet in one writer. `MaxDelay` is an assumption
about the network, without which no timeout is right.

But for `KeepAlive`, the models may stop when the environment has used up its
bounds, or for a quiet connection with nothing to do, so deadlock is not
checked; the liveness properties say what must not be
left undone. Symmetry is used only in runs without liveness properties.

### Fairness

Weak fairness of each goroutine's steps: the Go scheduler runs every goroutine
that can run. Calls with a deadline end (dials, the server's writes, the reads
of `RecvRelay`), so their steps are fair too. The packet wait timer is restarted
by every packet and is fair only while no packet is waiting. In
`ProxiedConnection` a relay whose ends have an expired deadline fails. Two
assumptions there are about the environment and not about the code, and have
names: `BlocksArrive` (blocks arrive while the connection is in its pool) and
`ApplicationTakes` (what is written to the application, without a deadline, is
taken). Neither the application nor the target need send, end or fail. A read
on a connection that the other end closed or the network lost fails eventually
(`NoticeClosed`; `PingPong` makes sure of it). Nothing makes writers write,
tunnels break, peers leave or anybody close. No strong fairness is assumed.
`KeepAlive` has no fairness: its properties bound the
seconds, and `Second` is enabled only when the goroutines have done what takes
no time.
In `TunnelPool` the two sends of `OutboundRelay` compete with a random select,
but each is retried from a loop whose steps are fair, which is enough.

## Proofs

`tlapm` checks the modules below, for every value of the constants that meets
the named assumptions (queue sizes positive, window at most the number of
BlockIDs, at least one endpoint, data blocks that are not empty, model values
like `None` distinct, `Junk` no byte and `Unsealed` no nonce). Each inductive invariant was first checked by TLC on the
instance of the component's run.

* `BlockProcessorProofs`. `TypeCorrectness`; `OrderPreserved`
  (`Spec => []InOrder`); `StreamRefinement` (`Spec => ImplementsStream`).
  `InOrder` is not inductive: it needs that a block whose BlockID equals
  `recvBlockID` is the *next* block and not one a whole cycle away.
  `OrderInv` adds that every outstanding block's BlockID is its position
  modulo `IDMod`, that positions outstanding lie between what was delivered
  and what was sent, at most `Window` apart, and that no position is
  outstanding twice; `IDInjectiveInWindow` then turns equal IDs into equal
  positions. The modular arithmetic it rests on is proved from
  `DivMod` and `ModUnique`. `NothingIsForgotten` and `TimeoutOnlyOnHole` are
  about the blocks packed before the wrap (`Unwrapped`). `HoleInv` adds that
  `lastRecvBlockID` is one more than the highest position seen, and that every
  position seen and not delivered is cached or held; it is inductive only
  while IDs are positions, so what is proved invariant is
  `OrderInv` with `Unwrapped => HoleInv` (`UntilWrap`): a step never makes `Unwrapped` true
  again (`UnwrappedBefore`).
* `ClientManagerProofs`. `TypeCorrectness`, `PoolNeverOverfull`, `RefillAlwaysUnderway`. The
  inductive invariant `PoolInv` adds to the types that the tunnels there are
  and the tunnels still owed by the call holding the lock never exceed
  `tunnelNum`; a removal lowers the first and queues a call that recounts.
* `PeerGroupProofs`. `TypeCorrectness`, `OneLivePeer`, `CountDownCancelled`,
  `EmptyPoolAlwaysCounted`. `GroupInv` ties the mapping, the contexts and
  `triggered` to the countdowns, and says that a listener between the two
  halves of `AddTunnel` has a peer that was mapped for its tunnel's peerID.

* `TunnelPoolProofs`. `TypeCorrectness`, `OnePlaceCorrectness`,
  `TransportCorrectness` (`Spec => ImplementsTransport`). `OnePlace` adds up
  where a block is, which no step can be shown to keep without knowing which
  of the places is meant. `Inv` says the same without cardinalities: every
  block is at exactly one of the places (`Partition`), no queue, no wire and
  no two goroutines have a block twice (`Once`), a relay has one block in hand
  (`OneInHand`), and the two ends of a tunnel start together (`Paired`). The refinement maps the
  places to the sets of `Transport`; its case that needs the invariant is the
  loss, which happens only with a tunnel that has closed. `SomebodyCanRelay`
  is the argument of `NoGridlock` without `ENABLED`: `CanRelay` lists the
  guards of the steps of `Relaying`, and follows from `Inv` and from `Running`
  (a relay that ended has its context done, a wire that has blocks has a
  reader) while a tunnel works: going back from the far end, whoever cannot
  step has nothing in hand, so the working tunnel waits for a block, both send
  queues are empty and a block that has not arrived is nowhere, which
  `Partition` excludes. That `CanRelay` and `ENABLED Relaying` agree is what
  tlapm cannot express; in the instance of the run TLC finds them equal in
  every state.
* `ConnectionPoolProofs`. `TypeCorrectness`, `LiveConnectionMappedCorrectness`,
  `NoBlockLostCorrectness`. `Mapping`: a connection is mapped from its
  creation until the one removal it is owed, which exists exactly while its
  context is done and the entry is there, so that no late removal finds a new
  connection under the same ID. `Contexts`: a context is done only if the
  connection or the peer ended. `Relays`: a relay that has looked at the
  mapping holds a block of a connection that is or was.
* `ProxiedConnectionProofs`. `TypeCorrectness`, `AuthenticatedCorrectness`,
  `OneDisconnectCorrectness`, `CancelledIsClosedCorrectness`,
  `ReadsInOrderCorrectness`, `EOFMeansAllCorrectness`, all of `ProxySpec`. The
  invariant `ProxyInv` has a part for each:
  * `Admitted`: from the request on, not only at the dial, a password that is
    asked for was shown;
  * `ServerInv`: who is about to tell the client has found `closed` unset, so
    that there is one of them at most and nobody told before;
  * `InOrder`: what `Read` returned, what it has so far, the ring buffer and
    the queue are, end to end, the bytes pushed so far (`Run`, `Runs`); with
    `Reading`, that a `Read` which waits for a block has emptied the ring
    buffer, so that `OverWrite` overwrites nothing;
  * `Positions`: the server's blocks are taken, queued or to come, in this
    order, and `Read` has every byte of those it took; `Counted` keeps the
    data blocks within those there are;
  * `Ends`: an expired deadline, a closed connection and the end of the reader
    each have a cause: `Read` took the Disconnect, the reader failed at the
    application, or this side closed or gave up. With `Positions` this is
    `EOFMeansAll`.

  Blocks are given by `Bytes`, how many bytes the first k of them have, and
  not by their lengths, so that no sum over a sequence is needed.

* `KeepAliveProofs`. `NoFalseAlarmCorrectness`, `DeafTunnelClosesCorrectness`,
  for all intervals, timeouts, buffer sizes and senders with which a way there
  and back fits the receive timeout (`TimeAssumption`). Every step but
  `LinkFails` and `Second` is a turn of one end, and a turn starts to write,
  writes, fails, reads, shakes hands or closes (`Turn`, `NextCases`); the
  invariants are shown turn by turn.
  * `WorkingInv`: `NoFalseAlarm` says nothing of a tunnel that has not timed
    out. `Answering` does: an end that is up, whose other end is there and
    whose relays were never held up, has heard something within
    `PingInterval` and a second or two, or a ping or its answer is on the way
    (`OnTheWay`), no longer than its age. For a second to leave this true, a
    message of age `MaxDelay` must have been read: messages keep their order
    (`Aging`), nobody writes while time passes (`OnTime`, `NobodyWrites`), and
    an end that does not read yet has a partner that does not ping yet
    (`Handshake`). From `OnTheWay` the silence is at most `PingInterval` + 2 +
    2 `MaxDelay`, less than the timeout.
  * `LonelyInv`: an end has been alone no longer than its silence has lasted,
    until `ticks` can count no further; from then on it is inside its last
    ping, without room, and the write deadline runs out, prolonged by one
    block at most (`LastPing`). This gives the second `TunnelBlockTimeoutSec`
    in `Patience`.

* `StreamConnProofs`. `WholeBlocksCorrectness`,
  `WrittenCanBeOpenedCorrectness`, for any number of writers and all sizes of
  header, record and blocks. `WholeBlocks` speaks of what was returned only.
  `StreamInv` says, as long as no writes overlapped (`Single`), what is in
  between:
  * `InFlight`: a *place* is a block and how many of its bytes come before;
    `Fits` says that bytes are those from a place on within its block, `Past`
    is the place after them. What the reader has of a block, `leftover`, each
    record on the wire, the record being made and what `ReadFrom` has not yet
    read lie one behind the other, from the block after the last one returned
    (`Front`) to the next one to be written (`Back`). `SplitFits`, `JoinFits`,
    `GrowFits` and `WholeFits` say how a record is cut off, bytes are copied
    out and a block is added; no sum over the records is needed, because their
    places are a sequence whose existence is the invariant.
  * `Sealed`, `Writing`: the i-th record on the wire carries the nonces that
    the reader will have after i - 1 records, and the writer's nonce goes on
    from the last one, one further after the size is sealed, two after the
    payload.
  * `Asking`: what is asked for ends with the header or the block being read.
    That a header is read as that of its block (`ReadHeaderInv`) needs that
    its bytes are the first ones of it, which `Fits` gives.

  A cut shortens the wire at its end and leaves nothing to say of the writers;
  that the reader fails only there follows from `Sealed`.

Only model-checked: everything about liveness (`HoleResolved`, `Delivery`,
`EveryBlockSettled`, `DeadTunnelRemoved`, `PoolFills`, `CancelStops`,
`EmptyPeerRemoved`, `EveryByteRead`, `PromiseKept`, `Released`,
`EveryBlockArrives`), and of `NoGridlock` that true guards are enabled steps:
the proof system supports neither fairness nor `ENABLED` here.

## Not modelled

* Command line, YAML, the status page, metrics, logging and statistics
  (`cmd/rabbit.go`, `logger/`, `stats/`): configuration and output. They read
  the state of the pools and change nothing that the models have.
* Ciphers: of sealing and opening only the agreement of nonces is modelled.
* `Peer.Stop`, `PeerGroup.Stop`, `TunnelPool.Close`: run while the process
  exits, when a panic of a relay that still sends ends it as well.
* `WriteTo` of the encrypted connection, which nothing reaches because blocks
  are read with `io.ReadFull`, and the connection without a cipher.
* Data races whose outcome is one of the values written (counters, the
  `readCtx` that a failing relay replaces) are interleavings in the models; a
  torn interface value is not modelled.
* A refusal of the SOCKS5 front end is followed by a close with bytes of the
  request unread; whether TCP still delivers the reply is not modelled.
* Real time outside `KeepAlive`: a timer may fire whenever it is running.

## Plan

Done, in the order of the block's path: block processor with abstract stream
and proofs, tunnel pool and the transport it implements, keep-alive and
handshake, client manager, server manager and peer group with proofs,
connection pool, encrypted stream; then the SOCKS5 front end and the
composition of one proxied connection.

Proofs for every value of the constants: the invariants, action properties and
refinements of every component are done, `NoGridlock` in the form without
`ENABLED`. What is left to TLC is liveness.
