------------------------------ MODULE KeepAlive ------------------------------
(***************************************************************************)
(* One tunnel from its handshake to its end, in seconds: the exchange of   *)
(* peer IDs, the PingPong of both ends, the write deadline that every      *)
(* packThenSend sets on the shared connection, and the link between them,  *)
(* which may go silent for good.                                           *)
(*                                                                         *)
(* A second passes only when nothing is left that happens at once: the     *)
(* goroutines are assumed to run within a second, and the link to carry a  *)
(* message within MaxDelay.  What has no such limit is a full recvQueue,   *)
(* which holds InboundRelay for as long as it likes.                       *)
(***************************************************************************)
EXTENDS Integers, Sequences, FiniteSetsExt

CONSTANTS
    PingInterval,           \* 30 in the code
    TunnelRecvTimeoutSec,   \* 40
    TunnelBlockTimeoutSec,  \* 8
    HandshakeSec,           \* the read deadline of recvPeerID, 30
    MaxDelay,               \* assumption: seconds a message takes, at most
    SendBuffer,             \* bound: messages TCP buffers in each direction
    Senders                 \* bound: the ends whose OutboundRelay has blocks

Ends == {"client", "server"}

ASSUME TimeAssumption ==
    /\ {PingInterval, TunnelRecvTimeoutSec, TunnelBlockTimeoutSec,
        HandshakeSec, SendBuffer} \subseteq Nat \ {0}
    /\ MaxDelay \in Nat
    /\ 2 * MaxDelay + 1 < TunnelRecvTimeoutSec
    /\ Senders \subseteq Ends

VARIABLES
    end,        \* the Tunnel at each end of the connection
    wire,       \* messages each end has sent, oldest first, with their ages
    down,       \* the link carries nothing any more
    lonely,     \* ghost: seconds for which nobody can have answered
    undated,    \* ghost: a write has waited a second without a deadline
    delayed,    \* ghost: a relay was held up while a second passed
    timedOut    \* ghost: PingPong has given the tunnel up

ghosts == <<lonely, undated, delayed>>
vars == <<end, wire, down, ghosts, timedOut>>

Other(e) == IF e = "client" THEN "server" ELSE "client"

\* An end that is not up yet.  Its fields: how far it is; seconds recvPeerID
\* has waited; seconds begun since LastActivity; the ticker has fired; the
\* goroutines inside packThenSend, named after what they send; the one whose
\* write waits for room; seconds left to the write deadline (-1: none); an
\* ignored failure has cut a record short; InboundRelay waits for recvQueue.
NewEnd(stage) ==
    [stage |-> stage, waited |-> 0, ticks |-> 0, due |-> FALSE,
     writing |-> {}, blocked |-> {}, deadline |-> -1, torn |-> FALSE,
     held |-> FALSE]

Init ==
    /\ end = [client |-> NewEnd("sendID"), server |-> NewEnd("backlog")]
    /\ wire = [e \in Ends |-> <<>>]
    /\ down = FALSE
    /\ lonely = [e \in Ends |-> 0]
    /\ undated = [e \in Ends |-> FALSE]
    /\ delayed = FALSE
    /\ timedOut = [e \in Ends |-> FALSE]

Sent(e, kind) == [wire EXCEPT ![e] = Append(@, [kind |-> kind, age |-> 0])]

\* closeThenCancel: the goroutines of this end stop.
CloseThenCancel(e) == end' = [end EXCEPT ![e] = NewEnd("closed")]

\* The other end, or the link, is gone in a way that TCP reports.
Reset(e) == end[Other(e)].stage = "closed" /\ ~down

-----------------------------------------------------------------------------
(* The handshake: activeExchangePeerID and passiveExchangePeerID *)

\* The server's accept loop shakes hands with one connection at a time, so
\* that it may come to this one late.
Accept ==
    /\ end["server"].stage = "backlog"
    /\ end' = [end EXCEPT !["server"] = NewEnd("recvID")]
    /\ UNCHANGED <<wire, down, ghosts, timedOut>>

\* sendPeerID.  The server then adds the tunnel, the client waits.
SendPeerID(e) ==
    /\ end[e].stage = "sendID"
    /\ end' = [end EXCEPT ![e] =
                 NewEnd(IF e = "client" THEN "recvID" ELSE "up")]
    /\ wire' = Sent(e, "id")
    /\ UNCHANGED <<down, ghosts, timedOut>>

\* recvPeerID.  The client then adds the tunnel, the server answers.
RecvPeerID(e) ==
    /\ end[e].stage = "recvID"
    /\ ~down
    /\ wire[Other(e)] # <<>>
    /\ end' = [end EXCEPT ![e] =
                 NewEnd(IF e = "client" THEN "up" ELSE "sendID")]
    /\ wire' = [wire EXCEPT ![Other(e)] = Tail(@)]
    /\ UNCHANGED <<down, ghosts, timedOut>>

\* A handshake fails: the server closes the connection, the client drops it.
FailHandshake(e) ==
    /\ \/ end[e].stage = "recvID" /\ end[e].waited = HandshakeSec
       \/ end[e].stage \in {"sendID", "recvID"} /\ Reset(e)
    /\ end' = [end EXCEPT ![e] =
                 NewEnd(IF e = "client" THEN "failed" ELSE "closed")]
    /\ UNCHANGED <<wire, down, ghosts, timedOut>>

\* The runtime closes a dropped connection when it collects it.
Finalize(e) ==
    /\ end[e].stage = "failed"
    /\ CloseThenCancel(e)
    /\ UNCHANGED <<wire, down, ghosts, timedOut>>

-----------------------------------------------------------------------------
(* packThenSend *)

\* The deadline belongs to the connection, whoever else is writing.
StartSend(t, kind) ==
    [t EXCEPT !.writing = @ \cup {kind}, !.deadline = TunnelBlockTimeoutSec]

\* Mutant of EndSend: sending counts as activity.
EndSendActive(t, kind) ==
    [t EXCEPT !.writing = @ \ {kind}, !.blocked = @ \ {kind},
              !.deadline = -1, !.ticks = 0]

\* A write that went through, and one whose failure is ignored, clear it.
EndSend(t, kind) ==
    [t EXCEPT !.writing = @ \ {kind}, !.blocked = @ \ {kind}, !.deadline = -1]

\* OutboundRelay has a block to send.
SendBlock(e) ==
    /\ e \in Senders
    /\ end[e].stage = "up"
    /\ "block" \notin end[e].writing
    /\ end' = [end EXCEPT ![e] = StartSend(@, "block")]
    /\ UNCHANGED <<wire, down, ghosts, timedOut>>

\* Whole seconds since LastActivity, which was somewhere inside a second.
Elapsed(e) == {end[e].ticks - 1, end[e].ticks}

\* The check of PingPong that follows its ping.
Expired(s) == s > PingInterval + TunnelRecvTimeoutSec

\* packThenSend returns.  OutboundRelay and InboundRelay carry on; PingPong
\* looks at the clock.
ReturnTo(e, kind, t) ==
    \E s \in Elapsed(e) :
       /\ IF kind = "ping" /\ Expired(s)
          THEN CloseThenCancel(e) ELSE end' = [end EXCEPT ![e] = t]
       /\ timedOut' = [timedOut EXCEPT ![e] = @ \/ (kind = "ping" /\ Expired(s))]

\* One write at a time has the connection; a waiting one has no turn.
HasTurn(e, kind) ==
    /\ kind \in end[e].writing
    /\ end[e].blocked \subseteq {kind}

HasRoom(e) == Len(wire[e]) < SendBuffer

\* TCP takes the whole message.  The cipher's buffer and nonce are shared
\* too: writes that overlap may spoil each other.
Write(e, kind) ==
    /\ HasTurn(e, kind)
    /\ end[e].deadline # 0
    /\ HasRoom(e)
    /\ \E spoilt \in {end[e].torn, end[e].torn \/ end[e].writing # {kind}} :
         /\ wire' = Sent(e, IF spoilt THEN "garbage" ELSE kind)
         /\ ReturnTo(e, kind, [EndSend(end[e], kind) EXCEPT !.torn = spoilt])
    /\ UNCHANGED <<down, ghosts>>

\* TCP has no room: the write waits.
Wait(e, kind) ==
    /\ HasTurn(e, kind)
    /\ end[e].deadline # 0
    /\ ~HasRoom(e)
    /\ end[e].blocked = {}
    /\ end' = [end EXCEPT ![e].blocked = {kind}]
    /\ UNCHANGED <<wire, down, ghosts, timedOut>>

\* The deadline has passed, or the other end has reset the connection.  Only
\* OutboundRelay, which has a retryQueue, minds.
WriteFails(e, kind) ==
    /\ HasTurn(e, kind)
    /\ end[e].deadline = 0 \/ Reset(e)
    /\ IF kind = "block"
       THEN CloseThenCancel(e) /\ UNCHANGED timedOut
       ELSE ReturnTo(e, kind, [EndSend(end[e], kind) EXCEPT !.torn = TRUE])
    /\ UNCHANGED <<wire, down, ghosts>>

-----------------------------------------------------------------------------
(* PingPong and InboundRelay *)

\* A tick: a ping if the tunnel has been silent for more than PingInterval.
\* (The timeout is longer, so that without a ping there is none.)
Tick(e) ==
    /\ end[e].due
    /\ "ping" \notin end[e].writing
    /\ \E s \in Elapsed(e) :
         end' = [end EXCEPT ![e] =
                   [IF s > PingInterval THEN StartSend(@, "ping") ELSE @
                    EXCEPT !.due = FALSE]]
    /\ UNCHANGED <<wire, down, ghosts, timedOut>>

\* Mutant of Answered: nobody answers a ping.
AnsweredNever(t, kind) == t

\* A ping is answered with a pong.
Answered(t, kind) == IF kind = "ping" THEN StartSend(t, "pong") ELSE t

Reading(e) ==
    /\ end[e].stage = "up"
    /\ ~end[e].held
    /\ "pong" \notin end[e].writing

\* NewBlockFromReader: what arrives is activity, unless it is garbage.  A
\* block may find recvQueue full.
Receive(e) ==
    /\ Reading(e)
    /\ ~down
    /\ wire[Other(e)] # <<>>
    /\ wire' = [wire EXCEPT ![Other(e)] = Tail(@)]
    /\ LET kind == Head(wire[Other(e)]).kind
       IN  IF kind = "garbage"
           THEN CloseThenCancel(e)
           ELSE \E full \in {FALSE, kind = "block"} :
                  end' = [end EXCEPT ![e] =
                            [Answered(@, kind) EXCEPT !.ticks = 0,
                                                      !.held = full]]
    /\ UNCHANGED <<down, ghosts, timedOut>>

\* recvQueue takes the block.
Release(e) ==
    /\ end[e].held
    /\ end' = [end EXCEPT ![e].held = FALSE]
    /\ UNCHANGED <<wire, down, ghosts, timedOut>>

\* NewBlockFromReader fails: the other end has closed.
ReadFails(e) ==
    /\ Reading(e)
    /\ Reset(e)
    /\ CloseThenCancel(e)
    /\ UNCHANGED <<wire, down, ghosts, timedOut>>

-----------------------------------------------------------------------------
(* Time and the link *)

LinkFails ==
    /\ ~down
    /\ down' = TRUE
    /\ UNCHANGED <<end, wire, ghosts, timedOut>>

\* Something that takes no time is still to be done at this end.
Busy(e) ==
    \/ end[e].stage = "sendID"
    \/ end[e].stage = "recvID" /\ end[e].waited = HandshakeSec
    \/ end[e].due /\ "ping" \notin end[e].writing
    \/ end[e].writing # {} /\ end[e].blocked = {}
    \/ end[e].blocked # {} /\ (end[e].deadline = 0 \/ HasRoom(e))
    \/ /\ Reading(e) \/ end[e].stage = "recvID"
       /\ ~down
       /\ wire[Other(e)] # <<>>
       /\ Head(wire[Other(e)]).age = MaxDelay

\* Nobody answers this end, and nothing is left for it to read.
Gone(e) == down \/ end[Other(e)].stage \in {"failed", "closed"}
Alone(e) == Gone(e) /\ (down \/ wire[Other(e)] = <<>>)

\* InboundRelay is not reading, or a write waits for room.
HeldUp(e) == end[e].stage = "up" /\ (~Reading(e) \/ end[e].blocked # {})

\* How long an end may go on alone: the silence reaches the timeout, and the
\* last ping, whose deadline a block may have prolonged, ends.
Patience ==
    PingInterval + TunnelRecvTimeoutSec + 2 + 2 * TunnelBlockTimeoutSec

Capped(n, top) == Min({n, top})

\* A second passes, and the tickers fire; a tick that finds the channel full
\* is dropped.
Second ==
    /\ \A e \in Ends : ~Busy(e)
    /\ end' = [e \in Ends |->
                 LET t == end[e] IN
                 [t EXCEPT
                   !.waited = IF t.stage = "recvID" THEN @ + 1 ELSE @,
                   !.ticks = IF t.stage = "up"
                             THEN Capped(@ + 1, PingInterval +
                                                TunnelRecvTimeoutSec + 2)
                             ELSE @,
                   !.due = t.stage = "up",
                   !.deadline = IF @ > 0 THEN @ - 1 ELSE @]]
    /\ wire' = [e \in Ends |->
                  [i \in 1 .. Len(wire[e]) |->
                     [wire[e][i] EXCEPT !.age = Capped(@ + 1, MaxDelay)]]]
    /\ lonely' = [e \in Ends |->
                    IF end[e].stage = "up" /\ Alone(e)
                    THEN Capped(lonely[e] + 1, Patience + 1) ELSE 0]
    /\ undated' = [e \in Ends |->
                     undated[e] \/ (end[e].blocked # {} /\ end[e].deadline = -1)]
    /\ delayed' = (delayed \/ \E e \in Ends : HeldUp(e))
    /\ UNCHANGED <<down, timedOut>>

-----------------------------------------------------------------------------
Next ==
    \/ Accept
    \/ \E e \in Ends :
         \/ SendPeerID(e) \/ RecvPeerID(e) \/ FailHandshake(e) \/ Finalize(e)
         \/ SendBlock(e) \/ Tick(e)
         \/ \E kind \in {"block", "ping", "pong"} :
              Write(e, kind) \/ Wait(e, kind) \/ WriteFails(e, kind)
         \/ Receive(e) \/ Release(e) \/ ReadFails(e)
    \/ LinkFails
    \/ Second

Spec == Init /\ [][Next]_vars

-----------------------------------------------------------------------------
(* Properties *)

\* PingPong never takes a working tunnel for a dead one: it times out only if
\* the link or the other end is gone, or if a relay was held up: InboundRelay
\* by a full recvQueue, which leaves pings and pongs unread, or a write by TCP
\* (tunnel.go 307-331, 357-370).
NoFalseAlarm ==
    \A e \in Ends : timedOut[e] => Gone(e) \/ delayed

\* A tunnel that nobody answers is closed in time, whichever of the writes,
\* the deadlines and the ticks come first, and also on a server that shook
\* hands with a client which had given up already.  The exception: a write
\* whose deadline another writer has cleared (tunnel.go 206-241, 357-370).
DeafTunnelCloses ==
    \A e \in Ends :
        end[e].stage = "up" /\ ~undated[e] => lonely[e] =< Patience
==============================================================================
