-------------------------- MODULE KeepAliveProofs --------------------------
(***************************************************************************)
(* Proofs about KeepAlive, for all intervals and timeouts of which the     *)
(* receive timeout is longer than the way there and back, all buffer       *)
(* sizes, and blocks from either end: PingPong gives no working tunnel up, *)
(* and a tunnel that nobody answers is closed within Patience.             *)
(***************************************************************************)
EXTENDS KeepAlive, SequenceTheorems, TLAPS

\* The most that ticks counts: from then on the tunnel has timed out whichever
\* part of the second LastActivity was in.
Silence == PingInterval + TunnelRecvTimeoutSec + 2

Kinds == {"block", "ping", "pong"}
Messages == [kind : Kinds \cup {"id", "garbage"}, age : 0 .. MaxDelay]
Stages == {"backlog", "sendID", "recvID", "up", "failed", "closed"}
Tunnels ==
    [stage : Stages,
     waited : Nat, ticks : 0 .. Silence, due : BOOLEAN,
     writing : SUBSET Kinds, blocked : SUBSET Kinds,
     deadline : -1 .. TunnelBlockTimeoutSec, torn : BOOLEAN, held : BOOLEAN]

\* A tunnel that is not up does nothing, a deadline is somebody's, and only a
\* goroutine that writes waits for room.
Orderly(t) ==
    /\ t.stage # "up" => t.writing = {} /\ ~t.due /\ ~t.held
    /\ t.deadline # -1 => t.writing # {}
    /\ t.blocked \subseteq t.writing

Types ==
    /\ end \in [Ends -> Tunnels]
    /\ \A e \in Ends : Orderly(end[e])
    /\ wire \in [Ends -> Seq(Messages)]
    /\ down \in BOOLEAN
    /\ lonely \in [Ends -> 0 .. Patience + 1]
    /\ undated \in [Ends -> BOOLEAN]
    /\ delayed \in BOOLEAN
    /\ timedOut \in [Ends -> BOOLEAN]

\* What was sent earlier is older.
Aging ==
    \A e \in Ends : \A i, j \in 1 .. Len(wire[e]) :
        i =< j => wire[e][j].age =< wire[e][i].age

\* How far the two ends can be apart during the handshake.
Handshake ==
    /\ end["client"].stage = "sendID" => wire["client"] = <<>>
    /\ end["client"].stage # "backlog"
    /\ end["server"].stage \in {"sendID", "up"} => end["client"].stage # "sendID"
    /\ wire["server"] # <<>> => end["server"].stage \in {"up", "closed"}
    /\ end["client"].stage = "up" => end["server"].stage \in {"up", "closed"}
    /\ end["server"].stage = "up" /\ end["client"].stage = "recvID" =>
         wire["server"] # <<>> /\ Head(wire["server"]).kind = "id"

\* While no relay was held up, no deadline has passed.
OnTime == delayed \/ \A e \in Ends : end[e].deadline # 0

\* A working tunnel that is silent has a ping or its answer on the way: it is
\* about to send the ping, the ping or the answer is in the link, or the other
\* end is about to send the answer.
Late(t) == t.ticks - (PingInterval + 2)

ToPing(t) == Late(t) =< 0 /\ (t.due \/ "ping" \in t.writing)
PingSent(t, w) ==
    \E i \in 1 .. Len(w) : w[i].kind \in {"ping", "garbage"} /\ Late(t) =< w[i].age
ToAnswer(t, o) == Late(t) =< MaxDelay /\ "pong" \in o.writing
AnswerSent(t, v) == \E i \in 1 .. Len(v) : Late(t) =< MaxDelay + v[i].age

OnTheWay(e) ==
    \/ Late(end[e]) < 0
    \/ ToPing(end[e])
    \/ PingSent(end[e], wire[e])
    \/ ToAnswer(end[e], end[Other(e)])
    \/ AnswerSent(end[e], wire[Other(e)])

Answering ==
    \A e \in Ends : end[e].stage = "up" /\ ~Gone(e) /\ ~delayed => OnTheWay(e)

WorkingInv == Types /\ Aging /\ Handshake /\ OnTime /\ Answering /\ NoFalseAlarm

\* An end that has gone on alone for longer than it can count is inside the
\* ping after which it gives up, with no room for it, and the deadline runs: a
\* block that comes on top can prolong it once.
LastPing(e) ==
    /\ ~HasRoom(e)
    /\ end[e].ticks = Silence /\ "ping" \in end[e].writing
    /\ lonely[e] =< Silence + TunnelBlockTimeoutSec
         - (IF end[e].deadline > 0 THEN end[e].deadline ELSE 0)
         + (IF "block" \in end[e].writing THEN TunnelBlockTimeoutSec ELSE 0)

LonelyEnd(e) ==
    /\ end[e].stage \in {"backlog", "sendID", "recvID"} => lonely[e] = 0
    /\ end[e].stage = "up" /\ lonely[e] > 0 => Alone(e)
    /\ end[e].stage = "up" /\ end[e].ticks = Silence =>
         end[e].due \/ "ping" \in end[e].writing
    /\ end[e].stage = "up" /\ ~undated[e] => lonely[e] =< end[e].ticks \/ LastPing(e)

LonelyInv == \A e \in Ends : LonelyEnd(e)

-----------------------------------------------------------------------------
(* The operators of the model *)

LEMMA Constants ==
    /\ PingInterval \in Nat /\ PingInterval > 0
    /\ TunnelRecvTimeoutSec \in Nat /\ TunnelRecvTimeoutSec > 0
    /\ TunnelBlockTimeoutSec \in Nat /\ TunnelBlockTimeoutSec > 0
    /\ HandshakeSec \in Nat /\ SendBuffer \in Nat /\ SendBuffer > 0
    /\ MaxDelay \in Nat
    /\ 2 * MaxDelay + 1 < TunnelRecvTimeoutSec
<1>1. /\ PingInterval \in Nat \ {0}
      /\ TunnelRecvTimeoutSec \in Nat \ {0}
      /\ TunnelBlockTimeoutSec \in Nat \ {0}
      /\ HandshakeSec \in Nat \ {0}
      /\ SendBuffer \in Nat \ {0}
  BY TimeAssumption, Zenon
<1> QED  BY <1>1, TimeAssumption

LEMMA TwoEnds ==
    ASSUME NEW e \in Ends
    PROVE  /\ Other(e) \in Ends /\ Other(e) # e /\ Other(Other(e)) = e
           /\ \A x \in Ends : x = e \/ x = Other(e)
           /\ Ends = {"client", "server"}
           /\ Other("client") = "server" /\ Other("server") = "client"
  BY DEF Ends, Other

LEMMA CappedValue ==
    ASSUME NEW n \in Int, NEW top \in Int
    PROVE  Capped(n, top) = IF n < top THEN n ELSE top
<1> DEFINE P(x) == x \in {n, top} /\ \A y \in {n, top} : x =< y
<1>1. CASE n < top
  <2>1. \A x \in {n, top} : (\A y \in {n, top} : x =< y) <=> x = n
    BY <1>1
  <2>2. (CHOOSE x \in {n, top} : \A y \in {n, top} : x =< y) = n
    BY <2>1
  <2> QED  BY <2>2, <1>1 DEF Capped, Min
<1>2. CASE ~(n < top)
  <2>1. \A x \in {n, top} : (\A y \in {n, top} : x =< y) <=> x = top
    BY <1>2
  <2>2. (CHOOSE x \in {n, top} : \A y \in {n, top} : x =< y) = top
    BY <2>1
  <2> QED  BY <2>2, <1>2 DEF Capped, Min
<1> QED  BY <1>1, <1>2

LEMMA NewEndIsTunnel ==
    ASSUME NEW stage \in Stages
    PROVE  /\ NewEnd(stage) \in Tunnels
           /\ Orderly(NewEnd(stage))
           /\ NewEnd(stage).stage = stage
           /\ NewEnd(stage).ticks = 0
           /\ NewEnd(stage).writing = {}
           /\ NewEnd(stage).blocked = {}
           /\ NewEnd(stage).deadline = -1
           /\ NewEnd(stage).due = FALSE
           /\ NewEnd(stage).held = FALSE
  BY Constants DEF Stages, NewEnd, Tunnels, Orderly, Silence

LEMMA StartSendTunnel ==
    ASSUME NEW t \in Tunnels, NEW kind \in Kinds, Orderly(t), t.stage = "up"
    PROVE  LET u == StartSend(t, kind)
           IN  /\ u \in Tunnels /\ Orderly(u)
               /\ u.stage = "up" /\ u.ticks = t.ticks /\ u.due = t.due
               /\ u.writing = t.writing \cup {kind}
               /\ u.blocked = t.blocked
               /\ u.deadline = TunnelBlockTimeoutSec
               /\ u.held = t.held
<1> DEFINE u == StartSend(t, kind)
<1>1. u = [t EXCEPT !.writing = t.writing \cup {kind},
                    !.deadline = TunnelBlockTimeoutSec]
  BY DEF StartSend, Tunnels
<1>2. /\ u.stage = "up" /\ u.ticks = t.ticks /\ u.due = t.due
      /\ u.writing = t.writing \cup {kind} /\ u.blocked = t.blocked
      /\ u.deadline = TunnelBlockTimeoutSec /\ u.held = t.held
  BY <1>1 DEF Tunnels
<1>3. u \in Tunnels
  <2>1. t.writing \cup {kind} \in SUBSET Kinds
    BY DEF Tunnels
  <2>2. TunnelBlockTimeoutSec \in -1 .. TunnelBlockTimeoutSec
    BY Constants
  <2> QED  BY <1>1, <2>1, <2>2, Zenon DEF Tunnels
<1>4. Orderly(u)
  BY <1>2 DEF Orderly
<1> QED  BY <1>2, <1>3, <1>4

LEMMA EndSendTunnel ==
    ASSUME NEW t \in Tunnels, NEW kind \in Kinds, Orderly(t), t.stage = "up",
           NEW torn \in BOOLEAN
    PROVE  LET u == [EndSend(t, kind) EXCEPT !.torn = torn]
           IN  /\ u \in Tunnels /\ Orderly(u)
               /\ u.stage = "up" /\ u.ticks = t.ticks /\ u.due = t.due
               /\ u.writing = t.writing \ {kind}
               /\ u.blocked = t.blocked \ {kind}
               /\ u.deadline = -1
               /\ u.held = t.held
<1> DEFINE u == [EndSend(t, kind) EXCEPT !.torn = torn]
<1>1. u = [t EXCEPT !.writing = t.writing \ {kind},
                    !.blocked = t.blocked \ {kind},
                    !.deadline = -1, !.torn = torn]
  BY DEF EndSend, Tunnels
<1>2. /\ u.stage = "up" /\ u.ticks = t.ticks /\ u.due = t.due
      /\ u.writing = t.writing \ {kind} /\ u.blocked = t.blocked \ {kind}
      /\ u.deadline = -1 /\ u.held = t.held
  BY <1>1 DEF Tunnels
<1>3. u \in Tunnels
  <2>1. /\ t.writing \ {kind} \in SUBSET Kinds
        /\ t.blocked \ {kind} \in SUBSET Kinds
    BY DEF Tunnels
  <2>2. -1 \in -1 .. TunnelBlockTimeoutSec
    BY Constants
  <2> QED  BY <1>1, <2>1, <2>2, Zenon DEF Tunnels
<1>4. Orderly(u)
  BY <1>2 DEF Orderly
<1> QED  BY <1>2, <1>3, <1>4

-----------------------------------------------------------------------------
(* The steps that one end takes, by what they do to it *)

\* What an end may do to the messages on the link: nothing, send, or read.
WireStep(e) ==
    \/ wire' = wire
    \/ /\ end[e].stage \in {"sendID", "up"}
       /\ \E kind \in Kinds \cup {"id", "garbage"} : wire' = Sent(e, kind)
    \/ /\ end[e].stage \in {"recvID", "up"} /\ ~down
       /\ wire[Other(e)] # <<>>
       /\ wire' = [wire EXCEPT ![Other(e)] = Tail(@)]

Solo(e, t) ==
    /\ t \in Tunnels /\ Orderly(t)
    /\ end' = [end EXCEPT ![e] = t]
    /\ WireStep(e)
    /\ UNCHANGED <<down, ghosts>>

\* An end that has nothing to do yet, or never again.
Idle(t) ==
    /\ t.ticks = 0 /\ ~t.due /\ t.writing = {} /\ t.blocked = {}
    /\ t.deadline = -1

\* The handshake goes on.
Greets(e, t) ==
    /\ Idle(t)
    /\ timedOut' = timedOut
    /\ \/ /\ e = "server" /\ end[e].stage = "backlog" /\ t.stage = "recvID"
          /\ wire' = wire
       \/ /\ end[e].stage = "sendID"
          /\ t.stage = IF e = "client" THEN "recvID" ELSE "up"
          /\ wire' = Sent(e, "id")
       \/ /\ end[e].stage = "recvID" /\ ~down /\ wire[Other(e)] # <<>>
          /\ t.stage = IF e = "client" THEN "up" ELSE "sendID"
          /\ wire' = [wire EXCEPT ![Other(e)] = Tail(@)]

\* The end closes, and PingPong does it only after the timeout.
Shuts(e, t) ==
    /\ Idle(t)
    /\ t.stage = "closed" \/ (e = "client" /\ t.stage = "failed")
    /\ \/ timedOut' = timedOut
       \/ /\ timedOut' = [timedOut EXCEPT ![e] = TRUE]
          /\ end[e].stage = "up"
          /\ end[e].ticks > PingInterval + TunnelRecvTimeoutSec

\* A tunnel that is up starts to send, or waits, or goes on reading.
Starts(e, t) ==
    /\ end[e].stage = "up" /\ t.stage = "up"
    /\ wire' = wire /\ timedOut' = timedOut
    /\ t.ticks = end[e].ticks
    /\ end[e].writing \subseteq t.writing
    /\ t.due = end[e].due \/ t.ticks < PingInterval + 2 \/ "ping" \in t.writing
    /\ \/ t.deadline = end[e].deadline /\ t.writing = end[e].writing
       \/ t.deadline = TunnelBlockTimeoutSec /\ "ping" \notin end[e].writing
       \/ /\ t.deadline = TunnelBlockTimeoutSec
          /\ "block" \notin end[e].writing
          /\ t.writing = end[e].writing \cup {"block"}

\* A message goes out.
Writes(e, t, kind) ==
    /\ end[e].stage = "up" /\ t.stage = "up"
    /\ HasRoom(e)
    /\ wire' = Sent(e, kind) \/ wire' = Sent(e, "garbage")
    /\ timedOut' = timedOut
    /\ t.ticks = end[e].ticks /\ t.due = end[e].due
    /\ t.writing = end[e].writing \ {kind}
    /\ t.deadline = -1
    /\ kind = "ping" => t.ticks < Silence

\* A ping or a pong fails.
Fails(e, t, kind) ==
    /\ end[e].stage = "up" /\ t.stage = "up"
    /\ end[e].deadline = 0 \/ Reset(e)
    /\ wire' = wire /\ timedOut' = timedOut
    /\ t.ticks = end[e].ticks /\ t.due = end[e].due
    /\ kind # "block" /\ t.writing = end[e].writing \ {kind}
    /\ t.deadline = -1
    /\ kind = "ping" => t.ticks < Silence

\* A message comes in.
Reads(e, t) ==
    /\ end[e].stage = "up" /\ t.stage = "up"
    /\ ~down /\ wire[Other(e)] # <<>>
    /\ wire' = [wire EXCEPT ![Other(e)] = Tail(@)]
    /\ timedOut' = timedOut
    /\ t.ticks = 0
    /\ end[e].writing \subseteq t.writing
    /\ Head(wire[Other(e)]).kind # "garbage"
    /\ Head(wire[Other(e)]).kind = "ping" => "pong" \in t.writing
    /\ t.deadline \in {end[e].deadline, TunnelBlockTimeoutSec}

Works(e, t) ==
    \/ Starts(e, t) \/ Reads(e, t)
    \/ \E kind \in Kinds : Writes(e, t, kind) \/ Fails(e, t, kind)

Turn(e) == \E t : Solo(e, t) /\ (Greets(e, t) \/ Shuts(e, t) \/ Works(e, t))

LEMMA AcceptTurn ==
    ASSUME Types, Accept
    PROVE  Turn("server")
<1> DEFINE t == NewEnd("recvID")
<1>1. t \in Tunnels /\ Orderly(t) /\ Idle(t) /\ t.stage = "recvID"
  BY NewEndIsTunnel DEF Stages, Idle
<1>2. Solo("server", t)
  BY <1>1 DEF Accept, Solo, WireStep
<1>3. Greets("server", t)
  BY <1>1 DEF Accept, Greets
<1> QED  BY <1>2, <1>3 DEF Turn

LEMMA SendPeerIDTurn ==
    ASSUME Types, NEW e \in Ends, SendPeerID(e)
    PROVE  Turn(e)
<1> DEFINE s == IF e = "client" THEN "recvID" ELSE "up"
           t == NewEnd(s)
<1>1. t \in Tunnels /\ Orderly(t) /\ Idle(t) /\ t.stage = s
  BY NewEndIsTunnel DEF Stages, Idle
<1>2. Solo(e, t)
  BY <1>1 DEF SendPeerID, Solo, WireStep
<1>3. Greets(e, t)
  BY <1>1 DEF SendPeerID, Greets
<1> QED  BY <1>2, <1>3 DEF Turn

LEMMA RecvPeerIDTurn ==
    ASSUME Types, NEW e \in Ends, RecvPeerID(e)
    PROVE  Turn(e)
<1> DEFINE s == IF e = "client" THEN "up" ELSE "sendID"
           t == NewEnd(s)
<1>1. t \in Tunnels /\ Orderly(t) /\ Idle(t) /\ t.stage = s
  BY NewEndIsTunnel DEF Stages, Idle
<1>2. Solo(e, t)
  BY <1>1 DEF RecvPeerID, Solo, WireStep
<1>3. Greets(e, t)
  BY <1>1 DEF RecvPeerID, Greets
<1> QED  BY <1>2, <1>3 DEF Turn

LEMMA ClosedTunnel ==
    /\ NewEnd("closed") \in Tunnels /\ Orderly(NewEnd("closed"))
    /\ Idle(NewEnd("closed")) /\ NewEnd("closed").stage = "closed"
  BY NewEndIsTunnel DEF Stages, Idle

\* Every other way to close leaves timedOut alone.
LEMMA CloseTurn ==
    ASSUME Types, NEW e \in Ends, CloseThenCancel(e), WireStep(e),
           UNCHANGED <<down, ghosts, timedOut>>
    PROVE  Turn(e)
<1> DEFINE t == NewEnd("closed")
<1>1. Solo(e, t)
  BY ClosedTunnel DEF CloseThenCancel, Solo
<1>2. timedOut' = timedOut
  OBVIOUS
<1>3. Shuts(e, t)
  BY <1>2, ClosedTunnel, Zenon DEF Shuts
<1> QED  BY <1>1, <1>3 DEF Turn

LEMMA FailHandshakeTurn ==
    ASSUME Types, NEW e \in Ends, FailHandshake(e)
    PROVE  Turn(e)
<1> DEFINE s == IF e = "client" THEN "failed" ELSE "closed"
           t == NewEnd(s)
<1>1. t \in Tunnels /\ Orderly(t) /\ Idle(t) /\ t.stage = s
  BY NewEndIsTunnel DEF Stages, Idle
<1>2. Solo(e, t)
  BY <1>1 DEF FailHandshake, Solo, WireStep
<1>3. timedOut' = timedOut /\ (s = "closed" \/ (e = "client" /\ s = "failed"))
  BY DEF FailHandshake
<1>4. Shuts(e, t)
  BY <1>1, <1>3, Zenon DEF Shuts
<1> QED  BY <1>2, <1>4 DEF Turn

\* PingPong closes only after the timeout, and never lets a full count pass.
LEMMA ReturnToCases ==
    ASSUME Types, NEW e \in Ends, NEW kind, NEW t, ReturnTo(e, kind, t)
    PROVE  \/ /\ CloseThenCancel(e)
              /\ timedOut' = [timedOut EXCEPT ![e] = TRUE]
              /\ end[e].ticks > PingInterval + TunnelRecvTimeoutSec
           \/ /\ end' = [end EXCEPT ![e] = t]
              /\ timedOut' = timedOut
              /\ kind = "ping" => end[e].ticks < Silence
<1>1. PICK s \in Elapsed(e) :
         /\ IF kind = "ping" /\ Expired(s)
            THEN CloseThenCancel(e) ELSE end' = [end EXCEPT ![e] = t]
         /\ timedOut' = [timedOut EXCEPT ![e] = @ \/ (kind = "ping" /\ Expired(s))]
  BY DEF ReturnTo
<1>2. end[e].ticks \in Int /\ timedOut \in [Ends -> BOOLEAN]
  BY Constants DEF Types, Tunnels, Silence
<1>3. CASE kind = "ping" /\ Expired(s)
  <2>1. end[e].ticks > PingInterval + TunnelRecvTimeoutSec
    BY <1>2, <1>3, Constants DEF Elapsed, Expired
  <2>2. timedOut' = [timedOut EXCEPT ![e] = TRUE]
    BY <1>1, <1>2, <1>3, Zenon
  <2> QED  BY <1>1, <1>3, <2>1, <2>2
<1>4. CASE ~(kind = "ping" /\ Expired(s))
  <2>1. kind = "ping" => end[e].ticks < Silence
    BY <1>2, <1>4, Constants DEF Elapsed, Expired, Silence
  <2>2. timedOut' = [timedOut EXCEPT ![e] = timedOut[e]]
    BY <1>1, <1>2, <1>4, Zenon
  <2> QED  BY <1>1, <1>2, <1>4, <2>1, <2>2
<1> QED  BY <1>3, <1>4

\* Only a tunnel that is up has anything to do.
LEMMA OnlyUpWorks ==
    ASSUME Types, NEW e \in Ends
    PROVE  /\ end[e] \in Tunnels /\ Orderly(end[e])
           /\ end[e].writing # {} => end[e].stage = "up"
           /\ end[e].due => end[e].stage = "up"
           /\ end[e].held => end[e].stage = "up"
           /\ end[e].ticks \in 0 .. Silence
           /\ end[e].deadline \in -1 .. TunnelBlockTimeoutSec
<1>1. end[e] \in Tunnels /\ Orderly(end[e])
  BY DEF Types
<1> QED  BY <1>1 DEF Orderly, Tunnels

LEMMA SendBlockTurn ==
    ASSUME Types, NEW e \in Ends, SendBlock(e)
    PROVE  Turn(e)
<1> DEFINE t == StartSend(end[e], "block")
<1>1. /\ end[e] \in Tunnels /\ Orderly(end[e]) /\ end[e].stage = "up"
      /\ "block" \notin end[e].writing
      /\ end' = [end EXCEPT ![e] = t]
      /\ wire' = wire /\ timedOut' = timedOut
      /\ UNCHANGED <<down, ghosts>>
  BY OnlyUpWorks DEF SendBlock
<1>2. /\ t \in Tunnels /\ Orderly(t)
      /\ t.stage = "up" /\ t.ticks = end[e].ticks /\ t.due = end[e].due
      /\ t.writing = end[e].writing \cup {"block"}
      /\ t.deadline = TunnelBlockTimeoutSec
  BY <1>1, StartSendTunnel DEF Kinds
<1> HIDE DEF t
<1>3. Solo(e, t)
  BY <1>1, <1>2 DEF Solo, WireStep
<1>4. Starts(e, t)
  BY <1>1, <1>2 DEF Starts
<1> QED  BY <1>3, <1>4 DEF Turn, Works

LEMMA WaitTurn ==
    ASSUME Types, NEW e \in Ends, NEW kind \in Kinds, Wait(e, kind)
    PROVE  Turn(e)
<1> DEFINE t == [end[e] EXCEPT !.blocked = {kind}]
<1>1. /\ end[e] \in Tunnels /\ Orderly(end[e]) /\ end[e].stage = "up"
      /\ kind \in end[e].writing
      /\ end' = [end EXCEPT ![e] = t]
      /\ wire' = wire /\ timedOut' = timedOut
      /\ UNCHANGED <<down, ghosts>>
  BY OnlyUpWorks DEF Wait, HasTurn
<1>2. /\ t.stage = "up" /\ t.ticks = end[e].ticks /\ t.due = end[e].due
      /\ t.writing = end[e].writing /\ t.deadline = end[e].deadline
      /\ t.blocked = {kind}
  BY <1>1 DEF Tunnels
<1>3. t \in Tunnels
  BY <1>1 DEF Tunnels
<1>4. Orderly(t)
  BY <1>1, <1>2 DEF Orderly
<1> HIDE DEF t
<1>5. Solo(e, t)
  BY <1>1, <1>3, <1>4 DEF Solo, WireStep
<1>6. Starts(e, t)
  BY <1>1, <1>2 DEF Starts
<1> QED  BY <1>5, <1>6 DEF Turn, Works

LEMMA ReleaseTurn ==
    ASSUME Types, NEW e \in Ends, Release(e)
    PROVE  Turn(e)
<1> DEFINE t == [end[e] EXCEPT !.held = FALSE]
<1>1. /\ end[e] \in Tunnels /\ Orderly(end[e]) /\ end[e].stage = "up"
      /\ end' = [end EXCEPT ![e] = t]
      /\ wire' = wire /\ timedOut' = timedOut
      /\ UNCHANGED <<down, ghosts>>
  BY OnlyUpWorks DEF Release
<1>2. /\ t.stage = "up" /\ t.ticks = end[e].ticks /\ t.due = end[e].due
      /\ t.writing = end[e].writing /\ t.deadline = end[e].deadline
      /\ t.blocked = end[e].blocked
  BY <1>1 DEF Tunnels
<1>3. t \in Tunnels
  BY <1>1 DEF Tunnels
<1>4. Orderly(t)
  BY <1>1, <1>2 DEF Orderly
<1> HIDE DEF t
<1>5. Solo(e, t)
  BY <1>1, <1>3, <1>4 DEF Solo, WireStep
<1>6. Starts(e, t)
  BY <1>1, <1>2 DEF Starts
<1> QED  BY <1>5, <1>6 DEF Turn, Works

LEMMA TickTurn ==
    ASSUME Types, NEW e \in Ends, Tick(e)
    PROVE  Turn(e)
<1>1. PICK s \in Elapsed(e) :
         end' = [end EXCEPT ![e] =
                   [IF s > PingInterval THEN StartSend(@, "ping") ELSE @
                    EXCEPT !.due = FALSE]]
  BY DEF Tick
<1> DEFINE r == IF s > PingInterval THEN StartSend(end[e], "ping") ELSE end[e]
           t == [r EXCEPT !.due = FALSE]
<1>2. /\ end[e] \in Tunnels /\ Orderly(end[e]) /\ end[e].stage = "up"
      /\ "ping" \notin end[e].writing
      /\ wire' = wire /\ timedOut' = timedOut
      /\ UNCHANGED <<down, ghosts>>
      /\ end[e].ticks \in Int
  BY OnlyUpWorks, Constants DEF Tick, Silence
<1>a. end' = [end EXCEPT ![e] = t]
  BY <1>1, Zenon
<1>3. /\ r \in Tunnels /\ Orderly(r)
      /\ r.stage = "up" /\ r.ticks = end[e].ticks
      /\ r.blocked = end[e].blocked
      /\ \/ s > PingInterval /\ r = StartSend(end[e], "ping")
         \/ ~(s > PingInterval) /\ r = end[e]
  BY <1>2, StartSendTunnel DEF Kinds
<1>4. \/ /\ r.writing = end[e].writing \cup {"ping"}
         /\ r.deadline = TunnelBlockTimeoutSec
      \/ /\ r.writing = end[e].writing /\ r.deadline = end[e].deadline
         /\ r.ticks < PingInterval + 2
  <2>1. CASE s > PingInterval
    BY <1>2, <1>3, <2>1, StartSendTunnel DEF Kinds
  <2>2. CASE ~(s > PingInterval)
    BY <1>2, <1>3, <2>2, Constants DEF Elapsed
  <2> QED  BY <2>1, <2>2
<1> HIDE DEF r
<1>5. /\ t.stage = r.stage /\ t.ticks = r.ticks /\ t.writing = r.writing
      /\ t.blocked = r.blocked /\ t.deadline = r.deadline
      /\ t.due = FALSE /\ t.held = r.held
  BY <1>3 DEF Tunnels
<1>6. t \in Tunnels
  BY <1>3 DEF Tunnels
<1>7. Orderly(t)
  BY <1>3, <1>5 DEF Orderly
<1> HIDE DEF t
<1>8. Solo(e, t)
  BY <1>2, <1>a, <1>6, <1>7 DEF Solo, WireStep
<1>9. Starts(e, t)
  BY <1>2, <1>3, <1>4, <1>5 DEF Starts
<1> QED  BY <1>8, <1>9 DEF Turn, Works

LEMMA TimeoutTurn ==
    ASSUME Types, NEW e \in Ends, CloseThenCancel(e), WireStep(e),
           UNCHANGED <<down, ghosts>>, end[e].stage = "up",
           timedOut' = [timedOut EXCEPT ![e] = TRUE],
           end[e].ticks > PingInterval + TunnelRecvTimeoutSec
    PROVE  Turn(e)
<1> DEFINE t == NewEnd("closed")
<1>1. Solo(e, t)
  BY ClosedTunnel DEF CloseThenCancel, Solo
<1>2. Shuts(e, t)
  BY ClosedTunnel, Zenon DEF Shuts
<1> QED  BY <1>1, <1>2 DEF Turn

LEMMA WriteTurn ==
    ASSUME Types, NEW e \in Ends, NEW kind \in Kinds, Write(e, kind)
    PROVE  Turn(e)
<1>1. /\ end[e] \in Tunnels /\ Orderly(end[e]) /\ end[e].stage = "up"
      /\ HasRoom(e) /\ end[e].torn \in BOOLEAN
      /\ UNCHANGED <<down, ghosts>>
  BY OnlyUpWorks DEF Write, HasTurn, Tunnels
<1>2. PICK spoilt \in {end[e].torn, end[e].torn \/ end[e].writing # {kind}} :
         /\ wire' = Sent(e, IF spoilt THEN "garbage" ELSE kind)
         /\ ReturnTo(e, kind, [EndSend(end[e], kind) EXCEPT !.torn = spoilt])
  BY DEF Write
<1>3. spoilt \in BOOLEAN
  BY <1>1, <1>2
<1>4. wire' = Sent(e, kind) \/ wire' = Sent(e, "garbage")
  BY <1>2
<1>5. WireStep(e)
  BY <1>1, <1>4 DEF WireStep
<1> DEFINE t == [EndSend(end[e], kind) EXCEPT !.torn = spoilt]
<1>6. /\ t \in Tunnels /\ Orderly(t)
      /\ t.stage = "up" /\ t.ticks = end[e].ticks /\ t.due = end[e].due
      /\ t.writing = end[e].writing \ {kind}
      /\ t.deadline = -1
  BY <1>1, <1>3, EndSendTunnel
<1>7. ReturnTo(e, kind, t)
  BY <1>2
<1> HIDE DEF t
<1>8. CASE /\ CloseThenCancel(e)
           /\ timedOut' = [timedOut EXCEPT ![e] = TRUE]
           /\ end[e].ticks > PingInterval + TunnelRecvTimeoutSec
  BY <1>1, <1>5, <1>8, TimeoutTurn
<1>9. CASE /\ end' = [end EXCEPT ![e] = t]
           /\ timedOut' = timedOut
           /\ kind = "ping" => end[e].ticks < Silence
  <2>1. Solo(e, t)
    BY <1>1, <1>5, <1>6, <1>9 DEF Solo
  <2>2. Writes(e, t, kind)
    BY <1>1, <1>4, <1>6, <1>9 DEF Writes
  <2> QED  BY <2>1, <2>2 DEF Turn, Works
<1> QED  BY <1>7, <1>8, <1>9, ReturnToCases

LEMMA WriteFailsTurn ==
    ASSUME Types, NEW e \in Ends, NEW kind \in Kinds, WriteFails(e, kind)
    PROVE  Turn(e)
<1>1. /\ end[e] \in Tunnels /\ Orderly(end[e]) /\ end[e].stage = "up"
      /\ end[e].deadline = 0 \/ Reset(e)
      /\ wire' = wire
      /\ UNCHANGED <<down, ghosts>>
  BY OnlyUpWorks DEF WriteFails, HasTurn
<1>2. WireStep(e)
  BY <1>1 DEF WireStep
<1>3. CASE kind = "block"
  BY <1>1, <1>2, <1>3, CloseTurn DEF WriteFails
<1>4. CASE kind # "block"
  <2> DEFINE t == [EndSend(end[e], kind) EXCEPT !.torn = TRUE]
  <2>1. /\ t \in Tunnels /\ Orderly(t)
        /\ t.stage = "up" /\ t.ticks = end[e].ticks /\ t.due = end[e].due
        /\ t.writing = end[e].writing \ {kind}
        /\ t.deadline = -1
    BY <1>1, EndSendTunnel
  <2>2. ReturnTo(e, kind, t)
    BY <1>4 DEF WriteFails
  <2> HIDE DEF t
  <2>3. CASE /\ CloseThenCancel(e)
             /\ timedOut' = [timedOut EXCEPT ![e] = TRUE]
             /\ end[e].ticks > PingInterval + TunnelRecvTimeoutSec
    BY <1>1, <1>2, <2>3, TimeoutTurn
  <2>4. CASE /\ end' = [end EXCEPT ![e] = t]
             /\ timedOut' = timedOut
             /\ kind = "ping" => end[e].ticks < Silence
    <3>1. Solo(e, t)
      BY <1>1, <1>2, <2>1, <2>4 DEF Solo
    <3>2. Fails(e, t, kind)
      BY <1>1, <1>4, <2>1, <2>4 DEF Fails
    <3> QED  BY <3>1, <3>2 DEF Turn, Works
  <2> QED  BY <2>2, <2>3, <2>4, ReturnToCases
<1> QED  BY <1>3, <1>4

LEMMA ReceiveTurn ==
    ASSUME Types, NEW e \in Ends, Receive(e)
    PROVE  Turn(e)
<1> DEFINE kind == Head(wire[Other(e)]).kind
<1>1. /\ end[e] \in Tunnels /\ Orderly(end[e]) /\ end[e].stage = "up"
      /\ ~down /\ wire[Other(e)] # <<>>
      /\ wire' = [wire EXCEPT ![Other(e)] = Tail(@)]
      /\ timedOut' = timedOut
      /\ UNCHANGED <<down, ghosts>>
  BY OnlyUpWorks DEF Receive, Reading
<1>2. WireStep(e)
  BY <1>1 DEF WireStep
<1>3. CASE kind = "garbage"
  <2>1. CloseThenCancel(e)
    BY <1>3 DEF Receive
  <2> QED  BY <1>1, <1>2, <2>1, CloseTurn
<1>4. CASE kind # "garbage"
  <2>1. PICK full \in {FALSE, kind = "block"} :
           end' = [end EXCEPT ![e] = [Answered(@, kind) EXCEPT !.ticks = 0,
                                                             !.held = full]]
    BY <1>4 DEF Receive
  <2> DEFINE r == Answered(end[e], kind)
             t == [r EXCEPT !.ticks = 0, !.held = full]
  <2>2. full \in BOOLEAN
    BY <2>1
  <2>3. end' = [end EXCEPT ![e] = t]
    BY <2>1, Zenon
  <2>4. /\ r \in Tunnels /\ Orderly(r) /\ r.stage = "up"
        /\ end[e].writing \subseteq r.writing
        /\ kind = "ping" => "pong" \in r.writing
        /\ r.deadline \in {end[e].deadline, TunnelBlockTimeoutSec}
    BY <1>1, StartSendTunnel DEF Answered, Kinds
  <2> HIDE DEF r
  <2>5. /\ t.stage = r.stage /\ t.ticks = 0 /\ t.writing = r.writing
        /\ t.blocked = r.blocked /\ t.deadline = r.deadline
    BY <2>4 DEF Tunnels
  <2>6. t \in Tunnels
    <3>1. 0 \in 0 .. Silence
      BY Constants DEF Silence
    <3> QED  BY <2>2, <2>4, <3>1, Zenon DEF Tunnels
  <2>7. Orderly(t)
    BY <2>4, <2>5 DEF Orderly
  <2> HIDE DEF t
  <2>8. Solo(e, t)
    BY <1>1, <1>2, <2>3, <2>6, <2>7 DEF Solo
  <2>9. Reads(e, t)
    BY <1>1, <1>4, <2>4, <2>5 DEF Reads
  <2> QED  BY <2>8, <2>9 DEF Turn, Works
<1> QED  BY <1>3, <1>4

\* Every step is a turn of one end, or the link fails, or a second passes.
LEMMA NextCases ==
    ASSUME Types, Next
    PROVE  (\E e \in Ends : Turn(e)) \/ LinkFails \/ Second
<1>1. CASE Accept
  BY <1>1, AcceptTurn DEF Ends
<1>2. ASSUME NEW e \in Ends,
             \/ SendPeerID(e) \/ RecvPeerID(e) \/ FailHandshake(e) \/ Finalize(e)
             \/ SendBlock(e) \/ Tick(e)
             \/ \E kind \in Kinds :
                  Write(e, kind) \/ Wait(e, kind) \/ WriteFails(e, kind)
             \/ Receive(e) \/ Release(e) \/ ReadFails(e)
      PROVE  Turn(e)
  <2>1. CASE Finalize(e) \/ ReadFails(e)
    <3>1. /\ CloseThenCancel(e) /\ WireStep(e)
          /\ UNCHANGED <<down, ghosts, timedOut>>
      BY <2>1 DEF Finalize, ReadFails, WireStep
    <3> QED  BY <3>1, CloseTurn
  <2> QED  BY <1>2, <2>1, SendPeerIDTurn, RecvPeerIDTurn, FailHandshakeTurn,
              SendBlockTurn, TickTurn, WriteTurn, WaitTurn, WriteFailsTurn,
              ReceiveTurn, ReleaseTurn, Zenon
<1> QED  BY <1>1, <1>2, Zenon DEF Next, Kinds

-----------------------------------------------------------------------------
(* Types, Aging, Handshake and OnTime *)

\* Sending puts a message of age 0 behind the others.
LEMMA SentWire ==
    ASSUME Types, NEW e \in Ends, NEW kind \in Kinds \cup {"id", "garbage"},
           wire' = Sent(e, kind)
    PROVE  /\ wire' \in [Ends -> Seq(Messages)]
           /\ wire'[Other(e)] = wire[Other(e)]
           /\ Len(wire'[e]) = Len(wire[e]) + 1
           /\ \A i \in 1 .. Len(wire[e]) : wire'[e][i] = wire[e][i]
           /\ wire'[e][Len(wire[e]) + 1].kind = kind
           /\ wire'[e][Len(wire[e]) + 1].age = 0
<1> DEFINE m == [kind |-> kind, age |-> 0]
<1>1. m \in Messages /\ m.kind = kind /\ m.age = 0
  BY Constants DEF Messages
<1>2. wire \in [Ends -> Seq(Messages)] /\ wire[e] \in Seq(Messages)
  BY DEF Types
<1>3. /\ wire'[e] = Append(wire[e], m) /\ wire'[Other(e)] = wire[Other(e)]
      /\ wire' = [wire EXCEPT ![e] = Append(wire[e], m)]
  BY <1>2, TwoEnds DEF Sent
<1> HIDE DEF m
<1>4. wire' \in [Ends -> Seq(Messages)]
  BY <1>1, <1>2, <1>3
<1> QED  BY <1>1, <1>2, <1>3, <1>4

\* Reading takes the oldest message away.
LEMMA ReadWire ==
    ASSUME Types, NEW e \in Ends, wire[e] # <<>>,
           wire' = [wire EXCEPT ![e] = Tail(@)]
    PROVE  /\ wire' \in [Ends -> Seq(Messages)]
           /\ wire'[Other(e)] = wire[Other(e)]
           /\ Len(wire'[e]) = Len(wire[e]) - 1 /\ Len(wire[e]) > 0
           /\ \A i \in 1 .. Len(wire'[e]) : wire'[e][i] = wire[e][i + 1]
           /\ Head(wire[e]) = wire[e][1]
<1>1. wire \in [Ends -> Seq(Messages)] /\ wire[e] \in Seq(Messages)
  BY DEF Types
<1>2. wire'[e] = Tail(wire[e]) /\ wire'[Other(e)] = wire[Other(e)]
  BY <1>1, TwoEnds
<1>3. wire' \in [Ends -> Seq(Messages)]
  BY <1>1
<1>4. Len(wire[e]) > 0
  BY <1>1
<1> QED  BY <1>1, <1>2, <1>3, <1>4

\* The ages on the link are numbers up to MaxDelay.
LEMMA Ages ==
    ASSUME Types, NEW e \in Ends
    PROVE  /\ Len(wire[e]) \in Nat
           /\ \A i \in 1 .. Len(wire[e]) :
                /\ wire[e][i] \in Messages
                /\ wire[e][i].age \in Int
                /\ 0 =< wire[e][i].age /\ wire[e][i].age =< MaxDelay
<1>1. wire[e] \in Seq(Messages)
  BY DEF Types
<1>2. \A m \in Messages : m.age \in Int /\ 0 =< m.age /\ m.age =< MaxDelay
  BY Constants DEF Messages
<1> QED  BY <1>1, <1>2

LEMMA TurnTypes ==
    ASSUME Types, NEW e \in Ends, Turn(e)
    PROVE  Types'
<1>1. PICK t : Solo(e, t) /\ (Greets(e, t) \/ Shuts(e, t) \/ Works(e, t))
  BY DEF Turn
<1>2. wire' \in [Ends -> Seq(Messages)]
  <2>1. CASE wire' = wire
    BY <2>1 DEF Types
  <2>2. CASE \E kind \in Kinds \cup {"id", "garbage"} : wire' = Sent(e, kind)
    BY <2>2, SentWire
  <2>3. CASE wire[Other(e)] # <<>> /\ wire' = [wire EXCEPT ![Other(e)] = Tail(@)]
    BY <2>3, ReadWire, TwoEnds
  <2> QED  BY <1>1, <2>1, <2>2, <2>3 DEF Solo, WireStep
<1>3. end' \in [Ends -> Tunnels] /\ (\A x \in Ends : Orderly(end'[x]))
  BY <1>1 DEF Types, Solo
<1>4. timedOut' \in [Ends -> BOOLEAN]
  <2>1. \/ timedOut' = timedOut
        \/ timedOut' = [timedOut EXCEPT ![e] = TRUE]
    BY <1>1, Zenon DEF Greets, Shuts, Works, Starts, Writes, Fails, Reads
  <2> QED  BY <2>1, Zenon DEF Types
<1>5. UNCHANGED <<down, lonely, undated, delayed>>
  BY <1>1 DEF Solo, ghosts
<1> QED  BY <1>2, <1>3, <1>4, <1>5 DEF Types, Orderly

LEMMA TurnAging ==
    ASSUME Types, Aging, NEW e \in Ends, Turn(e)
    PROVE  Aging'
<1>1. WireStep(e)
  BY DEF Turn, Solo
<1>2. CASE wire' = wire
  BY <1>2 DEF Aging
<1>3. ASSUME NEW kind \in Kinds \cup {"id", "garbage"}, wire' = Sent(e, kind)
      PROVE  Aging'
  <2> SUFFICES ASSUME NEW x \in Ends, NEW i \in 1 .. Len(wire'[x]),
                      NEW j \in 1 .. Len(wire'[x]), i =< j
               PROVE  wire'[x][j].age =< wire'[x][i].age
    BY DEF Aging
  <2>1. CASE x = Other(e)
    <3>1. wire'[x] = wire[x]
      BY <1>3, <2>1, SentWire
    <3> QED  BY <3>1 DEF Aging
  <2>2. CASE x = e
    <3>1. /\ Len(wire'[e]) = Len(wire[e]) + 1
          /\ \A k \in 1 .. Len(wire[e]) : wire'[e][k] = wire[e][k]
          /\ wire'[e][Len(wire[e]) + 1].age = 0
      BY <1>3, SentWire
    <3>2. Len(wire[e]) \in Nat
      BY Ages
    <3>3. CASE j = Len(wire[e]) + 1
      <4>1. i = Len(wire[e]) + 1 \/ i \in 1 .. Len(wire[e])
        BY <2>2, <3>1, <3>2
      <4>2. CASE i = Len(wire[e]) + 1
        BY <2>2, <3>1, <3>3, <4>2
      <4>3. CASE i \in 1 .. Len(wire[e])
        <5>1. wire'[e][i].age \in Int /\ 0 =< wire'[e][i].age
          BY <3>1, <4>3, Ages
        <5> QED  BY <2>2, <3>1, <3>3, <5>1
      <4> QED  BY <4>1, <4>2, <4>3
    <3>4. CASE j # Len(wire[e]) + 1
      <4>1. i \in 1 .. Len(wire[e]) /\ j \in 1 .. Len(wire[e])
        BY <2>2, <3>1, <3>2, <3>4
      <4> QED  BY <2>2, <3>1, <4>1 DEF Aging
    <3> QED  BY <3>3, <3>4
  <2> QED  BY <2>1, <2>2, TwoEnds
<1>4. CASE wire[Other(e)] # <<>> /\ wire' = [wire EXCEPT ![Other(e)] = Tail(@)]
  <2>1. /\ wire'[e] = wire[e]
        /\ Len(wire'[Other(e)]) = Len(wire[Other(e)]) - 1
        /\ \A i \in 1 .. Len(wire'[Other(e)]) :
              wire'[Other(e)][i] = wire[Other(e)][i + 1]
    BY <1>4, ReadWire, TwoEnds
  <2> SUFFICES ASSUME NEW x \in Ends, NEW i \in 1 .. Len(wire'[x]),
                      NEW j \in 1 .. Len(wire'[x]), i =< j
               PROVE  wire'[x][j].age =< wire'[x][i].age
    BY DEF Aging
  <2>2. CASE x = e
    BY <2>1, <2>2 DEF Aging
  <2>3. CASE x = Other(e)
    <3>1. Len(wire[x]) \in Nat
      BY Ages
    <3>2. /\ i + 1 \in 1 .. Len(wire[x]) /\ j + 1 \in 1 .. Len(wire[x])
          /\ i + 1 =< j + 1
      BY <2>1, <2>3, <3>1
    <3>3. wire'[x][i] = wire[x][i + 1] /\ wire'[x][j] = wire[x][j + 1]
      BY <2>1, <2>3
    <3> QED  BY <3>2, <3>3 DEF Aging
  <2> QED  BY <2>2, <2>3, TwoEnds
<1> QED  BY <1>1, <1>2, <1>3, <1>4 DEF WireStep

\* Whose messages a turn can touch, and which one is the oldest then.
LEMMA WireEffect ==
    ASSUME Types, NEW e \in Ends, WireStep(e)
    PROVE  /\ wire'[e] # <<>> => wire[e] # <<>> \/ end[e].stage \in {"sendID", "up"}
           /\ wire[e] # <<>> => wire'[e] # <<>> /\ Head(wire'[e]) = Head(wire[e])
           /\ wire'[Other(e)] # <<>> => wire[Other(e)] # <<>>
           /\ \/ wire'[Other(e)] = wire[Other(e)]
              \/ end[e].stage \in {"recvID", "up"} /\ ~down
           /\ Len(wire'[e]) >= Len(wire[e])
<1>1. /\ wire \in [Ends -> Seq(Messages)] /\ wire[e] \in Seq(Messages)
      /\ wire[Other(e)] \in Seq(Messages) /\ Other(e) \in Ends
  BY TwoEnds DEF Types
<1>2. CASE wire' = wire
  BY <1>1, <1>2
<1>3. ASSUME NEW kind \in Kinds \cup {"id", "garbage"}, wire' = Sent(e, kind)
      PROVE  /\ wire'[e] # <<>> /\ Len(wire'[e]) >= Len(wire[e])
             /\ wire[e] # <<>> => Head(wire'[e]) = Head(wire[e])
             /\ wire'[Other(e)] = wire[Other(e)]
  <2>1. /\ wire' \in [Ends -> Seq(Messages)]
        /\ wire'[Other(e)] = wire[Other(e)]
        /\ Len(wire'[e]) = Len(wire[e]) + 1
        /\ \A i \in 1 .. Len(wire[e]) : wire'[e][i] = wire[e][i]
    BY <1>3, SentWire
  <2>2. wire'[e] \in Seq(Messages)
    BY <2>1
  <2>3. wire[e] # <<>> => wire'[e][1] = wire[e][1]
    BY <1>1, <2>1
  <2> QED  BY <1>1, <2>1, <2>2, <2>3
<1>4. CASE /\ end[e].stage \in {"recvID", "up"} /\ ~down
           /\ wire[Other(e)] # <<>>
           /\ wire' = [wire EXCEPT ![Other(e)] = Tail(@)]
  BY <1>1, <1>4, TwoEnds
<1> QED  BY <1>2, <1>3, <1>4 DEF WireStep

\* The stages a turn can lead from and to.
LEMMA TurnStages ==
    ASSUME Types, NEW e \in Ends, NEW t, Solo(e, t),
           Greets(e, t) \/ Shuts(e, t) \/ Works(e, t)
    PROVE  /\ end'[e] = t /\ end'[Other(e)] = end[Other(e)]
           /\ WireStep(e) /\ down' = down
           /\ lonely' = lonely /\ undated' = undated /\ delayed' = delayed
           /\ end[e].stage \in {"failed", "closed"} => t.stage \in {"failed", "closed"}
           /\ t.stage = "up" /\ end[e].stage # "up" => Greets(e, t)
<1>1. end'[e] = t /\ end'[Other(e)] = end[Other(e)]
  BY TwoEnds DEF Types, Solo
<1>2. /\ WireStep(e) /\ down' = down
      /\ lonely' = lonely /\ undated' = undated /\ delayed' = delayed
  BY DEF Solo, ghosts
<1>3. CASE Greets(e, t)
  BY <1>1, <1>2, <1>3 DEF Greets
<1>4. CASE Shuts(e, t)
  BY <1>1, <1>2, <1>4 DEF Shuts
<1>5. CASE Works(e, t)
  <2>1. end[e].stage = "up" /\ t.stage = "up"
    BY <1>5 DEF Works, Starts, Reads, Writes, Fails
  <2> QED  BY <1>1, <1>2, <2>1
<1> QED  BY <1>3, <1>4, <1>5

LEMMA TurnHandshake ==
    ASSUME Types, Handshake, NEW e \in Ends, Turn(e)
    PROVE  Handshake'
<1>1. PICK t : Solo(e, t) /\ (Greets(e, t) \/ Shuts(e, t) \/ Works(e, t))
  BY DEF Turn
<1>2. /\ end'[e] = t /\ end'[Other(e)] = end[Other(e)] /\ WireStep(e)
      /\ wire'[e] # <<>> => wire[e] # <<>> \/ end[e].stage \in {"sendID", "up"}
      /\ wire[e] # <<>> => wire'[e] # <<>> /\ Head(wire'[e]) = Head(wire[e])
      /\ wire'[Other(e)] # <<>> => wire[Other(e)] # <<>>
      /\ \/ wire'[Other(e)] = wire[Other(e)]
         \/ end[e].stage \in {"recvID", "up"} /\ ~down
  BY <1>1, TurnStages, WireEffect
<1>3. CASE Shuts(e, t)
  BY <1>2, <1>3, TwoEnds DEF Handshake, Shuts
<1>4. CASE Works(e, t)
  <2>1. end[e].stage = "up" /\ t.stage = "up"
    BY <1>4 DEF Works, Starts, Reads, Writes, Fails
  <2> QED  BY <1>2, <2>1, TwoEnds DEF Handshake
<1>5. CASE Greets(e, t)
  <2>1. CASE e = "server" /\ end[e].stage = "backlog" /\ t.stage = "recvID"
    BY <1>2, <2>1, TwoEnds DEF Handshake
  <2>2. CASE e = "client" /\ end[e].stage \in {"sendID", "recvID"}
    BY <1>2, <1>5, <2>2, TwoEnds DEF Handshake, Greets
  <2>3. CASE e = "server" /\ end[e].stage = "recvID"
    BY <1>2, <1>5, <2>3, TwoEnds DEF Handshake, Greets
  <2>4. CASE e = "server" /\ end[e].stage = "sendID"
    <3>1. wire' = Sent(e, "id") /\ t.stage = "up"
      BY <1>5, <2>4 DEF Greets
    <3>2. wire[e] = <<>>
      BY <2>4, TwoEnds DEF Handshake
    <3>3. wire'[e] # <<>> /\ Head(wire'[e]).kind = "id"
      <4>1. /\ Len(wire'[e]) = Len(wire[e]) + 1 /\ wire'[e] \in Seq(Messages)
            /\ wire'[e][Len(wire[e]) + 1].kind = "id"
        BY <3>1, SentWire
      <4> QED  BY <3>2, <4>1
    <3> QED  BY <1>2, <2>4, <3>1, <3>3, TwoEnds DEF Handshake
  <2> QED  BY <1>5, <2>1, <2>2, <2>3, <2>4, TwoEnds DEF Greets
<1> QED  BY <1>1, <1>3, <1>4, <1>5

LEMMA TurnOnTime ==
    ASSUME Types, OnTime, NEW e \in Ends, Turn(e)
    PROVE  OnTime'
<1>1. PICK t : Solo(e, t) /\ (Greets(e, t) \/ Shuts(e, t) \/ Works(e, t))
  BY DEF Turn
<1>2. t.deadline = end[e].deadline \/ t.deadline # 0
  BY <1>1, Constants DEF Greets, Shuts, Idle, Works, Starts, Reads, Writes, Fails
<1>3. end'[e] = t /\ end'[Other(e)] = end[Other(e)] /\ delayed' = delayed
  BY <1>1, TurnStages
<1> QED  BY <1>2, <1>3, TwoEnds DEF OnTime

-----------------------------------------------------------------------------
(* A working tunnel is answered *)

\* Whatever is on the way, it has not been for long enough to time out.
LEMMA OnTheWayInTime ==
    ASSUME Types, NEW e \in Ends, OnTheWay(e)
    PROVE  end[e].ticks =< PingInterval + TunnelRecvTimeoutSec
<1>1. end[e].ticks \in Int
  BY OnlyUpWorks, Constants DEF Silence
<1>2. SUFFICES Late(end[e]) =< 2 * MaxDelay
  BY <1>1, Constants DEF Late
<1>3. Late(end[e]) \in Int
  BY <1>1, Constants DEF Late
<1>4. CASE PingSent(end[e], wire[e])
  BY <1>3, <1>4, Ages, Constants DEF PingSent
<1>5. CASE AnswerSent(end[e], wire[Other(e)])
  BY <1>3, <1>5, Ages, TwoEnds, Constants DEF AnswerSent
<1>6. CASE Late(end[e]) < 0 \/ ToPing(end[e]) \/ ToAnswer(end[e], end[Other(e)])
  BY <1>3, <1>6, Constants DEF ToPing, ToAnswer
<1> QED  BY <1>4, <1>5, <1>6 DEF OnTheWay

\* Who is gone stays gone.
LEMMA TurnGone ==
    ASSUME Types, NEW e \in Ends, Turn(e), NEW x \in Ends, Gone(x)
    PROVE  Gone(x)'
<1>1. PICK t : Solo(e, t) /\ (Greets(e, t) \/ Shuts(e, t) \/ Works(e, t))
  BY DEF Turn
<1> QED  BY <1>1, TurnStages, TwoEnds DEF Gone

LEMMA TurnNoFalseAlarm ==
    ASSUME Types, Answering, NoFalseAlarm, NEW e \in Ends, Turn(e)
    PROVE  NoFalseAlarm'
<1>1. PICK t : Solo(e, t) /\ (Greets(e, t) \/ Shuts(e, t) \/ Works(e, t))
  BY DEF Turn
<1>2. delayed' = delayed
  BY <1>1, TurnStages
<1>3. CASE timedOut' = timedOut
  BY <1>2, <1>3, TurnGone DEF NoFalseAlarm
<1>4. CASE /\ timedOut' = [timedOut EXCEPT ![e] = TRUE]
           /\ end[e].stage = "up"
           /\ end[e].ticks > PingInterval + TunnelRecvTimeoutSec
  <2>1. end[e].ticks \in Int
    BY OnlyUpWorks, Constants DEF Silence
  <2>2. ~OnTheWay(e)
    BY <1>4, <2>1, OnTheWayInTime, Constants
  <2>3. Gone(e) \/ delayed
    BY <1>4, <2>2 DEF Answering
  <2>4. \A x \in Ends : x # e => timedOut'[x] = timedOut[x]
    BY <1>4 DEF Types
  <2> QED  BY <1>2, <2>3, <2>4, TurnGone DEF NoFalseAlarm
<1>5. \/ timedOut' = timedOut
      \/ /\ timedOut' = [timedOut EXCEPT ![e] = TRUE]
         /\ end[e].stage = "up"
         /\ end[e].ticks > PingInterval + TunnelRecvTimeoutSec
  BY <1>1, Zenon DEF Greets, Shuts, Works, Starts, Writes, Fails, Reads
<1> QED  BY <1>3, <1>4, <1>5

LEMMA StartsAnswering ==
    ASSUME Types, Answering, NEW e \in Ends, NEW t, Solo(e, t), Starts(e, t)
    PROVE  Answering'
<1>1. /\ end'[e] = t /\ end'[Other(e)] = end[Other(e)]
      /\ down' = down /\ delayed' = delayed
  BY TurnStages DEF Works
<1>2. /\ end[e].stage = "up" /\ t.stage = "up"
      /\ wire' = wire /\ t.ticks = end[e].ticks
      /\ end[e].writing \subseteq t.writing
      /\ t.due = end[e].due \/ t.ticks < PingInterval + 2 \/ "ping" \in t.writing
  BY DEF Starts
<1>3. end[e].ticks \in Int
  BY OnlyUpWorks, Constants DEF Silence
<1>4. ASSUME end[e].stage = "up" /\ ~Gone(e)' /\ ~delayed
      PROVE  OnTheWay(e)'
  <2>1. OnTheWay(e)
    BY <1>1, <1>4 DEF Answering, Gone
  <2> QED  BY <1>1, <1>2, <1>3, <2>1, Constants
           DEF OnTheWay, Late, ToPing, PingSent, ToAnswer, AnswerSent
<1>5. ASSUME end[Other(e)].stage = "up" /\ ~Gone(Other(e))' /\ ~delayed
      PROVE  OnTheWay(Other(e))'
  <2>1. OnTheWay(Other(e))
    BY <1>1, <1>2, <1>5, TwoEnds DEF Answering, Gone
  <2> QED  BY <1>1, <1>2, <2>1, TwoEnds
           DEF OnTheWay, Late, ToPing, PingSent, ToAnswer, AnswerSent
<1> QED  BY <1>1, <1>2, <1>4, <1>5, TwoEnds DEF Answering

LEMMA WritesAnswering ==
    ASSUME Types, Answering, NEW e \in Ends, NEW t, NEW kind \in Kinds,
           Solo(e, t), Writes(e, t, kind)
    PROVE  Answering'
<1>1. /\ end'[e] = t /\ end'[Other(e)] = end[Other(e)]
      /\ down' = down /\ delayed' = delayed
  BY TurnStages DEF Works
<1>2. /\ end[e].stage = "up" /\ t.stage = "up"
      /\ t.ticks = end[e].ticks /\ t.due = end[e].due
      /\ t.writing = end[e].writing \ {kind}
  BY DEF Writes
<1>3. PICK sent \in {kind, "garbage"} : wire' = Sent(e, sent)
  BY DEF Writes
<1> DEFINE n == Len(wire[e]) + 1
<1>4. /\ wire'[Other(e)] = wire[Other(e)]
      /\ Len(wire'[e]) = n /\ n \in 1 .. n
      /\ \A i \in 1 .. Len(wire[e]) : i \in 1 .. n /\ wire'[e][i] = wire[e][i]
      /\ wire'[e][n].kind = sent /\ wire'[e][n].age = 0
  <2>1. sent \in Kinds \cup {"id", "garbage"} /\ Len(wire[e]) \in Nat
    BY <1>3, Ages
  <2> QED  BY <1>3, <2>1, SentWire
<1> HIDE DEF n
<1>5. end[e].ticks \in Int /\ end[Other(e)].ticks \in Int
  BY OnlyUpWorks, TwoEnds, Constants DEF Silence
<1>6. ASSUME end[e].stage = "up" /\ ~Gone(e)' /\ ~delayed
      PROVE  OnTheWay(e)'
  <2>1. OnTheWay(e)
    BY <1>1, <1>6 DEF Answering, Gone
  <2>2. CASE ToPing(end[e]) /\ kind = "ping"
    <3>1. Late(t) =< wire'[e][n].age /\ wire'[e][n].kind \in {"ping", "garbage"}
      BY <1>2, <1>3, <1>4, <2>2 DEF ToPing, Late
    <3> QED  BY <1>1, <1>4, <3>1 DEF OnTheWay, PingSent
  <2>3. CASE ToPing(end[e]) /\ kind # "ping"
    BY <1>1, <1>2, <2>3 DEF OnTheWay, ToPing, Late
  <2>4. CASE PingSent(end[e], wire[e])
    BY <1>1, <1>2, <1>4, <2>4 DEF OnTheWay, PingSent, Late
  <2>5. CASE \/ Late(end[e]) < 0
             \/ ToAnswer(end[e], end[Other(e)])
             \/ AnswerSent(end[e], wire[Other(e)])
    BY <1>1, <1>2, <1>4, <2>5 DEF OnTheWay, ToAnswer, AnswerSent, Late
  <2> QED  BY <2>1, <2>2, <2>3, <2>4, <2>5 DEF OnTheWay
<1>7. ASSUME end[Other(e)].stage = "up" /\ ~Gone(Other(e))' /\ ~delayed
      PROVE  OnTheWay(Other(e))'
  <2> DEFINE x == Other(e)
             u == end[x]
  <2>1. OnTheWay(x) /\ Other(x) = e /\ end'[x] = u /\ wire'[x] = wire[x]
    BY <1>1, <1>2, <1>4, <1>7, TwoEnds DEF Answering, Gone
  <2> HIDE DEF x, u
  <2>2. CASE ToAnswer(u, end[e])
    <3>1. CASE kind = "pong"
      <4>1. Late(u) =< MaxDelay + wire'[e][n].age
        BY <1>4, <2>2, Constants DEF ToAnswer
      <4>2. AnswerSent(u, wire'[e])
        BY <1>4, <4>1 DEF AnswerSent
      <4> QED  BY <2>1, <4>2 DEF OnTheWay, x
    <3>2. CASE kind # "pong"
      <4>1. ToAnswer(u, t)
        BY <1>2, <2>2, <3>2 DEF ToAnswer
      <4> QED  BY <1>1, <2>1, <4>1 DEF OnTheWay, x
    <3> QED  BY <3>1, <3>2
  <2>3. CASE AnswerSent(u, wire[e])
    <3>1. AnswerSent(u, wire'[e])
      BY <1>4, <2>3 DEF AnswerSent
    <3> QED  BY <2>1, <3>1 DEF OnTheWay, x
  <2>4. CASE Late(u) < 0 \/ ToPing(u) \/ PingSent(u, wire[x])
    BY <2>1, <2>4 DEF OnTheWay, x
  <2> QED  BY <2>1, <2>2, <2>3, <2>4 DEF OnTheWay, u
<1> QED  BY <1>1, <1>2, <1>6, <1>7, TwoEnds DEF Answering

LEMMA FailsAnswering ==
    ASSUME Types, OnTime, Answering, NEW e \in Ends, NEW t, NEW kind \in Kinds,
           Solo(e, t), Fails(e, t, kind)
    PROVE  Answering'
<1>1. /\ end'[e] = t /\ end'[Other(e)] = end[Other(e)]
      /\ down' = down /\ delayed' = delayed
  BY TurnStages DEF Works
<1>2. CASE end[e].deadline = 0
  BY <1>1, <1>2 DEF OnTime, Answering
<1>3. CASE Reset(e)
  BY <1>1, <1>3, TwoEnds DEF Reset, Answering, Gone
<1> QED  BY <1>2, <1>3 DEF Fails

LEMMA ReadsAnswering ==
    ASSUME Types, Answering, NEW e \in Ends, NEW t, Solo(e, t), Reads(e, t)
    PROVE  Answering'
<1> DEFINE x == Other(e)
           u == end[x]
<1>1. /\ end'[e] = t /\ end'[x] = u /\ down' = down /\ delayed' = delayed
      /\ x \in Ends /\ Other(x) = e /\ Other(e) = x
  BY TurnStages, TwoEnds DEF Works
<1>2. /\ end[e].stage = "up" /\ t.stage = "up" /\ t.ticks = 0
      /\ end[e].writing \subseteq t.writing
      /\ Head(wire[x]).kind # "garbage"
      /\ Head(wire[x]).kind = "ping" => "pong" \in t.writing
      /\ wire[x] # <<>> /\ wire' = [wire EXCEPT ![x] = Tail(@)]
  BY DEF Reads
<1> HIDE DEF x, u
<1>3. /\ wire'[e] = wire[e]
      /\ Len(wire'[x]) = Len(wire[x]) - 1
      /\ \A i \in 1 .. Len(wire'[x]) : wire'[x][i] = wire[x][i + 1]
      /\ Head(wire[x]) = wire[x][1]
      /\ Len(wire[x]) \in Nat
  BY <1>1, <1>2, ReadWire, Ages
<1>4. OnTheWay(e)'
  BY <1>1, <1>2, Constants DEF OnTheWay, Late
<1>5. ASSUME u.stage = "up" /\ ~Gone(x)' /\ ~delayed
      PROVE  OnTheWay(x)'
  <2>1. OnTheWay(x)
    BY <1>1, <1>2, <1>5 DEF Answering, Gone, u
  <2>2. ASSUME NEW i \in 1 .. Len(wire[x]), Late(u) =< wire[x][i].age,
               wire[x][i].kind \in {"ping", "garbage"}
        PROVE  OnTheWay(x)'
    <3>1. CASE i = 1
      <4>1. Late(u) =< MaxDelay
        <5>1. u.ticks \in Int
          BY <1>1, OnlyUpWorks, Constants DEF Silence, u
        <5>2. wire[x][i].age \in Int /\ wire[x][i].age =< MaxDelay
          BY <1>1, <2>2, Ages
        <5> QED  BY <2>2, <5>1, <5>2, Constants DEF Late
      <4>2. ToAnswer(u, t)
        BY <1>2, <1>3, <2>2, <3>1, <4>1 DEF ToAnswer
      <4> QED  BY <1>1, <4>2 DEF OnTheWay
    <3>2. CASE i # 1
      <4>1. i - 1 \in 1 .. Len(wire'[x]) /\ (i - 1) + 1 = i
        BY <1>3, <3>2
      <4>2. wire'[x][i - 1] = wire[x][i]
        BY <1>3, <4>1
      <4>3. PingSent(u, wire'[x])
        BY <2>2, <4>1, <4>2 DEF PingSent
      <4> QED  BY <1>1, <4>3 DEF OnTheWay
    <3> QED  BY <3>1, <3>2
  <2>3. CASE PingSent(u, wire[x])
    BY <2>2, <2>3 DEF PingSent
  <2>4. CASE ToAnswer(u, end[e])
    <3>1. ToAnswer(u, t)
      BY <1>2, <2>4 DEF ToAnswer
    <3> QED  BY <1>1, <3>1 DEF OnTheWay
  <2>5. CASE Late(u) < 0 \/ ToPing(u) \/ AnswerSent(u, wire[e])
    BY <1>1, <1>3, <2>5 DEF OnTheWay
  <2> QED  BY <1>1, <2>1, <2>3, <2>4, <2>5 DEF OnTheWay, u
<1> QED  BY <1>1, <1>2, <1>4, <1>5, TwoEnds DEF Answering

LEMMA GreetsAnswering ==
    ASSUME Types, Handshake, Answering, NEW e \in Ends, NEW t, Solo(e, t),
           Greets(e, t)
    PROVE  Answering'
<1> DEFINE x == Other(e)
           u == end[x]
<1>1. /\ end'[e] = t /\ end'[x] = u /\ down' = down /\ delayed' = delayed
      /\ x \in Ends /\ Other(x) = e /\ Other(e) = x
  BY TurnStages, TwoEnds
<1>2. /\ end[e].stage # "up" /\ t.ticks = 0
      /\ end[e].stage \notin {"failed", "closed"}
  BY DEF Greets, Idle
<1>3. OnTheWay(e)'
  BY <1>1, <1>2, Constants DEF OnTheWay, Late
<1>4. CASE u.stage # "up"
  BY <1>1, <1>3, <1>4, TwoEnds DEF Answering
<1>5. CASE u.stage = "up"
  \* The server is up already, and the client reads its peer ID.
  <2>1. e = "client" /\ x = "server"
    BY <1>2, <1>5, TwoEnds DEF Handshake
  <2>2. end[e].stage = "recvID"
    BY <1>2, <1>5, <2>1 DEF Handshake, Greets
  <2>3. /\ wire[x] # <<>> /\ Head(wire[x]).kind = "id"
        /\ wire' = [wire EXCEPT ![x] = Tail(@)]
    BY <1>5, <2>1, <2>2 DEF Handshake, Greets
  <2> HIDE DEF x, u
  <2>4. /\ wire'[e] = wire[e]
        /\ Len(wire'[x]) = Len(wire[x]) - 1
        /\ \A i \in 1 .. Len(wire'[x]) : wire'[x][i] = wire[x][i + 1]
        /\ wire[x][1].kind = "id"
        /\ Len(wire[x]) \in Nat
    BY <1>1, <2>3, ReadWire, Ages
  <2>5. ASSUME ~Gone(x)' /\ ~delayed
        PROVE  OnTheWay(x)'
    <3>1. OnTheWay(x)
      BY <1>1, <1>2, <1>5, <2>5 DEF Answering, Gone, u
    <3>2. ~ToAnswer(u, end[e])
      BY <1>2, OnlyUpWorks DEF ToAnswer
    <3>3. ASSUME NEW i \in 1 .. Len(wire[x]), Late(u) =< wire[x][i].age,
                 wire[x][i].kind \in {"ping", "garbage"}
          PROVE  OnTheWay(x)'
      <4>a. i # 1
        BY <2>4, <3>3
      <4>1. i - 1 \in 1 .. Len(wire'[x]) /\ (i - 1) + 1 = i
        BY <2>4, <4>a
      <4>2. wire'[x][i - 1] = wire[x][i]
        BY <2>4, <4>1
      <4>3. PingSent(u, wire'[x])
        BY <3>3, <4>1, <4>2 DEF PingSent
      <4> QED  BY <1>1, <4>3 DEF OnTheWay
    <3>4. CASE PingSent(u, wire[x])
      BY <3>3, <3>4 DEF PingSent
    <3>5. CASE Late(u) < 0 \/ ToPing(u) \/ AnswerSent(u, wire[e])
      BY <1>1, <2>4, <3>5 DEF OnTheWay
    <3> QED  BY <1>1, <3>1, <3>2, <3>4, <3>5 DEF OnTheWay, u
  <2> QED  BY <1>1, <1>3, <2>5, TwoEnds DEF Answering
<1> QED  BY <1>4, <1>5

LEMMA TurnAnswering ==
    ASSUME Types, Handshake, OnTime, Answering, NEW e \in Ends, Turn(e)
    PROVE  Answering'
<1>1. PICK t : Solo(e, t) /\ (Greets(e, t) \/ Shuts(e, t) \/ Works(e, t))
  BY DEF Turn
<1>2. CASE Shuts(e, t)
  BY <1>1, <1>2, TurnStages, TwoEnds DEF Shuts, Answering, Gone
<1>3. CASE Greets(e, t)
  BY <1>1, <1>3, GreetsAnswering
<1>4. CASE Works(e, t)
  <2>1. CASE Starts(e, t) \/ Reads(e, t)
    BY <1>1, <2>1, StartsAnswering, ReadsAnswering
  <2>2. ASSUME NEW kind \in Kinds, Writes(e, t, kind) \/ Fails(e, t, kind)
        PROVE  Answering'
    BY <1>1, <2>2, WritesAnswering, FailsAnswering
  <2> QED  BY <1>4, <2>1, <2>2 DEF Works
<1> QED  BY <1>1, <1>2, <1>3, <1>4

-----------------------------------------------------------------------------
(* A second passes *)

LEMMA SecondEnd ==
    ASSUME Types, Second, NEW e \in Ends
    PROVE  /\ end'[e] \in Tunnels /\ Orderly(end[e])'
           /\ end'[e].stage = end[e].stage
           /\ end'[e].writing = end[e].writing
           /\ end'[e].blocked = end[e].blocked
           /\ end'[e].due = (end[e].stage = "up")
           /\ end'[e].deadline = IF end[e].deadline > 0
                                 THEN end[e].deadline - 1 ELSE end[e].deadline
           /\ end[e].stage = "up" =>
                end'[e].ticks = IF end[e].ticks < Silence
                                THEN end[e].ticks + 1 ELSE Silence
<1> DEFINE t == end[e]
           w == IF t.stage = "recvID" THEN t.waited + 1 ELSE t.waited
           k == IF t.stage = "up" THEN Capped(t.ticks + 1, Silence) ELSE t.ticks
           d == IF t.deadline > 0 THEN t.deadline - 1 ELSE t.deadline
           b == t.stage = "up"
           u == [t EXCEPT !.waited = w, !.ticks = k, !.due = b, !.deadline = d]
<1>1. /\ t \in Tunnels /\ Orderly(t) /\ t.ticks \in 0 .. Silence
      /\ t.deadline \in -1 .. TunnelBlockTimeoutSec /\ t.waited \in Nat
  BY OnlyUpWorks DEF Tunnels
<1>2. end'[e] = u
  BY Zenon DEF Second, Silence
<1>3. t.stage = "up" =>
        k = IF t.ticks < Silence THEN t.ticks + 1 ELSE Silence
  <2>1. t.ticks + 1 \in Int /\ Silence \in Int
    BY <1>1, Constants DEF Silence
  <2> QED  BY <1>1, <2>1, CappedValue
<1>4. /\ w \in Nat /\ b \in BOOLEAN /\ d \in -1 .. TunnelBlockTimeoutSec
      /\ d # -1 => t.deadline # -1
  BY <1>1, Constants
<1>5. k \in 0 .. Silence
  BY <1>1, <1>3, Constants DEF Silence
<1> HIDE DEF w, k, d, b
<1>6. u \in Tunnels
  BY <1>1, <1>4, <1>5 DEF Tunnels
<1>7. /\ u.stage = t.stage /\ u.writing = t.writing /\ u.blocked = t.blocked
      /\ u.due = b /\ u.deadline = d /\ u.ticks = k /\ u.held = t.held
  BY <1>1 DEF Tunnels
<1>8. Orderly(u)
  BY <1>1, <1>4, <1>7 DEF Orderly, b
<1> HIDE DEF u
<1>9. Orderly(end[e])'
  BY <1>2, <1>8 DEF Orderly
<1> QED  BY <1>2, <1>3, <1>6, <1>7, <1>9 DEF d, b

LEMMA SecondWire ==
    ASSUME Types, Second, NEW e \in Ends
    PROVE  /\ wire'[e] \in Seq(Messages)
           /\ Len(wire'[e]) = Len(wire[e])
           /\ \A i \in 1 .. Len(wire[e]) :
                /\ wire'[e][i].kind = wire[e][i].kind
                /\ wire'[e][i].age = IF wire[e][i].age < MaxDelay
                                     THEN wire[e][i].age + 1 ELSE MaxDelay
<1> DEFINE m(i) == [wire[e][i] EXCEPT !.age = Capped(wire[e][i].age + 1, MaxDelay)]
<1>1. wire'[e] = [i \in 1 .. Len(wire[e]) |-> m(i)]
  BY DEF Second
<1>a. Len(wire[e]) \in Nat
  BY Ages
<1>2. ASSUME NEW i \in 1 .. Len(wire[e])
      PROVE  /\ m(i) \in Messages /\ m(i).kind = wire[e][i].kind
             /\ m(i).age = IF wire[e][i].age < MaxDelay
                           THEN wire[e][i].age + 1 ELSE MaxDelay
  <2>1. /\ wire[e][i] \in Messages /\ wire[e][i].age \in Int
        /\ 0 =< wire[e][i].age /\ wire[e][i].age =< MaxDelay
    BY Ages
  <2>2. Capped(wire[e][i].age + 1, MaxDelay)
          = IF wire[e][i].age < MaxDelay THEN wire[e][i].age + 1 ELSE MaxDelay
    <3>1. wire[e][i].age + 1 \in Int /\ MaxDelay \in Int
      BY <2>1, Constants
    <3> QED  BY <2>1, <3>1, CappedValue
  <2> DEFINE c == Capped(wire[e][i].age + 1, MaxDelay)
  <2>3. c \in 0 .. MaxDelay
    BY <2>1, <2>2, Constants
  <2> HIDE DEF c
  <2>4. /\ m(i) = [wire[e][i] EXCEPT !.age = c]
        /\ m(i) \in Messages /\ m(i).kind = wire[e][i].kind /\ m(i).age = c
    BY <2>1, <2>3 DEF Messages, c
  <2> QED  BY <2>2, <2>4 DEF c
<1> HIDE DEF m
<1>3. wire'[e] \in Seq(Messages) /\ Len(wire'[e]) = Len(wire[e])
  BY <1>1, <1>a, <1>2
<1> QED  BY <1>1, <1>2, <1>3

LEMMA SecondTypes ==
    ASSUME Types, Second
    PROVE  Types'
<1>1. end' \in [Ends -> Tunnels] /\ (\A e \in Ends : Orderly(end[e])')
  <2>1. \A e \in Ends : end'[e] \in Tunnels /\ Orderly(end[e])'
    BY SecondEnd
  <2>2. end' = [e \in Ends |-> end'[e]]
    BY DEF Second
  <2> QED  BY <2>1, <2>2
<1>2. wire' \in [Ends -> Seq(Messages)]
  <2>1. \A e \in Ends : wire'[e] \in Seq(Messages)
    BY SecondWire
  <2>2. wire' = [e \in Ends |-> wire'[e]]
    BY DEF Second
  <2> QED  BY <2>1, <2>2
<1>3. lonely' \in [Ends -> 0 .. Patience + 1]
  <2>1. Patience \in Nat
    BY Constants DEF Patience
  <2>2. \A e \in Ends :
          lonely[e] + 1 \in Nat /\ Capped(lonely[e] + 1, Patience + 1) \in 0 .. Patience + 1
    <3> SUFFICES ASSUME NEW e \in Ends
                 PROVE  /\ lonely[e] + 1 \in Nat
                        /\ Capped(lonely[e] + 1, Patience + 1) \in 0 .. Patience + 1
      OBVIOUS
    <3>1. lonely[e] \in Nat
      BY <2>1 DEF Types
    <3>2. lonely[e] + 1 \in Int /\ Patience + 1 \in Int
      BY <2>1, <3>1
    <3> QED  BY <2>1, <3>1, <3>2, CappedValue
  <2>3. \A e \in Ends :
          (IF end[e].stage = "up" /\ Alone(e)
           THEN Capped(lonely[e] + 1, Patience + 1) ELSE 0) \in 0 .. Patience + 1
    BY <2>1, <2>2
  <2> QED  BY <2>3, Zenon DEF Second
<1>4. undated' \in [Ends -> BOOLEAN] /\ delayed' \in BOOLEAN
  BY DEF Second, Types
<1>5. down' = down /\ timedOut' = timedOut
  BY DEF Second
<1> QED  BY <1>1, <1>2, <1>3, <1>4, <1>5 DEF Types

LEMMA SecondAging ==
    ASSUME Types, Aging, Second
    PROVE  Aging'
<1> SUFFICES ASSUME NEW e \in Ends, NEW i \in 1 .. Len(wire'[e]),
                    NEW j \in 1 .. Len(wire'[e]), i =< j
             PROVE  wire'[e][j].age =< wire'[e][i].age
  BY DEF Aging
<1>1. i \in 1 .. Len(wire[e]) /\ j \in 1 .. Len(wire[e])
  BY SecondWire
<1>2. /\ wire[e][i].age \in Int /\ wire[e][j].age \in Int
      /\ wire[e][i].age =< MaxDelay /\ wire[e][j].age =< MaxDelay
      /\ wire[e][j].age =< wire[e][i].age
  BY <1>1, Ages DEF Aging
<1>3. /\ wire'[e][i].age = IF wire[e][i].age < MaxDelay
                           THEN wire[e][i].age + 1 ELSE MaxDelay
      /\ wire'[e][j].age = IF wire[e][j].age < MaxDelay
                           THEN wire[e][j].age + 1 ELSE MaxDelay
  BY <1>1, SecondWire
<1> QED  BY <1>2, <1>3, Constants

LEMMA SecondHandshake ==
    ASSUME Types, Handshake, Second
    PROVE  Handshake'
<1>1. \A e \in Ends : end'[e].stage = end[e].stage
  BY SecondEnd
<1>2. ASSUME NEW e \in Ends
      PROVE  /\ (wire'[e] # <<>>) <=> (wire[e] # <<>>)
             /\ wire[e] # <<>> => Head(wire'[e]).kind = Head(wire[e]).kind
  <2>1. /\ wire[e] \in Seq(Messages) /\ wire'[e] \in Seq(Messages)
        /\ Len(wire'[e]) = Len(wire[e])
        /\ \A i \in 1 .. Len(wire[e]) : wire'[e][i].kind = wire[e][i].kind
    BY SecondWire DEF Types
  <2>2. wire[e] # <<>> => 1 \in 1 .. Len(wire[e])
    BY <2>1
  <2> QED  BY <2>1, <2>2
<1> QED  BY <1>1, <1>2 DEF Handshake, Ends

\* A second in which no relay is held up finds nobody writing.
LEMMA NobodyWrites ==
    ASSUME Types, Second, ~delayed', NEW e \in Ends
    PROVE  /\ ~delayed /\ end[e].writing = {} /\ ~end[e].due
           /\ end[e].stage = "up" => Reading(e)
<1>1. ~delayed /\ ~HeldUp(e) /\ ~Busy(e)
  BY DEF Second
<1>2. Orderly(end[e])
  BY DEF Types
<1>3. end[e].writing = {}
  BY <1>1, <1>2 DEF HeldUp, Busy, Orderly
<1> QED  BY <1>1, <1>2, <1>3 DEF HeldUp, Busy, Orderly

LEMMA SecondOnTime ==
    ASSUME Types, OnTime, Second
    PROVE  OnTime'
<1> SUFFICES ASSUME ~delayed', NEW e \in Ends
             PROVE  end'[e].deadline # 0
  BY DEF OnTime
<1>1. ~delayed /\ end[e].writing = {}
  BY NobodyWrites
<1>2. end[e].deadline = -1
  BY <1>1 DEF Types, Orderly
<1> QED  BY <1>2, SecondEnd

\* A message that has been on the way for MaxDelay has been read.
LEMMA NothingLate ==
    ASSUME Types, Aging, Second, ~down, NEW e \in Ends,
           Reading(Other(e)) \/ end[Other(e)].stage = "recvID",
           NEW i \in 1 .. Len(wire[e])
    PROVE  wire[e][i].age < MaxDelay
<1>1. /\ wire[e] \in Seq(Messages) /\ wire[e] # <<>> /\ Head(wire[e]) = wire[e][1]
      /\ 1 \in 1 .. Len(wire[e]) /\ 1 =< i
  BY DEF Types
<1>2. /\ wire[e][i].age =< wire[e][1].age
      /\ wire[e][i].age \in Int /\ wire[e][1].age \in Int
      /\ wire[e][1].age =< MaxDelay
  BY <1>1, Ages DEF Aging
<1>3. ~Busy(Other(e)) /\ Other(Other(e)) = e
  BY TwoEnds DEF Second
<1>4. wire[e][1].age # MaxDelay
  BY <1>1, <1>3 DEF Busy
<1> QED  BY <1>2, <1>4, Constants

LEMMA SecondAnswering ==
    ASSUME Types, Aging, Handshake, Answering, Second
    PROVE  Answering'
<1> SUFFICES ASSUME NEW e \in Ends, end'[e].stage = "up", ~Gone(e)', ~delayed'
             PROVE  OnTheWay(e)'
  BY DEF Answering
<1> DEFINE x == Other(e)
<1>1. x \in Ends /\ Other(x) = e /\ down' = down
  BY TwoEnds DEF Second
<1>2. /\ ~delayed /\ end[e].stage = "up" /\ end[e].writing = {} /\ ~end[e].due
      /\ Reading(e) /\ end'[e].due
  BY NobodyWrites, SecondEnd
<1>3. end[x].writing = {} /\ (end[x].stage = "up" => Reading(x))
  BY <1>1, NobodyWrites
<1>4. ~Gone(e) /\ ~down
  <2>1. end'[x].stage = end[x].stage
    BY <1>1, SecondEnd
  <2> QED  BY <1>1, <2>1 DEF Gone
<1>5. Reading(x) \/ end[x].stage = "recvID"
  <2>1. end[x].stage \in {"backlog", "sendID", "recvID", "up"}
    BY <1>1, <1>4 DEF Gone, Types, Tunnels, Stages
  <2>2. end[x].stage # "sendID"
    BY <1>1 DEF Second, Busy
  <2>3. end[x].stage # "backlog"
    BY <1>2, TwoEnds DEF Handshake
  <2> QED  BY <1>3, <2>1, <2>2, <2>3
<1>6. OnTheWay(e)
  BY <1>2, <1>4 DEF Answering
<1>7. Late(end'[e]) =< Late(end[e]) + 1 /\ Late(end[e]) \in Int /\ Late(end'[e]) \in Int
  <2>1. end[e].ticks \in 0 .. Silence
    BY OnlyUpWorks
  <2>2. end'[e].ticks = IF end[e].ticks < Silence THEN end[e].ticks + 1 ELSE Silence
    BY <1>2, SecondEnd
  <2> QED  BY <2>1, <2>2, Constants DEF Late, Silence
<1>8. CASE Late(end[e]) < 0
  BY <1>2, <1>7, <1>8 DEF OnTheWay, ToPing
<1>9. CASE PingSent(end[e], wire[e])
  <2>1. PICK i \in 1 .. Len(wire[e]) :
           wire[e][i].kind \in {"ping", "garbage"} /\ Late(end[e]) =< wire[e][i].age
    BY <1>9 DEF PingSent
  <2>2. wire[e][i].age < MaxDelay /\ wire[e][i].age \in Int
    BY <1>4, <1>5, NothingLate, Ages
  <2>3. /\ i \in 1 .. Len(wire'[e]) /\ wire'[e][i].kind = wire[e][i].kind
        /\ wire'[e][i].age = wire[e][i].age + 1
    BY <2>2, SecondWire
  <2>4. PingSent(end'[e], wire'[e])
    BY <1>7, <2>1, <2>2, <2>3 DEF PingSent
  <2> QED  BY <2>4 DEF OnTheWay
<1>10. CASE AnswerSent(end[e], wire[x])
  <2>1. PICK i \in 1 .. Len(wire[x]) : Late(end[e]) =< MaxDelay + wire[x][i].age
    BY <1>10 DEF AnswerSent
  <2>2. wire[x][i].age < MaxDelay /\ wire[x][i].age \in Int
    BY <1>1, <1>2, <1>4, NothingLate, Ages
  <2>3. i \in 1 .. Len(wire'[x]) /\ wire'[x][i].age = wire[x][i].age + 1
    BY <1>1, <2>2, SecondWire
  <2>4. AnswerSent(end'[e], wire'[x])
    BY <1>7, <2>1, <2>2, <2>3, Constants DEF AnswerSent
  <2> QED  BY <2>4 DEF OnTheWay
<1> QED  BY <1>2, <1>3, <1>6, <1>8, <1>9, <1>10 DEF OnTheWay, ToPing, ToAnswer

-----------------------------------------------------------------------------
(* No false alarm *)

LEMMA InitWorking ==
    ASSUME Init
    PROVE  WorkingInv
<1>1. /\ end["client"] = NewEnd("sendID") /\ end["server"] = NewEnd("backlog")
      /\ end = [e \in Ends |-> end[e]]
  BY DEF Init, Ends
<1>2. \A e \in Ends : end[e] \in Tunnels /\ Orderly(end[e]) /\ Idle(end[e])
  BY <1>1, NewEndIsTunnel DEF Ends, Stages, Idle
<1>3. end["client"].stage = "sendID" /\ end["server"].stage = "backlog"
  BY <1>1, NewEndIsTunnel DEF Stages
<1>4. wire = [e \in Ends |-> <<>>] /\ (\A e \in Ends : wire[e] = <<>>)
  BY DEF Init
<1>5. Types
  <2>1. end \in [Ends -> Tunnels]
    BY <1>1, <1>2
  <2>2. wire \in [Ends -> Seq(Messages)]
    BY <1>4
  <2>3. lonely \in [Ends -> 0 .. Patience + 1]
    BY Constants DEF Init, Patience
  <2>4. /\ down \in BOOLEAN /\ delayed \in BOOLEAN
        /\ undated \in [Ends -> BOOLEAN] /\ timedOut \in [Ends -> BOOLEAN]
    BY DEF Init
  <2> QED  BY <1>2, <2>1, <2>2, <2>3, <2>4 DEF Types
<1>6. Aging
  BY <1>4 DEF Aging
<1>7. Handshake
  BY <1>3, <1>4 DEF Handshake, Ends
<1>8. OnTime
  BY <1>2 DEF OnTime, Idle
<1>9. Answering
  BY <1>3 DEF Answering, Ends
<1>10. NoFalseAlarm
  BY DEF Init, NoFalseAlarm
<1> QED  BY <1>5, <1>6, <1>7, <1>8, <1>9, <1>10 DEF WorkingInv

LEMMA WorkingStep ==
    ASSUME WorkingInv, [Next]_vars
    PROVE  WorkingInv'
<1> USE DEF WorkingInv
<1>1. ASSUME NEW e \in Ends, Turn(e)
      PROVE  WorkingInv'
  BY <1>1, TurnTypes, TurnAging, TurnHandshake, TurnOnTime, TurnAnswering,
     TurnNoFalseAlarm
<1>2. CASE LinkFails
  <2>1. down' /\ UNCHANGED <<end, wire, lonely, undated, delayed, timedOut>>
    BY <1>2 DEF LinkFails, ghosts
  <2>2. Types'
    BY <2>1 DEF Types, Orderly
  <2>3. Aging' /\ Handshake' /\ OnTime'
    BY <2>1 DEF Aging, Handshake, OnTime
  <2>4. Answering' /\ NoFalseAlarm'
    BY <2>1 DEF Answering, NoFalseAlarm, Gone
  <2> QED  BY <2>2, <2>3, <2>4
<1>3. CASE Second
  <2>1. /\ down' = down /\ timedOut' = timedOut
        /\ delayed => delayed'
        /\ \A e \in Ends : end'[Other(e)].stage = end[Other(e)].stage
    BY <1>3, SecondEnd, TwoEnds DEF Second
  <2>2. NoFalseAlarm'
    BY <2>1 DEF NoFalseAlarm, Gone
  <2> QED  BY <1>3, <2>2, SecondTypes, SecondAging, SecondHandshake, SecondOnTime,
              SecondAnswering
<1>4. CASE UNCHANGED vars
  <2>1. UNCHANGED <<end, wire, down, lonely, undated, delayed, timedOut>>
    BY <1>4 DEF vars, ghosts
  <2>2. Types'
    BY <2>1 DEF Types, Orderly
  <2>3. Aging' /\ Handshake' /\ OnTime'
    BY <2>1 DEF Aging, Handshake, OnTime
  <2>4. Answering'
    BY <2>1 DEF Answering, Gone, OnTheWay
  <2>5. NoFalseAlarm'
    BY <2>1 DEF NoFalseAlarm, Gone
  <2> QED  BY <2>2, <2>3, <2>4, <2>5
<1> QED  BY <1>1, <1>2, <1>3, <1>4, NextCases

\* In every behaviour, a tunnel that PingPong has timed out has lost its link
\* or its other end, or a relay was held up: the ping that follows the silence
\* is answered before the timeout (tunnel.go 307-331, 357-370).
THEOREM NoFalseAlarmCorrectness == Spec => []NoFalseAlarm
<1>1. Init => WorkingInv
  BY InitWorking
<1>2. WorkingInv /\ [Next]_vars => WorkingInv'
  BY WorkingStep
<1>3. WorkingInv => NoFalseAlarm
  BY DEF WorkingInv
<1> QED  BY <1>1, <1>2, <1>3, PTL DEF Spec

-----------------------------------------------------------------------------
(* A deaf tunnel closes *)

\* Nobody takes a message from an end that is alone, and none comes.
LEMMA TurnAlone ==
    ASSUME Types, NEW e \in Ends, Turn(e), NEW x \in Ends, Alone(x)
    PROVE  Alone(x)' /\ Len(wire'[x]) >= Len(wire[x])
<1>1. PICK t : Solo(e, t) /\ (Greets(e, t) \/ Shuts(e, t) \/ Works(e, t))
  BY DEF Turn
<1>2. Gone(x)' /\ down' = down /\ WireStep(e)
  BY <1>1, TurnGone, TurnStages DEF Alone
<1>3. CASE x = e
  <2>1. wire'[Other(e)] # <<>> => wire[Other(e)] # <<>>
    BY <1>2, WireEffect
  <2>2. Len(wire'[e]) >= Len(wire[e])
    BY <1>2, WireEffect
  <2> QED  BY <1>2, <1>3, <2>1, <2>2 DEF Alone
<1>4. CASE x = Other(e)
  <2>1. down \/ end[e].stage \in {"failed", "closed"}
    BY <1>4, TwoEnds DEF Alone, Gone
  <2>2. wire'[x] = wire[x]
    BY <1>2, <1>4, <2>1, WireEffect
  <2>3. down \/ (wire[e] = <<>> /\ end[e].stage \in {"failed", "closed"})
    BY <1>4, <2>1, TwoEnds DEF Alone, Gone
  <2>4. down \/ wire'[e] = <<>>
    BY <1>2, <2>3, WireEffect
  <2>5. Len(wire[x]) \in Nat
    BY Ages
  <2> QED  BY <1>2, <1>4, <2>2, <2>4, <2>5, TwoEnds DEF Alone
<1> QED  BY <1>3, <1>4, TwoEnds

\* The end that has nothing to do with a turn is as lonely as before.
LEMMA OtherLonely ==
    ASSUME Types, NEW e \in Ends, Turn(e), LonelyEnd(Other(e))
    PROVE  LonelyEnd(Other(e))'
<1>1. PICK t : Solo(e, t) /\ (Greets(e, t) \/ Shuts(e, t) \/ Works(e, t))
  BY DEF Turn
<1> DEFINE x == Other(e)
<1>2. /\ end'[x] = end[x] /\ lonely'[x] = lonely[x] /\ undated'[x] = undated[x]
      /\ x \in Ends /\ lonely[x] \in Nat
  BY <1>1, TurnStages, TwoEnds, Constants DEF Types, Patience
<1>3. end[x].ticks \in Nat
  BY <1>2, OnlyUpWorks, Constants DEF Silence
<1>4. CASE lonely[x] = 0
  BY <1>2, <1>3, <1>4 DEF LonelyEnd
<1>5. CASE lonely[x] > 0 /\ end[x].stage = "up"
  <2>1. Alone(x)
    BY <1>5 DEF LonelyEnd
  <2>2. Alone(x)' /\ Len(wire'[x]) >= Len(wire[x])
    BY <1>2, <2>1, TurnAlone
  <2>3. wire[x] \in Seq(Messages) /\ wire'[x] \in Seq(Messages)
    BY <1>2, TurnTypes DEF Types
  <2>4. ~HasRoom(x) => ~HasRoom(x)'
    BY <2>2, <2>3, Constants DEF HasRoom
  <2>5. LastPing(x) => LastPing(x)'
    BY <1>2, <2>4 DEF LastPing
  <2> QED  BY <1>2, <1>5, <2>2, <2>5 DEF LonelyEnd
<1>6. CASE end[x].stage # "up"
  BY <1>2, <1>6 DEF LonelyEnd
<1> QED  BY <1>2, <1>4, <1>5, <1>6

\* What an end that stays up keeps as long as nothing comes in.
LEMMA WorksLonely ==
    ASSUME Types, NEW e \in Ends, NEW t, Solo(e, t), Works(e, t), LonelyEnd(e)
    PROVE  LonelyEnd(e)'
<1>1. Turn(e) /\ end[e].stage = "up" /\ t.stage = "up"
  BY DEF Turn, Works, Starts, Reads, Writes, Fails
<1>2. /\ end'[e] = t /\ lonely'[e] = lonely[e] /\ undated'[e] = undated[e]
      /\ lonely[e] \in Nat /\ t \in Tunnels
  <2>1. end'[e] = t /\ lonely'[e] = lonely[e] /\ undated'[e] = undated[e]
    BY TurnStages
  <2>2. lonely[e] \in Nat
    BY Constants DEF Types, Patience
  <2> QED  BY <2>1, <2>2 DEF Solo
<1>3. /\ end[e].ticks \in Nat /\ t.ticks \in Nat /\ Silence \in Nat /\ Silence > 0
      /\ end[e].deadline \in Int /\ t.deadline \in Int
      /\ t.deadline =< TunnelBlockTimeoutSec
  BY <1>2, OnlyUpWorks, Constants DEF Silence, Tunnels
<1>4. lonely[e] > 0 => /\ Alone(e) /\ Alone(e)'
                       /\ ~HasRoom(e) => ~HasRoom(e)'
  <2> SUFFICES ASSUME lonely[e] > 0
               PROVE  /\ Alone(e) /\ Alone(e)'
                      /\ ~HasRoom(e) => ~HasRoom(e)'
    OBVIOUS
  <2>1. Alone(e)
    BY <1>1 DEF LonelyEnd
  <2>2. Alone(e)' /\ Len(wire'[e]) >= Len(wire[e])
    BY <1>1, <2>1, TurnAlone
  <2>3. wire[e] \in Seq(Messages) /\ wire'[e] \in Seq(Messages)
    BY <1>1, TurnTypes DEF Types
  <2> QED  BY <2>1, <2>2, <2>3, Constants DEF HasRoom
<1>5. CASE Reads(e, t)
  <2>1. lonely[e] = 0
    BY <1>2, <1>4, <1>5 DEF Reads, Alone
  <2> QED  BY <1>1, <1>2, <1>3, <1>5, <2>1 DEF LonelyEnd, Reads
<1>6. SUFFICES ASSUME ~Reads(e, t)
               PROVE  /\ t.ticks = Silence => t.due \/ "ping" \in t.writing
                      /\ ~undated[e] => lonely[e] =< t.ticks \/ LastPing(e)'
  BY <1>1, <1>2, <1>4, <1>5 DEF LonelyEnd
<1>7. t.ticks = end[e].ticks
  BY <1>6 DEF Works, Starts, Writes, Fails
<1>8. t.ticks = Silence => t.due \/ "ping" \in t.writing
  <2> SUFFICES ASSUME t.ticks = Silence
               PROVE  t.due \/ "ping" \in t.writing
    OBVIOUS
  <2>1. end[e].due \/ "ping" \in end[e].writing
    BY <1>1, <1>7 DEF LonelyEnd
  <2>2. CASE Starts(e, t)
    BY <1>3, <2>1, <2>2, Constants DEF Starts, Silence
  <2>3. ASSUME NEW kind \in Kinds, Writes(e, t, kind) \/ Fails(e, t, kind)
        PROVE  t.due \/ "ping" \in t.writing
    BY <1>3, <2>1, <2>3 DEF Writes, Fails
  <2> QED  BY <1>6, <2>2, <2>3 DEF Works
<1>9. ASSUME ~undated[e], lonely[e] > t.ticks
      PROVE  LastPing(e)'
  <2>1. /\ LastPing(e) /\ lonely[e] > 0 /\ ~HasRoom(e)'
        /\ ~HasRoom(e) /\ "ping" \in end[e].writing /\ t.ticks = Silence
    BY <1>1, <1>2, <1>3, <1>4, <1>7, <1>9 DEF LonelyEnd, LastPing
  <2> DEFINE Bound(u) == Silence + TunnelBlockTimeoutSec
               - (IF u.deadline > 0 THEN u.deadline ELSE 0)
               + (IF "block" \in u.writing THEN TunnelBlockTimeoutSec ELSE 0)
  <2>2. lonely[e] =< Bound(end[e])
    BY <2>1 DEF LastPing
  <2>3. "ping" \in t.writing /\ lonely[e] =< Bound(t)
    <3>1. CASE Starts(e, t)
      <4>1. CASE t.deadline = end[e].deadline /\ t.writing = end[e].writing
        BY <2>1, <2>2, <4>1
      <4>2. CASE /\ t.deadline = TunnelBlockTimeoutSec
                 /\ "block" \notin end[e].writing
                 /\ t.writing = end[e].writing \cup {"block"}
        BY <1>2, <1>3, <2>1, <2>2, <4>2, Constants
      <4> QED  BY <2>1, <3>1, <4>1, <4>2 DEF Starts
    <3>2. ASSUME NEW kind \in Kinds, Fails(e, t, kind)
          PROVE  "ping" \in t.writing /\ lonely[e] =< Bound(t)
      <4>1. kind # "ping" /\ kind # "block"
        BY <1>3, <2>1, <3>2 DEF Fails
      <4>2. /\ "ping" \in t.writing /\ t.deadline = -1
            /\ "block" \in t.writing <=> "block" \in end[e].writing
        BY <2>1, <3>2, <4>1 DEF Fails
      <4> QED  BY <1>2, <1>3, <2>2, <4>2, Constants
    <3>3. \A kind \in Kinds : ~Writes(e, t, kind)
      BY <2>1 DEF Writes
    <3> QED  BY <1>6, <3>1, <3>2, <3>3 DEF Works
  <2> QED  BY <1>2, <2>1, <2>3 DEF LastPing
<1> QED  BY <1>2, <1>3, <1>8, <1>9

LEMMA TurnLonely ==
    ASSUME Types, NEW e \in Ends, Turn(e), LonelyInv
    PROVE  LonelyInv'
<1>1. PICK t : Solo(e, t) /\ (Greets(e, t) \/ Shuts(e, t) \/ Works(e, t))
  BY DEF Turn
<1>2. end'[e] = t /\ lonely'[e] = lonely[e] /\ lonely[e] \in Nat
  BY <1>1, TurnStages, Constants DEF Types, Patience
<1>3. LonelyEnd(e)'
  <2>1. CASE Greets(e, t)
    <3>1. lonely[e] = 0
      BY <2>1 DEF Greets, LonelyInv, LonelyEnd
    <3> QED  BY <1>2, <2>1, <3>1, Constants DEF Greets, Idle, LonelyEnd, Silence
  <2>2. CASE Shuts(e, t)
    BY <1>2, <2>2 DEF Shuts, LonelyEnd
  <2>3. CASE Works(e, t)
    BY <1>1, <2>3, WorksLonely DEF LonelyInv
  <2> QED  BY <1>1, <2>1, <2>2, <2>3
<1>4. LonelyEnd(Other(e))'
  BY OtherLonely, TwoEnds DEF LonelyInv
<1> QED  BY <1>3, <1>4, TwoEnds DEF LonelyInv

LEMMA SecondLonely ==
    ASSUME Types, LonelyInv, Second
    PROVE  LonelyInv'
<1> SUFFICES ASSUME NEW e \in Ends
             PROVE  LonelyEnd(e)'
  BY DEF LonelyInv
<1>1. /\ end'[e].stage = end[e].stage /\ end'[e].writing = end[e].writing
      /\ end'[e].deadline = IF end[e].deadline > 0
                            THEN end[e].deadline - 1 ELSE end[e].deadline
      /\ end[e].stage = "up" =>
           end'[e].ticks = IF end[e].ticks < Silence
                           THEN end[e].ticks + 1 ELSE Silence
  BY SecondEnd
<1>a. end[e].stage = "up" => end'[e].due
  BY SecondEnd, Zenon
<1>2. /\ lonely[e] \in Nat /\ Patience \in Nat /\ Silence \in Nat
      /\ end[e].ticks \in 0 .. Silence
      /\ end[e].deadline \in -1 .. TunnelBlockTimeoutSec
  BY OnlyUpWorks, Constants DEF Types, Patience, Silence
<1>3. CASE end[e].stage # "up" \/ ~Alone(e)
  <2>1. lonely'[e] = 0
    BY <1>3 DEF Second
  <2>2. end[e].stage = "up" => 0 =< end'[e].ticks
    BY <1>1, <1>2
  <2> QED  BY <1>1, <1>a, <1>3, <2>1, <2>2 DEF LonelyEnd
<1>4. CASE end[e].stage = "up" /\ Alone(e)
  <2>1. lonely'[e] =< lonely[e] + 1 /\ lonely'[e] \in Nat
    <3>1. lonely'[e] = Capped(lonely[e] + 1, Patience + 1)
      BY <1>4 DEF Second
    <3>2. lonely[e] + 1 \in Int /\ Patience + 1 \in Int
      BY <1>2
    <3> QED  BY <1>2, <3>1, <3>2, CappedValue
  <2>2. Alone(e)'
    <3>1. /\ down' = down /\ Other(e) \in Ends
          /\ end'[Other(e)].stage = end[Other(e)].stage
      BY SecondEnd, TwoEnds DEF Second
    <3>2. wire[Other(e)] = <<>> => wire'[Other(e)] = <<>>
      <4>1. /\ wire'[Other(e)] \in Seq(Messages)
            /\ Len(wire'[Other(e)]) = Len(wire[Other(e)])
        BY <3>1, SecondWire
      <4> QED  BY <4>1
    <3> QED  BY <1>4, <3>1, <3>2 DEF Alone, Gone
  <2>3. ASSUME ~undated'[e], lonely'[e] > end'[e].ticks
        PROVE  LastPing(e)'
    <3>1. ~undated[e] /\ ~(end[e].blocked # {} /\ end[e].deadline = -1)
      BY <2>3 DEF Second
    <3>2. end[e].ticks = Silence
      <4>1. CASE lonely[e] =< end[e].ticks
        BY <1>1, <1>2, <1>4, <2>1, <2>3, <4>1
      <4>2. CASE LastPing(e)
        BY <4>2 DEF LastPing
      <4> QED  BY <1>4, <3>1, <4>1, <4>2 DEF LonelyInv, LonelyEnd
    <3>3. ~Busy(e)
      BY DEF Second
    <3>4. "ping" \in end[e].writing
      BY <1>4, <3>2, <3>3 DEF LonelyInv, LonelyEnd, Busy
    <3>5. ~HasRoom(e) /\ end[e].deadline > 0
      <4>1. end[e].blocked # {} /\ end[e].deadline # 0 /\ ~HasRoom(e)
        BY <3>3, <3>4 DEF Busy
      <4> QED  BY <1>2, <3>1, <4>1
    <3>6. ~HasRoom(e)' /\ end'[e].ticks = Silence
      <4>1. Len(wire'[e]) = Len(wire[e])
        BY SecondWire
      <4> QED  BY <1>1, <1>2, <1>4, <3>2, <3>5, <4>1 DEF HasRoom
    <3>7. lonely'[e] =< Silence + TunnelBlockTimeoutSec
            - (IF end'[e].deadline > 0 THEN end'[e].deadline ELSE 0)
            + (IF "block" \in end'[e].writing THEN TunnelBlockTimeoutSec ELSE 0)
      <4>1. CASE lonely[e] =< end[e].ticks
        BY <1>1, <1>2, <2>1, <3>2, <3>5, <4>1, Constants
      <4>2. CASE LastPing(e)
        BY <1>1, <1>2, <2>1, <3>5, <4>2, Constants DEF LastPing
      <4> QED  BY <1>4, <3>1, <4>1, <4>2 DEF LonelyInv, LonelyEnd
    <3> QED  BY <1>1, <3>4, <3>6, <3>7 DEF LastPing
  <2>4. end'[e].ticks \in Int
    BY <1>1, <1>2, <1>4
  <2> QED  BY <1>1, <1>a, <1>4, <2>1, <2>2, <2>3, <2>4 DEF LonelyEnd
<1> QED  BY <1>3, <1>4

LEMMA LonelyStep ==
    ASSUME Types, LonelyInv, [Next]_vars
    PROVE  LonelyInv'
<1>1. CASE LinkFails
  <2>1. down' /\ UNCHANGED <<end, wire, lonely, undated>>
    BY <1>1 DEF LinkFails, ghosts
  <2> QED  BY <2>1 DEF LonelyInv, LonelyEnd, LastPing, HasRoom, Alone, Gone
<1>2. CASE UNCHANGED vars
  <2>1. UNCHANGED <<end, wire, down, lonely, undated>>
    BY <1>2 DEF vars, ghosts
  <2> QED  BY <2>1 DEF LonelyInv, LonelyEnd, LastPing, HasRoom, Alone, Gone
<1> QED  BY <1>1, <1>2, NextCases, TurnLonely, SecondLonely

\* The last ping takes no longer than its deadline, prolonged once.
LEMMA LonelyPatience ==
    ASSUME Types, LonelyInv
    PROVE  DeafTunnelCloses
<1> SUFFICES ASSUME NEW e \in Ends, end[e].stage = "up", ~undated[e]
             PROVE  lonely[e] =< Patience
  BY DEF DeafTunnelCloses
<1>1. /\ lonely[e] \in Int /\ end[e].ticks \in 0 .. Silence
      /\ end[e].deadline \in -1 .. TunnelBlockTimeoutSec
  BY OnlyUpWorks, Constants DEF Types, Patience
<1>2. CASE lonely[e] =< end[e].ticks
  BY <1>1, <1>2, Constants DEF Patience, Silence
<1>3. CASE LastPing(e)
  BY <1>1, <1>3, Constants DEF LastPing, Patience, Silence
<1> QED  BY <1>2, <1>3 DEF LonelyInv, LonelyEnd

\* In every behaviour, an end that nobody can answer any more is not up for
\* longer than Patience, unless one of its writes has lost its deadline to
\* another writer (tunnel.go 206-241, 357-370).
THEOREM DeafTunnelClosesCorrectness == Spec => []DeafTunnelCloses
<1>1. Init => WorkingInv /\ LonelyInv
  <2> SUFFICES ASSUME Init
               PROVE  WorkingInv /\ LonelyInv
    OBVIOUS
  <2>1. WorkingInv
    BY InitWorking
  <2>2. end["client"].stage = "sendID" /\ end["server"].stage = "backlog"
    BY NewEndIsTunnel DEF Init, Stages
  <2>3. \A e \in Ends : lonely[e] = 0
    BY DEF Init
  <2>4. LonelyInv
    BY <2>2, <2>3 DEF LonelyInv, LonelyEnd, Ends
  <2> QED  BY <2>1, <2>4
<1>2. WorkingInv /\ LonelyInv /\ [Next]_vars => (WorkingInv /\ LonelyInv)'
  BY WorkingStep, LonelyStep DEF WorkingInv
<1>3. WorkingInv /\ LonelyInv => DeafTunnelCloses
  BY LonelyPatience DEF WorkingInv
<1> QED  BY <1>1, <1>2, <1>3, PTL DEF Spec
============================================================================
