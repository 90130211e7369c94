------------------------------ MODULE Transport ------------------------------
(***************************************************************************)
(* What the tunnels of a peer promise to the connections that use them: a  *)
(* block is carried at most once and arrives in any order, and blocks are  *)
(* lost only once some tunnel has failed.                                  *)
(***************************************************************************)
EXTENDS Naturals

CONSTANT Blocks

VARIABLES
    waiting,            \* blocks the connections have yet to hand over
    arrived,            \* blocks handed to the other side
    lost,               \* blocks that will never arrive
    faulty              \* an end of a tunnel has closed

Carried == Blocks \ (waiting \cup arrived \cup lost)

Init == waiting = Blocks /\ arrived = {} /\ lost = {} /\ faulty = FALSE

Send(b) ==
    /\ b \in waiting
    /\ waiting' = waiting \ {b}
    /\ UNCHANGED <<arrived, lost, faulty>>

Arrive(b) ==
    /\ b \in Carried
    /\ arrived' = arrived \cup {b}
    /\ UNCHANGED <<waiting, lost, faulty>>

\* A tunnel closes, and takes what it carries along.
Fault(bs) ==
    /\ bs \subseteq Carried
    /\ faulty' = TRUE
    /\ lost' = lost \cup bs
    /\ UNCHANGED <<waiting, arrived>>

\* A block is given up later, because of a tunnel that closed.
Lose(b) == faulty /\ Fault({b})

Next ==
    \/ \E b \in Blocks : Send(b) \/ Arrive(b) \/ Lose(b)
    \/ \E bs \in SUBSET Carried : Fault(bs)

Spec == Init /\ [][Next]_<<waiting, arrived, lost, faulty>>
==============================================================================
