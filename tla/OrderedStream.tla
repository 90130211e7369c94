---------------------------- MODULE OrderedStream ----------------------------
(***************************************************************************)
(* What one direction of a proxied connection promises to its reader: the  *)
(* blocks come out in the order in which the writer packed them, with no   *)
(* block skipped, repeated or invented.  The stream may be broken at any   *)
(* moment (the relay context is cancelled); blocks that were already on    *)
(* their way to the reader may still come out after that, in order.        *)
(*                                                                         *)
(* A block is known here only by its position in the writer's stream.      *)
(***************************************************************************)
EXTENDS Naturals, Sequences

VARIABLES
    written,    \* how many blocks the writer has packed
    read,       \* the positions handed to the reader, oldest first
    broken      \* has the stream been broken?

streamVars == <<written, read, broken>>

StreamInit ==
    /\ written = 0
    /\ read = <<>>
    /\ broken = FALSE

Write ==
    /\ written' = written + 1
    /\ UNCHANGED <<read, broken>>

Deliver ==
    /\ Len(read) < written
    /\ read' = Append(read, Len(read))
    /\ UNCHANGED <<written, broken>>

Break ==
    /\ broken' = TRUE
    /\ UNCHANGED <<written, read>>

StreamNext == Write \/ Deliver \/ Break

StreamSpec == StreamInit /\ [][StreamNext]_streamVars
==============================================================================
