------------------------ MODULE MCProxiedConnection ------------------------
EXTENDS ProxiedConnection, TLC

\* A block shorter and a block longer than the buffer.
ShortAndLong == 0 :> 0 @@ 1 :> 1 @@ 2 :> 4
============================================================================
