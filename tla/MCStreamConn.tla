---------------------------- MODULE MCStreamConn ----------------------------
EXTENDS StreamConn

\* OutboundRelay sends a header only and a block of two records; PingPong
\* sends a block of exactly one full record.
TwoWriters == [relay |-> <<0, 4>>, ping |-> <<2>>]
=============================================================================
