------------------------- MODULE MCInboundConnection -------------------------
EXTENDS InboundConnection

\* The server sends one byte and does not end the connection.
OneBlock == <<1>>
==============================================================================
