-------------------------- MODULE MCVideoStreaming --------------------------
EXTENDS VideoStreaming, TLC
CONSTANTS c1, c2
Connections == {c1, c2}
=============================================================================
