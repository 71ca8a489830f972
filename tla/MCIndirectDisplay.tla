------------------------- MODULE MCIndirectDisplay -------------------------
EXTENDS IndirectDisplay
TwoConnectors == {1, 2}
=============================================================================
