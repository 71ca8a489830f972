------------------------- MODULE MCCapturePipeline -------------------------
EXTENDS CapturePipeline
=============================================================================
