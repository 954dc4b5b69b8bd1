------------------------- MODULE MCPreviewPipeline -------------------------
EXTENDS PreviewPipeline

CONSTANTS b1, b2, b3

MCBuffers  == {b1, b2, b3}
=============================================================================
