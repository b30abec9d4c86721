--------------------------- MODULE MCKeyframeLoop ---------------------------
EXTENDS KeyframeLoop
=============================================================================
