---------------------------- MODULE MCPlayback -----------------------------
EXTENDS Playback
=============================================================================
