---- MODULE MCFrameSource ----
EXTENDS FrameSource
====
