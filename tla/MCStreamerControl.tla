---- MODULE MCStreamerControl ----
EXTENDS StreamerControl
====
