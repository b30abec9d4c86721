---- MODULE MCBitrateControl ----
EXTENDS BitrateControl
====
