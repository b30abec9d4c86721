---- MODULE MCSenderWait ----
EXTENDS SenderWait
====
