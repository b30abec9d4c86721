---- MODULE MCRtpServer ----
EXTENDS RtpServer
====
