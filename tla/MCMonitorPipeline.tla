---- MODULE MCMonitorPipeline ----
EXTENDS MonitorPipeline
====
