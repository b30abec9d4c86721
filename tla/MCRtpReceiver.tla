---- MODULE MCRtpReceiver ----
EXTENDS RtpReceiver

\* A keyframe that is one packet, or has its parameter sets in a packet of their
\* own and its slice in fragments; dependent units of one and two packets.
MCKeyLayouts   == {<<"idr">>, <<"nal", "istart", "end">>}
MCDeltaLayouts == {<<"nal">>, <<"start", "end">>}
====
