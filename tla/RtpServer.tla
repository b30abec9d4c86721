------------------------------ MODULE RtpServer ------------------------------
(***************************************************************************)
(* One RtpServer (src/src/streamer/rtp_server.cpp): the connection of one  *)
(* monitor's client and the video send path, between start() and stop().   *)
(* Five threads meet here, each with its own program counter:              *)
(*                                                                         *)
(*   sig    the signaling accept thread: on_connect, on_message,           *)
(*          on_disconnect                                                  *)
(*   cap    the capture thread of main.cpp: peer_count, Encoder::encode,   *)
(*          set_pacing_bitrate, broadcast_video                            *)
(*   snd    the sender thread: sender_loop and send_repairs                *)
(*   rtcp   the NACK thread: handle_rtcp                                   *)
(*   (the audio thread's broadcast_audio is a single critical section)     *)
(*                                                                         *)
(* A step is one critical section of peer_mu_ / send_mu_, or one access to *)
(* the encoder's force_keyframe_ flag.  Clocks are abstracted: whether a   *)
(* deadline has passed, or sendto accepted a datagram, is a choice.  A     *)
(* packet is identified by the access unit it carries a piece of; its      *)
(* bytes and its 16-bit sequence number are not represented.               *)
(***************************************************************************)
EXTENDS Integers, Sequences, FiniteSets

CONSTANTS
  kMaxQueuedPackets,   \* packets send_q_ may hold (4096)
  kMaxRepairs,         \* entries repair_q_ may hold (64)
  kRepairBurst,        \* repairs sent before each video packet (4)
  Rates,               \* encoder bitrates, kbps
  Sizes,               \* packets an access unit may be split into
  MaxUnits,            \* bound: access units the encoder produces
  MaxSessions          \* bound: TCP connections accepted

ASSUME RtpServerAssumption ==
  /\ kMaxQueuedPackets \in Nat \ {0}
  /\ kMaxRepairs \in Nat \ {0}
  /\ kRepairBurst \in Nat \ {0}
  /\ Rates \subseteq Nat \ {0} /\ Rates # {}
  /\ Sizes \subseteq Nat \ {0} /\ Sizes # {}
  /\ MaxUnits \in Nat
  /\ MaxSessions \in Nat

VARIABLES
  \* guarded by peer_mu_
  peer,              \* peer_udp_ holds the address of a connected client
  peer_streaming,    \* peer_streaming_: READY was accepted
  pacing_kbps,       \* pacing_kbps_
  pacer_kbps,        \* this stream's share in the shared Pacer
  \* guarded by send_mu_
  send_q,            \* send_q_: frames waiting for the sender thread
  repair_q,          \* repair_q_: packets the client asked for again
  queued_packets,    \* queued_packets_
  send_generation,   \* send_generation_
  awaiting_keyframe, \* awaiting_keyframe_
  video_retx,        \* video_retx_: video packets a NACK can still obtain
  audio_retx,        \* audio_retx_
  \* the encoder
  force_keyframe,    \* Encoder::force_keyframe_
  encoder_kbps,      \* Encoder::bitrate_kbps()
  encoded,           \* access units produced so far
  \* the threads
  sig,               \* signaling thread
  cap, au,           \* capture thread, and the access unit it holds
  leaving,           \* it has left its loop
  snd, cur, next,    \* sender thread, the frame it sends, its next packet
  repairs, repair,   \* repairs sent in this burst, the repair being sent
  rtcp,              \* RTCP thread
  \* history
  session,           \* connections accepted so far
  wire               \* what sendto was given for the current connection

peerVars    == <<peer, peer_streaming, pacing_kbps, pacer_kbps>>
queueVars   == <<send_q, repair_q, queued_packets, send_generation,
                 awaiting_keyframe, video_retx>>
encoderVars == <<force_keyframe, encoder_kbps, encoded>>
capVars     == <<cap, leaving, au>>
sndVars     == <<snd, cur, next, repairs, repair>>
histVars    == <<session, wire>>
vars == <<peerVars, queueVars, audio_retx, encoderVars, sig, capVars, sndVars,
          rtcp, histVars>>

-----------------------------------------------------------------------------
(* Data *)

Unit   == [id : Nat, key : BOOLEAN, size : Nat]
Frame  == [id : Nat, key : BOOLEAN, size : Nat, generation : Nat, session : Nat]
Packet == [session : Nat, id : Nat, index : Nat]
Repair == [packet : Packet, generation : Nat, video : BOOLEAN]
Sent   == [id : Nat, key : BOOLEAN, size : Nat, session : Nat, sent : Nat]

NoUnit   == [id |-> 0, key |-> FALSE, size |-> 0]
NoFrame  == [id |-> 0, key |-> FALSE, size |-> 0, generation |-> 0, session |-> 0]
NoRepair == [packet |-> [session |-> 0, id |-> 0, index |-> 0],
             generation |-> 0, video |-> FALSE]

\* The i-th RTP packet of frame f, and the packet that stands for all the audio
\* of a connection: a NACK names one by SSRC and sequence number.
VideoPacket(f, i) == [session |-> f.session, id |-> f.id, index |-> i]
AudioPacket(s)    == [session |-> s, id |-> 0, index |-> 0]

SigStates  == {"accept", "connect_reset", "serving", "ready_request",
               "bye_reset", "closing", "disconnect_reset"}
CapStates  == {"tick", "encode", "sink", "broadcast", "request", "flush"}
SndStates  == {"wait", "repairs", "repair", "pop", "send", "request"}
RtcpStates == {"idle", "pli"}

Init ==
  /\ peer = FALSE
  /\ peer_streaming = FALSE
  /\ encoder_kbps \in Rates
  /\ pacing_kbps = encoder_kbps
  /\ pacer_kbps = 0
  /\ send_q = <<>>
  /\ repair_q = <<>>
  /\ queued_packets = 0
  /\ send_generation = 0
  /\ awaiting_keyframe = TRUE
  /\ video_retx = {}
  /\ audio_retx = {}
  /\ force_keyframe = FALSE
  /\ encoded = 0
  /\ sig = "accept"
  /\ cap = "tick" /\ leaving = FALSE /\ au = NoUnit
  /\ snd = "wait" /\ cur = NoFrame /\ next = 1
  /\ repairs = 0 /\ repair = NoRepair
  /\ rtcp = "idle"
  /\ session = 0
  /\ wire = <<>>

-----------------------------------------------------------------------------
(* Effects shared by several handlers *)

\* Everything queued or repairable is dropped, the frame already being paced is
\* cancelled by the new generation, and only a keyframe may be queued next.
DropVideo ==
  /\ send_q' = <<>>
  /\ repair_q' = <<>>
  /\ video_retx' = {}
  /\ queued_packets' = 0
  /\ send_generation' = send_generation + 1
  /\ awaiting_keyframe' = TRUE

\* Mutant of ResetVideoQueue: the frame being paced is not cancelled.
ResetVideoQueue_SameGeneration ==
  /\ send_q' = <<>>
  /\ repair_q' = <<>>
  /\ video_retx' = {}
  /\ audio_retx' = {}
  /\ queued_packets' = 0
  /\ awaiting_keyframe' = TRUE
  /\ UNCHANGED send_generation

\* reset_video_queue(), under send_mu_.
ResetVideoQueue ==
  /\ DropVideo
  /\ audio_retx' = {}

\* The first half of on_disconnect(), under peer_mu_.
ForgetPeer ==
  /\ peer_streaming' = FALSE
  /\ peer' = FALSE
  /\ pacer_kbps' = 0
  /\ UNCHANGED pacing_kbps

\* on_keyframe_request -> Encoder::force_keyframe().
RequestKeyframe == 
  /\ force_keyframe' = TRUE
  /\ UNCHANGED <<encoder_kbps, encoded>>

-----------------------------------------------------------------------------
(* Signaling thread *)

\* accept() and the first half of on_connect(): the address is remembered, the
\* port is unknown until READY.
OnConnect ==
  /\ sig = "accept"
  /\ session < MaxSessions
  /\ peer' = TRUE
  /\ peer_streaming' = FALSE
  /\ sig' = "connect_reset"
  /\ session' = session + 1
  /\ wire' = <<>>
  /\ UNCHANGED <<pacing_kbps, pacer_kbps, queueVars, audio_retx, encoderVars,
                 capVars, sndVars, rtcp>>

\* The second half of on_connect(): reset, then HELLO goes out.
OnConnectReset ==
  /\ sig = "connect_reset"
  /\ ResetVideoQueue
  /\ sig' = "serving"
  /\ UNCHANGED <<peerVars, encoderVars, capVars, sndVars, rtcp, histVars>>

\* READY: streaming starts if the peer's address is known.
OnReady ==
  /\ sig = "serving"
  /\ peer
  /\ peer_streaming' = TRUE
  /\ pacer_kbps' = pacing_kbps
  /\ sig' = "ready_request"
  /\ UNCHANGED <<peer, pacing_kbps, queueVars, audio_retx, encoderVars,
                 capVars, sndVars, rtcp, histVars>>

\* READY, continued: START was sent, the encoder is asked for a keyframe.
OnReadyRequest ==
  /\ sig = "ready_request"
  /\ RequestKeyframe
  /\ sig' = "serving"
  /\ UNCHANGED <<peerVars, queueVars, audio_retx, capVars, sndVars, rtcp,
                 histVars>>

\* BYE disconnects once in on_message, and the read loop then ends.
OnBye ==
  /\ sig = "serving"
  /\ ForgetPeer
  /\ sig' = "bye_reset"
  /\ UNCHANGED <<queueVars, audio_retx, encoderVars, capVars, sndVars, rtcp,
                 histVars>>

OnByeReset ==
  /\ sig = "bye_reset"
  /\ ResetVideoQueue
  /\ sig' = "closing"
  /\ UNCHANGED <<peerVars, encoderVars, capVars, sndVars, rtcp, histVars>>

\* End of client_loop(): EOF, an error, the 10 s receive timeout, or BYE.
OnDisconnect ==
  /\ sig \in {"serving", "closing"}
  /\ ForgetPeer
  /\ sig' = "disconnect_reset"
  /\ UNCHANGED <<queueVars, audio_retx, encoderVars, capVars, sndVars, rtcp,
                 histVars>>

OnDisconnectReset ==
  /\ sig = "disconnect_reset"
  /\ ResetVideoQueue
  /\ sig' = "accept"
  /\ UNCHANGED <<peerVars, encoderVars, capVars, sndVars, rtcp, histVars>>

Signaling ==
  \/ OnConnect    \/ OnConnectReset
  \/ OnReady      \/ OnReadyRequest
  \/ OnBye        \/ OnByeReset
  \/ OnDisconnect \/ OnDisconnectReset

-----------------------------------------------------------------------------
(* Capture thread *)

\* One tick of the paced capture loop: nothing is encoded without a peer.
CaptureTick ==
  /\ cap = "tick"
  /\ peer_streaming
  /\ cap' = "encode"
  /\ UNCHANGED <<peerVars, queueVars, audio_retx, encoderVars, sig, leaving, au,
                 sndVars, rtcp, histVars>>

\* The codec hands out its next access unit; a forced one is a keyframe.
UnitEncoded(forced) ==
  /\ encoded < MaxUnits
  /\ encoded' = encoded + 1
  /\ \E key \in BOOLEAN, n \in Sizes :
       /\ forced => key
       /\ au' = [id |-> encoded + 1, key |-> key, size |-> n]
  /\ cap' = "sink"

\* Encoder::encode(): a pending bitrate is applied, the force flag is consumed.
\* A forced frame is a keyframe; the codec may also emit one on its own.
Encode ==
  /\ cap = "encode"
  /\ force_keyframe' = FALSE
  /\ encoder_kbps' \in Rates
  /\ UnitEncoded(force_keyframe)
  /\ UNCHANGED <<peerVars, queueVars, audio_retx, sig, leaving, sndVars, rtcp,
                 histVars>>

\* encode() fails, before it consumed the force flag (conversion, upload) or
\* after (the codec): the thread leaves its loop for good.
EncodeFails ==
  /\ cap = "encode"
  /\ force_keyframe' \in {FALSE, force_keyframe}
  /\ encoder_kbps' \in Rates
  /\ cap' = "flush" /\ leaving' = TRUE
  /\ UNCHANGED <<peerVars, queueVars, audio_retx, encoded, sig, au, sndVars, rtcp,
                 histVars>>

\* The loop's condition fails, or the source ends.
CaptureEnds ==
  /\ cap \in {"tick", "encode"}
  /\ cap' = "flush" /\ leaving' = TRUE
  /\ UNCHANGED <<peerVars, queueVars, audio_retx, encoderVars, sig, au,
                 sndVars, rtcp, histVars>>

\* Encoder::flush(): a unit the codec still holds goes to the same sink.  With the
\* last one the thread has ended: it takes no step any more.
Flush ==
  /\ cap = "flush"
  /\ UnitEncoded(FALSE)
  /\ UNCHANGED <<peerVars, queueVars, audio_retx, force_keyframe, encoder_kbps, sig,
                 leaving, sndVars, rtcp, histVars>>

\* Where the packet sink returns to: encode() in the loop, or flush() after it.
SinkReturns == cap' = IF leaving THEN "flush" ELSE "tick"

\* Mutant of SetPacingBitrate: the share is set whether or not a peer streams.
SetPacingBitrate_IgnoresPeer ==
  /\ cap = "sink"
  /\ pacing_kbps' = encoder_kbps
  /\ pacer_kbps' = encoder_kbps
  /\ cap' = "broadcast"
  /\ UNCHANGED <<peer, peer_streaming, queueVars, audio_retx, encoderVars, sig,
                 leaving, au, sndVars, rtcp, histVars>>

\* The packet sink's first call: set_pacing_bitrate(encoder.bitrate_kbps()).
SetPacingBitrate ==
  /\ cap = "sink"
  /\ pacing_kbps' = encoder_kbps
  /\ pacer_kbps' = IF pacing_kbps = encoder_kbps THEN pacer_kbps
                   ELSE IF peer_streaming THEN encoder_kbps ELSE 0
  /\ cap' = "broadcast"
  /\ UNCHANGED <<peer, peer_streaming, queueVars, audio_retx, encoderVars, sig,
                 leaving, au, sndVars, rtcp, histVars>>

\* Whether broadcast_video() may queue the access unit at all.
Wanted(u) == peer_streaming /\ (awaiting_keyframe => u.key)

\* broadcast_video() finds nobody who could use the access unit.
BroadcastSkips ==
  /\ cap = "broadcast"
  /\ ~Wanted(au)
  /\ SinkReturns /\ au' = NoUnit
  /\ UNCHANGED <<peerVars, queueVars, audio_retx, encoderVars, sig, leaving, sndVars,
                 rtcp, histVars>>

\* broadcast_video(): drop is its test that the oldest frame is late (expired)
\* or the queue too full.  The access unit is then queued, or refused and a
\* keyframe requested once the locks are released.
BroadcastVideo ==
  /\ cap = "broadcast"
  /\ Wanted(au)
  /\ \E expired \in BOOLEAN :
       LET drop == \/ send_q # <<>> /\ expired
                   \/ queued_packets + au.size > kMaxQueuedPackets
           gen  == IF drop THEN send_generation + 1 ELSE send_generation
           refuse == \/ (drop \/ awaiting_keyframe) /\ ~au.key
                     \/ au.size > kMaxQueuedPackets
           frame == [id |-> au.id, key |-> au.key, size |-> au.size,
                     generation |-> gen, session |-> session]
           kept  == IF drop THEN <<>> ELSE send_q
           count == IF drop THEN 0 ELSE queued_packets
       IN  /\ send_generation' = gen
           /\ repair_q' = IF drop THEN <<>> ELSE repair_q
           /\ video_retx' = IF drop THEN {} ELSE video_retx
           /\ awaiting_keyframe' = refuse
           /\ send_q' = IF refuse THEN kept ELSE Append(kept, frame)
           /\ queued_packets' = IF refuse THEN count ELSE count + au.size
           /\ IF refuse THEN cap' = "request" ELSE SinkReturns
  /\ au' = NoUnit
  /\ UNCHANGED <<peerVars, audio_retx, encoderVars, sig, leaving, sndVars, rtcp,
                 histVars>>

CaptureRequest ==
  /\ cap = "request"
  /\ RequestKeyframe
  /\ SinkReturns
  /\ UNCHANGED <<peerVars, queueVars, audio_retx, sig, leaving, au, sndVars, rtcp,
                 histVars>>

Capture ==
  \/ CaptureTick      \/ Encode         \/ EncodeFails    \/ CaptureEnds
  \/ Flush            \/ SetPacingBitrate
  \/ BroadcastSkips   \/ BroadcastVideo \/ CaptureRequest

-----------------------------------------------------------------------------
(* Sender thread *)

\* The wait of sender_loop() ends with work to do; repairs go first.
SenderWake ==
  /\ snd = "wait"
  /\ send_q # <<>> \/ repair_q # <<>>
  /\ snd' = "repairs"
  /\ repairs' = 0
  /\ UNCHANGED <<peerVars, queueVars, audio_retx, encoderVars, sig, capVars,
                 cur, next, repair, rtcp, histVars>>

\* Mutant of TakeRepair: the burst is not limited.
TakeRepair_Unlimited ==
  /\ snd = "repairs"
  /\ repair_q # <<>>
  /\ repair' = Head(repair_q)
  /\ repair_q' = Tail(repair_q)
  /\ snd' = "repair"
  /\ UNCHANGED <<peerVars, send_q, queued_packets, send_generation,
                 awaiting_keyframe, video_retx, audio_retx, encoderVars, sig,
                 capVars, cur, next, repairs, rtcp, histVars>>

\* send_repairs() takes the oldest repair ...
TakeRepair ==
  /\ snd = "repairs"
  /\ repairs < kRepairBurst
  /\ repair_q # <<>>
  /\ repair' = Head(repair_q)
  /\ repair_q' = Tail(repair_q)
  /\ repairs' = repairs + 1
  /\ snd' = "repair"
  /\ UNCHANGED <<peerVars, send_q, queued_packets, send_generation,
                 awaiting_keyframe, video_retx, audio_retx, encoderVars, sig,
                 capVars, cur, next, rtcp, histVars>>

\* Mutant of Current: the generation is not compared.
Current_AnyGeneration(f) == peer_streaming

\* Whether what the sender holds still belongs to the stream being sent.
Current(f) == peer_streaming /\ f.generation = send_generation

\* ... and after pacing sends it again if it is current.
SendRepair ==
  /\ snd = "repair"
  /\ Current(repair)
  /\ repair' = NoRepair
  /\ snd' = "repairs"
  /\ UNCHANGED <<peerVars, queueVars, audio_retx, encoderVars, sig, capVars,
                 cur, next, repairs, rtcp, histVars>>

\* It is dropped when cancelled, late or refused by the pacer or the socket.
DiscardRepair ==
  /\ snd = "repair"
  /\ repair' = NoRepair
  /\ snd' = "repairs"
  /\ UNCHANGED <<peerVars, queueVars, audio_retx, encoderVars, sig, capVars,
                 cur, next, repairs, rtcp, histVars>>

\* send_repairs() returns: to the pop, or to the packet of the current frame.
RepairsDone ==
  /\ snd = "repairs"
  /\ repairs = kRepairBurst \/ repair_q = <<>>
  /\ snd' = IF cur = NoFrame THEN "pop" ELSE "send"
  /\ repairs' = 0
  /\ UNCHANGED <<peerVars, queueVars, audio_retx, encoderVars, sig, capVars,
                 cur, next, repair, rtcp, histVars>>

\* Mutant of PopFrame: one packet is subtracted per frame.
PopFrame_CountsFrames ==
  /\ snd = "pop"
  /\ send_q # <<>>
  /\ cur' = Head(send_q)
  /\ next' = 1
  /\ send_q' = Tail(send_q)
  /\ queued_packets' = queued_packets - 1
  /\ snd' = "repairs"
  /\ UNCHANGED <<peerVars, repair_q, send_generation, awaiting_keyframe,
                 video_retx, audio_retx, encoderVars, sig, capVars, repairs,
                 repair, rtcp, histVars>>

\* The front frame is moved out of the queue; its first packet is preceded by
\* another burst of repairs.
PopFrame ==
  /\ snd = "pop"
  /\ send_q # <<>>
  /\ cur' = Head(send_q)
  /\ next' = 1
  /\ send_q' = Tail(send_q)
  /\ queued_packets' = queued_packets - Head(send_q).size
  /\ snd' = "repairs"
  /\ UNCHANGED <<peerVars, repair_q, send_generation, awaiting_keyframe,
                 video_retx, audio_retx, encoderVars, sig, capVars, repairs,
                 repair, rtcp, histVars>>

PopNothing ==
  /\ snd = "pop"
  /\ send_q = <<>>
  /\ snd' = "wait"
  /\ UNCHANGED <<peerVars, queueVars, audio_retx, encoderVars, sig, capVars,
                 cur, next, repairs, repair, rtcp, histVars>>

\* The frame was cancelled while its packet was paced: its rest is discarded.
SendCancelled ==
  /\ snd = "send"
  /\ ~Current(cur)
  /\ snd' = "wait" /\ cur' = NoFrame /\ next' = 1
  /\ UNCHANGED <<peerVars, queueVars, audio_retx, encoderVars, sig, capVars,
                 repairs, repair, rtcp, histVars>>

\* The log of the connection after packet i of frame f.
Logged(f, i) ==
  IF i = 1
  THEN Append(wire, [id |-> f.id, key |-> f.key, size |-> f.size,
                     session |-> f.session, sent |-> 1])
  ELSE [wire EXCEPT ![Len(wire)].sent = i]

\* sendto() accepted the packet: it becomes repairable.
SendPacket ==
  /\ snd = "send"
  /\ Current(cur)
  /\ wire' = Logged(cur, next)
  /\ video_retx' = video_retx \cup {VideoPacket(cur, next)}
  /\ IF next = cur.size
     THEN snd' = "wait"    /\ cur' = NoFrame /\ next' = 1
     ELSE snd' = "repairs" /\ cur' = cur     /\ next' = next + 1
  /\ UNCHANGED <<peerVars, send_q, repair_q, queued_packets, send_generation,
                 awaiting_keyframe, audio_retx, encoderVars, sig, capVars,
                 repairs, repair, rtcp, session>>

\* Mutant of SendFails: no keyframe is requested for the lost unit.
SendFails_NoRequest ==
  /\ snd = "send"
  /\ Current(cur)
  /\ DropVideo
  /\ snd' = "wait" /\ cur' = NoFrame /\ next' = 1
  /\ UNCHANGED <<peerVars, audio_retx, encoderVars, sig, capVars, repairs,
                 repair, rtcp, histVars>>

\* The deadline passed or sendto() failed: a partial access unit invalidates
\* every dependent frame.
SendFails ==
  /\ snd = "send"
  /\ Current(cur)
  /\ DropVideo
  /\ snd' = "request" /\ cur' = NoFrame /\ next' = 1
  /\ UNCHANGED <<peerVars, audio_retx, encoderVars, sig, capVars, repairs,
                 repair, rtcp, histVars>>

SenderRequest ==
  /\ snd = "request"
  /\ RequestKeyframe
  /\ snd' = "wait"
  /\ UNCHANGED <<peerVars, queueVars, audio_retx, sig, capVars, cur, next,
                 repairs, repair, rtcp, histVars>>

Sender ==
  \/ SenderWake    \/ TakeRepair \/ SendRepair \/ DiscardRepair
  \/ RepairsDone   \/ PopFrame   \/ PopNothing \/ SendCancelled
  \/ SendPacket    \/ SendFails  \/ SenderRequest

-----------------------------------------------------------------------------
(* RTCP and audio threads *)

\* A PLI from the peer's own address; the connection is only checked on arrival.
PliArrives ==
  /\ rtcp = "idle"
  /\ peer_streaming
  /\ rtcp' = "pli"
  /\ UNCHANGED <<peerVars, queueVars, audio_retx, encoderVars, sig, capVars,
                 sndVars, histVars>>

OnPli ==
  /\ rtcp = "pli"
  /\ RequestKeyframe
  /\ rtcp' = "idle"
  /\ UNCHANGED <<peerVars, queueVars, audio_retx, sig, capVars, sndVars,
                 histVars>>

\* retransmit(seq), once per packet a NACK names: a packet that is still buffered
\* and fresh is queued unless it already is.  The locks are taken anew for every
\* packet and streaming is tested under them, so the test made when the NACK
\* arrived adds nothing.
Retransmit ==
  /\ rtcp = "idle"
  /\ peer_streaming
  /\ Len(repair_q) < kMaxRepairs
  /\ \E p \in video_retx \cup audio_retx :
       /\ \A i \in 1 .. Len(repair_q) : repair_q[i].packet # p
       /\ repair_q' = Append(repair_q, [packet |-> p,
                                        generation |-> send_generation,
                                        video |-> p \in video_retx])
  /\ UNCHANGED <<peerVars, send_q, queued_packets, send_generation,
                 awaiting_keyframe, video_retx, audio_retx, encoderVars, sig,
                 capVars, sndVars, rtcp, histVars>>

\* broadcast_audio(): sent at once, under peer_mu_ alone.
BroadcastAudio ==
  /\ peer_streaming
  /\ audio_retx' = audio_retx \cup {AudioPacket(session)}
  /\ UNCHANGED <<peerVars, queueVars, encoderVars, sig, capVars, sndVars, rtcp,
                 histVars>>

Feedback == PliArrives \/ OnPli \/ Retransmit

Next == Signaling \/ Capture \/ Sender \/ Feedback \/ BroadcastAudio

Spec == Init /\ [][Next]_vars

\* The sender thread is scheduled again and again; nothing else is promised.
FairSpec == Spec /\ WF_sndVars(Sender)

-----------------------------------------------------------------------------
(* Properties *)

\* Every variable has its type, a burst never exceeds its limit and repair_q_
\* never exceeds its capacity.
TypeOK ==
  /\ peer \in BOOLEAN /\ peer_streaming \in BOOLEAN
  /\ pacing_kbps \in Nat /\ pacer_kbps \in Nat /\ encoder_kbps \in Rates
  /\ send_q \in Seq(Frame)
  /\ repair_q \in Seq(Repair) /\ Len(repair_q) <= kMaxRepairs
  /\ queued_packets \in Int
  /\ send_generation \in Nat
  /\ awaiting_keyframe \in BOOLEAN /\ force_keyframe \in BOOLEAN
  /\ video_retx \in SUBSET Packet /\ audio_retx \in SUBSET Packet
  /\ encoded \in 0 .. MaxUnits /\ session \in 0 .. MaxSessions
  /\ sig \in SigStates
  /\ cap \in CapStates /\ au \in Unit
  /\ leaving \in BOOLEAN
  /\ snd \in SndStates /\ cur \in Frame /\ next \in Nat
  /\ repairs \in 0 .. kRepairBurst /\ repair \in Repair
  /\ rtcp \in RtcpStates
  /\ wire \in Seq(Sent)

\* queued_packets_ is the running total of the packets in send_q_, through every
\* push, pop and reset of three threads, and never exceeds the memory bound.
QueueAccounting ==
  \E total \in [0 .. Len(send_q) -> 0 .. kMaxQueuedPackets] :
    /\ total[0] = 0
    /\ \A i \in 1 .. Len(send_q) : total[i] = total[i - 1] + send_q[i].size
    /\ total[Len(send_q)] = queued_packets

Promised == INSTANCE PacketStream

\* Every connection gets a stream of its own: units queued for it alone, in
\* order and none twice, their packets without a gap, whatever a reset, an
\* overflow or a reconnect finds in the sender thread's hands.
SendsStream == Promised!Spec

\* The packet was already sent to the current peer.
Delivered(p) ==
  \/ p \in audio_retx /\ p.session = session
  \/ \E i \in 1 .. Len(wire) :
       /\ p.session = wire[i].session /\ p.id = wire[i].id
       /\ p.index <= wire[i].sent

\* A retransmission repeats what this very peer was sent before, whatever
\* happened between the NACK and the moment the paced repair is sent.
RepairsRepeat == [][SendRepair => Delivered(repair.packet)]_vars

\* The encoder is told to make a keyframe, or a thread is about to tell it, or the
\* keyframe is in the capture thread's hands.
KeyframeComing ==
  \/ force_keyframe
  \/ sig = "ready_request" \/ snd = "request" \/ cap = "request"
  \/ cap \in {"sink", "broadcast"} /\ au.key

\* As long as the capture thread is in its loop, so that a request finds an encoder
\* that takes it, a streaming server never waits for a keyframe nobody will produce.
RecoveryArmed == peer_streaming /\ awaiting_keyframe /\ ~leaving => KeyframeComing

\* "lets a PLI-forced keyframe land within one interval" (main.cpp:712), for as long
\* as a client is streamed to.  Does not hold: when the source ends or encode()
\* fails, the capture thread is gone and the server goes on without it.
NeverAbandoned == peer_streaming /\ awaiting_keyframe => ~leaving /\ KeyframeComing

\* The shared pacer grants this stream its current bitrate exactly while a peer
\* is streaming: a departed peer takes no share from the other monitors.
PacerMatches == pacer_kbps = IF peer_streaming THEN pacing_kbps ELSE 0

\* "repeated NACKs cannot starve current video" (rtp_server.cpp:344): however
\* many repairs are requested, the frame being sent is finished or given up, so
\* that again and again the thread holds none.
VideoNotStarved == []<>(cur = NoFrame)

=============================================================================
