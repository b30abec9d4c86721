--------------------------- MODULE RtpServerProofs ---------------------------
(***************************************************************************)
(* Theorems about RtpServer, for every bound, rate and size: what a        *)
(* connection is sent, up to the refinement of PacketStream, the books of  *)
(* queue, pacer and recovery, and that every step of the sender thread     *)
(* counts towards the end of its frame.                                    *)
(***************************************************************************)
EXTENDS RtpServer, TLAPS

\* The types of the values that stand for "nothing in hand".
LEMMA NothingTypes ==
  NoUnit \in Unit /\ NoFrame \in Frame /\ NoRepair \in Repair
BY DEF NoUnit, NoFrame, NoRepair, Unit, Frame, Repair, Packet

\* What reset_video_queue and the drops do keeps the types of the queues.
LEMMA DropVideoType ==
  ASSUME TypeOK, DropVideo
  PROVE  /\ send_q' \in Seq(Frame)
         /\ repair_q' \in Seq(Repair) /\ Len(repair_q') <= kMaxRepairs
         /\ queued_packets' \in Int
         /\ send_generation' \in Nat
         /\ awaiting_keyframe' \in BOOLEAN
         /\ video_retx' \in SUBSET Packet
BY RtpServerAssumption DEF TypeOK, DropVideo

LEMMA SignalingType == TypeOK /\ Signaling => TypeOK'
<1> SUFFICES ASSUME TypeOK, Signaling PROVE TypeOK'
  OBVIOUS
<1> USE RtpServerAssumption
    DEF peerVars, queueVars, encoderVars, capVars, sndVars, histVars, SigStates
<1>1. CASE OnConnect
  <2>1. session' \in 0 .. MaxSessions /\ wire' \in Seq(Sent)
    BY <1>1 DEF OnConnect, TypeOK
  <2>2. sig' \in SigStates
    BY <1>1 DEF OnConnect
  <2> QED
    BY <1>1, <2>1, <2>2 DEF OnConnect, TypeOK
<1>2. CASE OnConnectReset
  BY <1>2, DropVideoType DEF OnConnectReset, ResetVideoQueue, TypeOK
<1>3. CASE OnReady
  BY <1>3 DEF OnReady, TypeOK
<1>4. CASE OnReadyRequest
  BY <1>4 DEF OnReadyRequest, RequestKeyframe, TypeOK
<1>5. CASE OnBye
  BY <1>5 DEF OnBye, ForgetPeer, TypeOK
<1>6. CASE OnByeReset
  BY <1>6, DropVideoType DEF OnByeReset, ResetVideoQueue, TypeOK
<1>7. CASE OnDisconnect
  BY <1>7 DEF OnDisconnect, ForgetPeer, TypeOK
<1>8. CASE OnDisconnectReset
  BY <1>8, DropVideoType DEF OnDisconnectReset, ResetVideoQueue, TypeOK
<1> QED
  BY <1>1, <1>2, <1>3, <1>4, <1>5, <1>6, <1>7, <1>8 DEF Signaling

\* What the codec hands out is a unit, and counted within the bound.
LEMMA UnitType ==
  ASSUME TypeOK, NEW forced \in BOOLEAN, UnitEncoded(forced)
  PROVE  /\ au' \in Unit
         /\ encoded' \in 0 .. MaxUnits
         /\ cap' \in CapStates
<1>1. encoded + 1 \in 1 .. MaxUnits
  BY RtpServerAssumption DEF TypeOK, UnitEncoded
<1>2. PICK key \in BOOLEAN, n \in Sizes :
        au' = [id |-> encoded + 1, key |-> key, size |-> n]
  BY DEF UnitEncoded
<1>3. n \in Nat /\ encoded + 1 \in Nat
  BY <1>1, RtpServerAssumption
<1>4. au' \in Unit
  BY <1>2, <1>3 DEF Unit
<1> QED
  BY <1>1, <1>4 DEF UnitEncoded, CapStates

LEMMA CaptureType == TypeOK /\ Capture => TypeOK'
<1> SUFFICES ASSUME TypeOK, Capture PROVE TypeOK'
  OBVIOUS
<1> USE RtpServerAssumption
    DEF peerVars, queueVars, encoderVars, capVars, sndVars, histVars, CapStates
<1>1. CASE CaptureTick
  BY <1>1 DEF CaptureTick, TypeOK
<1>2. CASE Encode
  BY <1>2, UnitType DEF Encode, TypeOK
<1>3. CASE EncodeFails \/ CaptureEnds
  BY <1>3 DEF EncodeFails, CaptureEnds, TypeOK
<1>8. CASE Flush
  BY <1>8, UnitType DEF Flush, TypeOK
<1>4. CASE SetPacingBitrate
  BY <1>4 DEF SetPacingBitrate, TypeOK
<1>5. CASE BroadcastSkips
  BY <1>5, NothingTypes DEF BroadcastSkips, SinkReturns, TypeOK
<1>6. CASE BroadcastVideo
  <2> DEFINE frame(g) == [id |-> au.id, key |-> au.key, size |-> au.size,
                          generation |-> g, session |-> session]
  <2>1. \A g \in Nat : frame(g) \in Frame
    BY DEF TypeOK, Unit, Frame
  <2>2. /\ send_generation' \in Nat
        /\ awaiting_keyframe' \in BOOLEAN
        /\ repair_q' \in Seq(Repair) /\ Len(repair_q') <= kMaxRepairs
        /\ video_retx' \in SUBSET Packet
    BY <1>6 DEF BroadcastVideo, TypeOK
  <2>3. send_q' \in Seq(Frame)
    <3>1. \E g \in Nat : \/ send_q' = send_q
                         \/ send_q' = <<>>
                         \/ send_q' = Append(send_q, frame(g))
                         \/ send_q' = Append(<<>>, frame(g))
      <4>1. send_generation \in Nat /\ send_generation + 1 \in Nat
        BY DEF TypeOK
      <4> QED
        BY <1>6, <4>1 DEF BroadcastVideo
    <3>2. PICK g \in Nat : \/ send_q' = send_q
                          \/ send_q' = <<>>
                          \/ send_q' = Append(send_q, frame(g))
                          \/ send_q' = Append(<<>>, frame(g))
      BY <3>1
    <3>3. frame(g) \in Frame
      BY <2>1
    <3> HIDE DEF frame
    <3> QED
      <4>1. \A s \in Seq(Frame) : Append(s, frame(g)) \in Seq(Frame)
        BY <3>3
      <4>2. <<>> \in Seq(Frame) /\ send_q \in Seq(Frame)
        BY DEF TypeOK
      <4> QED
        BY <3>2, <4>1, <4>2
  <2>4. queued_packets' \in Int
    BY <1>6 DEF BroadcastVideo, TypeOK, Unit
  <2>5. cap' \in CapStates /\ au' \in Unit
    BY <1>6, NothingTypes DEF BroadcastVideo, SinkReturns
  <2> HIDE DEF frame
  <2> QED
    BY <1>6, <2>2, <2>3, <2>4, <2>5 DEF BroadcastVideo, TypeOK
<1>7. CASE CaptureRequest
  BY <1>7 DEF CaptureRequest, RequestKeyframe, SinkReturns, TypeOK
<1> QED
  BY <1>1, <1>2, <1>3, <1>4, <1>5, <1>6, <1>7, <1>8 DEF Capture

LEMMA SenderType == TypeOK /\ Sender => TypeOK'
<1> SUFFICES ASSUME TypeOK, Sender PROVE TypeOK'
  OBVIOUS
<1> USE RtpServerAssumption, NothingTypes
    DEF peerVars, queueVars, encoderVars, capVars, sndVars, histVars, SndStates
<1>1. CASE SenderWake
  BY <1>1 DEF SenderWake, TypeOK
<1>2. CASE TakeRepair
  <2>1. /\ repair' \in Repair
        /\ repair_q' \in Seq(Repair)
        /\ Len(repair_q') = Len(repair_q) - 1
    BY <1>2 DEF TakeRepair, TypeOK
  <2>2. repairs' \in 0 .. kRepairBurst
    BY <1>2 DEF TakeRepair, TypeOK
  <2> QED
    BY <1>2, <2>1, <2>2 DEF TakeRepair, TypeOK
<1>3. CASE SendRepair
  BY <1>3 DEF SendRepair, TypeOK
<1>4. CASE DiscardRepair
  BY <1>4 DEF DiscardRepair, TypeOK
<1>5. CASE RepairsDone
  BY <1>5 DEF RepairsDone, TypeOK
<1>6. CASE PopFrame
  <2>1. Head(send_q) \in Frame /\ Tail(send_q) \in Seq(Frame)
    BY <1>6 DEF PopFrame, TypeOK
  <2>2. Head(send_q).size \in Nat
    BY <2>1 DEF Frame
  <2> QED
    BY <1>6, <2>1, <2>2 DEF PopFrame, TypeOK
<1>7. CASE PopNothing
  BY <1>7 DEF PopNothing, TypeOK
<1>8. CASE SendCancelled
  BY <1>8 DEF SendCancelled, TypeOK
<1>9. CASE SendPacket
  <2>1. VideoPacket(cur, next) \in Packet
    BY DEF VideoPacket, Packet, TypeOK, Frame
  <2>2. wire' \in Seq(Sent)
    <3>1. CASE next = 1
      BY <1>9, <3>1 DEF SendPacket, Logged, TypeOK, Frame, Sent
    <3>2. CASE next # 1
      <4>1. wire' = [wire EXCEPT ![Len(wire)].sent = next]
        BY <1>9, <3>2 DEF SendPacket, Logged
      <4>2. \A s \in Sent : [s EXCEPT !.sent = next] \in Sent
        BY DEF Sent, TypeOK
      <4>3. wire \in [1 .. Len(wire) -> Sent] /\ Len(wire) \in Nat
        BY DEF TypeOK
      <4>4. wire' \in [1 .. Len(wire) -> Sent]
        BY <4>1, <4>2, <4>3
      <4>5. wire' \in Seq(Sent)
        BY <4>3, <4>4
      <4> QED
        BY <4>5
    <3> QED
      BY <3>1, <3>2
  <2> QED
    <3>1. /\ video_retx' \in SUBSET Packet
          /\ snd' \in SndStates /\ cur' \in Frame /\ next' \in Nat
      BY <1>9, <2>1 DEF SendPacket, TypeOK
    <3> QED
      BY <1>9, <2>2, <3>1 DEF SendPacket, TypeOK
<1>10. CASE SendFails
  BY <1>10, DropVideoType DEF SendFails, TypeOK
<1>11. CASE SenderRequest
  BY <1>11 DEF SenderRequest, RequestKeyframe, TypeOK
<1> QED
  BY <1>1, <1>2, <1>3, <1>4, <1>5, <1>6, <1>7, <1>8, <1>9, <1>10, <1>11
  DEF Sender

LEMMA FeedbackType == TypeOK /\ (Feedback \/ BroadcastAudio) => TypeOK'
<1> SUFFICES ASSUME TypeOK, Feedback \/ BroadcastAudio PROVE TypeOK'
  OBVIOUS
<1> USE RtpServerAssumption
    DEF peerVars, queueVars, encoderVars, capVars, sndVars, histVars, RtcpStates
<1>1. CASE PliArrives
  BY <1>1 DEF PliArrives, TypeOK
<1>2. CASE OnPli
  BY <1>2 DEF OnPli, RequestKeyframe, TypeOK
<1>3. CASE Retransmit
  <2>1. PICK p \in video_retx \cup audio_retx :
          repair_q' = Append(repair_q, [packet |-> p,
                                        generation |-> send_generation,
                                        video |-> p \in video_retx])
    BY <1>3 DEF Retransmit
  <2>2. [packet |-> p, generation |-> send_generation,
         video |-> p \in video_retx] \in Repair
    BY DEF Repair, TypeOK
  <2>3. /\ repair_q' \in Seq(Repair)
        /\ Len(repair_q') = Len(repair_q) + 1
    BY <2>1, <2>2 DEF TypeOK
  <2> QED
    BY <1>3, <2>3 DEF Retransmit, TypeOK
<1>4. CASE BroadcastAudio
  <2>1. audio_retx' \in SUBSET Packet
    BY <1>4 DEF BroadcastAudio, AudioPacket, Packet, TypeOK
  <2> QED
    BY <1>4, <2>1 DEF BroadcastAudio, TypeOK
<1> QED
  BY <1>1, <1>2, <1>3, <1>4 DEF Feedback

\* Every variable keeps its type, repair_q_ its capacity and every burst of
\* repairs its limit, through every step of the five threads.
THEOREM TypeCorrect == Spec => []TypeOK
<1>1. Init => TypeOK
  <2> SUFFICES ASSUME Init PROVE TypeOK
    OBVIOUS
  <2>1. encoder_kbps \in Rates /\ pacing_kbps \in Nat /\ pacer_kbps \in Nat
    BY RtpServerAssumption DEF Init
  <2>2. /\ send_q \in Seq(Frame) /\ wire \in Seq(Sent)
        /\ repair_q \in Seq(Repair) /\ Len(repair_q) <= kMaxRepairs
    BY RtpServerAssumption DEF Init
  <2>3. /\ encoded \in 0 .. MaxUnits /\ session \in 0 .. MaxSessions
        /\ repairs \in 0 .. kRepairBurst
    BY RtpServerAssumption DEF Init
  <2>4. au \in Unit /\ cur \in Frame /\ repair \in Repair
    BY NothingTypes DEF Init
  <2> QED
    <3>1. /\ peer \in BOOLEAN /\ peer_streaming \in BOOLEAN
          /\ awaiting_keyframe \in BOOLEAN /\ force_keyframe \in BOOLEAN
          /\ leaving \in BOOLEAN
          /\ video_retx \in SUBSET Packet /\ audio_retx \in SUBSET Packet
      BY Zenon DEF Init
    <3>3. queued_packets \in Int /\ send_generation \in Nat /\ next \in Nat
      BY DEF Init
    <3>2. /\ sig \in SigStates /\ cap \in CapStates
          /\ snd \in SndStates /\ rtcp \in RtcpStates
      BY DEF Init, SigStates, CapStates, SndStates, RtcpStates
    <3> QED
      BY <2>1, <2>2, <2>3, <2>4, <3>1, <3>2, <3>3, Zenon DEF TypeOK
<1>2. TypeOK /\ [Next]_vars => TypeOK'
  <2>1. TypeOK /\ UNCHANGED vars => TypeOK'
    BY DEF TypeOK, vars, peerVars, queueVars, encoderVars, capVars, sndVars,
           histVars
  <2> QED
    BY <2>1, SignalingType, CaptureType, SenderType, FeedbackType DEF Next
<1> QED
  BY <1>1, <1>2, PTL DEF Spec

-----------------------------------------------------------------------------
(* The connection: who may stream, and what the pacer then grants. *)

\* A peer streams only while the signaling thread reads its connection.  This is
\* what lets on_connect() leave the pacer alone and every reset find no stream.
StreamsWhileServed ==
  peer_streaming => sig \in {"serving", "ready_request"}

PeerInv == StreamsWhileServed /\ PacerMatches

LEMMA PeerInvStep == PeerInv /\ [Next]_vars => PeerInv'
<1> SUFFICES ASSUME PeerInv, [Next]_vars PROVE PeerInv'
  OBVIOUS
<1> USE DEF PeerInv, StreamsWhileServed, PacerMatches, peerVars
<1>1. CASE Signaling
  <2>1. CASE OnConnect
    BY <2>1 DEF OnConnect
  <2>2. CASE OnConnectReset \/ OnByeReset \/ OnDisconnectReset
    BY <2>2 DEF OnConnectReset, OnByeReset, OnDisconnectReset
  <2>3. CASE OnReady
    BY <2>3 DEF OnReady
  <2>4. CASE OnReadyRequest
    BY <2>4 DEF OnReadyRequest
  <2>5. CASE OnBye \/ OnDisconnect
    BY <2>5 DEF OnBye, OnDisconnect, ForgetPeer
  <2> QED
    BY <1>1, <2>1, <2>2, <2>3, <2>4, <2>5 DEF Signaling
<1>2. CASE Capture
  <2>1. CASE SetPacingBitrate
    BY <2>1 DEF SetPacingBitrate
  <2>2. CASE ~SetPacingBitrate
    <3>1. UNCHANGED <<peerVars, sig>>
      BY <1>2, <2>2 DEF Capture, CaptureTick, Encode, EncodeFails, CaptureEnds, Flush,
                        BroadcastSkips, BroadcastVideo, CaptureRequest
    <3> QED
      BY <3>1
  <2> QED
    BY <2>1, <2>2
<1>3. CASE Sender
  BY <1>3 DEF Sender, SenderWake, TakeRepair, SendRepair, DiscardRepair,
              RepairsDone, PopFrame, PopNothing, SendCancelled, SendPacket,
              SendFails, SenderRequest
<1>4. CASE Feedback \/ BroadcastAudio
  BY <1>4 DEF Feedback, PliArrives, OnPli, Retransmit, BroadcastAudio
<1>5. CASE UNCHANGED vars
  BY <1>5 DEF vars
<1> QED
  BY <1>1, <1>2, <1>3, <1>4, <1>5 DEF Next

LEMMA PeerInvariant == Spec => []PeerInv
<1>1. Init => PeerInv
  BY DEF Init, PeerInv, StreamsWhileServed, PacerMatches
<1> QED
  BY <1>1, PeerInvStep, PTL DEF Spec

\* The stream's share in the pacer is its bitrate while a peer streams and zero
\* otherwise, in every reachable state.
THEOREM PacerAlwaysMatches == Spec => []PacerMatches
<1>1. PeerInv => PacerMatches
  BY DEF PeerInv
<1> QED
  BY <1>1, PeerInvariant, PTL

-----------------------------------------------------------------------------
(* Recovery: a stream that waits for a keyframe has one coming. *)

LEMMA RecoveryStep ==
  StreamsWhileServed /\ RecoveryArmed /\ [Next]_vars => RecoveryArmed'
<1> SUFFICES ASSUME StreamsWhileServed, RecoveryArmed, [Next]_vars,
                    peer_streaming', awaiting_keyframe', ~leaving'
             PROVE  KeyframeComing'
  BY DEF RecoveryArmed
<1> USE DEF RecoveryArmed, KeyframeComing, StreamsWhileServed, RequestKeyframe, peerVars,
            queueVars, encoderVars, capVars, sndVars
<1>1. CASE Signaling
  <2>1. CASE OnConnect \/ OnBye \/ OnDisconnect
    BY <2>1 DEF OnConnect, OnBye, OnDisconnect, ForgetPeer
  <2>2. CASE OnConnectReset \/ OnByeReset \/ OnDisconnectReset
    BY <2>2 DEF OnConnectReset, OnByeReset, OnDisconnectReset
  <2>3. CASE OnReady \/ OnReadyRequest
    BY <2>3 DEF OnReady, OnReadyRequest
  <2> QED
    BY <1>1, <2>1, <2>2, <2>3 DEF Signaling
<1>2. CASE Capture
  <2>1. CASE CaptureTick
    BY <2>1 DEF CaptureTick
  <2>2. CASE Encode
    BY <2>2 DEF Encode, UnitEncoded
  <2>3. CASE EncodeFails \/ CaptureEnds
    BY <2>3 DEF EncodeFails, CaptureEnds
  <2>8. CASE Flush
    BY <2>8 DEF Flush, UnitEncoded
  <2>4. CASE SetPacingBitrate
    BY <2>4 DEF SetPacingBitrate
  <2>5. CASE BroadcastSkips
    BY <2>5 DEF BroadcastSkips, SinkReturns, Wanted
  <2>6. CASE BroadcastVideo
    BY <2>6 DEF BroadcastVideo
  <2>7. CASE CaptureRequest
    BY <2>7 DEF CaptureRequest
  <2> QED
    BY <1>2, <2>1, <2>2, <2>3, <2>4, <2>5, <2>6, <2>7, <2>8 DEF Capture
<1>3. CASE Sender
  <2>1. CASE SendFails
    BY <2>1 DEF SendFails
  <2>2. CASE SenderRequest
    BY <2>2 DEF SenderRequest
  <2>3. CASE ~SendFails /\ ~SenderRequest
    BY <1>3, <2>3 DEF Sender, SenderWake, TakeRepair, SendRepair,
       DiscardRepair, RepairsDone, PopFrame, PopNothing, SendCancelled,
       SendPacket
  <2> QED
    BY <2>1, <2>2, <2>3
<1>4. CASE Feedback \/ BroadcastAudio
  BY <1>4 DEF Feedback, PliArrives, OnPli, Retransmit, BroadcastAudio
<1>5. CASE UNCHANGED vars
  BY <1>5 DEF vars
<1> QED
  BY <1>1, <1>2, <1>3, <1>4, <1>5 DEF Next

\* Whatever the interleaving of READY, encoder, sender failures and disconnects,
\* as long as the capture thread is in its loop a streaming server that waits for a
\* keyframe has one requested or in hand.
THEOREM RecoveryAlwaysArmed == Spec => []RecoveryArmed
<1>1. Init => RecoveryArmed
  BY DEF Init, RecoveryArmed
<1>2. PeerInv => StreamsWhileServed
  BY DEF PeerInv
<1> QED
  BY <1>1, <1>2, RecoveryStep, PeerInvariant, PTL DEF Spec

-----------------------------------------------------------------------------
(***************************************************************************)
(* What is put on the wire: a connection is only sent its own access       *)
(* units, every unit follows a complete predecessor or is a keyframe, and  *)
(* a retransmission only repeats.  The three follow from one inductive     *)
(* invariant, ChainInv, which says where the latest unit of an unbroken    *)
(* stream is to be found.                                                  *)
(***************************************************************************)

\* No packet queued for one connection is sent to the next one.
OwnConnection ==
  \A i \in 1 .. Len(wire) : wire[i].session = session

\* Each unit on the wire is a keyframe, or follows the unit encoded just before
\* it, and that one was sent to its last packet.
WireChain ==
  \A i \in 1 .. Len(wire) :
    \/ wire[i].key
    \/ /\ i > 1
       /\ wire[i].id = wire[i - 1].id + 1
       /\ wire[i - 1].sent = wire[i - 1].size

\* The unit last put on the wire, completely sent, is unit id.
WireEndsWith(id) ==
  /\ wire # <<>>
  /\ wire[Len(wire)].id = id
  /\ wire[Len(wire)].sent = wire[Len(wire)].size

\* The sender thread holds a frame of the current generation.
Holding == cur # NoFrame
Live    == Holding /\ cur.generation = send_generation

\* The number of the next unit broadcast_video() will be given.
NextId == IF cap \in {"sink", "broadcast"} THEN encoded ELSE encoded + 1

\* The unbroken stream ends with unit id: at the end of the queue, in the
\* sender's hands, or on the wire.
StreamEndsWith(id) ==
  IF send_q # <<>> THEN send_q[Len(send_q)].id = id
  ELSE IF Holding THEN Live /\ cur.id = id
  ELSE WireEndsWith(id)

\* The threads' program counters agree with what they hold.
Threads ==
  /\ StreamsWhileServed
  /\ sig = "ready_request" => peer_streaming
  /\ snd = "send" => Holding
  /\ snd \in {"wait", "pop", "request"} => ~Holding
  /\ cap \in {"sink", "broadcast"} => au.id = encoded /\ au.size > 0 /\ encoded > 0

\* Queued frames belong to the connection and the generation; a frame in hand
\* does if it is of the current generation.
Owned ==
  /\ \A i \in 1 .. Len(send_q) :
       /\ send_q[i].generation = send_generation
       /\ send_q[i].session = session
       /\ send_q[i].size > 0
  /\ Holding => /\ cur.generation <= send_generation
                /\ Live => cur.session = session
                /\ next \in 1 .. cur.size
  /\ OwnConnection

\* A disconnect stopped the stream and its reset has yet to empty the queue.
Closing == sig \in {"bye_reset", "disconnect_reset"}

\* Outside streaming and once reset, nothing of the last connection is left but
\* a cancelled frame, and the next unit queued must be a keyframe.
Clean ==
  ~peer_streaming /\ ~Closing => /\ send_q = <<>>
                                /\ ~Live
                                /\ awaiting_keyframe

\* Where the frame in hand stands on the wire.
HandOnWire ==
  Live /\ ~Closing =>
          IF next = 1
          THEN cur.key \/ WireEndsWith(cur.id - 1)
          ELSE /\ wire # <<>>
               /\ wire[Len(wire)].id = cur.id
               /\ wire[Len(wire)].size = cur.size
               /\ wire[Len(wire)].sent = next - 1

\* Each queued frame follows the one before it, and the first one what the
\* sender is doing.
QueueChain ==
  /\ \A i \in 2 .. Len(send_q) :
       send_q[i].key \/ send_q[i].id = send_q[i - 1].id + 1
  /\ send_q # <<>> /\ ~Closing =>
       \/ send_q[1].key
       \/ Live /\ send_q[1].id = cur.id + 1
       \/ ~Holding /\ WireEndsWith(send_q[1].id - 1)

\* While no keyframe is awaited, the stream ends just before the next unit.
TailFresh ==
  peer_streaming /\ ~awaiting_keyframe => StreamEndsWith(NextId - 1)

ChainInv ==
  /\ Threads
  /\ Owned
  /\ Clean
  /\ HandOnWire
  /\ QueueChain
  /\ TailFresh
  /\ WireChain

\* What a NACK can still obtain was sent to this peer, and queued repairs name
\* such packets only.
RepairInv ==
  /\ \A p \in video_retx : Delivered(p)
  /\ \A p \in audio_retx : p.session = session
  /\ sig = "accept" => video_retx = {} /\ audio_retx = {} /\ repair_q = <<>>
  /\ \A i \in 1 .. Len(repair_q) :
       /\ repair_q[i].generation = send_generation
       /\ repair_q[i].packet \in video_retx \cup audio_retx
  /\ snd = "repair" =>
       /\ repair.generation <= send_generation
       /\ repair.generation = send_generation =>
            /\ repair.packet \in video_retx \cup audio_retx
            /\ sig # "accept"

-----------------------------------------------------------------------------
(* ChainInv is preserved by every step. *)

\* The variables ChainInv speaks of, apart from the threads' counters.
chainVars == <<peer_streaming, send_q, send_generation, awaiting_keyframe,
               encoded, au, cur, next, session, wire>>

\* The queue that a pop leaves.
LEMMA PoppedQueue ==
  ASSUME NEW q \in Seq(Frame), q # <<>>, NEW rest, rest = Tail(q)
  PROVE  /\ Len(q) \in Nat /\ Len(q) >= 1
         /\ Len(rest) = Len(q) - 1
         /\ \A i \in 1 .. Len(rest) : rest[i] = q[i + 1]
         /\ rest = <<>> <=> Len(q) = 1
<1>1. Len(q) \in Nat /\ Len(q) # 0
  OBVIOUS
<1>2. rest \in Seq(Frame)
  OBVIOUS
<1>3. /\ Len(rest) = Len(q) - 1
      /\ \A i \in 1 .. Len(q) - 1 : rest[i] = q[i + 1]
  OBVIOUS
<1>4. \A r \in Seq(Frame) : r = <<>> <=> Len(r) = 0
  OBVIOUS
<1>5. rest = <<>> <=> Len(rest) = 0
  BY <1>2, <1>4
<1> QED
  BY <1>1, <1>3, <1>5

\* A step that only moves a program counter between places ChainInv does not
\* tell apart.
LEMMA CountersOnly ==
  ASSUME ChainInv, UNCHANGED <<chainVars, sig>>,
         cap' = cap \/ (NextId' = NextId /\ cap' \notin {"sink", "broadcast"}),
         snd' = "send" => Holding,
         snd' \in {"wait", "pop", "request"} => ~Holding
  PROVE  ChainInv'
<1> USE DEF chainVars, ChainInv
<1>1. Holding' = Holding /\ Live' = Live /\ Closing' = Closing
  BY DEF Holding, Live, Closing
<1>2. Threads'
  BY <1>1 DEF Threads, StreamsWhileServed
<1>3. Owned'
  BY <1>1 DEF Owned, OwnConnection
<1>4. Clean'
  BY <1>1 DEF Clean
<1>5. NextId' = NextId
  BY DEF NextId
<1>6. \A i : WireEndsWith(i)' = WireEndsWith(i)
  BY DEF WireEndsWith
<1>7. HandOnWire'
  BY <1>1 DEF HandOnWire, WireEndsWith
<1>8. QueueChain'
  BY <1>1 DEF QueueChain, WireEndsWith
<1>9. TailFresh'
  BY <1>1, <1>5 DEF TailFresh, StreamEndsWith, WireEndsWith
<1> QED
  BY <1>2, <1>3, <1>4, <1>7, <1>8, <1>9 DEF WireChain

\* After a drop nothing in hand is current any more, the queue is empty and no
\* unbroken stream is claimed.
LEMMA DropChain ==
  ASSUME TypeOK, ChainInv, DropVideo, Threads', Holding' => UNCHANGED <<cur, next>>,
         UNCHANGED <<session, wire>>
  PROVE  ChainInv'
<1> USE DEF ChainInv, DropVideo
<1>1. send_q' = <<>> /\ awaiting_keyframe' = TRUE
  OBVIOUS
<1>2. ~Live'
  BY DEF Live, Holding, Owned, TypeOK, Frame
<1>3. Owned'
  <2>1. Holding' => /\ Holding
                    /\ cur'.generation <= send_generation'
                    /\ next' \in 1 .. cur'.size
    BY DEF Holding, Owned, TypeOK, Frame
  <2> QED
    BY <1>1, <1>2, <2>1 DEF Owned, OwnConnection
<1>4. Clean' /\ HandOnWire' /\ QueueChain' /\ TailFresh'
  BY <1>1, <1>2 DEF Clean, HandOnWire, QueueChain, TailFresh
<1> QED
  BY <1>3, <1>4 DEF WireChain

LEMMA SignalingChain == TypeOK /\ ChainInv /\ Signaling => ChainInv'
<1> SUFFICES ASSUME TypeOK, ChainInv, Signaling PROVE ChainInv'
  OBVIOUS
<1> USE DEF peerVars, queueVars, encoderVars, capVars, sndVars, histVars
<1>1. CASE OnConnect
  <2> USE <1>1 DEF OnConnect, ChainInv
  <2>1. /\ send_q' = <<>> /\ ~Live' /\ awaiting_keyframe'
        /\ ~peer_streaming' /\ wire' = <<>>
    BY DEF Clean, Closing, Threads, StreamsWhileServed, Live, Holding
  <2>2. Threads'
    BY DEF Threads, StreamsWhileServed, Holding
  <2>3. Owned'
    BY <2>1 DEF Owned, OwnConnection, Live, Holding
  <2>4. Clean' /\ HandOnWire' /\ QueueChain' /\ TailFresh' /\ WireChain'
    BY <2>1 DEF Clean, HandOnWire, QueueChain, TailFresh, WireChain
  <2> QED
    BY <2>2, <2>3, <2>4
<1>2. CASE OnConnectReset \/ OnByeReset \/ OnDisconnectReset
  <2>1. Threads'
    BY <1>2 DEF ChainInv, Threads, StreamsWhileServed, Holding,
                OnConnectReset, OnByeReset, OnDisconnectReset
  <2>2. DropVideo /\ UNCHANGED <<cur, next, session, wire>>
    BY <1>2 DEF OnConnectReset, OnByeReset, OnDisconnectReset, ResetVideoQueue
  <2> QED
    BY <2>1, <2>2, DropChain
<1>3. CASE OnReady
  <2> USE <1>3 DEF OnReady, ChainInv
  <2>1. /\ Holding' = Holding /\ Live' = Live /\ Closing' = Closing
        /\ NextId' = NextId
    BY DEF Holding, Live, Closing, NextId
  <2>2. Threads' /\ Owned' /\ Clean'
    BY <2>1 DEF Threads, StreamsWhileServed, Owned, OwnConnection, Clean
  <2>3. HandOnWire' /\ QueueChain'
    BY <2>1 DEF HandOnWire, QueueChain, WireEndsWith, Closing
  <2>4. TailFresh'
    BY <2>1 DEF TailFresh, StreamEndsWith, WireEndsWith, Clean, Closing
  <2> QED
    BY <2>2, <2>3, <2>4 DEF WireChain
<1>4. CASE OnReadyRequest
  <2> USE <1>4 DEF OnReadyRequest, RequestKeyframe, ChainInv
  <2>1. /\ Holding' = Holding /\ Live' = Live /\ Closing' = Closing
        /\ NextId' = NextId
    BY DEF Holding, Live, Closing, NextId
  <2>2. Threads' /\ Owned' /\ Clean'
    BY <2>1 DEF Threads, StreamsWhileServed, Owned, OwnConnection, Clean
  <2>3. HandOnWire' /\ QueueChain'
    BY <2>1 DEF HandOnWire, QueueChain, WireEndsWith, Closing
  <2>4. TailFresh'
    BY <2>1 DEF TailFresh, StreamEndsWith, WireEndsWith
  <2> QED
    BY <2>2, <2>3, <2>4 DEF WireChain
<1>5. CASE OnBye \/ OnDisconnect
  <2> USE <1>5 DEF OnBye, OnDisconnect, ForgetPeer, ChainInv
  <2>1. Holding' = Holding /\ Live' = Live /\ Closing' /\ ~peer_streaming'
    BY DEF Holding, Live, Closing
  <2>2. Threads' /\ Owned' /\ Clean'
    BY <2>1 DEF Threads, StreamsWhileServed, Owned, OwnConnection, Clean
  <2>3. HandOnWire' /\ QueueChain' /\ TailFresh'
    BY <2>1 DEF HandOnWire, QueueChain, TailFresh
  <2> QED
    BY <2>2, <2>3 DEF WireChain
<1> QED
  BY <1>1, <1>2, <1>3, <1>4, <1>5 DEF Signaling

LEMMA CaptureChain == TypeOK /\ ChainInv /\ Capture => ChainInv'
<1> SUFFICES ASSUME TypeOK, ChainInv, Capture PROVE ChainInv'
  OBVIOUS
<1> USE DEF peerVars, queueVars, encoderVars, capVars, sndVars, histVars
<1>1. CASE CaptureTick \/ EncodeFails \/ CaptureEnds \/ CaptureRequest
  <2>1. /\ UNCHANGED <<chainVars, sig, snd>>
        /\ cap' \notin {"sink", "broadcast"} /\ NextId' = NextId
    BY <1>1 DEF CaptureTick, EncodeFails, CaptureEnds, CaptureRequest,
                RequestKeyframe, SinkReturns, chainVars, NextId
  <2> QED
    BY <2>1, CountersOnly DEF ChainInv, Threads
<1>2. CASE Encode \/ Flush
  <2> USE <1>2 DEF Encode, Flush, UnitEncoded, ChainInv
  <2>1. /\ Holding' = Holding /\ Live' = Live /\ Closing' = Closing
        /\ NextId' = NextId
    BY DEF Holding, Live, Closing, NextId
  <2>2. au'.id = encoded' /\ au'.size > 0 /\ encoded' > 0
    <3>1. encoded \in Nat /\ \A n \in Sizes : n > 0
      BY RtpServerAssumption DEF TypeOK
    <3> QED
      BY <3>1
  <2>3. Threads' /\ Owned' /\ Clean'
    BY <2>1, <2>2 DEF Threads, StreamsWhileServed, Owned, OwnConnection, Clean
  <2>4. HandOnWire' /\ QueueChain'
    BY <2>1 DEF HandOnWire, QueueChain, WireEndsWith
  <2>5. TailFresh'
    BY <2>1 DEF TailFresh, StreamEndsWith, WireEndsWith
  <2> QED
    BY <2>3, <2>4, <2>5 DEF WireChain
<1>3. CASE SetPacingBitrate
  <2> USE <1>3 DEF SetPacingBitrate, ChainInv
  <2>1. /\ Holding' = Holding /\ Live' = Live /\ Closing' = Closing
        /\ NextId' = NextId
    BY DEF Holding, Live, Closing, NextId
  <2>2. Threads' /\ Owned' /\ Clean'
    BY <2>1 DEF Threads, StreamsWhileServed, Owned, OwnConnection, Clean
  <2>3. HandOnWire' /\ QueueChain'
    BY <2>1 DEF HandOnWire, QueueChain, WireEndsWith
  <2>4. TailFresh'
    BY <2>1 DEF TailFresh, StreamEndsWith, WireEndsWith
  <2> QED
    BY <2>2, <2>3, <2>4 DEF WireChain
<1>4. CASE BroadcastSkips
  <2> USE <1>4 DEF BroadcastSkips, SinkReturns, ChainInv
  <2>1. /\ Holding' = Holding /\ Live' = Live /\ Closing' = Closing
        /\ ~peer_streaming' \/ awaiting_keyframe'
    BY DEF Holding, Live, Closing, Wanted
  <2>2. Threads' /\ Owned' /\ Clean'
    BY <2>1 DEF Threads, StreamsWhileServed, Owned, OwnConnection, Clean
  <2>3. HandOnWire' /\ QueueChain' /\ TailFresh'
    BY <2>1 DEF HandOnWire, QueueChain, WireEndsWith, TailFresh
  <2> QED
    BY <2>2, <2>3 DEF WireChain
<1>5. CASE BroadcastVideo
  <2> DEFINE frame(g) == [id |-> au.id, key |-> au.key, size |-> au.size,
                          generation |-> g, session |-> session]
  <2>1. /\ Wanted(au) /\ peer_streaming /\ au.id = encoded /\ au.size > 0
        /\ UNCHANGED <<peer_streaming, sig, snd, cur, next, session, wire,
                       encoded>>
        /\ cap' \in {"tick", "flush", "request"} /\ NextId = encoded
        /\ ~Closing
    BY <1>5 DEF BroadcastVideo, Wanted, ChainInv, Threads, StreamsWhileServed,
                NextId, Closing, SinkReturns
  <2>2. \/ /\ UNCHANGED <<send_q, send_generation>>
           /\ awaiting_keyframe'
        \/ /\ send_q' = <<>>
           /\ send_generation' = send_generation + 1
           /\ awaiting_keyframe'
        \/ /\ send_q' = Append(send_q, frame(send_generation))
           /\ UNCHANGED send_generation
           /\ awaiting_keyframe => au.key
           /\ ~awaiting_keyframe'
        \/ /\ send_q' = Append(<<>>, frame(send_generation + 1))
           /\ send_generation' = send_generation + 1
           /\ au.key
           /\ ~awaiting_keyframe'
    BY <1>5 DEF BroadcastVideo
  <2>3. Holding' = Holding /\ Closing' = Closing
    BY <2>1 DEF Holding, Closing
  <2>4. Threads'
    BY <2>1, <2>3 DEF ChainInv, Threads, StreamsWhileServed
  <2>5. CASE /\ UNCHANGED <<send_q, send_generation>>
             /\ awaiting_keyframe'
    BY <2>1, <2>3, <2>4, <2>5
    DEF ChainInv, Owned, OwnConnection, Clean, HandOnWire, QueueChain,
        TailFresh, WireChain, WireEndsWith, Live
  <2>6. CASE /\ send_q' = <<>>
             /\ send_generation' = send_generation + 1
             /\ awaiting_keyframe'
    <3>1. ~Live'
      BY <2>1, <2>6 DEF ChainInv, Owned, Live, Holding, TypeOK, Frame
    <3>2. Owned'
      BY <2>1, <2>3, <2>6, <3>1
      DEF ChainInv, Owned, OwnConnection, Holding, TypeOK, Frame
    <3> QED
      BY <2>1, <2>4, <2>6, <3>1, <3>2
      DEF ChainInv, Clean, HandOnWire, QueueChain, TailFresh, WireChain
  <2>7. CASE /\ send_q' = Append(send_q, frame(send_generation))
             /\ UNCHANGED send_generation
             /\ awaiting_keyframe => au.key
             /\ ~awaiting_keyframe'
    <3> USE DEF ChainInv
    <3>1. Live' = Live
      BY <2>1, <2>7 DEF Live, Holding
    <3>2. /\ Len(send_q') = Len(send_q) + 1
          /\ \A i \in 1 .. Len(send_q) : send_q'[i] = send_q[i]
          /\ send_q'[Len(send_q) + 1] = frame(send_generation)
          /\ send_q' # <<>> /\ Len(send_q) \in Nat
      <4>1. frame(send_generation) \in Frame
        BY DEF TypeOK, Unit, Frame
      <4>2. send_q \in Seq(Frame)
        BY DEF TypeOK
      <4> HIDE DEF frame
      <4> QED
        BY <2>7, <4>1, <4>2
    <3>3. Owned' /\ Clean'
      BY <2>1, <2>3, <2>7, <3>1, <3>2 DEF Owned, OwnConnection, Clean
    <3>4. HandOnWire'
      BY <2>1, <2>3, <3>1 DEF HandOnWire, WireEndsWith
    <3>5. au.key \/ StreamEndsWith(au.id - 1)
      BY <2>1, <2>7 DEF TailFresh
    <3>6. QueueChain'
      <4>1. CASE send_q = <<>>
        BY <2>1, <2>3, <3>1, <3>2, <3>5, <4>1
        DEF QueueChain, StreamEndsWith, WireEndsWith, TypeOK, Frame, Unit, Live
      <4>2. CASE send_q # <<>>
        <5>1. Len(send_q) >= 1
          BY <4>2 DEF TypeOK
        <5>2. send_q[Len(send_q)].id \in Nat
          <6>1. send_q \in Seq(Frame) /\ Len(send_q) \in 1 .. Len(send_q)
            BY <5>1 DEF TypeOK
          <6>2. send_q[Len(send_q)] \in Frame
            BY <6>1
          <6> QED
            BY <6>2 DEF Frame
        <5>3. au.key \/ au.id = send_q[Len(send_q)].id + 1
          BY <3>5, <4>2, <5>2 DEF StreamEndsWith, TypeOK, Unit
        <5>4. \A i \in 2 .. Len(send_q') :
                send_q'[i].key \/ send_q'[i].id = send_q'[i - 1].id + 1
          <6> SUFFICES ASSUME NEW i \in 2 .. Len(send_q')
                       PROVE send_q'[i].key \/ send_q'[i].id = send_q'[i - 1].id + 1
            OBVIOUS
          <6>1. CASE i \in 2 .. Len(send_q)
            BY <3>2, <6>1 DEF QueueChain
          <6>2. CASE i = Len(send_q) + 1
            BY <3>2, <5>1, <5>3, <6>2
          <6> QED
            BY <3>2, <6>1, <6>2
        <5>5. send_q'[1] = send_q[1]
          BY <3>2, <5>1
        <5> QED
          BY <2>1, <2>3, <3>1, <4>2, <5>4, <5>5 DEF QueueChain, WireEndsWith
      <4> QED
        BY <4>1, <4>2
    <3>7. TailFresh'
      BY <2>1, <3>2 DEF TailFresh, StreamEndsWith, NextId, TypeOK
    <3> QED
      BY <2>1, <2>4, <3>3, <3>4, <3>6, <3>7 DEF WireChain
  <2>8. CASE /\ send_q' = Append(<<>>, frame(send_generation + 1))
             /\ send_generation' = send_generation + 1
             /\ au.key
             /\ ~awaiting_keyframe'
    <3> USE DEF ChainInv
    <3>1. ~Live'
      BY <2>1, <2>8 DEF Owned, Live, Holding, TypeOK, Frame
    <3>2. /\ Len(send_q') = 1 /\ send_q' # <<>>
          /\ send_q'[1] = frame(send_generation + 1)
      BY <2>8
    <3>3. Owned'
      BY <2>1, <2>3, <2>8, <3>1, <3>2 DEF Owned, OwnConnection, Holding, TypeOK, Frame
    <3>4. Clean' /\ HandOnWire' /\ QueueChain'
      BY <2>1, <2>8, <3>1, <3>2 DEF Clean, HandOnWire, QueueChain
    <3>5. TailFresh'
      BY <2>1, <3>2 DEF TailFresh, StreamEndsWith, NextId, TypeOK
    <3> QED
      BY <2>1, <2>4, <3>3, <3>4, <3>5 DEF WireChain
  <2> QED
    BY <2>2, <2>5, <2>6, <2>7, <2>8
<1> QED
  BY <1>1, <1>2, <1>3, <1>4, <1>5 DEF Capture

\* What a sent packet does to the log: a new entry for the first packet of a
\* frame, one more packet in the last entry for the others.
LEMMA SentOnWire ==
  ASSUME TypeOK, ChainInv, SendPacket
  PROVE  /\ Len(wire') \in Nat /\ Len(wire') >= 1 /\ wire' # <<>>
         /\ wire'[Len(wire')].id = cur.id
         /\ wire'[Len(wire')].key = (IF next = 1 THEN cur.key
                                             ELSE wire[Len(wire)].key)
         /\ wire'[Len(wire')].size = cur.size
         /\ wire'[Len(wire')].sent = next
         /\ wire'[Len(wire')].session = session
         /\ Len(wire') = (IF next = 1 THEN Len(wire) + 1 ELSE Len(wire))
         /\ \A i \in 1 .. Len(wire') - 1 : wire'[i] = wire[i]
         /\ peer_streaming /\ Holding /\ Live /\ ~Closing
         /\ cur \in Frame /\ next \in 1 .. cur.size /\ cur.session = session
         /\ wire \in Seq(Sent) /\ Len(wire) \in Nat
<1> USE DEF ChainInv
<1>0. /\ peer_streaming /\ Holding /\ Live /\ ~Closing
      /\ cur \in Frame /\ next \in 1 .. cur.size /\ cur.session = session
      /\ wire \in Seq(Sent) /\ Len(wire) \in Nat
  BY DEF SendPacket, Current, Threads, StreamsWhileServed, Live, Holding,
         Closing, Owned, TypeOK
<1>1. CASE next = 1
  <2> DEFINE entry == [id |-> cur.id, key |-> cur.key, size |-> cur.size,
                       session |-> cur.session, sent |-> 1]
  <2>1. wire' = Append(wire, entry)
    BY <1>1 DEF SendPacket, Logged
  <2>2. entry \in Sent
    BY <1>0 DEF Frame, Sent
  <2>3. /\ Len(wire') = Len(wire) + 1 /\ wire' # <<>>
        /\ wire'[Len(wire) + 1] = entry
        /\ \A i \in 1 .. Len(wire) : wire'[i] = wire[i]
    <3> HIDE DEF entry
    <3> QED
      BY <1>0, <2>1, <2>2
  <2> QED
    BY <1>0, <1>1, <2>3
<1>2. CASE next # 1
  <2>1. wire' = [wire EXCEPT ![Len(wire)].sent = next]
    BY <1>2 DEF SendPacket, Logged
  <2>2. /\ wire # <<>> /\ Len(wire) >= 1
        /\ wire[Len(wire)].id = cur.id
        /\ wire[Len(wire)].size = cur.size
        /\ wire[Len(wire)].session = session
    BY <1>0, <1>2 DEF HandOnWire, Owned, OwnConnection
  <2>3. wire[Len(wire)] \in Sent
    BY <1>0, <2>2
  <2>4. /\ wire'[Len(wire)] = [wire[Len(wire)] EXCEPT !.sent = next]
        /\ Len(wire') = Len(wire) /\ wire' # <<>>
        /\ \A i \in 1 .. Len(wire) - 1 : wire'[i] = wire[i]
    BY <1>0, <2>1, <2>2
  <2> QED
    BY <1>0, <1>2, <2>2, <2>3, <2>4 DEF Sent
<1> QED
  BY <1>0, <1>1, <1>2

LEMMA SenderChain == TypeOK /\ ChainInv /\ Sender => ChainInv'
<1> SUFFICES ASSUME TypeOK, ChainInv, Sender PROVE ChainInv'
  OBVIOUS
<1> USE DEF peerVars, queueVars, encoderVars, capVars, sndVars, histVars
<1>1. CASE \/ SenderWake \/ TakeRepair \/ SendRepair \/ DiscardRepair
           \/ RepairsDone \/ PopNothing \/ SenderRequest
  <2>1. UNCHANGED <<chainVars, sig, cap>>
    BY <1>1 DEF SenderWake, TakeRepair, SendRepair, DiscardRepair, RepairsDone,
                PopNothing, SenderRequest, RequestKeyframe, chainVars
  <2>2. /\ snd' = "send" => Holding
        /\ snd' \in {"wait", "pop", "request"} => ~Holding
    BY <1>1 DEF SenderWake, TakeRepair, SendRepair, DiscardRepair, RepairsDone,
                PopNothing, SenderRequest, ChainInv, Threads, Holding
  <2> QED
    BY <2>1, <2>2, CountersOnly
<1>2. CASE PopFrame
  <2> USE DEF ChainInv
  <2>1. /\ snd = "pop" /\ send_q # <<>> /\ send_q \in Seq(Frame)
        /\ cur' = send_q[1] /\ next' = 1 /\ snd' = "repairs"
        /\ send_q' = Tail(send_q)
        /\ UNCHANGED <<peer_streaming, send_generation, awaiting_keyframe,
                       encoded, au, cap, sig, session, wire>>
    BY <1>2 DEF PopFrame, TypeOK
  <2>2. /\ Len(send_q) \in Nat /\ Len(send_q) >= 1
        /\ Len(send_q') = Len(send_q) - 1
        /\ \A i \in 1 .. Len(send_q') : send_q'[i] = send_q[i + 1]
        /\ send_q' = <<>> <=> Len(send_q) = 1
    <3> HIDE DEF ChainInv
    <3> QED
      BY <2>1, PoppedQueue
  <2>3. /\ send_q[1].generation = send_generation
        /\ send_q[1].session = session
        /\ send_q[1].size > 0 /\ send_q[1] \in Frame
    BY <2>1, <2>2 DEF Owned
  <2>4. /\ Holding' /\ Live' /\ ~Holding /\ ~Live
        /\ Closing' = Closing /\ NextId' = NextId
    BY <2>1, <2>3 DEF Holding, Live, Threads, NoFrame, Closing, NextId
  <2>5. Threads'
    BY <2>1, <2>4 DEF Threads, StreamsWhileServed
  <2>6. Owned'
    <3>1. \A i \in 1 .. Len(send_q') :
            /\ send_q'[i].generation = send_generation'
            /\ send_q'[i].session = session'
            /\ send_q'[i].size > 0
      BY <2>1, <2>2 DEF Owned
    <3>2. /\ cur'.generation <= send_generation'
          /\ cur'.session = session'
          /\ next' \in 1 .. cur'.size
      <4>1. send_q[1].size \in Nat /\ send_generation \in Nat
        BY <2>3 DEF Frame, TypeOK
      <4> QED
        BY <2>1, <2>3, <4>1
    <3>3. OwnConnection'
      BY <2>1 DEF Owned, OwnConnection
    <3> QED
      BY <3>1, <3>2, <3>3 DEF Owned
  <2>7. Clean'
    BY <2>1, <2>4 DEF Clean
  <2>8. HandOnWire'
    BY <2>1, <2>4 DEF HandOnWire, QueueChain, WireEndsWith
  <2>9. QueueChain'
    <3>1. \A i \in 2 .. Len(send_q') :
            send_q'[i].key \/ send_q'[i].id = send_q'[i - 1].id + 1
      BY <2>2 DEF QueueChain
    <3>2. send_q' # <<>> => \/ send_q'[1].key
                            \/ send_q'[1].id = cur'.id + 1
      BY <2>1, <2>2 DEF QueueChain
    <3> QED
      BY <2>4, <3>1, <3>2 DEF QueueChain
  <2>10. TailFresh'
    <3>1. ASSUME peer_streaming, ~awaiting_keyframe
          PROVE  StreamEndsWith(NextId - 1)'
      <4>1. send_q[Len(send_q)].id = NextId - 1
        BY <2>1, <3>1 DEF TailFresh, StreamEndsWith
      <4>2. CASE Len(send_q) = 1
        BY <2>1, <2>2, <2>4, <4>1, <4>2 DEF StreamEndsWith
      <4>3. CASE Len(send_q) # 1
        <5>1. send_q' # <<>> /\ send_q'[Len(send_q')] = send_q[Len(send_q)]
          BY <2>2, <4>3
        <5> QED
          BY <2>4, <4>1, <5>1 DEF StreamEndsWith
      <4> QED
        BY <4>2, <4>3
    <3> QED
      BY <2>1, <3>1 DEF TailFresh
  <2> QED
    BY <2>1, <2>5, <2>6, <2>7, <2>8, <2>9, <2>10 DEF WireChain
<1>3. CASE SendCancelled
  <2> USE <1>3 DEF SendCancelled, ChainInv
  <2>1. /\ ~Holding' /\ ~Live' /\ Holding
        /\ Closing' = Closing /\ NextId' = NextId
        /\ ~peer_streaming \/ ~Live
    BY DEF Holding, Live, Threads, Current, Closing, NextId
  <2>2. Threads' /\ Owned' /\ Clean'
    BY <2>1 DEF Threads, StreamsWhileServed, Owned, OwnConnection, Clean
  <2>3. HandOnWire' /\ QueueChain'
    BY <2>1 DEF HandOnWire, QueueChain, Clean
  <2>4. TailFresh'
    BY <2>1 DEF TailFresh, StreamEndsWith
  <2> QED
    BY <2>2, <2>3, <2>4 DEF WireChain
<1>4. CASE SendPacket
  <2> USE DEF ChainInv
  <2>1. /\ peer_streaming /\ Holding /\ Live /\ ~Closing
        /\ cur \in Frame /\ next \in 1 .. cur.size /\ cur.session = session
        /\ wire \in Seq(Sent) /\ Len(wire) \in Nat
    BY <1>4, SentOnWire
  <2>2. UNCHANGED <<peer_streaming, send_q, send_generation, awaiting_keyframe,
                    encoded, au, cap, sig, session>>
    BY <1>4 DEF SendPacket
  <2>3. /\ Len(wire') \in Nat /\ Len(wire') >= 1 /\ wire' # <<>>
        /\ wire'[Len(wire')].id = cur.id
        /\ wire'[Len(wire')].key = (IF next = 1 THEN cur.key
                                    ELSE wire[Len(wire)].key)
        /\ wire'[Len(wire')].size = cur.size
        /\ wire'[Len(wire')].sent = next
        /\ wire'[Len(wire')].session = session
        /\ Len(wire') = (IF next = 1 THEN Len(wire) + 1 ELSE Len(wire))
        /\ \A i \in 1 .. Len(wire') - 1 : wire'[i] = wire[i]
    BY <1>4, SentOnWire
  <2>4. Owned' /\ Threads' /\ Clean' /\ HandOnWire'
    <3>1. OwnConnection'
      BY <2>2, <2>3 DEF Owned, OwnConnection
    <3>2. CASE next = cur.size
      <4>1. snd' = "wait" /\ ~Holding' /\ ~Live' /\ Closing' = Closing
        BY <1>4, <3>2 DEF SendPacket, Holding, Live, Closing
      <4> QED
        BY <2>1, <2>2, <3>1, <4>1
        DEF Owned, Threads, StreamsWhileServed, Clean, HandOnWire
    <3>3. CASE next # cur.size
      <4>1. /\ snd' = "repairs" /\ cur' = cur /\ next' = next + 1
            /\ Holding' = Holding /\ Live' = Live /\ Closing' = Closing
        BY <1>4, <3>3 DEF SendPacket, Holding, Live, Closing
      <4>2. next' \in 1 .. cur'.size /\ next' # 1
        BY <2>1, <3>3, <4>1 DEF Frame
      <4>3. Owned'
        BY <2>1, <2>2, <3>1, <4>1, <4>2 DEF Owned
      <4>4. HandOnWire'
        BY <2>1, <2>3, <4>1, <4>2 DEF HandOnWire
      <4> QED
        BY <2>1, <2>2, <4>1, <4>3, <4>4 DEF Threads, StreamsWhileServed, Clean
    <3> QED
      BY <3>2, <3>3
  <2>5. WireChain'
    <3>1. ASSUME NEW i \in 1 .. Len(wire')
          PROVE  \/ wire'[i].key
                 \/ /\ i > 1
                    /\ wire'[i].id = wire'[i - 1].id + 1
                    /\ wire'[i - 1].sent = wire'[i - 1].size
      <4>1. CASE i < Len(wire')
        BY <2>1, <2>3, <4>1, SMTT(30) DEF WireChain
      <4>2. CASE i = Len(wire') /\ next # 1
        BY <2>1, <2>3, <4>2 DEF WireChain, HandOnWire
      <4>3. CASE i = Len(wire') /\ next = 1
        <5>1. cur.key \/ WireEndsWith(cur.id - 1)
          BY <2>1, <4>3 DEF HandOnWire
        <5>2. CASE cur.key
          BY <2>3, <4>3, <5>2
        <5>3. CASE WireEndsWith(cur.id - 1)
          <6>1. Len(wire) >= 1 /\ wire'[Len(wire)] = wire[Len(wire)]
            BY <2>1, <2>3, <4>3, <5>3 DEF WireEndsWith
          <6> QED
            BY <2>1, <2>3, <4>3, <5>3, <6>1 DEF WireEndsWith, Frame
        <5> QED
          BY <5>1, <5>2, <5>3
      <4> QED
        BY <2>3, <4>1, <4>2, <4>3
    <3> QED
      BY <3>1 DEF WireChain
  <2>6. QueueChain' /\ TailFresh'
    <3>1. NextId' = NextId /\ Closing' = Closing
      BY <2>2 DEF NextId, Closing
    <3>2. CASE next = cur.size
      <4>1. /\ ~Holding'
            /\ wire' # <<>>
            /\ wire'[Len(wire')].id = cur.id
            /\ wire'[Len(wire')].sent = wire'[Len(wire')].size
        BY <1>4, <2>3, <3>2 DEF SendPacket, Holding
      <4>2. send_q # <<>> => send_q[1].key \/ send_q[1].id = cur.id + 1
        BY <2>1 DEF QueueChain
      <4>3. send_q # <<>> => send_q[1].id \in Nat /\ cur.id \in Nat
        <5>1. send_q # <<>> => send_q[1] \in Frame
          BY DEF TypeOK
        <5> QED
          BY <2>1, <5>1 DEF Frame
      <4>4. QueueChain'
        BY <2>2, <3>1, <4>1, <4>2, <4>3 DEF QueueChain, WireEndsWith
      <4>5. TailFresh'
        BY <2>1, <2>2, <3>1, <4>1 DEF TailFresh, StreamEndsWith, WireEndsWith
      <4> QED
        BY <4>4, <4>5
    <3>3. CASE next # cur.size
      <4>1. cur' = cur /\ Holding' = Holding /\ Live' = Live
        BY <1>4, <2>2, <3>3 DEF SendPacket, Holding, Live
      <4> QED
        BY <2>1, <2>2, <3>1, <4>1 DEF QueueChain, TailFresh, StreamEndsWith
    <3> QED
      BY <3>2, <3>3
  <2> QED
    BY <2>4, <2>5, <2>6
<1>5. CASE SendFails
  <2>1. Threads'
    BY <1>5 DEF SendFails, ChainInv, Threads, StreamsWhileServed, Holding
  <2>2. DropVideo /\ ~Holding' /\ UNCHANGED <<session, wire>>
    BY <1>5 DEF SendFails, Holding
  <2> QED
    BY <2>1, <2>2, DropChain
<1> QED
  BY <1>1, <1>2, <1>3, <1>4, <1>5 DEF Sender

LEMMA ChainInvariant == Spec => []ChainInv
<1>1. Init => ChainInv
  BY DEF Init, ChainInv, Threads, StreamsWhileServed, Owned, OwnConnection,
         Clean, HandOnWire, QueueChain, TailFresh, WireChain, Live, Holding
<1>2. TypeOK /\ ChainInv /\ [Next]_vars => ChainInv'
  <2> SUFFICES ASSUME TypeOK, ChainInv, [Next]_vars PROVE ChainInv'
    OBVIOUS
  <2>1. CASE Feedback \/ BroadcastAudio \/ UNCHANGED vars
    <3>1. UNCHANGED <<chainVars, sig, cap, snd>>
      BY <2>1 DEF Feedback, PliArrives, OnPli, Retransmit, BroadcastAudio,
           RequestKeyframe, vars, peerVars, queueVars, encoderVars, capVars,
           sndVars, histVars, chainVars
    <3> QED
      BY <3>1, CountersOnly DEF ChainInv, Threads
  <2> QED
    BY <2>1, SignalingChain, CaptureChain, SenderChain DEF Next
<1> QED
  BY <1>1, <1>2, TypeCorrect, PTL DEF Spec

\* Every access unit put on the wire of a connection is a keyframe or follows
\* its completely sent predecessor, in every reachable state.
THEOREM WireAlwaysChained == Spec => []WireChain
<1>1. ChainInv => WireChain
  BY DEF ChainInv
<1> QED
  BY <1>1, ChainInvariant, PTL

\* A connection is sent only what was packetized for it, however its
\* predecessor ended.
THEOREM OnlyOwnConnection == Spec => []OwnConnection
<1>1. ChainInv => OwnConnection
  BY DEF ChainInv, Owned
<1> QED
  BY <1>1, ChainInvariant, PTL

-----------------------------------------------------------------------------
(* The promise of PacketStream *)

\* From the wire through the sender's hands and the queue to the next unit, the
\* units are in the order they were encoded.
Ascending ==
  /\ \A i \in 1 .. Len(wire) :
       /\ wire[i].id < NextId
       /\ \A j \in 1 .. Len(send_q) : wire[i].id < send_q[j].id
       /\ Live /\ next = 1 => wire[i].id < cur.id
  /\ Live => /\ cur.id < NextId
             /\ \A j \in 1 .. Len(send_q) : cur.id < send_q[j].id
  /\ \A j \in 1 .. Len(send_q) :
       /\ send_q[j].id < NextId
       /\ \A k \in 1 .. Len(send_q) : j < k => send_q[j].id < send_q[k].id

\* The numbers compared are numbers.
LEMMA UnitNumbers ==
  ASSUME TypeOK
  PROVE  /\ NextId \in Nat /\ cur.id \in Nat
         /\ Len(wire) \in Nat /\ Len(send_q) \in Nat
         /\ \A i \in 1 .. Len(wire) : wire[i].id \in Nat
         /\ \A j \in 1 .. Len(send_q) : send_q[j].id \in Nat
<1>1. encoded \in Nat /\ cur \in Frame /\ wire \in Seq(Sent) /\ send_q \in Seq(Frame)
  BY RtpServerAssumption DEF TypeOK
<1>2. \A i \in 1 .. Len(wire) : wire[i] \in Sent
  BY <1>1
<1>3. \A j \in 1 .. Len(send_q) : send_q[j] \in Frame
  BY <1>1
<1>4. NextId \in Nat
  BY <1>1 DEF NextId
<1>5. \A f \in Frame : f.id \in Nat
  BY DEF Frame
<1>6. \A u \in Sent : u.id \in Nat
  BY DEF Sent
<1>7. Len(wire) \in Nat /\ Len(send_q) \in Nat
  BY <1>1
<1> QED
  BY <1>1, <1>2, <1>3, <1>4, <1>5, <1>6, <1>7

\* A step that queues, takes and sends nothing.
LEMMA AscendingStays ==
  ASSUME TypeOK, Ascending, NextId' \in Nat, NextId <= NextId',
         UNCHANGED <<send_q, send_generation, wire>>,
         UNCHANGED <<cur, next>> \/ cur' = NoFrame
  PROVE  Ascending'
<1>1. Live' => Live /\ UNCHANGED <<cur, next>>
  BY DEF Live, Holding
<1>2. \A n \in Nat : n < NextId => n < NextId'
  BY UnitNumbers
<1> HIDE DEF NextId, Live
<1>3. \A i \in 1 .. Len(wire') :
        /\ wire'[i].id < NextId'
        /\ \A j \in 1 .. Len(send_q') : wire'[i].id < send_q'[j].id
        /\ Live' /\ next' = 1 => wire'[i].id < cur'.id
  BY <1>1, <1>2, UnitNumbers DEF Ascending
<1>4. Live' => /\ cur'.id < NextId'
               /\ \A j \in 1 .. Len(send_q') : cur'.id < send_q'[j].id
  BY <1>1, <1>2, UnitNumbers DEF Ascending
<1>5. \A j \in 1 .. Len(send_q') :
        /\ send_q'[j].id < NextId'
        /\ \A k \in 1 .. Len(send_q') : j < k => send_q'[j].id < send_q'[k].id
  BY <1>2, UnitNumbers DEF Ascending
<1> QED
  BY <1>3, <1>4, <1>5 DEF Ascending

\* A step that drops everything.
LEMMA AscendingDrops ==
  ASSUME TypeOK, Ascending, Owned, NextId' = NextId, DropVideo, UNCHANGED wire,
         cur' = cur \/ cur' = NoFrame
  PROVE  Ascending'
<1>1. send_q' = <<>> /\ Len(send_q') = 0
  BY DEF DropVideo
<1>2. ~Live'
  BY DEF DropVideo, Live, Holding, Owned, TypeOK, Frame
<1> HIDE DEF NextId, Live
<1> QED
  BY <1>1, <1>2, UnitNumbers DEF Ascending

LEMMA AscendingQueued ==
  ASSUME TypeOK, ChainInv, Ascending, BroadcastVideo PROVE Ascending'
<1>1. /\ cap = "broadcast" /\ cap' \in {"request", "tick", "flush"}
      /\ au.id = encoded /\ NextId = encoded /\ NextId' = encoded + 1 /\ encoded \in Nat
      /\ UNCHANGED <<wire, cur, next>>
  BY RtpServerAssumption
     DEF BroadcastVideo, SinkReturns, ChainInv, Threads, NextId, TypeOK, encoderVars,
         sndVars, histVars
<1>2. PICK kept \in {<<>>, send_q}, g \in Nat :
        /\ \/ send_generation' = send_generation /\ kept = send_q
           \/ send_generation' = send_generation + 1 /\ kept = <<>>
        /\ \/ send_q' = kept
           \/ send_q' = Append(kept, [id |-> au.id, key |-> au.key, size |-> au.size,
                                      generation |-> g, session |-> session])
  <2>1. send_generation \in Nat /\ send_generation + 1 \in Nat
    BY DEF TypeOK
  <2>2. PICK expired \in BOOLEAN :
          LET drop == \/ send_q # <<>> /\ expired
                      \/ queued_packets + au.size > kMaxQueuedPackets
              gen  == IF drop THEN send_generation + 1 ELSE send_generation
              refuse == \/ (drop \/ awaiting_keyframe) /\ ~au.key
                        \/ au.size > kMaxQueuedPackets
              frame == [id |-> au.id, key |-> au.key, size |-> au.size,
                        generation |-> gen, session |-> session]
              kept  == IF drop THEN <<>> ELSE send_q
          IN  /\ send_generation' = gen
              /\ send_q' = IF refuse THEN kept ELSE Append(kept, frame)
    BY DEF BroadcastVideo
  <2> QED
    BY <2>1, <2>2
<1> DEFINE frame == [id |-> au.id, key |-> au.key, size |-> au.size,
                     generation |-> g, session |-> session]
<1>3. kept \in Seq(Frame) /\ frame \in Frame /\ frame.id = encoded
  <2>1. send_q \in Seq(Frame) /\ <<>> \in Seq(Frame)
    BY DEF TypeOK
  <2>2. frame \in Frame /\ frame.id = encoded
    BY <1>1 DEF TypeOK, Unit, Frame
  <2> QED
    BY <2>1, <2>2
<1>4. Live' => Live /\ kept = send_q
  BY <1>1, <1>2 DEF Live, Holding, ChainInv, Owned, TypeOK, Frame
<1>5. \A j \in 1 .. Len(kept) :
        /\ j \in 1 .. Len(send_q) /\ kept[j] = send_q[j]
  BY <1>2
<1> HIDE DEF frame
<1>6. /\ Len(kept) \in Nat /\ Len(send_q') \in Nat
      /\ \A j \in 1 .. Len(send_q') :
           \/ j \in 1 .. Len(kept) /\ send_q'[j] = kept[j]
           \/ j = Len(kept) + 1 /\ send_q'[j] = frame
  BY <1>2, <1>3 DEF frame
<1>7. \A j \in 1 .. Len(send_q') :
        \/ j \in 1 .. Len(kept) /\ j \in 1 .. Len(send_q) /\ send_q'[j] = send_q[j]
        \/ j = Len(kept) + 1 /\ send_q'[j].id = encoded
  BY <1>3, <1>5, <1>6
<1>8. \A j \in 1 .. Len(send_q) : send_q[j].id < encoded
  BY <1>1 DEF Ascending
<1> HIDE DEF NextId, Live
<1>9. ASSUME NEW i \in 1 .. Len(wire')
      PROVE  /\ wire'[i].id < NextId'
             /\ \A j \in 1 .. Len(send_q') : wire'[i].id < send_q'[j].id
             /\ Live' /\ next' = 1 => wire'[i].id < cur'.id
  <2>1. i \in 1 .. Len(wire) /\ wire'[i] = wire[i] /\ wire[i].id \in Nat
    BY <1>1, UnitNumbers
  <2>2. wire[i].id < encoded
    BY <1>1, <2>1 DEF Ascending
  <2>3. wire'[i].id < NextId'
    BY <1>1, <2>1, <2>2
  <2>4. \A j \in 1 .. Len(send_q) : wire[i].id < send_q[j].id
    BY <2>1 DEF Ascending
  <2>5. \A j \in 1 .. Len(send_q') : wire'[i].id < send_q'[j].id
    BY <1>7, <2>1, <2>2, <2>4
  <2>6. Live' /\ next' = 1 => wire'[i].id < cur'.id
    BY <1>1, <1>4, <2>1 DEF Ascending
  <2> QED
    BY <2>3, <2>5, <2>6
<1>10. ASSUME Live'
       PROVE  /\ cur'.id < NextId'
              /\ \A j \in 1 .. Len(send_q') : cur'.id < send_q'[j].id
  <2>1. /\ cur' = cur /\ cur.id \in Nat /\ cur.id < encoded
        /\ \A j \in 1 .. Len(send_q) : cur.id < send_q[j].id
    BY <1>1, <1>4, <1>10, UnitNumbers DEF Ascending
  <2>2. cur'.id < NextId'
    BY <1>1, <2>1
  <2>3. \A j \in 1 .. Len(send_q') : cur'.id < send_q'[j].id
    BY <1>7, <2>1
  <2> QED
    BY <2>2, <2>3
<1>11. ASSUME NEW j \in 1 .. Len(send_q')
       PROVE  /\ send_q'[j].id < NextId'
              /\ \A k \in 1 .. Len(send_q') : j < k => send_q'[j].id < send_q'[k].id
  <2>1. \A k \in 1 .. Len(send_q) :
          send_q[k].id \in Nat /\ (j \in 1 .. Len(send_q) /\ j < k => send_q[j].id < send_q[k].id)
    BY UnitNumbers DEF Ascending
  <2>2. send_q'[j].id \in Nat /\ send_q'[j].id < encoded + 1
    BY <1>1, <1>7, <1>8, <2>1
  <2>3. \A k \in 1 .. Len(send_q') : j < k => send_q'[j].id < send_q'[k].id
    BY <1>1, <1>6, <1>7, <1>8, <2>1
  <2> QED
    BY <1>1, <2>2, <2>3
<1> QED
  BY <1>9, <1>10, <1>11 DEF Ascending

LEMMA AscendingPopped ==
  ASSUME TypeOK, Ascending, PopFrame PROVE Ascending'
<1>1. /\ send_q # <<>> /\ cur' = Head(send_q) /\ send_q' = Tail(send_q)
      /\ send_q \in Seq(Frame) /\ cur' = send_q[1]
      /\ UNCHANGED <<wire, cap, encoded>>
  BY DEF PopFrame, TypeOK, capVars, encoderVars, histVars
<1>2. NextId' = NextId
  BY <1>1 DEF NextId
<1>3. /\ Len(send_q) \in Nat /\ Len(send_q) >= 1
      /\ Len(send_q') = Len(send_q) - 1
      /\ \A j \in 1 .. Len(send_q') : send_q'[j] = send_q[j + 1]
  BY <1>1, PoppedQueue
<1> HIDE DEF NextId, Live
<1> QED
  BY <1>1, <1>2, <1>3, UnitNumbers DEF Ascending

LEMMA AscendingSent ==
  ASSUME TypeOK, ChainInv, Ascending, SendPacket PROVE Ascending'
<1>1. UNCHANGED <<send_q, send_generation, cap, encoded>>
  BY DEF SendPacket, capVars, encoderVars
<1>2. NextId' = NextId
  BY <1>1 DEF NextId
<1>3. Live' => cur' = cur /\ next' = next + 1 /\ next \in Nat \ {0}
  BY DEF SendPacket, Live, Holding, TypeOK, ChainInv, Owned
<1>4. /\ Live /\ Len(wire') \in Nat /\ wire'[Len(wire')].id = cur.id
      /\ Len(wire') = (IF next = 1 THEN Len(wire) + 1 ELSE Len(wire))
      /\ \A i \in 1 .. Len(wire') - 1 : wire'[i] = wire[i]
  BY SentOnWire
<1>5. \A i \in 1 .. Len(wire') :
        wire'[i].id = cur.id \/ (i \in 1 .. Len(wire) /\ wire'[i] = wire[i])
  BY <1>4, UnitNumbers
<1>6. cur.id < NextId /\ \A j \in 1 .. Len(send_q) : cur.id < send_q[j].id
  BY <1>4 DEF Ascending
<1> HIDE DEF NextId, Live
<1>7. ASSUME NEW i \in 1 .. Len(wire')
      PROVE  /\ wire'[i].id < NextId'
             /\ \A j \in 1 .. Len(send_q') : wire'[i].id < send_q'[j].id
  BY <1>1, <1>2, <1>5, <1>6 DEF Ascending
<1>8. Live' => next' # 1
  BY <1>3
<1>9. Live' => /\ cur'.id < NextId'
               /\ \A j \in 1 .. Len(send_q') : cur'.id < send_q'[j].id
  BY <1>1, <1>2, <1>3, <1>6
<1> QED
  BY <1>1, <1>2, <1>7, <1>8, <1>9 DEF Ascending

LEMMA AscendingStep == TypeOK /\ ChainInv /\ Ascending /\ [Next]_vars => Ascending'
<1> SUFFICES ASSUME TypeOK, ChainInv, Ascending, [Next]_vars PROVE Ascending'
  OBVIOUS
<1> USE DEF peerVars, queueVars, encoderVars, capVars, sndVars, histVars
<1>1. CASE OnConnect
  <2>1. /\ wire' = <<>> /\ Len(wire') = 0
        /\ UNCHANGED <<send_q, send_generation, cur, next, cap, encoded>>
    BY <1>1 DEF OnConnect
  <2> QED
    BY <2>1 DEF Ascending, NextId, Live, Holding
<1>2. CASE OnConnectReset \/ OnByeReset \/ OnDisconnectReset \/ SendFails
  <2>1. DropVideo /\ UNCHANGED <<wire, cap, encoded>> /\ cur' \in {cur, NoFrame}
    BY <1>2 DEF OnConnectReset, OnByeReset, OnDisconnectReset, SendFails, ResetVideoQueue
  <2> QED
    BY <2>1, AscendingDrops DEF NextId, ChainInv
<1>3. CASE BroadcastVideo
  BY <1>3, AscendingQueued
<1>4. CASE PopFrame
  BY <1>4, AscendingPopped
<1>5. CASE SendPacket
  BY <1>5, AscendingSent
<1>6. CASE \/ OnReady \/ OnReadyRequest \/ OnBye \/ OnDisconnect
           \/ CaptureTick \/ Encode \/ EncodeFails \/ CaptureEnds \/ Flush
           \/ SetPacingBitrate \/ BroadcastSkips \/ CaptureRequest
           \/ SenderWake \/ TakeRepair \/ SendRepair \/ DiscardRepair \/ RepairsDone
           \/ PopNothing \/ SendCancelled \/ SenderRequest
           \/ Feedback \/ BroadcastAudio \/ UNCHANGED vars
  <2>1. /\ UNCHANGED <<send_q, send_generation, wire>>
        /\ UNCHANGED <<cur, next>> \/ cur' = NoFrame
    BY <1>6
       DEF OnReady, OnReadyRequest, OnBye, OnDisconnect, ForgetPeer, RequestKeyframe,
           CaptureTick, Encode, EncodeFails, CaptureEnds, Flush, SetPacingBitrate,
           BroadcastSkips, CaptureRequest, SenderWake, TakeRepair, SendRepair,
           DiscardRepair, RepairsDone,
           PopNothing, SendCancelled, SenderRequest, Feedback, PliArrives, OnPli,
           Retransmit, BroadcastAudio, vars
  <2>2. NextId' \in {NextId, NextId + 1}
    <3>1. CASE Encode \/ Flush
      BY <3>1 DEF NextId, Encode, Flush, UnitEncoded
    <3>2. CASE ~(Encode \/ Flush)
      BY <1>6, <3>2
         DEF NextId, OnReady, OnReadyRequest, OnBye, OnDisconnect, ForgetPeer,
             RequestKeyframe, CaptureTick, EncodeFails, CaptureEnds, SetPacingBitrate,
             BroadcastSkips, CaptureRequest, SinkReturns, SenderWake, TakeRepair,
             SendRepair, DiscardRepair, RepairsDone, PopNothing, SendCancelled,
             SenderRequest, Feedback, PliArrives, OnPli, Retransmit, BroadcastAudio, vars
    <3> QED
      BY <3>1, <3>2
  <2>3. NextId' \in Nat /\ NextId <= NextId'
    BY <2>2, UnitNumbers
  <2> QED
    BY <2>1, <2>3, AscendingStays
<1> QED
  BY <1>1, <1>2, <1>3, <1>4, <1>5, <1>6 DEF Next, Signaling, Capture, Sender

\* Every step is one of PacketStream's, or none.
LEMMA StreamStep ==
  TypeOK /\ ChainInv /\ Ascending /\ [Next]_vars => [Promised!Next]_Promised!vars
<1> SUFFICES ASSUME TypeOK, ChainInv, Ascending, [Next]_vars
             PROVE  [Promised!Next]_Promised!vars
  OBVIOUS
<1>1. CASE OnConnect
  BY <1>1 DEF OnConnect, Promised!Next, Promised!Connect
<1>2. CASE SendPacket /\ next = 1
  <2>1. /\ UNCHANGED session /\ cur.session = session
        /\ HandOnWire /\ Live /\ ~Closing
        /\ Len(wire) \in Nat /\ Len(wire') = Len(wire) + 1
        /\ \A i \in 1 .. Len(wire) : wire'[i] = wire[i]
    BY <1>2, SentOnWire DEF SendPacket, ChainInv
  <2>2. /\ wire'[Len(wire')].id = cur.id /\ wire'[Len(wire')].key = cur.key
        /\ wire'[Len(wire')].sent = 1 /\ wire'[Len(wire')].session = session
    BY <1>2, SentOnWire
  <2>3. \A i \in 1 .. Len(wire) : wire[i].id < cur.id
    BY <1>2, <2>1 DEF Ascending
  <2>4. cur.key \/ WireEndsWith(cur.id - 1)
    BY <1>2, <2>1 DEF HandOnWire
  <2>5. WireEndsWith(cur.id - 1) =>
          wire # <<>> /\ cur.id = wire[Len(wire)].id + 1
                      /\ wire[Len(wire)].sent = wire[Len(wire)].size
    BY UnitNumbers DEF WireEndsWith
  <2>6. Promised!StartUnit
    BY <2>1, <2>2, <2>3, <2>4, <2>5 DEF Promised!StartUnit, Promised!Follows, Promised!Last
  <2> QED
    BY <2>6 DEF Promised!Next
<1>3. CASE SendPacket /\ next # 1
  <2>1. /\ UNCHANGED session /\ wire' = [wire EXCEPT ![Len(wire)].sent = next]
        /\ HandOnWire /\ Live /\ ~Closing /\ next \in 1 .. cur.size /\ cur.size \in Nat
    BY <1>3, SentOnWire DEF SendPacket, Logged, ChainInv, Frame
  <2>2. /\ wire # <<>> /\ wire[Len(wire)].size = cur.size
        /\ wire[Len(wire)].sent = next - 1
    BY <1>3, <2>1 DEF HandOnWire
  <2>3. next = wire[Len(wire)].sent + 1 /\ wire[Len(wire)].sent < wire[Len(wire)].size
    BY <2>1, <2>2
  <2>4. wire' = [wire EXCEPT ![Len(wire)].sent = wire[Len(wire)].sent + 1]
    BY <2>1, <2>3
  <2>5. Promised!ContinueUnit
    BY <2>1, <2>2, <2>3, <2>4 DEF Promised!ContinueUnit, Promised!Last
  <2> QED
    BY <2>5 DEF Promised!Next
<1>4. CASE ~OnConnect /\ ~SendPacket
  <2>1. UNCHANGED <<session, wire>>
    BY <1>4
       DEF Next, Signaling, Capture, Sender, OnConnectReset, OnByeReset, OnDisconnectReset,
           OnReady, OnReadyRequest, OnBye, OnDisconnect, CaptureTick, Encode,
           EncodeFails, CaptureEnds, Flush,
           SetPacingBitrate, BroadcastSkips, BroadcastVideo, CaptureRequest, SenderWake,
           TakeRepair, SendRepair, DiscardRepair, RepairsDone, PopFrame, PopNothing,
           SendCancelled, SendFails, SenderRequest, Feedback, PliArrives, OnPli,
           Retransmit, BroadcastAudio, histVars, vars
  <2> QED
    BY <2>1 DEF Promised!vars
<1> QED
  BY <1>1, <1>2, <1>3, <1>4

\* RtpServer implements PacketStream: whatever is reset, dropped, cancelled or
\* left in the sender's hands, every connection is sent a stream of its own, in
\* order, in which each unit is decodable after those before it.
THEOREM ImplementsPacketStream == Spec => SendsStream
<1>1. Init => Promised!Init /\ Ascending
  BY DEF Init, Promised!Init, Ascending, NextId, Live, Holding
<1>2. TypeOK /\ ChainInv /\ Ascending /\ [Next]_vars => Ascending' /\ [Promised!Next]_Promised!vars
  BY AscendingStep, StreamStep
<1> QED
  BY <1>1, <1>2, TypeCorrect, ChainInvariant, PTL DEF Spec, SendsStream, Promised!Spec

-----------------------------------------------------------------------------
(* Towards the end of a frame *)

\* What is left to be done for the frame in hand, the most important first: its
\* packets, the burst of repairs before the next one, the repairs of the burst,
\* and the repair in hand.
PacketsLeft == cur.size - next
BurstsLeft  == IF snd = "send" THEN 0 ELSE 1
RepairsLeft == kRepairBurst - repairs
InHand      == IF snd = "repair" THEN 1 ELSE 0

Nearer ==
  \/ PacketsLeft' < PacketsLeft
  \/ /\ PacketsLeft' = PacketsLeft
     /\ \/ BurstsLeft' < BurstsLeft
        \/ /\ BurstsLeft' = BurstsLeft
           /\ \/ RepairsLeft' < RepairsLeft
              \/ RepairsLeft' = RepairsLeft /\ InHand' < InHand

\* Every step of the sender thread brings the frame it holds nearer to its end,
\* or ends it, and no step of another thread takes it further away.
TowardsEnd ==
  [][cur # NoFrame =>
       \/ cur' = NoFrame
       \/ Nearer
       \/ ~Sender /\ UNCHANGED sndVars]_vars

\* What is left is counted in numbers that cannot fall for ever.
Measured ==
  cur # NoFrame => /\ PacketsLeft \in Nat /\ RepairsLeft \in Nat
                   /\ BurstsLeft \in {0, 1} /\ InHand \in {0, 1}

LEMMA MeasureNat == TypeOK /\ ChainInv => Measured
<1> SUFFICES ASSUME TypeOK, ChainInv, cur # NoFrame
             PROVE  PacketsLeft \in Nat /\ RepairsLeft \in Nat
  BY DEF Measured, BurstsLeft, InHand
<1>1. next \in 1 .. cur.size /\ cur.size \in Nat
  BY DEF ChainInv, Owned, Holding, TypeOK, Frame
<1>2. repairs \in 0 .. kRepairBurst
  BY DEF TypeOK
<1> QED
  BY <1>1, <1>2, RtpServerAssumption DEF PacketsLeft, RepairsLeft

LEMMA NearerStep ==
  ASSUME TypeOK, ChainInv, cur # NoFrame, Sender
  PROVE  cur' = NoFrame \/ Nearer
<1>1. snd \in {"repairs", "repair", "send"}
  BY DEF ChainInv, Threads, Holding, TypeOK, SndStates
<1>2. next \in Nat /\ cur.size \in Nat /\ repairs \in Nat /\ kRepairBurst \in Nat
  BY RtpServerAssumption DEF TypeOK, Frame
<1>3. CASE TakeRepair
  <2>1. /\ snd = "repairs" /\ snd' = "repair" /\ repairs' = repairs + 1
        /\ UNCHANGED <<cur, next>>
    BY <1>3 DEF TakeRepair
  <2> QED
    BY <1>2, <2>1 DEF Nearer, PacketsLeft, BurstsLeft, RepairsLeft
<1>4. CASE SendRepair \/ DiscardRepair
  <2>1. /\ snd = "repair" /\ snd' = "repairs" /\ UNCHANGED <<cur, next, repairs>>
    BY <1>4 DEF SendRepair, DiscardRepair
  <2> QED
    BY <2>1 DEF Nearer, PacketsLeft, BurstsLeft, RepairsLeft, InHand
<1>5. CASE RepairsDone
  <2>1. /\ snd = "repairs" /\ snd' = "send" /\ UNCHANGED <<cur, next>>
    BY <1>5 DEF RepairsDone
  <2> QED
    BY <2>1 DEF Nearer, PacketsLeft, BurstsLeft
<1>6. CASE SendPacket
  <2>1. cur' = NoFrame \/ (cur' = cur /\ next' = next + 1)
    BY <1>6 DEF SendPacket
  <2> QED
    BY <1>2, <2>1 DEF Nearer, PacketsLeft
<1>7. CASE SendCancelled \/ SendFails
  BY <1>7 DEF SendCancelled, SendFails
<1>8. ~SenderWake /\ ~PopFrame /\ ~PopNothing /\ ~SenderRequest
  BY <1>1 DEF SenderWake, PopFrame, PopNothing, SenderRequest
<1> QED
  BY <1>3, <1>4, <1>5, <1>6, <1>7, <1>8 DEF Sender

LEMMA OthersStay ==
  ASSUME [Next]_vars, ~Sender PROVE UNCHANGED sndVars
BY DEF Next, Signaling, Capture, Feedback, OnConnect, OnConnectReset, OnByeReset,
       OnDisconnectReset, OnReady, OnReadyRequest, OnBye, OnDisconnect, CaptureTick, Encode,
       EncodeFails, CaptureEnds, Flush, SetPacingBitrate, BroadcastSkips,
       BroadcastVideo, CaptureRequest,
       PliArrives, OnPli, Retransmit, BroadcastAudio, vars

\* "repeated NACKs cannot starve current video", what of it is a matter of
\* safety: whatever is requested meanwhile, each step of the sender thread counts
\* towards the end of the frame it sends.
THEOREM AlwaysTowardsEnd == Spec => []Measured /\ TowardsEnd
<1>1. TypeOK /\ ChainInv /\ [Next]_vars =>
        [cur # NoFrame =>
           \/ cur' = NoFrame
           \/ Nearer
           \/ ~Sender /\ UNCHANGED sndVars]_vars
  BY NearerStep, OthersStay
<1> QED
  BY <1>1, MeasureNat, TypeCorrect, ChainInvariant, PTL DEF Spec, TowardsEnd

-----------------------------------------------------------------------------
(* RepairInv: what can still be retransmitted was sent to this peer. *)

\* Packets stay delivered while the connection lasts.
LEMMA DeliveredStays ==
  ASSUME TypeOK, ChainInv, SendPacket, NEW p \in Packet, Delivered(p)
  PROVE  Delivered(p)'
<1>1. audio_retx' = audio_retx /\ session' = session
  BY DEF SendPacket
<1>2. CASE p \in audio_retx /\ p.session = session
  BY <1>1, <1>2 DEF Delivered
<1>3. CASE \E i \in 1 .. Len(wire) :
             /\ p.session = wire[i].session /\ p.id = wire[i].id
             /\ p.index <= wire[i].sent
  <2>1. PICK i \in 1 .. Len(wire) :
             /\ p.session = wire[i].session /\ p.id = wire[i].id
             /\ p.index <= wire[i].sent
    BY <1>3
  <2>2. p.index \in Nat
    BY DEF Packet
  <2>3. CASE i \in 1 .. Len(wire') - 1
    BY <2>1, <2>3, SentOnWire DEF Delivered
  <2>4. CASE i \notin 1 .. Len(wire') - 1
    <3>1. i = Len(wire) /\ Len(wire') = Len(wire) /\ next # 1
      BY <2>1, <2>4, SentOnWire
    <3>2. /\ wire[i].sent = next - 1 /\ wire[i].id = cur.id
          /\ wire[i].session = session
      BY <3>1, SentOnWire DEF ChainInv, HandOnWire, Owned, OwnConnection
    <3>3. /\ wire'[i].id = cur.id /\ wire'[i].session = session
          /\ wire'[i].sent = next /\ i \in 1 .. Len(wire') /\ next \in Nat
      BY <3>1, SentOnWire DEF TypeOK
    <3>4. p.index <= wire'[i].sent
      BY <2>1, <2>2, <3>2, <3>3
    <3> QED
      BY <2>1, <3>2, <3>3, <3>4 DEF Delivered
  <2> QED
    BY <2>3, <2>4
<1> QED
  BY <1>2, <1>3 DEF Delivered

\* A step that leaves the buffers, the queue of repairs and the log alone.
LEMMA RepairFrame ==
  ASSUME RepairInv,
         UNCHANGED <<video_retx, audio_retx, repair_q, send_generation, session,
                     wire>>,
         sig' = "accept" => sig = "accept",
         snd' = "repair" => snd = "repair" /\ repair' = repair
  PROVE  RepairInv'
BY DEF RepairInv, Delivered

\* A step that drops everything repairable.
LEMMA RepairDrop ==
  ASSUME TypeOK, RepairInv, DropVideo, session' = session,
         audio_retx' = {} \/ (audio_retx' = audio_retx /\ sig' # "accept"),
         snd' = "repair" => snd = "repair" /\ repair' = repair
  PROVE  RepairInv'
<1>1. /\ video_retx' = {} /\ repair_q' = <<>>
      /\ send_generation' = send_generation + 1 /\ send_generation \in Nat
  BY DEF DropVideo, TypeOK
<1>2. \A p \in audio_retx' : p.session = session'
  BY DEF RepairInv
<1>3. snd' = "repair" => /\ repair'.generation < send_generation'
                         /\ repair'.generation \in Nat
  BY <1>1 DEF RepairInv, TypeOK, Repair
<1> QED
  BY <1>1, <1>2, <1>3 DEF RepairInv

LEMMA RepairStep == TypeOK /\ ChainInv /\ RepairInv /\ [Next]_vars => RepairInv'
<1> SUFFICES ASSUME TypeOK, ChainInv, RepairInv, [Next]_vars PROVE RepairInv'
  OBVIOUS
<1> USE DEF peerVars, queueVars, encoderVars, capVars, sndVars, histVars,
            RequestKeyframe
<1>s. peer_streaming => sig # "accept"
  BY DEF ChainInv, Threads, StreamsWhileServed
<1>1. CASE Signaling
  <2>1. CASE OnConnect
    <3>1. /\ sig = "accept" /\ video_retx' = {} /\ audio_retx' = {}
          /\ repair_q' = <<>> /\ sig' = "connect_reset"
          /\ UNCHANGED <<send_generation, snd, repair>>
      BY <2>1 DEF OnConnect, RepairInv
    <3> QED
      BY <3>1 DEF RepairInv
  <2>2. CASE OnConnectReset \/ OnByeReset \/ OnDisconnectReset
    BY <2>2, RepairDrop
    DEF OnConnectReset, OnByeReset, OnDisconnectReset, ResetVideoQueue
  <2>3. CASE OnReady \/ OnReadyRequest \/ OnBye \/ OnDisconnect
    BY <2>3, RepairFrame DEF OnReady, OnReadyRequest, OnBye, OnDisconnect
  <2> QED
    BY <1>1, <2>1, <2>2, <2>3 DEF Signaling
<1>2. CASE Capture
  <2>1. CASE BroadcastVideo
    <3>1. UNCHANGED <<audio_retx, session, wire, snd, repair, sig>>
      BY <2>1 DEF BroadcastVideo
    <3>2. \/ UNCHANGED <<video_retx, repair_q, send_generation>>
          \/ /\ video_retx' = {} /\ repair_q' = <<>>
             /\ send_generation' = send_generation + 1
      BY <2>1 DEF BroadcastVideo
    <3>3. CASE UNCHANGED <<video_retx, repair_q, send_generation>>
      BY <3>1, <3>3, RepairFrame
    <3>4. CASE /\ video_retx' = {} /\ repair_q' = <<>>
               /\ send_generation' = send_generation + 1
      <4>1. sig' # "accept"
        BY <1>s, <2>1, <3>1 DEF BroadcastVideo, Wanted
      <4>2. snd' = "repair" => /\ repair'.generation < send_generation'
                               /\ repair'.generation \in Nat
        BY <3>1, <3>4 DEF RepairInv, TypeOK, Repair
      <4> QED
        BY <3>1, <3>4, <4>1, <4>2 DEF RepairInv, TypeOK
    <3> QED
      BY <3>2, <3>3, <3>4
  <2>2. CASE ~BroadcastVideo
    BY <1>2, <2>2, RepairFrame
    DEF Capture, CaptureTick, Encode, EncodeFails, CaptureEnds, Flush, SetPacingBitrate,
        BroadcastSkips, CaptureRequest
  <2> QED
    BY <2>1, <2>2
<1>3. CASE Sender
  <2>1. CASE TakeRepair
    <3>1. /\ repair_q # <<>> /\ repair_q \in Seq(Repair)
          /\ repair' = repair_q[1] /\ repair_q' = Tail(repair_q)
          /\ UNCHANGED <<send_generation, video_retx, audio_retx, session, wire,
                         sig>>
      BY <2>1 DEF TakeRepair, TypeOK
    <3>2. /\ 1 \in 1 .. Len(repair_q)
          /\ \A i \in 1 .. Len(repair_q') :
               i + 1 \in 1 .. Len(repair_q) /\ repair_q'[i] = repair_q[i + 1]
      BY <3>1
    <3>3. sig # "accept"
      BY <3>1 DEF RepairInv
    <3>4. /\ repair'.generation = send_generation
          /\ repair'.packet \in video_retx \cup audio_retx
      BY <3>1, <3>2 DEF RepairInv
    <3>5. \A i \in 1 .. Len(repair_q') :
            /\ repair_q'[i].generation = send_generation'
            /\ repair_q'[i].packet \in video_retx' \cup audio_retx'
      BY <3>1, <3>2 DEF RepairInv
    <3>6. \A p \in video_retx' : Delivered(p)'
      BY <3>1 DEF RepairInv, Delivered
    <3>7. repair'.generation <= send_generation'
      BY <3>1, <3>4 DEF TypeOK
    <3> QED
      BY <3>1, <3>3, <3>4, <3>5, <3>6, <3>7 DEF RepairInv
  <2>2. CASE SendPacket
    <3>1. /\ video_retx' = video_retx \cup {VideoPacket(cur, next)}
          /\ UNCHANGED <<audio_retx, repair_q, send_generation, session, repair,
                         sig>>
          /\ snd' # "repair" /\ sig # "accept"
      BY <1>s, <2>2 DEF SendPacket, Current
    <3>2. \A p \in video_retx' : Delivered(p)'
      <4> SUFFICES ASSUME NEW p \in video_retx' PROVE Delivered(p)'
        OBVIOUS
      <4>1. CASE p \in video_retx
        BY <2>2, <4>1, DeliveredStays DEF RepairInv, TypeOK
      <4>2. CASE p = VideoPacket(cur, next)
        <5>1. p.session = session /\ p.id = cur.id /\ p.index = next
          BY <2>2, <4>2, SentOnWire DEF VideoPacket
        <5>2. p.index <= next /\ Len(wire') \in 1 .. Len(wire')
          BY <2>2, <5>1, SentOnWire DEF TypeOK
        <5> QED
          BY <2>2, <5>1, <5>2, SentOnWire DEF Delivered
      <4> QED
        BY <3>1, <4>1, <4>2
    <3> QED
      BY <3>1, <3>2 DEF RepairInv
  <2>3. CASE SendFails
    BY <2>3, <1>s, RepairDrop DEF SendFails, Current
  <2>4. CASE ~TakeRepair /\ ~SendPacket /\ ~SendFails
    BY <1>3, <2>4, RepairFrame
    DEF Sender, SenderWake, SendRepair, DiscardRepair, RepairsDone, PopFrame,
        PopNothing, SendCancelled, SenderRequest
  <2> QED
    BY <2>1, <2>2, <2>3, <2>4
<1>4. CASE Feedback \/ BroadcastAudio
  <2>1. CASE PliArrives \/ OnPli
    BY <2>1, RepairFrame DEF PliArrives, OnPli
  <2>2. CASE Retransmit
    <3>1. PICK p \in video_retx \cup audio_retx :
            repair_q' = Append(repair_q, [packet |-> p,
                                          generation |-> send_generation,
                                          video |-> p \in video_retx])
      BY <2>2 DEF Retransmit
    <3>2. /\ peer_streaming /\ sig # "accept" /\ repair_q \in Seq(Repair)
          /\ UNCHANGED <<video_retx, audio_retx, send_generation, session, wire,
                         repair, sig, snd>>
      BY <2>2, <1>s DEF Retransmit, TypeOK
    <3> DEFINE new == [packet |-> p, generation |-> send_generation,
                       video |-> p \in video_retx]
    <3>3. new \in Repair /\ new.packet = p /\ new.generation = send_generation
      BY DEF Repair, TypeOK
    <3>4. /\ Len(repair_q') = Len(repair_q) + 1 /\ Len(repair_q) \in Nat
          /\ repair_q'[Len(repair_q) + 1] = new
          /\ \A i \in 1 .. Len(repair_q) : repair_q'[i] = repair_q[i]
      <4>1. repair_q' = Append(repair_q, new)
        BY <3>1
      <4> HIDE DEF new
      <4> QED
        BY <3>2, <3>3, <4>1
    <3>5. \A i \in 1 .. Len(repair_q') :
            /\ repair_q'[i].generation = send_generation'
            /\ repair_q'[i].packet \in video_retx' \cup audio_retx'
      <4> HIDE DEF new
      <4> QED
        BY <3>1, <3>2, <3>3, <3>4 DEF RepairInv
    <3>6. \A q \in video_retx' : Delivered(q)'
      BY <3>2 DEF RepairInv, Delivered
    <3> QED
      BY <3>2, <3>5, <3>6 DEF RepairInv
  <2>3. CASE BroadcastAudio
    <3>1. /\ audio_retx' = audio_retx \cup {AudioPacket(session)}
          /\ peer_streaming /\ sig # "accept"
          /\ UNCHANGED <<video_retx, repair_q, send_generation, session, wire,
                         repair, sig, snd>>
      BY <2>3, <1>s DEF BroadcastAudio
    <3>2. AudioPacket(session).session = session
      BY DEF AudioPacket
    <3>3. \A q \in video_retx' : Delivered(q)'
      BY <3>1 DEF RepairInv, Delivered
    <3> QED
      BY <3>1, <3>2, <3>3 DEF RepairInv
  <2> QED
    BY <1>4, <2>1, <2>2, <2>3 DEF Feedback
<1>5. CASE UNCHANGED vars
  BY <1>5, RepairFrame DEF vars
<1> QED
  BY <1>1, <1>2, <1>3, <1>4, <1>5 DEF Next

\* Every packet sent in answer to a NACK was sent before to the same peer.
THEOREM RepairsAlwaysRepeat == Spec => RepairsRepeat
<1>1. Init => RepairInv
  BY DEF Init, RepairInv
<1>2. TypeOK /\ RepairInv => (SendRepair => Delivered(repair.packet))
  BY DEF SendRepair, Current, RepairInv, Delivered
<1>3. Spec => []RepairInv
  BY <1>1, RepairStep, TypeCorrect, ChainInvariant, PTL DEF Spec
<1> QED
  BY <1>2, <1>3, TypeCorrect, PTL DEF Spec, RepairsRepeat

-----------------------------------------------------------------------------
(* The packet counter *)

\* total runs over the frames of queue q and ends with n.  That it never falls
\* along the queue is what a pop needs: the rest cannot hold more than it all.
Counts(q, n, total) ==
  /\ total \in [0 .. Len(q) -> Int]
  /\ total[0] = 0
  /\ \A i \in 1 .. Len(q) : total[i] = total[i - 1] + q[i].size
  /\ \A i, j \in 0 .. Len(q) : i <= j => total[i] <= total[j]
  /\ total[Len(q)] = n

CountInv ==
  /\ queued_packets <= kMaxQueuedPackets
  /\ \E total : Counts(send_q, queued_packets, total)

LEMMA CountsNothing == \E total : Counts(<<>>, 0, total)
<1>1. Counts(<<>>, 0, [i \in 0 .. 0 |-> 0])
  BY DEF Counts
<1> QED
  BY <1>1

LEMMA CountsPush ==
  ASSUME NEW q \in Seq(Frame), NEW n, NEW total, Counts(q, n, total),
         NEW frame \in Frame
  PROVE  \E sum : Counts(Append(q, frame), n + frame.size, sum)
<1> DEFINE last == Len(q) + 1
           sum == [i \in 0 .. last |-> IF i = last THEN n + frame.size ELSE total[i]]
           pushed == Append(q, frame)
<1>1. /\ Len(pushed) = last /\ pushed[last] = frame
      /\ \A i \in 1 .. Len(q) : pushed[i] = q[i]
  OBVIOUS
<1>2. frame.size \in Nat /\ n \in Int
  BY DEF Frame, Counts
<1>3. sum \in [0 .. last -> Int] /\ sum[0] = 0 /\ sum[last] = n + frame.size
  BY <1>2 DEF Counts
<1>4. \A i \in 1 .. last : sum[i] = sum[i - 1] + pushed[i].size
  BY <1>1, <1>2, SMTT(30) DEF Counts
<1>5. ASSUME NEW i \in 0 .. last, NEW j \in 0 .. last, i <= j
      PROVE  sum[i] <= sum[j]
  <2>1. /\ Len(q) \in Nat
        /\ total[Len(q)] = n
        /\ \A k \in 0 .. Len(q) : total[k] \in Int
        /\ \A k, l \in 0 .. Len(q) : k <= l => total[k] <= total[l]
    <3>1. Len(q) \in Nat
      OBVIOUS
    <3>2. \A k \in 0 .. Len(q) : total[k] \in Int
      BY DEF Counts
    <3>3. /\ total[Len(q)] = n
          /\ \A k, l \in 0 .. Len(q) : k <= l => total[k] <= total[l]
      BY DEF Counts
    <3> QED
      BY <3>1, <3>2, <3>3
  <2>2. CASE j # last
    BY <1>5, <2>1, <2>2
  <2>3. CASE j = last /\ i # last
    <3>1. i \in 0 .. Len(q) /\ Len(q) \in 0 .. Len(q) /\ i <= Len(q)
      BY <2>1, <2>3
    <3>2. total[i] <= n /\ total[i] \in Int
      BY <2>1, <3>1
    <3> QED
      BY <1>2, <2>3, <3>2
  <2>4. CASE i = last
    BY <1>2, <1>3, <1>5, <2>1, <2>4
  <2> QED
    BY <2>2, <2>3, <2>4
<1> HIDE DEF sum, pushed
<1>6. Counts(pushed, n + frame.size, sum)
  BY <1>1, <1>3, <1>4, <1>5 DEF Counts
<1> QED
  BY <1>6 DEF pushed

LEMMA CountsPop ==
  ASSUME NEW q \in Seq(Frame), q # <<>>, NEW n, NEW total, Counts(q, n, total)
  PROVE  /\ \E rest : Counts(Tail(q), n - Head(q).size, rest)
         /\ Head(q).size \in Nat
<1> DEFINE size == Head(q).size
           rest == [i \in 0 .. Len(q) - 1 |-> total[i + 1] - size]
<1>1. /\ Len(q) \in Nat \ {0} /\ Len(Tail(q)) = Len(q) - 1
      /\ \A i \in 1 .. Len(q) - 1 : Tail(q)[i] = q[i + 1]
      /\ Head(q) = q[1] /\ q[1] \in Frame
  OBVIOUS
<1>2. size \in Nat
  BY <1>1 DEF Frame
<1>3. total[1] = size
  BY <1>1, <1>2 DEF Counts
<1> HIDE DEF size
<1>4. /\ rest \in [0 .. Len(q) - 1 -> Int] /\ rest[0] = 0
      /\ rest[Len(q) - 1] = n - size
  BY <1>1, <1>2, <1>3 DEF Counts
<1>5. \A i \in 1 .. Len(q) - 1 : rest[i] = rest[i - 1] + Tail(q)[i].size
  <2>1. ASSUME NEW i \in 1 .. Len(q) - 1
        PROVE  rest[i] = rest[i - 1] + Tail(q)[i].size
    <3>1. i + 1 \in 1 .. Len(q) /\ i \in 0 .. Len(q) - 1 /\ i - 1 \in 0 .. Len(q) - 1
      BY <1>1
    <3>2. rest[i] = total[i + 1] - size /\ rest[i - 1] = total[i] - size
      BY <3>1
    <3>3. total[i + 1] = total[i] + q[i + 1].size
      BY <1>1, <3>1 DEF Counts
    <3>4. total[i] \in Int
      BY <1>1, <3>1 DEF Counts
    <3>5. q[i + 1].size \in Nat
      <4>1. q[i + 1] \in Frame
        BY <1>1, <3>1
      <4> QED
        BY <4>1 DEF Frame
    <3> QED
      BY <1>1, <1>2, <3>2, <3>3, <3>4, <3>5
  <2> HIDE DEF rest
  <2> QED
    BY <2>1
<1>6. ASSUME NEW i \in 0 .. Len(q) - 1, NEW j \in 0 .. Len(q) - 1, i <= j
      PROVE  rest[i] <= rest[j]
  <2>1. i + 1 \in 0 .. Len(q) /\ j + 1 \in 0 .. Len(q) /\ i + 1 <= j + 1
    BY <1>1, <1>6
  <2>2. total[i + 1] <= total[j + 1] /\ total[i + 1] \in Int /\ total[j + 1] \in Int
    BY <2>1 DEF Counts
  <2> QED
    BY <1>2, <2>2
<1> HIDE DEF rest
<1>7. Counts(Tail(q), n - size, rest)
  BY <1>1, <1>4, <1>5, <1>6 DEF Counts
<1> QED
  BY <1>2, <1>7 DEF size

LEMMA CountStep == TypeOK /\ CountInv /\ [Next]_vars => CountInv'
<1> SUFFICES ASSUME TypeOK, CountInv, [Next]_vars PROVE CountInv'
  OBVIOUS
<1> USE RtpServerAssumption
<1>1. ASSUME send_q' = <<>>, queued_packets' = 0 PROVE CountInv'
  BY <1>1, CountsNothing DEF CountInv
<1>2. CASE BroadcastVideo
  <2>1. PICK expired \in BOOLEAN :
          LET drop == \/ send_q # <<>> /\ expired
                      \/ queued_packets + au.size > kMaxQueuedPackets
              gen == IF drop THEN send_generation + 1 ELSE send_generation
              refuse == \/ (drop \/ awaiting_keyframe) /\ ~au.key
                        \/ au.size > kMaxQueuedPackets
              frame == [id |-> au.id, key |-> au.key, size |-> au.size,
                        generation |-> gen, session |-> session]
              kept == IF drop THEN <<>> ELSE send_q
              count == IF drop THEN 0 ELSE queued_packets
          IN /\ send_q' = IF refuse THEN kept ELSE Append(kept, frame)
             /\ queued_packets' = IF refuse THEN count ELSE count + au.size
    BY <1>2 DEF BroadcastVideo
  <2> DEFINE drop == \/ send_q # <<>> /\ expired
                     \/ queued_packets + au.size > kMaxQueuedPackets
             gen == IF drop THEN send_generation + 1 ELSE send_generation
             refuse == \/ (drop \/ awaiting_keyframe) /\ ~au.key
                       \/ au.size > kMaxQueuedPackets
             frame == [id |-> au.id, key |-> au.key, size |-> au.size,
                       generation |-> gen, session |-> session]
             kept == IF drop THEN <<>> ELSE send_q
             count == IF drop THEN 0 ELSE queued_packets
  <2>2. kept \in Seq(Frame) /\ \E total : Counts(kept, count, total)
    BY CountsNothing DEF CountInv, TypeOK
  <2>3. /\ count \in Int /\ count <= kMaxQueuedPackets
        /\ ~refuse => count + au.size <= kMaxQueuedPackets
    BY DEF CountInv, TypeOK, Unit
  <2>4. frame \in Frame /\ frame.size = au.size
    <3>1. gen \in Nat /\ session \in Nat
      BY DEF TypeOK
    <3> HIDE DEF gen
    <3> QED
      BY <3>1 DEF TypeOK, Unit, Frame
  <2>5. /\ send_q' = IF refuse THEN kept ELSE Append(kept, frame)
        /\ queued_packets' = IF refuse THEN count ELSE count + au.size
    BY <2>1
  <2> HIDE DEF kept, count, frame, refuse
  <2>6. CASE refuse
    BY <2>2, <2>3, <2>5, <2>6 DEF CountInv
  <2>7. CASE ~refuse
    <3>1. \E sum : Counts(Append(kept, frame), count + frame.size, sum)
      BY <2>2, <2>4, CountsPush
    <3> QED
      BY <2>3, <2>4, <2>5, <2>7, <3>1 DEF CountInv
  <2> QED
    BY <2>6, <2>7
<1>3. CASE PopFrame
  <2>1. /\ send_q \in Seq(Frame) /\ send_q # <<>> /\ send_q' = Tail(send_q)
        /\ queued_packets' = queued_packets - Head(send_q).size
        /\ queued_packets \in Int
    BY <1>3 DEF PopFrame, TypeOK
  <2>2. /\ \E rest : Counts(Tail(send_q), queued_packets - Head(send_q).size, rest)
        /\ Head(send_q).size \in Nat
    BY <2>1, CountsPop DEF CountInv
  <2> QED
    BY <2>1, <2>2 DEF CountInv
<1>4. CASE Signaling
  <2>1. UNCHANGED <<send_q, queued_packets>> \/ (send_q' = <<>> /\ queued_packets' = 0)
    BY <1>4 DEF Signaling, OnConnect, OnConnectReset, OnReady, OnReadyRequest, OnBye,
       OnByeReset, OnDisconnect, OnDisconnectReset, ResetVideoQueue, DropVideo, queueVars
  <2> QED
    BY <1>1, <2>1 DEF CountInv
<1>5. CASE Capture /\ ~BroadcastVideo
  <2>1. UNCHANGED <<send_q, queued_packets>>
    BY <1>5 DEF Capture, CaptureTick, Encode, EncodeFails, CaptureEnds, Flush,
                SetPacingBitrate,
       BroadcastSkips, CaptureRequest, queueVars
  <2> QED
    BY <2>1 DEF CountInv
<1>6. CASE Sender /\ ~PopFrame
  <2>1. UNCHANGED <<send_q, queued_packets>> \/ (send_q' = <<>> /\ queued_packets' = 0)
    BY <1>6 DEF Sender, SenderWake, TakeRepair, SendRepair, DiscardRepair, RepairsDone,
       PopNothing, SendCancelled, SendPacket, SendFails, SenderRequest, DropVideo,
       queueVars
  <2> QED
    BY <1>1, <2>1 DEF CountInv
<1>7. CASE Feedback \/ BroadcastAudio \/ UNCHANGED vars
  <2>1. UNCHANGED <<send_q, queued_packets>>
    BY <1>7 DEF Feedback, PliArrives, OnPli, Retransmit, BroadcastAudio, vars, queueVars
  <2> QED
    BY <2>1 DEF CountInv
<1> QED
  BY <1>2, <1>3, <1>4, <1>5, <1>6, <1>7 DEF Next, Capture, Sender

\* The counter that decides whether a unit is queued or the queue dropped is the
\* number of packets queued, and never exceeds the bound, whichever of the three
\* threads pushed, popped and reset last.
THEOREM QueueAlwaysAccounted == Spec => []QueueAccounting
<1>1. Init => CountInv
  BY CountsNothing, RtpServerAssumption DEF Init, CountInv
<1>2. CountInv => QueueAccounting
  <2> SUFFICES ASSUME CountInv PROVE QueueAccounting
    OBVIOUS
  <2>1. PICK total : Counts(send_q, queued_packets, total)
    BY DEF CountInv
  <2>2. \A i \in 0 .. Len(send_q) :
          total[i] \in Int /\ total[0] <= total[i] /\ total[i] <= total[Len(send_q)]
    BY <2>1 DEF Counts
  <2>3. total \in [0 .. Len(send_q) -> 0 .. kMaxQueuedPackets]
    BY <2>1, <2>2, RtpServerAssumption DEF Counts, CountInv
  <2> QED
    BY <2>1, <2>3 DEF Counts, QueueAccounting
<1> QED
  BY <1>1, <1>2, CountStep, TypeCorrect, PTL DEF Spec
=============================================================================
