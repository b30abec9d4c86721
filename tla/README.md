# Verification of metashare

metashare streams the monitors of a Linux desktop to a Meta Quest headset. A
*streamer* process per monitor captures, encodes and sends video and audio over
RTP/UDP; a Quest client receives and decodes it and sends input back; a GTK
control panel starts and stops the streamers. This directory holds TLA+ modules
translated from that code, the TLC configurations that check them, and proofs
checked by TLAPS.

    tlc -workers 2 -config MCRtpServer.cfg MCRtpServer      # one model checking run
    tlapm RtpServerProofs.tla                               # the proofs of one module

Paths below are relative to the repository's root; `rx` stands for
`client/quest/app/src/main/java/com/metashare/client/`.

## 1. The system

| component | source | state | operations |
|---|---|---|---|
| RTP server | `src/streamer/rtp_server.*` | peer and streaming flag (`peer_mu_`); send queue, repair queue, generation, `awaiting_keyframe_` (`send_mu_`); retransmit buffers | connection handlers, `broadcast_video`, `broadcast_audio`, sender loop, RTCP loop, `stop` |
| Bitrate controller | `main.cpp` 244-260, 592-632 | current bitrate, time of the last cut, start of the clean spell | `on_loss_report`, once a second |
| Encoder | `encoder.*` | forced keyframe flag, pending bitrate, cached scaler | `encode`, `set_bitrate`, `request_keyframe` |
| Capture sources | `portal_pipewire_source.cpp`, `mutter_virtual_source.cpp` | front, back and lent frame, "new" flag; PipeWire loop, context, core, stream | start, format negotiation, capture, pull, stop |
| Desktop sessions | `portal_pipewire_source.cpp`, `mutter_screencast.cpp` | portal session, its mode, node and remote; Mutter session, its monitors and their nodes | the portal's dialog and its fallback, open, add, start, close |
| Main program | `main.cpp` | threads, callbacks, what has been started | start-up with its failures, capture loop, shutdown and destructors |
| Pacer | `pacer.hpp` | token bucket shared by all monitors | shares, `acquire` |
| Packetizer, retransmit buffer | `rtp_packetizer.*` | sequence number; the last packets sent | `packetize`, `record`, `find` |
| Signaling | `signaling_server.cpp`, `src/common/signaling.cpp` | one client at a time, line buffer | accept loop, send, stop |
| Discovery | `discovery.cpp` | - | answer to a UDP probe |
| Audio | `pipewire_audio_source.cpp`, `audio_encoder.cpp` | sample ring, partial frame | capture, pull, encode |
| Control panel | `client/gtk/main_window.cpp` | child pid, pipes, timer | start, stop, escalate, exit, output, close |
| Quest receiver | `rx/RtpReceiver.java` | jitter buffer, extended sequence numbers, depacketizer, PLI throttles | receive loop, `requestKeyframe`, `stop` |
| Quest session | `rx/StreamSession.java`, `rx/SessionInputForwarder.java` | socket, handshake, input queue, held buttons | connect, keepalive, input, stop |
| Quest decoders | `rx/VideoDecoder.java`, `rx/AudioDecoder.java` | codec, input slots, recovery count | queue, output, recover, surface change |

How they interact. Signaling calls the server's handlers on its accept thread.
READY makes the server streaming and asks the encoder for a keyframe (an atomic
flag). The capture thread pulls a frame, encodes it and calls
`broadcast_video`, which queues it for the sender thread. The sender takes
frames and repairs in turn and waits for the pacer before each packet. The RTCP
thread turns PLI into a keyframe request, NACK into repairs and receiver
reports into a bitrate, which the capture thread applies with its next frame.
On the client the receive thread orders and assembles packets, asks for
repairs and keyframes, and feeds the decoder, which asks for keyframes itself.

What is hard. Five threads share the server, two mutexes are never held
together on the send path, and what one critical section has decided is used
after the next one may have changed it: a frame outlives its connection, a
repair outlives the packets it repeats, a keyframe request follows the decision
that needs it. The network loses, repeats and reorders. A dropped frame makes
all later ones undecodable up to the next keyframe, so both ends keep a flag
that must never be left set with nobody to clear it. The control panel's timers
and exit notifications come in any order. Shutdown joins six threads that wait
for each other. Start-up asks the desktop in a dozen steps, any of which may fail
while its answers are still under way, and what has been obtained by then must be
given back in the right order. A session's worker, its input sender, the receive thread, the
codec's callback thread and the UI thread share flags without locks, and
connections the client has given up are still served by the streamer, one at a
time, until they time out.

What makes each component correct:

* server: what a connection is sent is decodable and its own; repairs only
  repeat; the queue's accounting is exact and bounded; a keyframe is on its way
  whenever one is awaited and somebody encodes; repairs do not starve video; no lost wake-up; `stop`
  returns and closes nothing in use.
* controller: rates in range, no decision lost, raises earned, recovery.
* sources: the lent frame is left alone, the newest frame is delivered.
* main program: nothing is used before it is there or after it is gone, nothing is
  left behind, capture and injection belong to what was granted last, and an
  interrupt ends it at any point, if the join of the sender thread lets it.
* control panel: one child, always known; what is stopped ends.
* receiver: the decoder gets whole units in decodable order; gaps are reported.
* session: both ends stay in step, a client gets back in after any disturbance,
  and either end can be stopped without waiting for the other.
* input: in order, at most once, clicks where they were aimed, no lost wakeup.
* decoder: no unit without its reference, and the picture comes back.
* all together: a sound picture is not continued with a unit whose reference is
  missing, and a keyframe that was asked for in vain is asked for again.

PROJECT.json lists the hazards line by line, with the properties about each.

## 2. The modules

**RtpServer** - one server between `start()` and `stop()`. A variable per field,
grouped by the mutex that guards it; a program counter for the signaling (`sig`),
capture (`cap`), sender (`snd`) and RTCP (`rtcp`) threads. An action is one
critical section, or one access to the encoder's atomic flag: where the code
takes two locks one after the other (`on_disconnect`: first the peer, then the
queue) there are two actions and anything may happen in between. Retransmit
buffers are sets of packets; a packet is known by session, access unit and
index. `session` and `wire` are history: which connection it is, and what
`sendto` was given for it. The encoder takes one frame in and gives one unit out, or
fails, before or after it has consumed the keyframe flag. A capture thread whose loop
has ended (`leaving`) flushes the encoder through the same packet sink and ends.
It refines **PacketStream** (`SendsStream`): on a connection only units queued for
it are sent, in encoding order, none twice, packet by packet, and each is a
keyframe or follows the complete unit it refers to.

**SenderWait** - the same sender thread seen from its condition variable: the
queues are counters, while the test of the wait predicate, the step by which
the thread becomes a waiter, and every notification are actions of their own.
The main thread runs the shutdown of `main()` and `stop()`.

**BitrateControl** - the once-a-second evaluation, the handler, and the way of
its decision through `pending_bitrate_kbps_` to the encoder and the pacer. Loss
is one of the three grades the handler tells apart; time is counted in seconds
up to the limits the code compares it with.

**StreamerControl** - the control panel as callbacks of one main loop beside the
child process, its pipe and the pending timers.

**FrameSource** - the buffer exchange of both PipeWire sources with the capture
thread, its encoder's cached scaler and the end of `main()`. A buffer has an
identity, a format and the number of the captured frame it holds. An identity is an
address: one that was freed may be allocated again, that of the frame the capture
thread still points to included, and what is read from freed memory is any format. `MakeSource`
says which of the two sources it is (`kind`); the properties hold for either.

**MonitorPipeline** - `main()` around that exchange, for one of several monitors:
it extends FrameSource by the stage `main()` is in and by what it has obtained.
The Mutter session with its monitors and announcements; the portal's requests one
by one, the session that can do no more than capture and the other it gives way
to, node and remote; the PipeWire objects of the video and the audio source, a
prefix of which is left when `start()` fails; encoder, server and threads; the
interrupt; and the way back: `stop()` object by object, the joins and the
destructors. The sender thread of the RTP server is told to end, or misses that as
SenderWait shows it may, and is joined. Every step has its failure beside it. What portal, Mutter and
PipeWire answer, and whether they do, is the action `Desktop` and external.
`PipelineSpec` implements FrameSource's `Spec`.

**RtpReceiver** - the video path of the Quest receiver: the drain of the jitter
buffer, the receive step with unwrapping, NACK and hold, and the depacketizer
as a record with one operator per part of `feed`. The streamer is an
environment with the freedom PacketStream leaves it, and the
network delivers anything sent, at any time, any number of times, or never. A
sequence number is a position modulo `SeqMod`.

**Session** - a panel's session from both ends: the worker of `StreamSession`
from discovery to release, retry included, and the accept thread, listener,
backlog and `stop()` of the signaling server. A connection is the session at its
other end, or what became of it: closed, or half-open. Activities start and stop
sessions, the streamer stops, crashes and returns, the link goes down and up.

**InputPath** - a gesture from the UI thread over the queue, the input sender of
the session and the connection to the injection at the host. The sender of an
old session is not waited for, so two of them may drain the queue. It refines
**RemoteInput** (`InOrder`): lines are injected in the order they were emitted,
each at most once.

**Playback** - `VideoDecoder`: the receiver thread queues, the callback thread
submits and recovers, the UI thread swaps surfaces, the session releases. What a
unit refers to is kept as one bit per unit: whether units before it were dropped,
and whether the queue knew.

**KeyframeLoop** - encoder, server, network, receiver and decoder at the level
of access units, with the requests that go back. Each part is the abstraction of
the module it has of its own; what is checked here is that they work together.
A unit is first in the capture thread's hands, encoded and not yet broadcast;
the sender thread may drop the queue meanwhile. Both threads drop under the lock
and ask for a keyframe after it (`owes`), so that units may be refused while no
keyframe is asked for, and a keyframe may be encoded that answers an older request.
What `broadcast_video` refuses at once has no sequence numbers and leaves no gap;
what it drops later has and does. `cut` and `missing` are history: whether the next
unit at the server, and at the receiver, depends on one that was dropped or lost.

**VideoStream** - what a decoder is promised: later and later units, each one a
keyframe or the direct successor of the one shown before it. RtpReceiver
refines it (`DecodableStream`).

`...Proofs` modules hold the proofs; `MC...` modules and their cfgs the
instances. A definition named `X_Something` is a mutant of `X`: a plausible bug
under which one of the properties fails, which shows that the property says
something about `X`.

Who stands on whom: what RtpServer promises as a PacketStream is the environment of
RtpReceiver, RtpReceiver's `DecodableStream` that of Playback, and the three meet again in
KeyframeLoop. Session says when a connection exists that RtpServer, InputPath
and the receiver are given.

## 3. What is model-checked

| run | question | bounds |
|---|---|---|
| rtp | the server refines PacketStream; queue, repairs, recovery and pacer; repairs do not starve video | 2 connections, 2 access units of 1, 2 or 4 packets, queue limit 3, 1 repair, 2 bitrates |
| wait | no lost wake-up, orderly shutdown, frames are taken | 2 frames, 2 repairs |
| abr | the controller, recovery included | ceiling 50, floor 40, cooldown 2, clean spell 3 |
| gtk | one child, always known; what is stopped has its timer and ends | 3 children, 2 timers at once, pipe of 1.5 buffers |
| pipeline | the start, every way it can fail, the run and the end of `main()`; the buffer exchange within it | both kinds of source, 2 monitors, 2 codecs, 2 formats, 2 frames, failing allocations |
| session | nothing stale is read, a client gets back in, both ends can be stopped | 2 sessions, backlog 1 |
| input | refinement of RemoteInput, aim, no lost wakeup | 3 UI events, 2 sessions, queue limit 2, 1 failing injection |
| play | what the codec is given; the picture returns | queue limit 2, wedge after 2, 1 retry, 1 buffer, 1 waiting recovery |
| keyframes | no unit is queued or shown without its reference; requests and periodic keyframes bring the picture back | 2 units on their way, one in hand |
| rx | the receiver refines VideoStream | 3 access units, numbers modulo 16 starting at 14, jitter limit 2, NACK limit 2, frame limit 2 packets |

Why these are enough. *rtp*: units of 1 and 2 packets fill the queue, two of 2
overflow it, one of 4 is refused outright; a second connection is what anything
left of the first can leak into. Two bitrates let a change meet connect and
disconnect; longer chains of units are the business of the proofs, which cover
all but `VideoNotStarved`;
the burst limit of 1 is reached at once. *abr*: from 50 a cut falls
to the floor (30 raised to 40) and raises pass through 43, 46 and 49 to be cut
off at 50, so floor, ceiling, truncation and both timers matter. *gtk*: a third
child is needed to see a timer outlive one child and meet the next twice.
*pipeline*: two monitors are one of the desktop and one the Mutter session
hosts, the second codec is what the encoder falls back to, two sizes make a
renegotiation that moves every buffer, and of two frames one may wait while the
other is lent; what more monitors, formats and frames do is proved. *rx*: the numbers
wrap inside the second unit at the latest; a unit of three packets exceeds the
frame limit; a held packet beyond the second exceeds the jitter limit; a gap of
3 exceeds the NACK limit. `Reach` is below half of `SeqMod`, as the code's
16-bit arithmetic presumes.

*session*: two sessions are an old and a new activity of one monitor; with the
one place of the backlog taken by a connection given up, the next one is shut
out. *input*: three events make a press, a move and a release or a release lost
to a full queue of two; two sessions make two senders. *play*: a second dropped
keyframe declares the codec wedged, one retry and then giving up, one buffer
makes the codec wait. *keyframes*: a unit that is lost and the one behind it,
and a third that is encoded meanwhile; 416 032 states. *rtp* has 2 356 584 states,
*pipeline* 310 222.

Type correctness is proved of every module and not checked again, but where it is
part of another property (`Undamaged`).

Deadlock is checked where the code never stops (abr, rx). In the other runs the
bounds or the shutdown end the behaviour, and CHECK_DEADLOCK is off.

**Fairness.** rtp: the sender thread is scheduled; nothing is promised of
clients, capture or network. wait: every thread that can run does, the capture
thread leaves its loop when told to, and the signaling thread finishes
`on_disconnect` when its socket is shut down; no frame, client, NACK or spurious
wake-up is promised. pipeline: `main()` goes on, because each of its waits has a
limit but the joins; the audio thread ends once `g_stop` is set, the capture
thread ends an encoding it began and its loop when told to; of portal, Mutter,
PipeWire and the user before the dialog nothing is promised. The sender thread of the
server ends once it has been told, and nothing wakes one that missed it:
`StopsWhenAsked` says that the streamer ends *or that thread sleeps for ever*. abr: the RTCP thread's timer and the capture thread's tick
go on; `CreepsBackUp` states the good link as its premise. gtk: GLib dispatches
a due timer or child exit before it polls again (strong fairness: output may
interrupt, not overtake for ever), the kernel ends a killed process; nobody
promises that a child obeys SIGTERM. session: worker, accept thread and
`Server::stop()` are scheduled and their time-outs fire, and not every probe is
lost while the streamer is there to answer (strong fairness of `Discover`);
nothing of activities, the link or the streamer's life, which `Reconnects` takes
as its premise. input: none, all its properties are safety. play: threads run,
posted tasks are served although codec callbacks compete (strong fairness), and
keyframes go on coming, every two seconds by `encoder.cpp:98`; `calm` is the
premise that codec and surface stop failing, after which a healthy codec takes
units no slower than they come. keyframes: ticks, broadcasts, the
requests a thread owes, arrivals and throttle intervals go on (a capture thread that
ends is RtpServer's `NeverAbandoned`); `calm` ends all loss, and that a keyframe comes unasked is the
premise of `PictureComes` only.

## 4. What is proved

For all constants that satisfy the modules' assumptions:

| theorem | says | argument |
|---|---|---|
| RtpServerProofs `TypeCorrect` | types; repair queue and burst never exceed their limits | a lemma per thread |
| `PacerAlwaysMatches` | the share in the pacer is the bitrate exactly while a peer streams | `PeerInv`: streaming implies that the signaling thread serves someone; inductive together |
| `RecoveryAlwaysArmed` | while the capture thread is in its loop, an awaited keyframe is on its way | inductive with `PeerInv` |
| `WireAlwaysChained`, `OnlyOwnConnection` | what is sent is decodable and the connection's own | `ChainInv` |
| `ImplementsPacketStream` | RtpServer refines PacketStream | `ChainInv`, and `Ascending`: ids rise along wire, hand and queue; then step by step |
| `AlwaysTowardsEnd` | every step of the sender brings the frame in its hands nearer to its end, and no other thread sets it back | a lexicographic measure of packets, burst and repairs |
| `RepairsAlwaysRepeat` | a retransmission repeats what this peer was sent | `ChainInv` and `RepairInv` |
| `QueueAlwaysAccounted` | the counter of queued packets is exact | `CountInv` |
| SenderWaitProofs `TypeCorrect`, `NothingForgotten`, `SocketStaysOpen` | bounds; no lost wake-up for work; the socket is closed last | `LockInv`, `JoinInv` |
| StreamerControlProofs `TypeCorrect`, `AlwaysOwnChild` | one child, known to the panel; no foreign pipe is polled | inductive with the types of the child table |
| `AlwaysEscalates` | a child that was told to stop and still runs has a timer, and a timer that fires kills it | inductive with `OwnChild`: no other child may be the one the timer finds |
| FrameSourceProofs `TypeCorrect`, `AlwaysLentExclusively` | the lent frame is no buffer the capture stream touches, unless a failed delivery has freed it | the buffers are distinct, and the lent one is out_ while there is an out_ (`Lent`) |
| `NeverAnOlderFrame` | a pull that reports a new frame hands over the newest captured one or a blank buffer (`NewestOrBlank`, an action property) | `Inv` and `Newest`: what the flag announces is in front_ |
| `ImplementsFrameSource`, `AlwaysLentInPipeline`, `NeverOlderInPipeline` | the pipeline is a frame source, so what holds of that holds in the program | step by step: no step of `main()` touches a buffer but through FrameSource |
| `PipelineTypeCorrect`, `AlwaysReleased`, `AlwaysTargetsAlive`, `InputAlwaysGranted`, `AlwaysRightNode` | nothing is left behind or used when gone; capture and injection belong to the session granted last | `Alive` |
| `AlwaysTowardsExit` | every step of `main()`, failures included, brings it nearer to its end; `stop()` finds what to give back next; only threads told to end are joined, and the sender thread, which may have missed it | the measure `StepsLeft`; `Alive`, and `Told` for the threads |
| QuestSessionProofs `TypeCorrect` | types of InputPath, and the limit of its queue | `FlowInv` and the types of the toolbar switch |
| `AlwaysWaitsRightly` | no lost wakeup of an input sender across sessions | `WaitInv` |
| `PressesAlwaysAimed`, `AlwaysMirrored` | clicks land where they were aimed, and the host's button follows the finger, unless a line was lost | `FlowInv` |
| `InputInOrder` | InputPath refines RemoteInput: in order, at most once | `Order` in `FlowInv`, and what an injection maps to |
| `SessionTypeCorrect` | types of Session, no more connections wait than the backlog holds | `LifeInv` |
| `AlwaysInStep` | what a worker can read is the one answer it waits for, or nothing | `DialogInv` |
| `AlwaysStopsClean` | `Server::stop()` joins no thread that somebody could hold, and leaves nothing open | `DialogInv` |
| `AlwaysTowardsJoin` | the accept thread that is joined waits for nobody, has a few steps left and is never sent back | a measure of its steps, with `DialogInv` |
| `AlwaysTowardsWorkerEnd` | a stopped session stays so, and its worker has a few steps left, wherever `stop()` met it | the measure `WorkLeft`, with `LifeInv` |
| PlaybackProofs `TypeCorrect` | types and limits of the decoder | `Lent`: where the codec's input buffers are |
| `AlwaysChainHolds` | no unit reaches the codec whose reference the queue dropped | `ChainInv` of the decoder |
| RtpReceiverProofs `TypeCorrect`, `NothingStaleHeld` | types; what the jitter buffer holds is ahead, at its true position | `Numbers` and `Held`: unwrapping is exact within half the number space |
| `GapsAlwaysReported` | what is skipped within reach was asked for | `Reported` |
| `ImplementsVideoStream` | RtpReceiver refines VideoStream: whole units, in order, each with its reference | `Fed`: the depacketizer after the last packet it was fed |
| FeedbackProofs `TypeCorrect`, `RatesStayInRange`, `DecisionsArrive`, `RaisesAreEarned` | the controller's safety | `RangeInv`, `ArriveInv`, `CleanInv` |
| `AlwaysClimbs` | on a clean link nothing lowers the rate, only a raise ends a clean spell, and below the ceiling each report makes one of them grow | `RangeInv`; no raise is truncated to nothing |
| `AlwaysUndamaged` | from encoder to decoder: nothing that depends on a dropped unit is queued, nothing that depends on a dropped or lost one is shown over a sound picture | `Known`: while a unit is missing to those that follow, the server, the receiver or the decoder knows |

`ChainInv` is the interesting one. `WireChain` alone is not inductive: whether
the next unit may follow depends on where the last one is. While the stream is
unbroken (`~awaiting_keyframe`) the unit before the next is at the end of the
queue, or in the sender's hands with the current generation, or last on the
wire and complete; the queue itself is a chain; outside a connection the queue
is empty and nothing live is in hand (`Clean`). Every drop, reset and cancelled
frame breaks one of these and must set `awaiting_keyframe` or change the
generation. `RepairInv` adds that every packet in the retransmit buffer, in the
repair queue with the current generation, or in hand, is on the wire.

The refinement of PacketStream is the same argument seen from outside. What
`ChainInv` does not say is that no unit is sent twice or early; `Ascending` does:
ids rise from the wire to the sender's hand to the queue to the capture thread's
next unit. A step of the sender that sends a packet is then `StartUnit` or
`ContinueUnit`, `on_connect()` is `Connect`, and every other step of the
threads stutters.

`QueueAccounting` is a sum over a sequence, and what a recursive sum computes
cannot be proved by induction here. `CountInv` avoids it: it says that a *running
total* exists, a function on 0 .. Len(send_q) that starts at 0, grows by the size
of each frame and ends with `queued_packets`. A push extends it, a pop shifts it
(which needs that totals never fall along the queue), and the sum of a queue that
has such a total is its end.

`LockInv` says that between a failed test and the wait the queues are still
empty, because the mutex is held; it is what the mutant `WaitTest_EarlyUnlock`
loses. `RaisesAreEarned` assumes floor <= ceiling, which the code does not
enforce (see MCBitrateControlLow.cfg).

`WaitInv` ties a waiting sender to the worker: it belongs to the last session,
which streams or is about to be closed and to wake it. It needs that the senders
of earlier sessions are interrupted: one of them that meets an empty queue then
ends instead of waiting where nobody would look for it.

`FlowInv` follows a line from gesture to injection. The places it can be in are in
the order wire, hand of the last session's sender, queue, UI thread; numbers rise
within each and from one to the next, and all are above the last one injected
(`Order`). What an earlier sender holds it can only lose. A press that is still on
its way has its position applied, or before it on its way, or lost (`Aim`); while
nothing is lost the newest press or release on its way, or without one the host's
button, tells what the finger does (`Mirror`).

`Known` says who knows that a unit is missing to the next. Before the queue it is the
server: `cut` implies `awaiting_keyframe_`, at every point between a drop, its request
and the units encoded in between. Behind the network it is the receiver, which has a
gap before the next packet or awaits a keyframe, or the decoder, whose chain is not
open or is broken already. What it does not say is that a keyframe has been requested:
that is not so between drop and request, and the way back is left to the two liveness
properties.

`DialogInv` follows the lines of signaling between the two ends. A connection the
streamer knows is in one place, the backlog or the accept thread's hands, and there
once (`QueuedOnce`, `Dialog`); until it is accepted nothing has been said on it, and
from then on the stage of its worker tells what is on its way in either direction
(`Agreed`). Whatever became of the connection, the worker's inbox holds the one line
it waits for or none (`InStepOf`), so nothing of an attempt it gave up is left.
`Serving` ties `client_fd_` to the connection in the accept thread's hands, and
`Stopping` what `stop()` has done to where that thread can be: one that comes from
`accept()` too late for the shutdown finds `running_` cleared before it reads.

`Alive` says for each stage of `main()` what exists: the source between
`make_source()` and the end (`SourceLife`), encoder, server and audio thread
(`MediaLife`), a prefix of the PipeWire objects (`Nested`, `ObjectLife`), a Mutter
session that is complete once the start has passed it (`MutterLife`), and which
portal session node, remote and injection come from (`PortalLife`). The last is
what the fallback endangers: a combined session that was granted in part leaves
`node_id` behind, and only the order of the later requests overwrites it before
it is used.

RtpReceiver's invariant has two phases: before the first packet (`Fresh`) and after
it (`Started`). `Fed` ties the depacketizer to the stream: it is between two units
or within one, and then its frame has every packet of the unit that was sent up to
the playout point, unless it is marked as damaged or the unit is the first one.
That a packet numbered through modulo `SeqMod` gets its true position back needs
only that arrivals lie within `Reach`, less than half of `SeqMod`.

Playback's `ChainInv` is about the front of the queue. `inputChainReady` is false
exactly while what went before is gone (`Closed`), every queued unit that follows
dropped ones is a keyframe (`Kept`), and while the codec has nothing to refer to,
or is about to be reset, what it will be given next is a keyframe (`KeyFirst`):
either the queue is empty and closed or a keyframe is at its front. `feed()` may
come between the reset's clearing of the queue and the reset itself; that is why
the second part must speak of a codec that still has its old references.

`TypeCorrect` of Playback needs to know where the codec's input buffers are: free,
about to be returned, or one in the callback thread's hand, and no more than the
codec has; only a codec that is well returns any.

**Liveness.** Fairness and ENABLED are beyond the prover, so the liveness
properties themselves stay with TLC. Their safety part is proved where it carries
the argument: that what is waited for comes nearer with each step of the thread
that is scheduled and is set back by nobody else, for any number of sessions,
monitors, children, packets and requests. What TLC adds is that the scheduled
steps stay enabled and so are taken.

| checked by TLC | its safety part, proved |
|---|---|
| `VideoNotStarved` | `AlwaysTowardsEnd` |
| `FramesAreTaken` | `NothingForgotten` |
| `CreepsBackUp` | `AlwaysClimbs` |
| `StopEndsChild` | `AlwaysEscalates` |
| `StopsWhenAsked` | `AlwaysTowardsExit` |
| `ServerStops` | `AlwaysTowardsJoin` |
| `WorkerEnds` | `AlwaysTowardsWorkerEnd` |
| `Reconnects`, `PictureReturns`, `RequestsRepair`, `PictureComes` | none: what they promise may be set back any number of times before the disturbance ends |

`AlwaysClimbs` asks for a floor of at least 13, since 8 % of less is nothing after
truncation; the code's floor is 2000 (`main.cpp`, `kAbrMinKbps`). It holds in units
of 1 kbps as in the coarser ones of the run.

Every invariant, every action property and every refinement that the passing runs
check is proved.

## 5. Where the code and its comments disagree

Two of these are runs that end in a counterexample, quoted in PROJECT.json:

* `wait_stop`: `stop()` clears `running_` and notifies without `send_mu_`. Both
  can fall between the sender's test and its wait; the join then never returns, and
  nor does `main()`: the exception of `StopsWhenAsked`.
* `gtk_kill`: the timer that escalates to SIGKILL is not cancelled when the child
  exits; it kills the child started within the next two seconds.

The modules show more. The properties below are stated and fail; PROJECT.json
lists no run for them, the cfg named reproduces the counterexample.

* RtpServer `NeverAbandoned` (MCRtpServerEnds.cfg): when `encode()` fails, or the
  source ends, the capture thread leaves its loop and the server goes on streaming to
  its client; a keyframe is awaited that nobody will produce, although one is to "land
  within one interval" (main.cpp:712). The flag may have been consumed by the failing
  call (encoder.cpp:353). `RecoveryArmed` therefore speaks of the time before.
* BitrateControl `NeverAboveCeiling` (MCBitrateControlLow.cfg): with `--bitrate`
  below 2000 a loss report *raises* the bitrate to the floor. The panel offers
  values from 200.
* FrameSource `ValidUntilNextCall` (MCFrameSourceStop.cfg, with `-continue`): at shutdown the source
  frees its buffers before the capture thread that encodes one is joined.
* FrameSource `OnlyCaptured` (MCFrameSourceBlank.cfg): a renegotiation between a
  capture and its pull leaves the "new" flag set over a blank buffer
  (portal_pipewire_source.cpp:480).
* FrameSource `PreviousFrameKept` and `ConsumerAlone` (MCFrameSourceAlloc.cfg, with
  `-continue`): a failed allocation reports "nothing new" after freeing the frame lent
  before (portal_pipewire_source.cpp:676). The capture thread encodes it all the same,
  and when a renegotiation is given that very memory, the PipeWire thread writes the
  frame being encoded: the exception of `LentExclusively`.
* FrameSource `ScalerFits` (MCFrameSourceStop.cfg): the cached scaler is keyed
  by pixel format alone and used after a change of size (encoder.cpp:300).
* StreamerControl `ReadsReturn` (MCStreamerControlRead.cfg): output that fills the
  4096-byte buffer exactly is followed by a blocking read that holds the main loop
  until the child writes again (main_window.cpp:482).
* StreamerControl `NoOrphan` (MCStreamerControlClose.cfg): closing the window sends
  SIGTERM only, and the timer that would escalate ends with the main loop
  (main_window.cpp:94).
* RtpReceiver `WholeUnits` (MCRtpReceiverFirst.cfg): if the first packets of the
  first unit are lost, the rest of it is handed to the decoder as a complete unit,
  since no keyframe is awaited at first. `DecodableStream` therefore counts the
  unit a connection starts with as a whole keyframe.
* Session `Released` (MCSessionReleased.cfg): an attempt that fails between READY
  and START leaves its receiver and decoders running (StreamSession.java:387);
  `RetrySucceeds` (MCSessionRetry.cfg): the codec left behind keeps the surface, and
  the retry that StreamSession.java:290 announces fails for ever.
* InputPath `AlwaysAimed` (MCInputPathLost.cfg, with `-continue`): "position before buttons, so a click
  lands where the cursor is" (SessionInputForwarder.java:57) does not hold when the
  position alone is lost, to a full queue or because input opens between the two
  lines; `NotStuck` (the same cfg): a lost release leaves the button down at
  the host, and nobody repeats it.
* Playback `InputChain` (MCPlaybackChain.cfg): "any dropped input closes it"
  (VideoDecoder.java:46) is not true of the first test of `feed()`, which drops a
  unit while recovering and leaves a chain open that a keyframe has opened since.
* KeyframeLoop `RequestsSuffice` (MCKeyframeLoopAlone.cfg): the session and the
  decoder ask for a keyframe once; a request that is lost, throttled, or deferred
  just after the first packet came is not repeated while the receiver itself is
  content. The picture then waits for the next periodic keyframe, and it does come
  (`PictureComes`).

## 6. What is not modelled, and why

* Left out of modelled components: option parsing and source selection (no
  state after start-up); the bytes of packets and codec settings; sender
  reports; receiver report statistics, the audio branch and `stop()` of the
  receiver; the eviction and 16-bit keys of the retransmit buffer; other mouse
  buttons than the primary one. Clocks are choices: a deadline, throttle or
  budget has passed or not. Floating-point factors are integer quotients with
  the code's truncation.
* Arithmetic on clocks without control: the token bucket of `pacer.hpp`, the
  schedule of output frames in `VideoDecoder.scheduleRender`.
* Audio: start, failure and end of its source, encoder and thread are in
  MonitorPipeline; the ring between two threads, partial frames and decoding are
  not. One hazard there is known and has no model: when the audio decoder
  could not be created, the first audio packet meets a null sink
  (RtpReceiver.java:303) and ends the receive thread.
* Discovery is the answer to a probe and its loss; the end of its loop after a
  receive error is left out.
* The portal, PipeWire, Mutter, FFmpeg, GLib, Android and the kernel are
  external: their part is what the code relies on. Of the D-Bus calls the order,
  the failures and the answers are modelled, not their option maps.
* Hazards that stay below the grain of these modules: `start()` polls the width in
  `fmt_` without the lock under which the PipeWire thread writes it
  (portal_pipewire_source.cpp:625), and the remote's descriptor is not closed when
  the context cannot be connected with it (557).
* Widgets, toolbar, key table and monitor count are user interface. Test sources
  and the dump tool are development aids; the desktop test client speaks an
  earlier protocol.
* A descriptor number reused between a close and the accept thread's next call.

## 7. Plan

Done: all of the modules above, their runs, and the proofs of every invariant,
action property and refinement the passing runs check.

Next, in this order:

1. **AudioPath** - the sample ring of `pipewire_audio_source.cpp`, the partial
   frames of the encoder and the audio branch of the receiver.
2. **Pacer** - the token bucket shared by the monitors, with time in ticks.
3. The safety part of `PictureReturns` and `Reconnects`: a measure of recovery that
   only a disturbance sets back.
