----------------------------- MODULE SenderWait -----------------------------
(***************************************************************************)
(* How the sender thread of RtpServer sleeps, is woken and is stopped: the *)
(* condition variable send_cv_, the mutex send_mu_ it goes with, and       *)
(* RtpServer::stop().  RtpServer models what the queues hold; here they    *)
(* are counters, and the lock and the wait are taken apart instead.        *)
(*                                                                         *)
(* std::condition_variable::wait(lock, pred) tests pred with the mutex     *)
(* held and then, if it is false, becomes a waiter and releases the mutex  *)
(* in one step.  A notification reaches only a thread that is a waiter     *)
(* already.  A waiter may also wake for no reason.                         *)
(***************************************************************************)
EXTENDS Naturals

CONSTANTS
  MaxFrames,     \* bound: frames in send_q_
  MaxRepairs     \* bound: packets in repair_q_

ASSUME SenderWaitAssumption == MaxFrames \in Nat \ {0} /\ MaxRepairs \in Nat

VARIABLES
  running,    \* running_
  streaming,  \* peer_streaming_
  frames,     \* number of frames in send_q_
  resend,     \* number of packets in repair_q_
  mu,         \* the sender thread holds send_mu_ between its test and its wait
  snd,        \* sender thread
  cap,        \* capture thread: broadcast_video()
  rtcp,       \* NACK thread
  main,       \* the thread that calls stop()
  udp         \* udp_fd_ is open

vars == <<running, streaming, frames, resend, mu, snd, cap, rtcp, main, udp>>

SndStates  == {"loop", "lock", "block", "blocked", "repairs", "sending", "ended"}
CapStates  == {"idle", "notify", "ended"}
RtcpStates == {"loop", "ended"}
MainStates == {"starting", "serving", "join_capture", "signaling", "flag",
               "notify", "join_rtcp", "join_sender", "close", "stopped"}

Init ==
  /\ running = TRUE
  /\ streaming = FALSE
  /\ frames = 0
  /\ resend = 0
  /\ mu = FALSE
  /\ snd = "loop"
  /\ cap = "ended"
  /\ rtcp = "loop"
  /\ main = "starting"
  /\ udp = TRUE

\* send_cv_.notify_one() and notify_all(): there is one waiter at most, and it
\* has to take the mutex and test its predicate again.
Notify == snd' = IF snd = "blocked" THEN "lock" ELSE snd

-----------------------------------------------------------------------------
(* Sender thread *)

\* while (running_)
LoopTest ==
  /\ snd = "loop"
  /\ snd' = IF running THEN "lock" ELSE "ended"
  /\ UNCHANGED <<running, streaming, frames, resend, mu, cap, rtcp, main, udp>>

\* Mutant of WaitTest: the mutex is released before the thread is a waiter.
WaitTest_EarlyUnlock ==
  /\ snd = "lock"
  /\ IF ~running \/ frames > 0 \/ resend > 0
     THEN snd' = IF running THEN "repairs" ELSE "ended"
     ELSE snd' = "block"
  /\ mu' = FALSE
  /\ UNCHANGED <<running, streaming, frames, resend, cap, rtcp, main, udp>>

\* The predicate of the wait, with the mutex held.
WaitTest ==
  /\ snd = "lock"
  /\ IF ~running \/ frames > 0 \/ resend > 0
     THEN snd' = (IF running THEN "repairs" ELSE "ended") /\ mu' = FALSE
     ELSE snd' = "block" /\ mu' = TRUE
  /\ UNCHANGED <<running, streaming, frames, resend, cap, rtcp, main, udp>>

\* The thread becomes a waiter and the mutex is released.
Block ==
  /\ snd = "block"
  /\ snd' = "blocked"
  /\ mu' = FALSE
  /\ UNCHANGED <<running, streaming, frames, resend, cap, rtcp, main, udp>>

SpuriousWakeup ==
  /\ snd = "blocked"
  /\ snd' = "lock"
  /\ UNCHANGED <<running, streaming, frames, resend, mu, cap, rtcp, main, udp>>

\* send_repairs() between the wait and the pop, and before each packet.
TakeRepair ==
  /\ snd \in {"repairs", "sending"}
  /\ running
  /\ resend > 0
  /\ resend' = resend - 1
  /\ UNCHANGED <<running, streaming, frames, mu, snd, cap, rtcp, main, udp>>

\* The pop: the queue may have been emptied since the wait ended.  The burst of
\* repairs before it takes four of them at most, or none when stopping.
Pop ==
  /\ snd = "repairs"
  /\ IF frames = 0
     THEN snd' = "loop" /\ frames' = frames
     ELSE snd' = "sending" /\ frames' = frames - 1
  /\ UNCHANGED <<running, streaming, resend, mu, cap, rtcp, main, udp>>

\* The popped frame is sent, cancelled, or cut short because running_ is false.
SendFrame ==
  /\ snd = "sending"
  /\ snd' = "loop"
  /\ UNCHANGED <<running, streaming, frames, resend, mu, cap, rtcp, main, udp>>

\* A packet was late or refused: everything queued is dropped.
SendFails ==
  /\ snd = "sending"
  /\ streaming
  /\ frames' = 0
  /\ resend' = 0
  /\ snd' = "loop"
  /\ UNCHANGED <<running, streaming, mu, cap, rtcp, main, udp>>

Sender ==
  \/ LoopTest \/ WaitTest \/ Block \/ TakeRepair \/ Pop
  \/ SendFrame \/ SendFails

-----------------------------------------------------------------------------
(* Capture thread: the queue is changed under the lock, then the sender is    *)
(* notified without it.                                                       *)

\* Mutant of Enqueue: the early return that skips the notification.
Enqueue_NoNotify ==
  /\ cap = "idle"
  /\ streaming /\ ~mu
  /\ \/ frames' \in {frames, frames + 1} \cap 0 .. MaxFrames /\ resend' = resend
     \/ frames' \in {0, 1} /\ resend' = 0
  /\ UNCHANGED <<running, streaming, mu, snd, cap, rtcp, main, udp>>

\* broadcast_video(): the access unit is queued or refused, after everything
\* queued was dropped or not.
Enqueue ==
  /\ cap = "idle"
  /\ streaming /\ ~mu
  /\ \/ frames' \in {frames, frames + 1} \cap 0 .. MaxFrames /\ resend' = resend
     \/ frames' \in {0, 1} /\ resend' = 0
  /\ cap' = "notify"
  /\ UNCHANGED <<running, streaming, mu, snd, rtcp, main, udp>>

NotifySender ==
  /\ cap = "notify"
  /\ Notify
  /\ cap' = "idle"
  /\ UNCHANGED <<running, streaming, frames, resend, mu, rtcp, main, udp>>

\* The loop ends on p->running, or because the source or the encoder failed.
CaptureEnds ==
  /\ cap = "idle"
  /\ cap' = "ended"
  /\ UNCHANGED <<running, streaming, frames, resend, mu, snd, rtcp, main, udp>>

Capture == Enqueue \/ NotifySender \/ CaptureEnds

-----------------------------------------------------------------------------
(* NACK thread and signaling thread *)

\* retransmit(): pushes and notifies with the lock held.
QueueRepair ==
  /\ rtcp = "loop" /\ running
  /\ streaming /\ ~mu
  /\ resend < MaxRepairs
  /\ resend' = resend + 1
  /\ Notify
  /\ UNCHANGED <<running, streaming, frames, mu, cap, rtcp, main, udp>>

\* while (running_), tested at least every 200 ms.
RtcpEnds ==
  /\ rtcp = "loop"
  /\ ~running
  /\ rtcp' = "ended"
  /\ UNCHANGED <<running, streaming, frames, resend, mu, snd, cap, main, udp>>

\* READY, as long as the accept thread has not been joined.
Ready ==
  /\ main \in {"serving", "join_capture", "signaling"}
  /\ streaming' = TRUE
  /\ UNCHANGED <<running, frames, resend, mu, snd, cap, rtcp, main, udp>>

\* on_disconnect() and on_connect() forget the peer, and reset_video_queue()
\* empties the queues once the lock is free.
ForgetPeer ==
  /\ main \in {"serving", "join_capture", "signaling"}
  /\ streaming' = FALSE
  /\ UNCHANGED <<running, frames, resend, mu, snd, cap, rtcp, main, udp>>

ResetVideoQueue ==
  /\ main \in {"serving", "join_capture", "signaling"}
  /\ ~streaming /\ ~mu
  /\ frames' = 0
  /\ resend' = 0
  /\ UNCHANGED <<running, streaming, mu, snd, cap, rtcp, main, udp>>

Peers == QueueRepair \/ RtcpEnds \/ Ready \/ ForgetPeer \/ ResetVideoQueue

-----------------------------------------------------------------------------
(* The end of main() and RtpServer::stop() *)

\* start(): the NACK and sender threads run already when the signaling port is
\* bound; the capture thread is started once it is.
Started ==
  /\ main = "starting"
  /\ main' = "serving"
  /\ cap' = "idle"
  /\ UNCHANGED <<running, streaming, frames, resend, mu, snd, rtcp, udp>>

\* start() fails: running_ = false, and the destructor calls stop().
StartFails ==
  /\ main = "starting"
  /\ running' = FALSE
  /\ main' = "flag"
  /\ UNCHANGED <<streaming, frames, resend, mu, snd, cap, rtcp, udp>>

\* p->running = false; the capture thread is joined before the server stops.
StopCapture ==
  /\ main = "serving"
  /\ main' = "join_capture"
  /\ UNCHANGED <<running, streaming, frames, resend, mu, snd, cap, rtcp, udp>>

JoinCapture ==
  /\ main = "join_capture"
  /\ cap = "ended"
  /\ main' = "signaling"
  /\ UNCHANGED <<running, streaming, frames, resend, mu, snd, cap, rtcp, udp>>

\* signaling_.stop() joins the accept thread: if a client was connected its
\* on_disconnect() is over.
StopSignaling ==
  /\ main = "signaling"
  /\ ~streaming /\ frames = 0 /\ resend = 0
  /\ main' = "flag"
  /\ UNCHANGED <<running, streaming, frames, resend, mu, snd, cap, rtcp, udp>>

\* running_ = false, without send_mu_.
ClearRunning ==
  /\ main = "flag"
  /\ running' = FALSE
  /\ main' = "notify"
  /\ UNCHANGED <<streaming, frames, resend, mu, snd, cap, rtcp, udp>>

\* send_cv_.notify_all(), without send_mu_.
NotifyAll ==
  /\ main = "notify"
  /\ Notify
  /\ main' = "join_rtcp"
  /\ UNCHANGED <<running, streaming, frames, resend, mu, cap, rtcp, udp>>

JoinRtcp ==
  /\ main = "join_rtcp"
  /\ rtcp = "ended"
  /\ main' = "join_sender"
  /\ UNCHANGED <<running, streaming, frames, resend, mu, snd, cap, rtcp, udp>>

\* Mutant of JoinSender: the socket is closed first.
JoinSender_NotJoined ==
  /\ main = "join_sender"
  /\ main' = "close"
  /\ UNCHANGED <<running, streaming, frames, resend, mu, snd, cap, rtcp, udp>>

JoinSender ==
  /\ main = "join_sender"
  /\ snd = "ended"
  /\ main' = "close"
  /\ UNCHANGED <<running, streaming, frames, resend, mu, snd, cap, rtcp, udp>>

CloseSocket ==
  /\ main = "close"
  /\ udp' = FALSE
  /\ main' = "stopped"
  /\ UNCHANGED <<running, streaming, frames, resend, mu, snd, cap, rtcp>>

Main ==
  \/ Started \/ StartFails
  \/ StopCapture \/ JoinCapture \/ StopSignaling \/ ClearRunning
  \/ NotifyAll \/ JoinRtcp \/ JoinSender \/ CloseSocket

Next == Sender \/ SpuriousWakeup \/ Capture \/ Peers \/ Main

Spec == Init /\ [][Next]_vars

\* Every thread runs, the capture thread leaves its loop when told to, and the
\* signaling thread finishes on_disconnect() when its socket is shut down.
\* Nobody promises a frame, a client, a NACK or a spurious wakeup.
Fairness ==
  /\ WF_vars(LoopTest) /\ WF_vars(WaitTest) /\ WF_vars(Block)
  /\ WF_vars(Pop) /\ WF_vars(SendFrame)
  /\ WF_vars(NotifySender) /\ WF_vars(main = "join_capture" /\ CaptureEnds)
  /\ WF_vars(RtcpEnds)
  /\ WF_vars(main = "signaling" /\ streaming /\ ForgetPeer)
  /\ WF_vars(main = "signaling" /\ (frames > 0 \/ resend > 0) /\ ResetVideoQueue)
  /\ WF_vars(main # "serving" /\ Main)

FairSpec == Spec /\ Fairness

-----------------------------------------------------------------------------
(* Properties *)

TypeOK ==
  /\ running \in BOOLEAN /\ streaming \in BOOLEAN
  /\ frames \in 0 .. MaxFrames /\ resend \in 0 .. MaxRepairs
  /\ mu \in BOOLEAN
  /\ snd \in SndStates /\ cap \in CapStates /\ rtcp \in RtcpStates
  /\ main \in MainStates
  /\ udp \in BOOLEAN

\* The sender never sleeps beside work nobody will tell it of: when it is a
\* waiter while a queue holds something, the capture thread is between its
\* unlock and its notification.
NoForgottenWork ==
  snd = "blocked" /\ (frames > 0 \/ resend > 0) => cap = "notify"

\* stop() closes the socket only when no thread that sends or receives on it is
\* left ("Join the sender before closing the socket it writes to").
SocketOutlivesThreads ==
  ~udp => snd = "ended" /\ rtcp = "ended" /\ cap = "ended"

\* A queued frame is taken from the queue, by the sender or by a reset.
FramesAreTaken == (frames > 0) ~> (frames = 0 \/ snd = "sending")

\* The comment on stop(), "wake the sender thread out of its wait": once stop()
\* has cleared running_, it returns.
StopReturns == (main = "notify") ~> (main = "stopped")

=============================================================================
