-------------------------- MODULE SenderWaitProofs --------------------------
(***************************************************************************)
(* Theorems about SenderWait, for every bound on the two queues.           *)
(***************************************************************************)
EXTENDS SenderWait, TLAPS

\* send_mu_ is held exactly between a failed test of the predicate and the wait,
\* and until it is released the queues stay as the test saw them: empty.
LockInv ==
  /\ snd = "block" => mu = TRUE
  /\ mu = TRUE => snd = "block"
  /\ snd = "block" => frames = 0 /\ resend = 0

\* What main() has passed once it has joined a thread.
JoinInv ==
  /\ main \in {"signaling", "flag", "notify", "join_rtcp", "join_sender",
               "close", "stopped"} => cap = "ended"
  /\ main \in {"notify", "join_rtcp", "join_sender", "close", "stopped"} =>
       running = FALSE
  /\ main \in {"join_sender", "close", "stopped"} => rtcp = "ended"
  /\ main \in {"close", "stopped"} => snd = "ended"
  /\ main = "starting" => cap = "ended"
  /\ udp = TRUE \/ main = "stopped"

Inv == TypeOK /\ LockInv /\ NoForgottenWork /\ JoinInv

LEMMA SenderInv == Inv /\ (Sender \/ SpuriousWakeup) => Inv'
<1> SUFFICES ASSUME Inv, Sender \/ SpuriousWakeup PROVE Inv'
  OBVIOUS
<1> USE SenderWaitAssumption
    DEF Inv, TypeOK, LockInv, NoForgottenWork, JoinInv, SndStates, CapStates,
        RtcpStates, MainStates
<1>1. CASE LoopTest
  BY <1>1 DEF LoopTest
<1>2. CASE WaitTest
  <2>1. mu' \in BOOLEAN
    BY <1>2 DEF WaitTest
  <2>2. CASE ~running \/ frames > 0 \/ resend > 0
    <3>1. mu' = FALSE /\ snd' \in {"ended", "repairs"} /\ snd = "lock"
      BY <1>2, <2>2 DEF WaitTest
    <3> QED
      BY <1>2, <2>1, <3>1 DEF WaitTest
  <2>3. CASE ~(~running \/ frames > 0 \/ resend > 0)
    <3>1. /\ mu' = TRUE /\ snd' = "block" /\ snd = "lock"
          /\ frames = 0 /\ resend = 0
      BY <1>2, <2>3 DEF WaitTest
    <3> QED
      BY <1>2, <2>1, <3>1 DEF WaitTest
  <2> QED
    BY <2>2, <2>3
<1>3. CASE Block
  <2>1. mu' \in BOOLEAN /\ mu' = FALSE /\ snd = "block" /\ snd' = "blocked"
    BY <1>3 DEF Block
  <2> QED
    BY <1>3, <2>1 DEF Block
<1>4. CASE TakeRepair
  BY <1>4 DEF TakeRepair
<1>5. CASE Pop
  BY <1>5 DEF Pop
<1>6. CASE SendFrame
  BY <1>6 DEF SendFrame
<1>7. CASE SendFails
  BY <1>7 DEF SendFails
<1>8. CASE SpuriousWakeup
  BY <1>8 DEF SpuriousWakeup
<1> QED
  BY <1>1, <1>2, <1>3, <1>4, <1>5, <1>6, <1>7, <1>8 DEF Sender

LEMMA OthersInv == Inv /\ (Capture \/ Peers) => Inv'
<1> SUFFICES ASSUME Inv, Capture \/ Peers PROVE Inv'
  OBVIOUS
<1> USE SenderWaitAssumption
    DEF Inv, TypeOK, LockInv, NoForgottenWork, JoinInv, SndStates, CapStates,
        RtcpStates, MainStates
<1>1. CASE Enqueue
  BY <1>1 DEF Enqueue
<1>2. CASE NotifySender
  BY <1>2 DEF NotifySender, Notify
<1>3. CASE CaptureEnds
  BY <1>3 DEF CaptureEnds
<1>4. CASE QueueRepair
  BY <1>4 DEF QueueRepair, Notify
<1>5. CASE RtcpEnds
  BY <1>5 DEF RtcpEnds
<1>6. CASE Ready \/ ForgetPeer
  BY <1>6 DEF Ready, ForgetPeer
<1>7. CASE ResetVideoQueue
  BY <1>7 DEF ResetVideoQueue
<1> QED
  BY <1>1, <1>2, <1>3, <1>4, <1>5, <1>6, <1>7 DEF Capture, Peers

LEMMA MainInv == Inv /\ Main => Inv'
<1> SUFFICES ASSUME Inv, Main PROVE Inv'
  OBVIOUS
<1> USE SenderWaitAssumption
    DEF Inv, TypeOK, LockInv, NoForgottenWork, JoinInv, SndStates, CapStates,
        RtcpStates, MainStates
<1>1. CASE Started \/ StartFails
  BY <1>1 DEF Started, StartFails
<1>2. CASE StopCapture \/ JoinCapture \/ StopSignaling
  BY <1>2 DEF StopCapture, JoinCapture, StopSignaling
<1>3. CASE ClearRunning
  BY <1>3 DEF ClearRunning
<1>4. CASE NotifyAll
  BY <1>4 DEF NotifyAll, Notify
<1>5. CASE JoinRtcp \/ JoinSender \/ CloseSocket
  BY <1>5 DEF JoinRtcp, JoinSender, CloseSocket
<1> QED
  BY <1>1, <1>2, <1>3, <1>4, <1>5 DEF Main

LEMMA Invariant == Spec => []Inv
<1>1. Init => Inv
  <2> SUFFICES ASSUME Init PROVE Inv
    OBVIOUS
  <2>1. running \in BOOLEAN /\ streaming \in BOOLEAN /\ mu \in BOOLEAN
        /\ udp \in BOOLEAN
    BY DEF Init
  <2>2. TypeOK
    BY <2>1, SenderWaitAssumption
    DEF Init, TypeOK, SndStates, CapStates, RtcpStates, MainStates
  <2>3. LockInv /\ NoForgottenWork /\ JoinInv
    BY DEF Init, LockInv, NoForgottenWork, JoinInv
  <2> QED
    BY <2>2, <2>3 DEF Inv
<1>2. Inv /\ [Next]_vars => Inv'
  <2>1. Inv /\ UNCHANGED vars => Inv'
    BY DEF vars, Inv, TypeOK, LockInv, NoForgottenWork, JoinInv
  <2> QED
    BY <2>1, SenderInv, OthersInv, MainInv DEF Next
<1> QED
  BY <1>1, <1>2, PTL DEF Spec

\* The bounds of the two queues, and the places of the four threads.
THEOREM TypeCorrect == Spec => []TypeOK
<1>1. Inv => TypeOK
  BY DEF Inv
<1> QED
  BY <1>1, Invariant, PTL

\* The sender thread never sleeps beside a frame or a repair that no thread is
\* about to notify it of.
THEOREM NothingForgotten == Spec => []NoForgottenWork
<1>1. Inv => NoForgottenWork
  BY DEF Inv
<1> QED
  BY <1>1, Invariant, PTL

\* RtpServer::stop() closes udp_fd_ after the last thread that uses it is gone.
THEOREM SocketStaysOpen == Spec => []SocketOutlivesThreads
<1>1. Inv => SocketOutlivesThreads
  BY DEF Inv, JoinInv, SocketOutlivesThreads
<1> QED
  BY <1>1, Invariant, PTL

=============================================================================
