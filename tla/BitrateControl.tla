--------------------------- MODULE BitrateControl ---------------------------
(***************************************************************************)
(* The loss-based bitrate controller of one monitor: the once-a-second     *)
(* part of RtpServer::nack_loop() that condenses receiver reports, NACKs   *)
(* and send drops into a pressure, the on_loss_report handler of main.cpp  *)
(* that turns it into a bitrate, Encoder::set_bitrate()/encode() that      *)
(* apply it on the capture thread, and the pacing rate that follows.       *)
(*                                                                         *)
(* A loss fraction is one of three grades, as the handler tells them       *)
(* apart: 0 below 0.5 %, 1 in between, 2 above 2 %.  Time advances in      *)
(* seconds, one at least between two runs of the periodic part.  Bitrates  *)
(* are in a unit of the instance's choice; products are truncated like     *)
(* static_cast<int>.                                                       *)
(***************************************************************************)
EXTENDS Integers

CONSTANTS
  MaxKbps,             \* --bitrate
  kAbrMinKbps,         \* the controller's floor (2000)
  kAbrDownCooldown,    \* seconds between two cuts (2)
  kAbrGrowAfterClean,  \* clean seconds before a raise (4)
  MaxGap               \* bound: seconds between two periodic runs

ASSUME BitrateControlAssumption ==
  /\ MaxKbps \in Nat \ {0} /\ kAbrMinKbps \in Nat \ {0}
  /\ kAbrDownCooldown \in Nat /\ kAbrGrowAfterClean \in Nat
  /\ MaxGap \in Nat \ {0}

VARIABLES
  \* RtpServer
  streaming,   \* peer_streaming_
  last_loss,   \* last_loss_, graded
  rr_age,      \* seconds since last_rr_; 2 stands for two or more
  trouble,     \* worst grade of the NACKs and drops not yet evaluated; -1: none
  \* the controller, under abr_mu
  abr_kbps,
  down_age,    \* seconds since abr_last_down, up to the cooldown
  clean_age,   \* seconds since abr_clean_since, up to kAbrGrowAfterClean
  \* the encoder
  pending,     \* pending_bitrate_kbps_; 0: none
  cfg_kbps,    \* cfg_.bitrate_kbps
  cap, want,   \* capture thread, and the bitrate it took from pending
  pacing,      \* pacing_kbps_
  \* history
  quiet,       \* seconds since a report that was not clean, up to the same limit
  refused      \* the last bitrate change was refused by the codec

serverVars  == <<streaming, last_loss, rr_age, trouble>>
controlVars == <<abr_kbps, down_age, clean_age, quiet>>
captureVars == <<cfg_kbps, cap, want, pacing, refused>>
vars == <<serverVars, controlVars, pending, captureVars>>

AtLeast(a, b) == IF a >= b THEN a ELSE b
AtMost(a, b)  == IF a <= b THEN a ELSE b

Cut(k)  == (k * 6) \div 10          \* kAbrCutFactor 0.6
Grow(k) == (k * 108) \div 100       \* kAbrGrowFactor 1.08

Init ==
  /\ streaming = FALSE
  /\ last_loss = 0 /\ rr_age = 2 /\ trouble = -1
  /\ abr_kbps = MaxKbps
  /\ down_age = 0 /\ clean_age = 0
  /\ pending = 0
  /\ cfg_kbps = MaxKbps
  /\ cap = "tick" /\ want = 0
  /\ pacing = MaxKbps
  /\ quiet = 0
  /\ refused = FALSE

-----------------------------------------------------------------------------
(* What the server learns between two periodic runs *)

\* READY and on_disconnect(): the loss figures are not reset.
StreamingChanges ==
  /\ streaming' = ~streaming
  /\ UNCHANGED <<last_loss, rr_age, trouble, controlVars, pending, captureVars>>

ReceiverReport ==
  /\ streaming
  /\ last_loss' \in 0 .. 2
  /\ rr_age' = 0
  /\ UNCHANGED <<streaming, trouble, controlVars, pending, captureVars>>

\* NACKs asking for some share of the packets sent, or frames dropped, which
\* counts as a pressure of 10 %.
NacksOrDrops ==
  /\ streaming
  /\ \E g \in 0 .. 2 : trouble' = AtLeast(trouble, g)
  /\ UNCHANGED <<streaming, last_loss, rr_age, controlVars, pending, captureVars>>

-----------------------------------------------------------------------------
(* The handler *)

\* Mutant of NextKbps: the ceiling is not applied to a raise.
NextKbps_NoCeiling(lost, down, clean) ==
  IF lost = 2 /\ down >= kAbrDownCooldown
  THEN AtLeast(kAbrMinKbps, Cut(abr_kbps))
  ELSE IF lost = 0 /\ clean >= kAbrGrowAfterClean /\ abr_kbps < MaxKbps
  THEN Grow(abr_kbps)
  ELSE abr_kbps

\* Mutant of NextKbps: growth stops one step short of the ceiling.
NextKbps_StopsShort(lost, down, clean) ==
  IF lost = 2 /\ down >= kAbrDownCooldown
  THEN AtLeast(kAbrMinKbps, Cut(abr_kbps))
  ELSE IF lost = 0 /\ clean >= kAbrGrowAfterClean /\ Grow(abr_kbps) < MaxKbps
  THEN Grow(abr_kbps)
  ELSE abr_kbps

\* The bitrate after a report of grade lost, with the ages of the two timers.
NextKbps(lost, down, clean) ==
  IF lost = 2 /\ down >= kAbrDownCooldown
  THEN AtLeast(kAbrMinKbps, Cut(abr_kbps))
  ELSE IF lost = 0 /\ clean >= kAbrGrowAfterClean /\ abr_kbps < MaxKbps
  THEN AtMost(MaxKbps, Grow(abr_kbps))
  ELSE abr_kbps

\* Mutant of CleanAge: heavy loss restarts the clean timer only with a cut.
CleanAge_OnlyCuts(lost, down, clean) ==
  IF \/ lost = 2 /\ down >= kAbrDownCooldown
     \/ lost = 1
     \/ lost = 0 /\ clean >= kAbrGrowAfterClean /\ abr_kbps < MaxKbps
  THEN 0 ELSE clean

\* abr_clean_since is set by every report that is not clean, and by a raise.
CleanAge(lost, down, clean) ==
  IF \/ lost # 0
     \/ clean >= kAbrGrowAfterClean /\ abr_kbps < MaxKbps
  THEN 0 ELSE clean

\* on_loss_report(lost).
OnLossReport(lost, down, clean) ==
  /\ abr_kbps' = NextKbps(lost, down, clean)
  /\ pending' = IF abr_kbps' = abr_kbps THEN pending ELSE abr_kbps'
  /\ down_age' = IF lost = 2 /\ down >= kAbrDownCooldown THEN 0 ELSE down
  /\ clean_age' = CleanAge(lost, down, clean)

\* The periodic part of nack_loop(), dt seconds after the previous one.  Without
\* a peer the NACKs and drops seen so far wait for the next one.
Periodic ==
  \E dt \in 1 .. MaxGap :
    LET down  == AtMost(kAbrDownCooldown, down_age + dt)
        clean == AtMost(kAbrGrowAfterClean, clean_age + dt)
        calm  == AtMost(kAbrGrowAfterClean, quiet + dt)
        age   == AtMost(2, rr_age + dt)
        lost  == AtLeast(last_loss, trouble)
    IN  /\ rr_age' = age
        /\ trouble' = IF streaming THEN -1 ELSE trouble
        /\ IF streaming /\ (age < 2 \/ trouble # -1)
           THEN /\ OnLossReport(lost, down, clean)
                /\ quiet' = IF lost = 0 THEN calm ELSE 0
           ELSE /\ down_age' = down /\ clean_age' = clean /\ quiet' = calm
                /\ UNCHANGED <<abr_kbps, pending>>
        /\ UNCHANGED <<streaming, last_loss, captureVars>>

-----------------------------------------------------------------------------
(* Capture thread *)

\* encode() takes the pending bitrate with one exchange ...
TakePending ==
  /\ cap = "tick" /\ streaming
  /\ want' = pending
  /\ pending' = 0
  /\ cap' = "apply"
  /\ UNCHANGED <<serverVars, controlVars, cfg_kbps, pacing, refused>>

\* Mutant of Reconfigure: clears whatever is pending once it has applied want.
Reconfigure_ClearsPending ==
  /\ cap = "apply"
  /\ want' = 0
  /\ pending' = 0
  /\ \/ cfg_kbps' = (IF want > 0 THEN want ELSE cfg_kbps) /\ refused' = FALSE
     \/ want > 0 /\ want # cfg_kbps /\ cfg_kbps' = cfg_kbps /\ refused' = TRUE
  /\ cap' = "sink"
  /\ UNCHANGED <<serverVars, controlVars, pacing>>

\* ... and applies it, or keeps the previous encoder when the codec cannot be
\* reopened.
Reconfigure ==
  /\ cap = "apply"
  /\ want' = 0
  /\ IF want > 0 /\ want # cfg_kbps
     THEN \/ cfg_kbps' = want /\ refused' = FALSE
          \/ cfg_kbps' = cfg_kbps /\ refused' = TRUE
     ELSE /\ cfg_kbps' = cfg_kbps
          /\ refused' = (refused /\ want = 0)
  /\ cap' = "sink"
  /\ UNCHANGED <<serverVars, controlVars, pending, pacing>>

\* The packet sink: set_pacing_bitrate(encoder.bitrate_kbps()).
SetPacing ==
  /\ cap = "sink"
  /\ pacing' = cfg_kbps
  /\ cap' = "tick"
  /\ UNCHANGED <<serverVars, controlVars, pending, cfg_kbps, want, refused>>

Capture == TakePending \/ Reconfigure \/ SetPacing

Next ==
  \/ StreamingChanges \/ ReceiverReport \/ NacksOrDrops \/ Periodic \/ Capture

Spec == Init /\ [][Next]_vars

\* The RTCP thread's clock runs; the capture thread ticks while a peer streams.
FairSpec == Spec /\ WF_vars(Periodic) /\ WF_vars(Capture)

-----------------------------------------------------------------------------
(* Properties *)

TypeOK ==
  /\ streaming \in BOOLEAN
  /\ last_loss \in 0 .. 2 /\ rr_age \in 0 .. 2 /\ trouble \in -1 .. 2
  /\ abr_kbps \in Nat /\ pending \in Nat /\ cfg_kbps \in Nat /\ want \in Nat
  /\ pacing \in Nat
  /\ down_age \in 0 .. kAbrDownCooldown
  /\ clean_age \in 0 .. kAbrGrowAfterClean /\ quiet \in 0 .. kAbrGrowAfterClean
  /\ cap \in {"tick", "apply", "sink"}
  /\ refused \in BOOLEAN

\* Every rate in the pipeline, the one on its way to the encoder included, lies
\* between the floor and the configured rate, in either order.
RatesInRange ==
  \A k \in {abr_kbps, cfg_kbps, pacing} \cup ({pending, want} \ {0}) :
    AtMost(kAbrMinKbps, MaxKbps) <= k /\ k <= AtLeast(kAbrMinKbps, MaxKbps)

\* No decision of the controller is lost between the RTCP thread and the capture
\* thread: the encoder has it, or is given it with its next frame, unless the
\* codec refused it.
DecisionArrives ==
  \/ cfg_kbps = abr_kbps /\ pending = 0 /\ want = 0
  \/ pending = abr_kbps
  \/ want = abr_kbps /\ pending = 0
  \/ refused /\ pending = 0 /\ want = 0

\* The rate rises only after kAbrGrowAfterClean seconds without a report of
\* loss, a report that came during the cooldown included.
RaisesOnlyWhenClean ==
  [][abr_kbps' > abr_kbps => quiet' >= kAbrGrowAfterClean]_vars

\* "on a sustained clean link we creep back up toward the configured maximum"
\* (main.cpp:249): clean reports that keep coming restore the configured rate
\* for good.
CreepsBackUp ==
  (/\ <>[](streaming /\ last_loss = 0 /\ trouble \in {-1, 0})
   /\ []<><<Periodic /\ rr_age' < 2>>_vars)
  => <>[](abr_kbps >= MaxKbps)

\* "Ceiling for the loss-based bitrate controller" (main.cpp:76): the controller
\* never asks for more than --bitrate.
NeverAboveCeiling == abr_kbps <= MaxKbps

=============================================================================
