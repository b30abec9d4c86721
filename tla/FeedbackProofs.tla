--------------------------- MODULE FeedbackProofs ---------------------------
(***************************************************************************)
(* Theorems about the two loops of feedback from the client to the         *)
(* encoder: BitrateControl, for every configured rate, floor and timer,    *)
(* and KeyframeLoop, for any number of units on their way.                 *)
(***************************************************************************)
EXTENDS BitrateControl, KeyframeLoop, TLAPS

\* A rate between the floor and the configured rate, in either order.
InRange(k) ==
  /\ AtMost(kAbrMinKbps, MaxKbps) <= k
  /\ k <= AtLeast(kAbrMinKbps, MaxKbps)

RangeInv ==
  /\ InRange(abr_kbps) /\ InRange(cfg_kbps) /\ InRange(pacing)
  /\ pending # 0 => InRange(pending)
  /\ want # 0 => InRange(want)

\* DecisionArrives with what makes it inductive: the capture thread holds a
\* bitrate only between its two steps.
ArriveInv == DecisionArrives /\ (cap # "apply" => want = 0)

\* The clean timer of the code never runs ahead of the time without loss.
CleanInv == clean_age <= quiet

\* One decision keeps the rate in range and does not invent a raise.
LEMMA NextKbpsBounds ==
  ASSUME abr_kbps \in Nat, InRange(abr_kbps), NEW lost, NEW down, NEW clean
  PROVE  /\ NextKbps(lost, down, clean) \in Nat
         /\ InRange(NextKbps(lost, down, clean))
         /\ \/ lost = 2
            \/ NextKbps(lost, down, clean) = abr_kbps
            \/ lost = 0 /\ clean >= kAbrGrowAfterClean
<1>1. Cut(abr_kbps) \in Nat /\ Cut(abr_kbps) <= abr_kbps
  BY DEF Cut
<1>2. Grow(abr_kbps) \in Nat /\ abr_kbps <= Grow(abr_kbps)
  BY DEF Grow
<1>3. CASE lost = 2 /\ down >= kAbrDownCooldown
  BY <1>1, <1>3, BitrateControlAssumption
  DEF NextKbps, InRange, AtLeast, AtMost
<1>4. CASE ~(lost = 2 /\ down >= kAbrDownCooldown)
  BY <1>2, <1>4, BitrateControlAssumption
  DEF NextKbps, InRange, AtLeast, AtMost
<1> QED
  BY <1>3, <1>4

LEMMA TypePeriodic == TypeOK /\ RangeInv /\ Periodic => TypeOK'
<1> SUFFICES ASSUME TypeOK, RangeInv, Periodic PROVE TypeOK'
  OBVIOUS
<1>1. PICK dt \in 1 .. MaxGap :
        LET down  == AtMost(kAbrDownCooldown, down_age + dt)
            clean == AtMost(kAbrGrowAfterClean, clean_age + dt)
            spell  == AtMost(kAbrGrowAfterClean, quiet + dt)
            age   == AtMost(2, rr_age + dt)
            lost  == AtLeast(last_loss, trouble)
        IN  /\ rr_age' = age
            /\ trouble' = IF streaming THEN -1 ELSE trouble
            /\ IF streaming /\ (age < 2 \/ trouble # -1)
               THEN /\ OnLossReport(lost, down, clean)
                    /\ quiet' = IF lost = 0 THEN spell ELSE 0
               ELSE /\ down_age' = down /\ clean_age' = clean /\ quiet' = spell
                    /\ UNCHANGED <<abr_kbps, pending>>
            /\ UNCHANGED <<streaming, last_loss, captureVars>>
  BY DEF Periodic
<1> DEFINE down  == AtMost(kAbrDownCooldown, down_age + dt)
           clean == AtMost(kAbrGrowAfterClean, clean_age + dt)
           spell  == AtMost(kAbrGrowAfterClean, quiet + dt)
<1>2. dt \in Nat /\ down \in 0 .. kAbrDownCooldown
      /\ clean \in 0 .. kAbrGrowAfterClean /\ spell \in 0 .. kAbrGrowAfterClean
      /\ AtMost(2, rr_age + dt) \in 0 .. 2
  BY <1>1, BitrateControlAssumption DEF TypeOK, AtMost
<1>3. abr_kbps \in Nat /\ InRange(abr_kbps) /\ pending \in Nat
  BY DEF TypeOK, RangeInv
<1> HIDE DEF down, clean, spell
<1>4. /\ abr_kbps' \in Nat /\ pending' \in Nat
      /\ down_age' \in 0 .. kAbrDownCooldown
      /\ clean_age' \in 0 .. kAbrGrowAfterClean
      /\ quiet' \in 0 .. kAbrGrowAfterClean
  <2>1. CASE OnLossReport(AtLeast(last_loss, trouble), down, clean)
             /\ quiet' \in {spell, 0}
    BY <1>2, <1>3, <2>1, NextKbpsBounds, BitrateControlAssumption
    DEF OnLossReport, CleanAge
  <2>2. CASE /\ down_age' = down /\ clean_age' = clean /\ quiet' = spell
             /\ UNCHANGED <<abr_kbps, pending>>
    BY <1>2, <1>3, <2>2
  <2> QED
    BY <1>1, <2>1, <2>2 DEF down, clean, spell
<1>5. /\ rr_age' \in 0 .. 2 /\ trouble' \in -1 .. 2
      /\ UNCHANGED <<streaming, last_loss, captureVars>>
  BY <1>1, <1>2 DEF TypeOK
<1> QED
  BY <1>4, <1>5 DEF TypeOK, captureVars

LEMMA TypeRest == TypeOK /\ [Next]_vars /\ ~Periodic => TypeOK'
<1> SUFFICES ASSUME TypeOK, [Next]_vars, ~Periodic PROVE TypeOK'
  OBVIOUS
<1> USE DEF serverVars, controlVars, captureVars
<1>1. CASE StreamingChanges
  <2>1. streaming' \in BOOLEAN
    BY <1>1 DEF StreamingChanges
  <2> QED
    BY <1>1, <2>1 DEF StreamingChanges, TypeOK
<1>2. CASE ReceiverReport
  BY <1>2 DEF ReceiverReport, TypeOK
<1>3. CASE NacksOrDrops
  BY <1>3 DEF NacksOrDrops, TypeOK, AtLeast
<1>4. CASE TakePending
  BY <1>4 DEF TakePending, TypeOK
<1>5. CASE Reconfigure
  <2>1. refused' \in BOOLEAN
    BY <1>5 DEF Reconfigure, TypeOK
  <2> QED
    BY <1>5, <2>1 DEF Reconfigure, TypeOK
<1>6. CASE SetPacing
  BY <1>6 DEF SetPacing, TypeOK
<1>7. CASE UNCHANGED vars
  BY <1>7 DEF vars, TypeOK
<1> QED
  BY <1>1, <1>2, <1>3, <1>4, <1>5, <1>6, <1>7 DEF Next, Capture

\* What a periodic run does to the rate and to the bitrate on its way.
LEMMA PeriodicRate ==
  ASSUME TypeOK, RangeInv, Periodic
  PROVE  /\ abr_kbps' \in Nat /\ InRange(abr_kbps')
         /\ pending' = IF abr_kbps' = abr_kbps THEN pending ELSE abr_kbps'
         /\ UNCHANGED captureVars
BY NextKbpsBounds DEF Periodic, OnLossReport, TypeOK, RangeInv

LEMMA RangeStep == TypeOK /\ RangeInv /\ [Next]_vars => RangeInv'
<1> SUFFICES ASSUME TypeOK, RangeInv, [Next]_vars PROVE RangeInv'
  OBVIOUS
<1>1. CASE Periodic
  BY <1>1, PeriodicRate DEF RangeInv, captureVars, InRange
<1>2. CASE TakePending \/ Reconfigure \/ SetPacing
  BY <1>2 DEF TakePending, Reconfigure, SetPacing, RangeInv, TypeOK, InRange,
              serverVars, controlVars
<1>3. CASE StreamingChanges \/ ReceiverReport \/ NacksOrDrops \/ UNCHANGED vars
  BY <1>3 DEF StreamingChanges, ReceiverReport, NacksOrDrops, vars, controlVars,
              captureVars, RangeInv, InRange
<1> QED
  BY <1>1, <1>2, <1>3 DEF Next, Capture

LEMMA RangeInvariant == Spec => [](TypeOK /\ RangeInv)
<1>1. Init => TypeOK /\ RangeInv
  <2> SUFFICES ASSUME Init PROVE TypeOK /\ RangeInv
    OBVIOUS
  <2>1. streaming \in BOOLEAN /\ refused \in BOOLEAN
    BY DEF Init
  <2> QED
    BY <2>1, BitrateControlAssumption
    DEF Init, TypeOK, RangeInv, InRange, AtMost, AtLeast
<1>2. TypeOK /\ RangeInv /\ [Next]_vars => (TypeOK /\ RangeInv)'
  BY TypePeriodic, TypeRest, RangeStep
<1> QED
  BY <1>1, <1>2, PTL DEF Spec

\* Types, for every instance.
THEOREM TypeCorrect == Spec => []TypeOK
BY RangeInvariant, PTL

\* Every rate in use or on its way is between the floor and the configured one.
THEOREM RatesStayInRange == Spec => []RatesInRange
<1>1. TypeOK /\ RangeInv => RatesInRange
  BY DEF TypeOK, RangeInv, RatesInRange, InRange
<1> QED
  BY <1>1, RangeInvariant, PTL

\* No decision is lost between the two threads.
THEOREM DecisionsArrive == Spec => []DecisionArrives
<1>1. Init => ArriveInv
  BY DEF Init, ArriveInv, DecisionArrives
<1>2. TypeOK /\ RangeInv /\ ArriveInv /\ [Next]_vars => ArriveInv'
  <2> SUFFICES ASSUME TypeOK, RangeInv, ArriveInv, [Next]_vars PROVE ArriveInv'
    OBVIOUS
  <2>1. CASE Periodic
    BY <2>1, PeriodicRate DEF ArriveInv, DecisionArrives, captureVars
  <2>2. CASE TakePending
    BY <2>2 DEF TakePending, ArriveInv, DecisionArrives, controlVars
  <2>3. CASE Reconfigure
    BY <2>3 DEF Reconfigure, ArriveInv, DecisionArrives, controlVars, TypeOK
  <2>4. CASE SetPacing
    BY <2>4 DEF SetPacing, ArriveInv, DecisionArrives, controlVars
  <2>5. CASE \/ StreamingChanges \/ ReceiverReport \/ NacksOrDrops
             \/ UNCHANGED vars
    BY <2>5 DEF StreamingChanges, ReceiverReport, NacksOrDrops, vars,
                controlVars, captureVars, ArriveInv, DecisionArrives
  <2> QED
    BY <2>1, <2>2, <2>3, <2>4, <2>5 DEF Next, Capture
<1>3. ArriveInv => DecisionArrives
  BY DEF ArriveInv
<1> QED
  BY <1>1, <1>2, <1>3, RangeInvariant, PTL DEF Spec

\* With a configured rate above the floor, only a clean spell raises the rate.
THEOREM RaisesAreEarned ==
  ASSUME kAbrMinKbps <= MaxKbps
  PROVE  Spec => RaisesOnlyWhenClean
<1>1. Init => CleanInv
  BY DEF Init, CleanInv
<1>2. TypeOK /\ RangeInv /\ CleanInv /\ [Next]_vars =>
        /\ CleanInv'
        /\ abr_kbps' > abr_kbps => quiet' >= kAbrGrowAfterClean
  <2> SUFFICES ASSUME TypeOK, RangeInv, CleanInv, [Next]_vars
               PROVE  /\ CleanInv'
                      /\ abr_kbps' > abr_kbps => quiet' >= kAbrGrowAfterClean
    OBVIOUS
  <2>1. CASE Periodic
    <3>1. PICK dt \in 1 .. MaxGap :
            LET down  == AtMost(kAbrDownCooldown, down_age + dt)
                clean == AtMost(kAbrGrowAfterClean, clean_age + dt)
                spell  == AtMost(kAbrGrowAfterClean, quiet + dt)
                lost  == AtLeast(last_loss, trouble)
            IN  \/ /\ OnLossReport(lost, down, clean)
                   /\ quiet' = IF lost = 0 THEN spell ELSE 0
                \/ /\ clean_age' = clean /\ quiet' = spell
                   /\ UNCHANGED abr_kbps
      BY <2>1 DEF Periodic
    <3> DEFINE down  == AtMost(kAbrDownCooldown, down_age + dt)
               clean == AtMost(kAbrGrowAfterClean, clean_age + dt)
               spell  == AtMost(kAbrGrowAfterClean, quiet + dt)
               lost  == AtLeast(last_loss, trouble)
    <3>2. clean \in Nat /\ spell \in Nat /\ clean <= spell
      BY BitrateControlAssumption DEF AtMost, TypeOK, CleanInv
    <3>3. abr_kbps \in Nat /\ InRange(abr_kbps)
      BY DEF TypeOK, RangeInv
    <3> HIDE DEF down, clean, spell, lost
    <3>4. CASE /\ OnLossReport(lost, down, clean)
               /\ quiet' = IF lost = 0 THEN spell ELSE 0
      <4>1. CleanInv'
        BY <3>2, <3>4 DEF OnLossReport, CleanAge, CleanInv
      <4>2. CASE lost = 2
        <5>1. NextKbps(lost, down, clean) <= abr_kbps
          BY <3>3, <4>2, BitrateControlAssumption
          DEF NextKbps, Cut, InRange, AtLeast, AtMost
        <5> QED
          BY <3>3, <3>4, <4>1, <5>1, NextKbpsBounds DEF OnLossReport
      <4>3. CASE lost # 2
        BY <3>2, <3>3, <3>4, <4>1, <4>3, NextKbpsBounds,
           BitrateControlAssumption DEF OnLossReport
      <4> QED
        BY <4>2, <4>3
    <3>5. CASE clean_age' = clean /\ quiet' = spell /\ UNCHANGED abr_kbps
      BY <3>2, <3>3, <3>5 DEF CleanInv
    <3> QED
      BY <3>1, <3>4, <3>5 DEF down, clean, spell, lost
  <2>2. CASE ~Periodic
    <3>1. UNCHANGED <<abr_kbps, clean_age, quiet>>
      BY <2>2 DEF Next, StreamingChanges, ReceiverReport, NacksOrDrops, Capture,
                  TakePending, Reconfigure, SetPacing, vars, controlVars
    <3> QED
      BY <3>1 DEF CleanInv, TypeOK
  <2> QED
    BY <2>1, <2>2
<1> QED
  BY <1>1, <1>2, RangeInvariant, PTL DEF Spec, RaisesOnlyWhenClean

\* The link is clean: nothing known speaks against a raise.
Clean == streaming /\ last_loss = 0 /\ trouble \in {-1, 0}

\* On a clean link nothing lowers the rate or shortens the clean spell but a raise,
\* and below the ceiling every report makes the rate higher or the spell longer.
Climbs ==
  [][Clean =>
       /\ abr_kbps' >= abr_kbps
       /\ abr_kbps' = abr_kbps => clean_age' >= clean_age
       /\ Periodic /\ rr_age' < 2 /\ abr_kbps < MaxKbps =>
            \/ abr_kbps < abr_kbps' /\ abr_kbps' <= MaxKbps
            \/ abr_kbps' = abr_kbps /\ clean_age' > clean_age]_vars

LEMMA CleanRun ==
  ASSUME 13 <= kAbrMinKbps, TypeOK, RangeInv, Clean, Periodic
  PROVE  /\ abr_kbps' >= abr_kbps
         /\ abr_kbps' = abr_kbps => clean_age' >= clean_age
         /\ rr_age' < 2 /\ abr_kbps < MaxKbps =>
              \/ abr_kbps < abr_kbps' /\ abr_kbps' <= MaxKbps
              \/ abr_kbps' = abr_kbps /\ clean_age' > clean_age
<1>1. PICK dt \in 1 .. MaxGap :
        LET down  == AtMost(kAbrDownCooldown, down_age + dt)
            clean == AtMost(kAbrGrowAfterClean, clean_age + dt)
            age   == AtMost(2, rr_age + dt)
        IN  /\ rr_age' = age
            /\ IF age < 2 \/ trouble # -1
               THEN OnLossReport(AtLeast(last_loss, trouble), down, clean)
               ELSE clean_age' = clean /\ UNCHANGED abr_kbps
  BY DEF Periodic, Clean
<1> DEFINE down  == AtMost(kAbrDownCooldown, down_age + dt)
           clean == AtMost(kAbrGrowAfterClean, clean_age + dt)
<1>2. /\ clean \in 0 .. kAbrGrowAfterClean /\ clean_age <= clean
      /\ clean < kAbrGrowAfterClean => clean_age < clean
  BY BitrateControlAssumption DEF TypeOK, AtMost
<1>3. AtLeast(last_loss, trouble) = 0
  BY DEF Clean, AtLeast
<1>4. abr_kbps \in Nat /\ clean_age \in Nat /\ (abr_kbps < MaxKbps => 13 <= abr_kbps)
  BY BitrateControlAssumption DEF TypeOK, RangeInv, InRange, AtMost, AtLeast
<1> HIDE DEF down, clean
<1>5. CASE OnLossReport(0, down, clean)
  <2>1. CASE clean >= kAbrGrowAfterClean /\ abr_kbps < MaxKbps
    <3>1. abr_kbps' = AtMost(MaxKbps, Grow(abr_kbps))
      BY <1>5, <2>1 DEF OnLossReport, NextKbps
    <3>2. Grow(abr_kbps) \in Nat /\ Grow(abr_kbps) > abr_kbps
      BY <1>4, <2>1 DEF Grow
    <3> QED
      BY <1>4, <2>1, <3>1, <3>2, BitrateControlAssumption DEF AtMost
  <2>2. CASE ~(clean >= kAbrGrowAfterClean /\ abr_kbps < MaxKbps)
    <3>1. abr_kbps' = abr_kbps /\ clean_age' = clean
      BY <1>5, <2>2 DEF OnLossReport, NextKbps, CleanAge
    <3> QED
      BY <1>2, <1>4, <2>2, <3>1, BitrateControlAssumption
  <2> QED
    BY <2>1, <2>2
<1>6. CASE clean_age' = clean /\ UNCHANGED abr_kbps /\ ~(rr_age' < 2)
  BY <1>2, <1>4, <1>6
<1> QED
  BY <1>1, <1>3, <1>5, <1>6 DEF down, clean

\* "we creep back up toward the configured maximum", what of it is a matter of
\* safety: whatever the ceiling, rate and clean spell rise together in steps that
\* truncation never makes zero, as long as 8 % of the floor are worth one unit.
THEOREM AlwaysClimbs ==
  ASSUME 13 <= kAbrMinKbps
  PROVE  Spec => Climbs
<1>1. TypeOK /\ RangeInv /\ [Next]_vars =>
        [Clean =>
           /\ abr_kbps' >= abr_kbps
           /\ abr_kbps' = abr_kbps => clean_age' >= clean_age
           /\ Periodic /\ rr_age' < 2 /\ abr_kbps < MaxKbps =>
                \/ abr_kbps < abr_kbps' /\ abr_kbps' <= MaxKbps
                \/ abr_kbps' = abr_kbps /\ clean_age' > clean_age]_vars
  <2> SUFFICES ASSUME TypeOK, RangeInv, [Next]_vars, Clean
               PROVE  /\ abr_kbps' >= abr_kbps
                      /\ abr_kbps' = abr_kbps => clean_age' >= clean_age
                      /\ Periodic /\ rr_age' < 2 /\ abr_kbps < MaxKbps =>
                           \/ abr_kbps < abr_kbps' /\ abr_kbps' <= MaxKbps
                           \/ abr_kbps' = abr_kbps /\ clean_age' > clean_age
    OBVIOUS
  <2>1. CASE Periodic
    BY <2>1, CleanRun
  <2>2. CASE ~Periodic
    <3>1. UNCHANGED <<abr_kbps, clean_age>>
      BY <2>2 DEF Next, StreamingChanges, ReceiverReport, NacksOrDrops, Capture,
                  TakePending, Reconfigure, SetPacing, vars, controlVars
    <3> QED
      BY <2>2, <3>1 DEF TypeOK
  <2> QED
    BY <2>1, <2>2
<1> QED
  BY <1>1, RangeInvariant, PTL DEF Spec, Climbs

-----------------------------------------------------------------------------
(* The loop of keyframe requests *)

StreamerFlags ==
  /\ force \in BOOLEAN /\ refuses \in BOOLEAN /\ cut \in BOOLEAN /\ pli \in BOOLEAN
  /\ calm \in BOOLEAN

ReceiverFlags ==
  /\ remote \in BOOLEAN /\ heard \in BOOLEAN /\ gap \in BOOLEAN
  /\ awaiting \in BOOLEAN /\ missing \in BOOLEAN /\ auto \in BOOLEAN
  /\ external \in BOOLEAN /\ pliPending \in BOOLEAN

DecoderFlags == posted \in BOOLEAN /\ ready \in BOOLEAN

Flags == StreamerFlags /\ ReceiverFlags /\ DecoderFlags

\* What may be on its way: no orphans.
Sound == {"key", "inter", "stub", "gone"}

Flight ==
  /\ flight \in Seq(Sound) /\ Len(flight) <= MaxFlight
  /\ hand \in {"none", "key", "inter"}
  /\ owes \subseteq {"capture", "sender"}
  /\ asker \in {"start", "defer", "done"}
  /\ chain \in {"none", "broken", "whole"}

\* While a unit is missing to those that follow, somebody downstream knows: the
\* server refuses them; the receiver has a gap before them, or waits for a
\* keyframe; the decoder's chain is not open, or broken already.
Known ==
  /\ cut => refuses
  /\ ~heard => missing /\ ~ready
  /\ missing /\ ready => gap \/ awaiting \/ chain = "broken"

LoopInv == Flags /\ Flight /\ Known

\* The invariant has the types, and no orphans.
LEMMA LoopTypes == LoopInv => LoopTypeOK /\ NothingOrphaned
<1> SUFFICES ASSUME LoopInv PROVE LoopTypeOK /\ NothingOrphaned
  OBVIOUS
<1>1. \A S : {force, refuses, cut, pli, remote, heard, gap, awaiting, missing, auto,
              external, pliPending, posted, ready, calm} \subseteq S <=>
        /\ force \in S /\ refuses \in S /\ cut \in S /\ pli \in S /\ remote \in S
        /\ heard \in S /\ gap \in S /\ awaiting \in S /\ missing \in S /\ auto \in S
        /\ external \in S /\ pliPending \in S /\ posted \in S /\ ready \in S
        /\ calm \in S
  BY Zenon
<1>2. {force, refuses, cut, pli, remote, heard, gap, awaiting, missing, auto, external,
       pliPending, posted, ready, calm} \subseteq BOOLEAN
  BY <1>1, Zenon DEF LoopInv, Flags, StreamerFlags, ReceiverFlags, DecoderFlags
<1>3. \A i \in DOMAIN flight : flight[i] \in Sound
  BY DEF LoopInv, Flight
<1>4. NothingOrphaned
  BY <1>3 DEF NothingOrphaned, Sound
<1>5. flight \in Seq(Units \cup {"stub", "gone"}) /\ Len(flight) <= MaxFlight
  <2>1. Sound \subseteq Units \cup {"stub", "gone"}
    BY DEF Sound, Units
  <2> QED
    BY <2>1 DEF LoopInv, Flight
<1> QED
  BY <1>2, <1>4, <1>5 DEF LoopTypeOK, LoopInv, Flight

\* Queues of units stay such, and get no longer but by one.
LEMMA FlightOps ==
  ASSUME NEW q \in Seq(Sound)
  PROVE  /\ Len(q) \in Nat
         /\ \A u \in Sound : Append(q, u) \in Seq(Sound) /\ Len(Append(q, u)) = Len(q) + 1
         /\ q # <<>> => Tail(q) \in Seq(Sound) /\ Len(Tail(q)) <= Len(q)
         /\ \A n \in 0 .. Len(q) : SubSeq(q, 1, n) \in Seq(Sound) /\ Len(SubSeq(q, 1, n)) = n
<1>1. Len(q) \in Nat
  OBVIOUS
<1>2. ASSUME NEW u \in Sound
      PROVE  Append(q, u) \in Seq(Sound) /\ Len(Append(q, u)) = Len(q) + 1
  OBVIOUS
<1>3. ASSUME q # <<>> PROVE Tail(q) \in Seq(Sound) /\ Len(Tail(q)) <= Len(q)
  BY <1>3
<1>4. ASSUME NEW n \in 0 .. Len(q)
      PROVE  SubSeq(q, 1, n) \in Seq(Sound) /\ Len(SubSeq(q, 1, n)) = n
  <2>1. \A i \in 1 .. n : q[i] \in Sound
    BY <1>1
  <2> QED
    BY <1>1, <2>1
<1> QED
  BY <1>1, <1>2, <1>3, <1>4

\* What a drop leaves of a queue of units is one.
LEMMA RestsOps ==
  ASSUME flight \in Seq(Sound), NEW q \in Rests
  PROVE  q \in Seq(Sound) /\ Len(q) \in Nat
<1>0. Len(flight) \in Nat /\ "gone" \in Sound /\ "stub" \in Sound
  BY DEF Sound
<1>1. PICK n \in 0 .. Len(flight), u \in Sound : q = Append(SubSeq(flight, 1, n), u)
  <2>1. CASE q \in { Append(SubSeq(flight, 1, n), "gone") : n \in 0 .. Len(flight) }
    BY <1>0, <2>1
  <2>2. CASE q \in { Append(SubSeq(flight, 1, n), "stub") :
                     n \in { m \in 0 .. Len(flight) - 1 : flight[m + 1] \in Units } }
    <3>1. PICK n \in 0 .. Len(flight) - 1 : q = Append(SubSeq(flight, 1, n), "stub")
      BY <2>2
    <3> QED
      BY <1>0, <3>1
  <2> QED
    BY <2>1, <2>2 DEF Rests
<1>2. SubSeq(flight, 1, n) \in Seq(Sound)
  BY FlightOps
<1> QED
  BY <1>1, <1>2, FlightOps

LEMMA InitLoop == LoopInit => LoopInv
<1> SUFFICES ASSUME LoopInit PROVE LoopInv
  OBVIOUS
<1>1. Flags /\ Known
  BY DEF LoopInit, Flags, StreamerFlags, ReceiverFlags, DecoderFlags, Known
<1>2. flight = <<>> /\ <<>> \in Seq(Sound) /\ Len(<<>>) = 0
  BY DEF LoopInit
<1>3. Flight
  BY <1>2, LoopAssumption DEF LoopInit, Flight
<1> QED
  BY <1>1, <1>3 DEF LoopInv

LEMMA LoopFlags == LoopInv /\ [LoopNext]_loopVars => Flags'
<1> SUFFICES ASSUME LoopInv, [LoopNext]_loopVars PROVE Flags'
  OBVIOUS
<1> USE DEF LoopInv, Flags
<1>s. UNCHANGED <<force, refuses, cut, pli, calm>> => StreamerFlags'
  BY DEF StreamerFlags
<1>r. UNCHANGED receiverVars => ReceiverFlags'
  BY DEF ReceiverFlags, receiverVars
<1>d. UNCHANGED <<posted, ready>> => DecoderFlags'
  BY DEF DecoderFlags
<1>1. CASE Encode(TRUE) \/ Encode(FALSE)
  <2>1. StreamerFlags'
    BY <1>1 DEF Encode, StreamerFlags, streamerVars, queueVars
  <2>2. ReceiverFlags'
    BY <1>1, <1>r DEF Encode, receiverVars
  <2>3. DecoderFlags'
    BY <1>1, <1>d DEF Encode, decoderVars
  <2> QED
    BY <2>1, <2>2, <2>3
<1>2. CASE Refuse
  <2>1. StreamerFlags'
    BY <1>2 DEF Refuse, StreamerFlags, streamerVars, queueVars
  <2>2. ReceiverFlags'
    BY <1>2, <1>r DEF Refuse, receiverVars
  <2>3. DecoderFlags'
    BY <1>2, <1>d DEF Refuse, decoderVars
  <2> QED
    BY <2>1, <2>2, <2>3
<1>3. CASE Queue
  <2>1. StreamerFlags'
    BY <1>3 DEF Queue, StreamerFlags, streamerVars, queueVars
  <2>2. ReceiverFlags'
    BY <1>3, <1>r DEF Queue, receiverVars
  <2>3. DecoderFlags'
    BY <1>3, <1>d DEF Queue, decoderVars
  <2> QED
    BY <2>1, <2>2, <2>3
<1>4. CASE Overflow
  <2>1. StreamerFlags'
    BY <1>4 DEF Overflow, StreamerFlags, streamerVars, queueVars
  <2>2. ReceiverFlags'
    BY <1>4, <1>r DEF Overflow, receiverVars
  <2>3. DecoderFlags'
    BY <1>4, <1>d DEF Overflow, decoderVars
  <2> QED
    BY <2>1, <2>2, <2>3
<1>5. CASE SendFails
  <2>1. StreamerFlags'
    BY <1>5 DEF SendFails, StreamerFlags, streamerVars, queueVars
  <2>2. ReceiverFlags'
    BY <1>5, <1>r DEF SendFails, receiverVars
  <2>3. DecoderFlags'
    BY <1>5, <1>d DEF SendFails, decoderVars
  <2> QED
    BY <2>1, <2>2, <2>3
<1>6. CASE Request("capture") \/ Request("sender")
  <2>1. StreamerFlags'
    BY <1>6 DEF Request, StreamerFlags, streamerVars, queueVars
  <2>2. ReceiverFlags'
    BY <1>6, <1>r DEF Request, receiverVars
  <2>3. DecoderFlags'
    BY <1>6, <1>d DEF Request, decoderVars
  <2> QED
    BY <2>1, <2>2, <2>3
<1>7. CASE PliArrives
  <2>1. StreamerFlags'
    BY <1>7 DEF PliArrives, StreamerFlags, streamerVars, queueVars
  <2>2. ReceiverFlags'
    BY <1>7, <1>r DEF PliArrives, receiverVars
  <2>3. DecoderFlags'
    BY <1>7, <1>d DEF PliArrives, decoderVars
  <2> QED
    BY <2>1, <2>2, <2>3
<1>8. CASE PliLost
  <2>1. StreamerFlags'
    BY <1>8 DEF PliLost, StreamerFlags, streamerVars, queueVars
  <2>2. ReceiverFlags'
    BY <1>8, <1>r DEF PliLost, receiverVars
  <2>3. DecoderFlags'
    BY <1>8, <1>d DEF PliLost, decoderVars
  <2> QED
    BY <2>1, <2>2, <2>3
<1>9. CASE LearnEndpoint
  <2>1. StreamerFlags'
    BY <1>9 DEF LearnEndpoint, StreamerFlags, streamerVars, queueVars
  <2>2. ReceiverFlags'
    BY <1>9 DEF LearnEndpoint, ReceiverFlags, receiverVars
  <2>3. DecoderFlags'
    BY <1>9, <1>d DEF LearnEndpoint, decoderVars
  <2> QED
    BY <2>1, <2>2, <2>3
<1>10. CASE Missed
  <2>1. StreamerFlags'
    BY <1>10, <1>s DEF Missed, streamerVars, queueVars
  <2>2. ReceiverFlags'
    BY <1>10 DEF Missed, ReceiverFlags, receiverVars
  <2>3. DecoderFlags'
    BY <1>10, <1>d DEF Missed, decoderVars
  <2> QED
    BY <2>1, <2>2, <2>3
<1>11. CASE Receive
  <2>1. StreamerFlags'
    BY <1>11 DEF Receive, Intact, CutMiddle, CutEnd, CutStart, Asks, Show,
                 StreamerFlags, streamerVars, queueVars
  <2>2. ReceiverFlags'
    BY <1>11 DEF Receive, Intact, CutMiddle, CutEnd, CutStart, Asks, Show,
                 ReceiverFlags, receiverVars
  <2>3. DecoderFlags'
    BY <1>11 DEF Receive, Intact, CutMiddle, CutEnd, CutStart, Asks, Show,
                 DecoderFlags, decoderVars
  <2> QED
    BY <2>1, <2>2, <2>3
<1>12. CASE AutoExpires
  <2>1. StreamerFlags'
    BY <1>12, <1>s DEF AutoExpires, streamerVars, queueVars
  <2>2. ReceiverFlags'
    BY <1>12 DEF AutoExpires, ReceiverFlags, receiverVars
  <2>3. DecoderFlags'
    BY <1>12, <1>d DEF AutoExpires, decoderVars
  <2> QED
    BY <2>1, <2>2, <2>3
<1>13. CASE ExternalExpires
  <2>1. StreamerFlags'
    BY <1>13, <1>s DEF ExternalExpires, streamerVars, queueVars
  <2>2. ReceiverFlags'
    BY <1>13 DEF ExternalExpires, ReceiverFlags, receiverVars
  <2>3. DecoderFlags'
    BY <1>13, <1>d DEF ExternalExpires, decoderVars
  <2> QED
    BY <2>1, <2>2, <2>3
<1>14. CASE SessionAsks
  <2>1. StreamerFlags'
    BY <1>14 DEF SessionAsks, StreamerFlags, streamerVars, queueVars
  <2>2. ReceiverFlags'
    BY <1>14 DEF SessionAsks, ReceiverFlags, receiverVars
  <2>3. DecoderFlags'
    BY <1>14, <1>d DEF SessionAsks, decoderVars
  <2> QED
    BY <2>1, <2>2, <2>3
<1>15. CASE SessionDefers
  <2>1. StreamerFlags'
    BY <1>15, <1>s DEF SessionDefers, streamerVars, queueVars
  <2>2. ReceiverFlags'
    BY <1>15 DEF SessionDefers, ReceiverFlags, receiverVars
  <2>3. DecoderFlags'
    BY <1>15, <1>d DEF SessionDefers, decoderVars
  <2> QED
    BY <2>1, <2>2, <2>3
<1>16. CASE DecoderAsks
  <2>1. StreamerFlags'
    BY <1>16 DEF DecoderAsks, StreamerFlags, streamerVars, queueVars
  <2>2. ReceiverFlags'
    BY <1>16 DEF DecoderAsks, ReceiverFlags, receiverVars
  <2>3. DecoderFlags'
    BY <1>16 DEF DecoderAsks, DecoderFlags, decoderVars
  <2> QED
    BY <2>1, <2>2, <2>3
<1>17. CASE DecoderDrops
  <2>1. StreamerFlags'
    BY <1>17, <1>s DEF DecoderDrops, streamerVars, queueVars
  <2>2. ReceiverFlags'
    BY <1>17, <1>r DEF DecoderDrops, receiverVars
  <2>3. DecoderFlags'
    BY <1>17 DEF DecoderDrops, DecoderFlags, decoderVars
  <2> QED
    BY <2>1, <2>2, <2>3
<1>18. CASE DecoderResets
  <2>1. StreamerFlags'
    BY <1>18, <1>s DEF DecoderResets, streamerVars, queueVars
  <2>2. ReceiverFlags'
    BY <1>18, <1>r DEF DecoderResets, receiverVars
  <2>3. DecoderFlags'
    BY <1>18 DEF DecoderResets, DecoderFlags, decoderVars
  <2> QED
    BY <2>1, <2>2, <2>3
<1>19. CASE DecoderSkips
  <2>1. StreamerFlags'
    BY <1>19, <1>s DEF DecoderSkips, streamerVars, queueVars
  <2>2. ReceiverFlags'
    BY <1>19, <1>r DEF DecoderSkips, receiverVars
  <2>3. DecoderFlags'
    BY <1>19, <1>d DEF DecoderSkips, decoderVars
  <2> QED
    BY <2>1, <2>2, <2>3
<1>20. CASE CalmsDown
  <2>1. StreamerFlags'
    BY <1>20 DEF CalmsDown, StreamerFlags, streamerVars, queueVars
  <2>2. ReceiverFlags'
    BY <1>20, <1>r DEF CalmsDown, receiverVars
  <2>3. DecoderFlags'
    BY <1>20, <1>d DEF CalmsDown, decoderVars
  <2> QED
    BY <2>1, <2>2, <2>3
<1>21. CASE UNCHANGED loopVars
  BY <1>21, <1>s, <1>r, <1>d
     DEF loopVars, streamerVars, queueVars, receiverVars, decoderVars
<1> QED
  BY <1>1, <1>2, <1>3, <1>4, <1>5, <1>6, <1>7, <1>8, <1>9, <1>10, <1>11,
     <1>12, <1>13, <1>14, <1>15, <1>16, <1>17, <1>18, <1>19, <1>20, <1>21
     DEF LoopNext

LEMMA LoopFlight == LoopInv /\ [LoopNext]_loopVars => Flight'
<1> SUFFICES ASSUME LoopInv, [LoopNext]_loopVars PROVE Flight'
  OBVIOUS
<1> USE LoopAssumption
    DEF LoopInv, Flight, queueVars, streamerVars, receiverVars, decoderVars
<1>f. flight \in Seq(Sound) /\ Len(flight) \in Nat /\ Len(flight) <= MaxFlight
  BY FlightOps
<1>s. {"key", "inter"} \subseteq Sound
  BY DEF Sound
<1>1. CASE Encode(TRUE) \/ Encode(FALSE)
  BY <1>1 DEF Encode
<1>2. CASE Refuse
  BY <1>2 DEF Refuse
<1>3. CASE Queue
  <2>1. hand \in {"key", "inter"} /\ ~(cut /\ hand = "inter")
    BY <1>3 DEF Queue, Passes, Known
  <2>2. Len(flight) < MaxFlight /\ flight' = Append(flight, hand)
    BY <1>3, <2>1 DEF Queue
  <2>3. flight' \in Seq(Sound) /\ Len(flight') <= MaxFlight
    BY <1>f, <1>s, <2>1, <2>2, FlightOps
  <2> QED
    BY <1>3, <2>3 DEF Queue
<1>4. CASE Overflow
  <2>1. \E q \in Rests : \/ flight' = q /\ Len(q) <= MaxFlight
                         \/ flight' = Append(q, "key") /\ Len(q) < MaxFlight
    BY <1>4 DEF Overflow
  <2>2. PICK q \in Rests : \/ flight' = q /\ Len(q) <= MaxFlight
                           \/ flight' = Append(q, "key") /\ Len(q) < MaxFlight
    BY <2>1
  <2>3. q \in Seq(Sound) /\ Len(q) \in Nat
    BY <1>f, RestsOps
  <2>4. Append(q, "key") \in Seq(Sound) /\ Len(Append(q, "key")) = Len(q) + 1
    BY <1>s, <2>3, FlightOps
  <2>5. flight' \in Seq(Sound) /\ Len(flight') <= MaxFlight
    <3>1. CASE flight' = q /\ Len(q) <= MaxFlight
      BY <2>3, <3>1
    <3>2. CASE flight' = Append(q, "key") /\ Len(q) < MaxFlight
      BY <2>3, <2>4, <3>2
    <3> QED
      BY <2>2, <3>1, <3>2
  <2> QED
    BY <1>4, <2>5 DEF Overflow
<1>5. CASE SendFails
  <2>1. flight' \in Rests /\ Len(flight') <= Len(flight)
    BY <1>5 DEF SendFails
  <2>2. flight' \in Seq(Sound) /\ Len(flight') <= MaxFlight
    BY <1>f, <2>1, RestsOps
  <2> QED
    BY <1>5, <2>2 DEF SendFails
<1>6. CASE Request("capture") \/ Request("sender")
  BY <1>6 DEF Request
<1>7. CASE PliArrives
  BY <1>7 DEF PliArrives
<1>8. CASE PliLost
  BY <1>8 DEF PliLost
<1>9. CASE LearnEndpoint
  BY <1>9 DEF LearnEndpoint
<1>10. CASE Missed
  <2>1. flight' \in Seq(Sound) /\ Len(flight') <= MaxFlight
    BY <1>10, <1>f, FlightOps DEF Missed
  <2> QED
    BY <1>10, <2>1 DEF Missed
<1>11. CASE Receive
  <2>1. flight' \in Seq(Sound) /\ Len(flight') <= MaxFlight
    BY <1>11, <1>f, FlightOps DEF Receive
  <2> QED
    BY <1>11, <2>1 DEF Receive, Intact, CutMiddle, CutEnd, CutStart, Show
<1>12. CASE AutoExpires
  BY <1>12 DEF AutoExpires
<1>13. CASE ExternalExpires
  BY <1>13 DEF ExternalExpires
<1>14. CASE SessionAsks
  BY <1>14 DEF SessionAsks
<1>15. CASE SessionDefers
  BY <1>15 DEF SessionDefers
<1>16. CASE DecoderAsks
  BY <1>16 DEF DecoderAsks
<1>17. CASE DecoderDrops
  BY <1>17 DEF DecoderDrops
<1>18. CASE DecoderResets
  BY <1>18 DEF DecoderResets
<1>19. CASE DecoderSkips
  BY <1>19 DEF DecoderSkips
<1>20. CASE CalmsDown
  BY <1>20 DEF CalmsDown
<1>21. CASE UNCHANGED loopVars
  BY <1>21 DEF loopVars
<1> QED
  BY <1>1, <1>2, <1>3, <1>4, <1>5, <1>6, <1>7, <1>8, <1>9, <1>10, <1>11,
     <1>12, <1>13, <1>14, <1>15, <1>16, <1>17, <1>18, <1>19, <1>20, <1>21
     DEF LoopNext

\* A unit that is handed on over an open chain, and was not the first, adds to it
\* nothing unsound.
LEMMA ShowsSound ==
  LoopInv /\ Receive => /\ heard' = TRUE
                        /\ missing' /\ ready' => gap' \/ awaiting' \/ chain' = "broken"
                        /\ heard /\ chain # "broken" => chain' # "broken"
<1> SUFFICES ASSUME LoopInv, Receive
             PROVE  /\ heard' = TRUE
                    /\ missing' /\ ready' => gap' \/ awaiting' \/ chain' = "broken"
                    /\ heard /\ chain # "broken" => chain' # "broken"
  OBVIOUS
<1>h. heard' = TRUE
  BY DEF Receive
<1>u. Head(flight) \in Sound
  BY DEF Receive, LoopInv, Flight
<1> USE DEF LoopInv, Flags, StreamerFlags, ReceiverFlags, DecoderFlags, Known
<1>1. CASE Intact
  <2> DEFINE unit  == Head(flight)
             key   == unit = "key"
             sound == key \/ (unit = "inter" /\ ~missing)
             emits == ~gap /\ (awaiting => key)
  <2>1. unit \in {"key", "inter"}
    BY <1>u, <1>1 DEF Intact, Sound, Units
  <2>2. /\ awaiting' = (gap \/ (awaiting /\ ~key)) /\ gap' = FALSE
        /\ missing' = ~(emits /\ sound)
        /\ IF emits THEN Show(key, sound) ELSE UNCHANGED <<ready, chain>>
    BY <1>1, Zenon DEF Intact
  <2> HIDE DEF unit
  <2>3. CASE ~emits
    <3>1. awaiting' /\ UNCHANGED <<ready, chain>>
      BY <2>2, <2>3
    <3> QED
      BY <1>h, <3>1
  <2>4. CASE emits /\ sound
    <3>1. ~missing' /\ Show(key, sound)
      BY <2>2, <2>4
    <3>2. chain' = "whole" \/ chain' = chain
      BY <2>4, <3>1 DEF Show
    <3> QED
      BY <1>h, <3>1, <3>2
  <2>5. CASE emits /\ ~sound
    <3>1. ~key /\ missing /\ ~gap /\ ~awaiting /\ Show(FALSE, FALSE)
      BY <2>1, <2>2, <2>5
    <3>2. /\ ready' = ready
          /\ ready => chain' = "broken" /\ chain = "broken"
          /\ ~ready => chain' = chain
      BY <3>1 DEF Show
    <3> QED
      BY <1>h, <3>1, <3>2
  <2> QED
    BY <2>3, <2>4, <2>5
<1>2. CASE CutMiddle
  BY <1>h, <1>2 DEF CutMiddle
<1>3. CASE CutEnd
  BY <1>h, <1>3 DEF CutEnd
<1>4. CASE CutStart
  <2>1. ~heard /\ ~ready
    BY <1>4 DEF CutStart
  <2>2. \E key \in BOOLEAN : Show(key, FALSE)
    BY <1>4 DEF CutStart
  <2>3. ready' => chain' = "broken"
    BY <2>2 DEF Show
  <2> QED
    BY <1>h, <2>1, <2>3
<1> QED
  BY <1>1, <1>2, <1>3, <1>4 DEF Receive

LEMMA LoopKnown == LoopInv /\ [LoopNext]_loopVars => Known'
<1> SUFFICES ASSUME LoopInv, [LoopNext]_loopVars PROVE Known'
  OBVIOUS
<1> USE DEF LoopInv, Flags, StreamerFlags, ReceiverFlags, DecoderFlags, Known,
            queueVars, streamerVars, receiverVars, decoderVars
<1>1. CASE Encode(TRUE) \/ Encode(FALSE)
  BY <1>1 DEF Encode
<1>2. CASE Refuse
  BY <1>2 DEF Refuse
<1>3. CASE Queue
  <2>1. ~(cut /\ hand = "inter")
    BY <1>3 DEF Queue, Passes
  <2>2. cut' = FALSE
    BY <1>3, <2>1 DEF Queue
  <2> QED
    BY <1>3, <2>2 DEF Queue
<1>4. CASE Overflow
  BY <1>4 DEF Overflow
<1>5. CASE SendFails
  BY <1>5 DEF SendFails
<1>6. CASE Request("capture") \/ Request("sender")
  BY <1>6 DEF Request
<1>7. CASE PliArrives
  BY <1>7 DEF PliArrives
<1>8. CASE PliLost
  BY <1>8 DEF PliLost
<1>9. CASE LearnEndpoint
  BY <1>9 DEF LearnEndpoint
<1>10. CASE Missed
  BY <1>10 DEF Missed
<1>11. CASE Receive
  <2>1. UNCHANGED <<cut, refuses>>
    BY <1>11 DEF Receive
  <2> QED
    BY <1>11, <2>1, ShowsSound
<1>12. CASE AutoExpires
  BY <1>12 DEF AutoExpires
<1>13. CASE ExternalExpires
  BY <1>13 DEF ExternalExpires
<1>14. CASE SessionAsks
  BY <1>14 DEF SessionAsks
<1>15. CASE SessionDefers
  BY <1>15 DEF SessionDefers
<1>16. CASE DecoderAsks
  BY <1>16 DEF DecoderAsks
<1>17. CASE DecoderDrops
  BY <1>17 DEF DecoderDrops
<1>18. CASE DecoderResets
  BY <1>18 DEF DecoderResets
<1>19. CASE DecoderSkips
  BY <1>19 DEF DecoderSkips
<1>20. CASE CalmsDown
  BY <1>20 DEF CalmsDown
<1>21. CASE UNCHANGED loopVars
  BY <1>21 DEF loopVars
<1> QED
  BY <1>1, <1>2, <1>3, <1>4, <1>5, <1>6, <1>7, <1>8, <1>9, <1>10, <1>11,
     <1>12, <1>13, <1>14, <1>15, <1>16, <1>17, <1>18, <1>19, <1>20, <1>21
     DEF LoopNext

LEMMA LoopInvariant == LoopSpec => []LoopInv
<1>1. LoopInv /\ [LoopNext]_loopVars => LoopInv'
  BY LoopFlags, LoopFlight, LoopKnown DEF LoopInv
<1> QED
  BY <1>1, InitLoop, PTL DEF LoopSpec

\* With any number of units on their way, nothing that depends on a dropped one is
\* queued, on whichever thread and at whatever point it was dropped, and nothing that
\* depends on one dropped or lost, with a gap to show for it or without, reaches an
\* open decoder, unless it skips units itself or the very first packets are missing.
THEOREM AlwaysUndamaged == LoopSpec => Undamaged
<1>1. LoopInv => LoopTypeOK /\ NothingOrphaned
  BY LoopTypes
<1>2. LoopInv /\ [LoopNext]_loopVars =>
        [chain # "broken" /\ chain' = "broken" => DecoderSkips \/ ~heard]_loopVars
  <2> SUFFICES ASSUME LoopInv, LoopNext, chain # "broken", chain' = "broken",
                      ~DecoderSkips, heard
               PROVE  FALSE
    OBVIOUS
  <2>1. CASE Receive
    BY <2>1, ShowsSound
  <2>2. CASE ~Receive
    <3>1. CASE DecoderDrops \/ DecoderResets
      BY <3>1 DEF DecoderDrops, DecoderResets
    <3>2. CASE ~(DecoderDrops \/ DecoderResets)
      <4>1. chain' = chain
        BY <2>2, <3>2
           DEF LoopNext, Encode, Refuse, Queue, Overflow, SendFails, Request,
               PliArrives, PliLost, LearnEndpoint, Missed, AutoExpires,
               ExternalExpires, SessionAsks, SessionDefers, DecoderAsks, CalmsDown,
               decoderVars
      <4> QED
        BY <4>1
    <3> QED
      BY <3>1, <3>2
  <2> QED
    BY <2>1, <2>2
<1> QED
  BY <1>1, <1>2, LoopInvariant, PTL DEF LoopSpec, Undamaged
=============================================================================
