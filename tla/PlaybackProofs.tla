--------------------------- MODULE PlaybackProofs ---------------------------
(***************************************************************************)
(* Theorems about Playback, for every queue limit, number of buffers and   *)
(* number of retries: the dependency chain of what the codec is given, and *)
(* the types and limits.                                                   *)
(***************************************************************************)
EXTENDS Playback, TLAPS

QueueTypes ==
  /\ pending \in Seq(Units)
  /\ hand \in Units
  /\ gap \in Gaps

\* The chain is closed exactly while what went before is gone, and only what
\* belongs to an open chain is pending.
Closed ==
  /\ gap = "drop" <=> ~ready
  /\ pending # <<>> => ready

\* No unit is kept that follows dropped ones, unless it is a keyframe.
Kept(unit) == unit.key \/ unit.gap # "drop"
AllKept == Kept(hand) /\ \A i \in 1..Len(pending) : Kept(pending[i])

\* What reaches the codec next is a keyframe.
Fresh ==
  /\ pending = <<>> => ~ready
  /\ pending # <<>> => pending[1].key

\* A codec that has nothing to refer to, or is about to have nothing, is given
\* a keyframe first.
KeyFirst ==
  /\ cb = "reset" => Fresh
  /\ codec \in {"ok", "stalled"} /\ refs = "none" =>
       IF cb = "submit" THEN hand.key ELSE Fresh

ChainInv == QueueTypes /\ Closed /\ AllKept /\ KeyFirst

LEMMA ClearKeeps ==
  ASSUME ChainInv, Clear
  PROVE  /\ pending' = <<>> /\ pending' \in Seq(Units) /\ gap' = "drop" /\ gap' \in Gaps
         /\ ~ready' /\ Fresh' /\ Closed'
         /\ \A i \in 1..Len(pending') : Kept(pending'[i])
<1>1. pending' = <<>> /\ gap' = "drop" /\ ready' = FALSE
  BY DEF Clear
<1> QED
  BY <1>1 DEF Fresh, Closed, Gaps

\* feed(): the queue stays decodable from its front.
LEMMA QueueChain == ChainInv /\ Queue => ChainInv'
<1> SUFFICES ASSUME ChainInv, Queue PROVE ChainInv'
  OBVIOUS
<1>1. PICK large \in BOOLEAN :
        LET drop == Full \/ large
            open == ready /\ ~drop
            kept == IF drop THEN <<>> ELSE pending
        IN IF Admit(open) /\ ~large
           THEN /\ pending' = Append(kept, [key |-> rx = "key",
                                            gap |-> IF rx = "key" THEN "no" ELSE gap])
                /\ ready' = TRUE /\ gap' = "no"
           ELSE /\ pending' = kept
                /\ ready' = open
                /\ gap' = IF open THEN gap ELSE "drop"
  BY DEF Queue
<1>2. UNCHANGED <<cb, hand, codec, refs>>
  BY DEF Queue, codecVars
<1> DEFINE drop == Full \/ large
           open == ready /\ ~drop
           kept == IF drop THEN <<>> ELSE pending
           unit == [key |-> rx = "key", gap |-> IF rx = "key" THEN "no" ELSE gap]
<1>3. kept \in Seq(Units) /\ \A i \in 1..Len(kept) : Kept(kept[i])
  BY DEF ChainInv, QueueTypes, AllKept
<1>4. CASE Admit(open) /\ ~large
  <2>1. pending' = Append(kept, unit) /\ ready' = TRUE /\ gap' = "no"
    BY <1>1, <1>4
  <2>2. rx = "key" \/ open
    BY <1>4 DEF Admit
  <2>3. unit \in Units /\ Kept(unit) /\ (rx = "key" => unit.key)
    <3>1. CASE rx = "key"
      BY <3>1 DEF Units, Gaps, Kept
    <3>2. CASE rx # "key"
      <4>1. gap \in Gaps /\ gap # "drop" /\ ~drop
        BY <2>2, <3>2 DEF ChainInv, QueueTypes, Closed
      <4>2. unit = [key |-> FALSE, gap |-> gap]
        BY <3>2, <4>1
      <4> QED
        BY <3>2, <4>1, <4>2 DEF Units, Kept
    <3> QED
      BY <3>1, <3>2
  <2> HIDE DEF unit
  <2>4. /\ pending' \in Seq(Units) /\ pending' # <<>>
        /\ Len(pending') = Len(kept) + 1
        /\ \A i \in 1..Len(kept) : pending'[i] = kept[i]
        /\ pending'[Len(kept) + 1] = unit
    BY <1>3, <2>1, <2>3
  <2>5. \A i \in 1..Len(pending') : Kept(pending'[i])
    BY <1>3, <2>3, <2>4
  <2>6. Fresh => Fresh'
    <3>1. CASE kept = <<>>
      <4>1. Fresh => rx = "key"
        BY <2>2, <3>1 DEF Fresh
      <4> QED
        BY <2>1, <2>3, <2>4, <3>1, <4>1 DEF Fresh
    <3>2. CASE kept # <<>>
      <4>1. kept = pending /\ 1 \in 1..Len(kept)
        BY <1>3, <3>2
      <4> QED
        BY <2>4, <4>1 DEF Fresh
    <3> QED
      BY <3>1, <3>2
  <2> QED
    BY <1>2, <2>1, <2>4, <2>5, <2>6
    DEF ChainInv, QueueTypes, Closed, AllKept, KeyFirst, Gaps
<1>5. CASE ~(Admit(open) /\ ~large)
  <2>1. pending' = kept /\ ready' = open /\ gap' = IF open THEN gap ELSE "drop"
    BY <1>1, <1>5
  <2>2. Fresh => Fresh'
    BY <2>1 DEF Fresh
  <2>3. Closed' /\ gap' \in Gaps
    BY <2>1 DEF ChainInv, QueueTypes, Closed, Gaps
  <2> QED
    BY <1>2, <1>3, <2>1, <2>2, <2>3
    DEF ChainInv, QueueTypes, AllKept, KeyFirst
<1> QED
  BY <1>4, <1>5

LEMMA NoUnitKept == NoUnit \in Units /\ Kept(NoUnit)
BY DEF NoUnit, Units, Gaps, Kept

LEMMA InitChain == Init => ChainInv
<1> SUFFICES ASSUME Init PROVE ChainInv
  OBVIOUS
<1>1. pending = <<>> /\ ready = FALSE /\ gap = "drop" /\ hand = NoUnit /\ cb = "idle"
  BY DEF Init
<1>2. QueueTypes /\ Closed /\ Fresh
  BY <1>1, NoUnitKept DEF QueueTypes, Closed, Fresh, Gaps
<1>3. AllKept
  BY <1>1, NoUnitKept DEF AllKept
<1> QED
  BY <1>1, <1>2, <1>3 DEF ChainInv, KeyFirst

\* Whatever leaves the queue alone, and gives the codec nothing.
LEMMA QueueUnchanged ==
  ASSUME ChainInv, UNCHANGED <<pending, ready, hand>>,
         gap' \in Gaps, gap' = "drop" <=> ~ready,
         cb' = "reset" => cb = "reset",
         cb' = "submit" => cb = "submit" /\ UNCHANGED refs,
         codec' \in {"ok", "stalled"} /\ cb' = "submit" => codec \in {"ok", "stalled"},
         codec' \in {"ok", "stalled"} /\ refs' = "none" /\ cb' # "submit" => Fresh
  PROVE  ChainInv'
BY DEF ChainInv, QueueTypes, Closed, AllKept, KeyFirst, Fresh

\* Whatever clears the queue.
LEMMA ClearChain ==
  ASSUME ChainInv, Clear,
         \/ UNCHANGED <<cb, hand, codec, refs>>
         \/ cb' # "submit" /\ hand' \in {hand, NoUnit}
  PROVE  ChainInv'
<1>1. /\ pending' \in Seq(Units) /\ gap' \in Gaps /\ Fresh' /\ Closed'
      /\ \A i \in 1..Len(pending') : Kept(pending'[i])
  BY ClearKeeps
<1>2. hand' \in Units /\ Kept(hand)'
  BY NoUnitKept DEF ChainInv, QueueTypes, AllKept, Kept
<1>3. KeyFirst'
  <2>1. CASE UNCHANGED <<cb, hand, codec, refs>>
    BY <1>1, <2>1 DEF ChainInv, KeyFirst
  <2>2. CASE cb' # "submit"
    BY <1>1, <2>2 DEF KeyFirst
  <2> QED
    BY <2>1, <2>2
<1> QED
  BY <1>1, <1>2, <1>3 DEF ChainInv, QueueTypes, AllKept

\* The callback thread gives the codec what a chain needs, in order.
LEMMA TakeChain == ChainInv /\ DrainTakes => ChainInv'
<1> SUFFICES ASSUME ChainInv, DrainTakes PROVE ChainInv'
  OBVIOUS
<1>1. /\ pending # <<>> /\ hand' = Head(pending) /\ pending' = Tail(pending)
      /\ cb' = "submit" /\ UNCHANGED <<ready, gap, codec, refs>>
      /\ cb = "drain"
  BY DEF DrainTakes, codecVars
<1>2. /\ pending \in Seq(Units) /\ gap \in Gaps /\ ready
      /\ gap = "drop" <=> ~ready
      /\ \A i \in 1..Len(pending) : Kept(pending[i])
  BY <1>1 DEF ChainInv, QueueTypes, Closed, AllKept
<1>3. hand' = pending[1] /\ 1 \in 1..Len(pending) /\ hand' \in Units
  BY <1>1, <1>2
<1>4. /\ pending' \in Seq(Units)
      /\ \A i \in 1..Len(pending') : i + 1 \in 1..Len(pending) /\ pending'[i] = pending[i + 1]
  BY <1>1, <1>2
<1>5. AllKept'
  <2>1. Kept(hand)'
    BY <1>2, <1>3 DEF Kept
  <2>2. \A i \in 1..Len(pending') : Kept(pending'[i])
    BY <1>2, <1>4
  <2> QED
    BY <2>1, <2>2 DEF AllKept
<1>6. codec' \in {"ok", "stalled"} /\ refs' = "none" => hand'.key
  BY <1>1, <1>3 DEF ChainInv, KeyFirst, Fresh
<1>7. KeyFirst'
  BY <1>1, <1>6 DEF KeyFirst
<1>8. Closed' /\ QueueTypes'
  BY <1>1, <1>2, <1>3, <1>4 DEF Closed, QueueTypes
<1> QED
  BY <1>5, <1>7, <1>8 DEF ChainInv

LEMMA SubmitChain == ChainInv /\ Submit => ChainInv'
<1> SUFFICES ASSUME ChainInv, Submit PROVE ChainInv'
  OBVIOUS
<1>1. /\ cb = "submit" /\ cb' = "drain" /\ hand' = NoUnit
      /\ UNCHANGED <<pending, ready, gap, codec>>
      /\ codec \in {"ok", "stalled"}
      /\ refs' = IF hand.key THEN "whole"
                 ELSE IF refs = "none" \/ hand.gap = "drop" THEN "none"
                 ELSE IF hand.gap = "hole" THEN "holed" ELSE refs
  BY DEF Submit, inputVars
<1>2. refs' # "none"
  <2>1. CASE hand.key
    BY <1>1, <2>1
  <2>2. CASE ~hand.key
    <3>1. refs # "none" /\ hand.gap # "drop"
      BY <1>1, <2>2 DEF ChainInv, KeyFirst, AllKept, Kept
    <3> QED
      BY <1>1, <2>2, <3>1
  <2> QED
    BY <2>1, <2>2
<1>3. QueueTypes' /\ AllKept' /\ Closed'
  BY <1>1, NoUnitKept DEF ChainInv, QueueTypes, AllKept, Closed, Kept
<1> QED
  BY <1>1, <1>2, <1>3 DEF ChainInv, KeyFirst

\* A codec that is reset has nothing to refer to: recover() and setSurface()
\* cleared the queue, and feed() let only a keyframe open it since.
LEMMA ResetChain == ChainInv /\ Reset => ChainInv'
<1> SUFFICES ASSUME ChainInv, Reset PROVE ChainInv'
  OBVIOUS
<1>1. /\ cb = "reset" /\ cb' = "idle" /\ UNCHANGED <<pending, ready, gap, hand>>
  BY DEF Reset, inputVars
<1>2. Fresh
  BY <1>1 DEF ChainInv, KeyFirst
<1> QED
  BY <1>1, <1>2, QueueUnchanged DEF ChainInv, QueueTypes, Closed

\* A unit that feed() drops leaves a hole only in a chain that is open.
LEMMA FeedTestChain == ASSUME NEW kind, ChainInv, FeedTest(kind) PROVE ChainInv'
<1>1. UNCHANGED <<pending, ready, hand, cb, codec, refs>>
  BY DEF FeedTest, codecVars
<1>2. gap' = gap \/ gap' = (IF ready THEN "hole" ELSE "drop")
  <2>1. CASE released \/ recovering \/ codec = "none"
    BY <2>1 DEF FeedTest
  <2>2. CASE ~(released \/ recovering \/ codec = "none")
    BY <2>2 DEF FeedTest
  <2> QED
    BY <2>1, <2>2
<1>3. gap' \in Gaps /\ (gap' = "drop" <=> ~ready)
  BY <1>2 DEF ChainInv, QueueTypes, Closed, Gaps
<1>4. codec' \in {"ok", "stalled"} /\ refs' = "none" /\ cb' # "submit" => Fresh
  BY <1>1 DEF ChainInv, KeyFirst
<1> QED
  BY <1>1, <1>3, <1>4, QueueUnchanged

LEMMA StepChain == ChainInv /\ [Next]_vars => ChainInv'
<1> SUFFICES ASSUME ChainInv, [Next]_vars PROVE ChainInv'
  OBVIOUS
<1> USE DEF inputVars, recoveryVars, taskVars, codecVars, envVars
<1>1. ASSUME NEW kind, FeedTest(kind) PROVE ChainInv'
  BY <1>1, FeedTestChain
<1>2. CASE Queue
  BY <1>2, QueueChain
<1>3. CASE DrainTakes
  BY <1>3, TakeChain
<1>4. CASE Submit
  BY <1>4, SubmitChain
<1>5. CASE Reset
  BY <1>5, ResetChain
<1>6. gap \in Gaps /\ (gap = "drop" <=> ~ready)
  BY DEF ChainInv, QueueTypes, Closed
<1>7. codec \in {"ok", "stalled"} /\ refs = "none" /\ cb # "submit" => Fresh
  BY DEF ChainInv, KeyFirst
<1> HIDE DEF inputVars, recoveryVars, taskVars, codecVars, envVars
<1>8. CASE Age \/ CodecStalls \/ SurfaceDestroyed \/ SurfaceCreated \/ CalmsDown
          \/ RecoverWaits \/ UNCHANGED vars
  <2>1. UNCHANGED <<pending, ready, gap, hand, cb, refs>>
    BY <1>8 DEF Age, CodecStalls, SurfaceDestroyed, SurfaceCreated, CalmsDown,
                RecoverWaits, vars, inputVars, codecVars
  <2>2. UNCHANGED codec \/ (codec = "ok" /\ codec' = "stalled")
    BY <1>8 DEF Age, CodecStalls, SurfaceDestroyed, SurfaceCreated, CalmsDown,
                RecoverWaits, vars, codecVars
  <2>3. codec' \in {"ok", "stalled"} /\ refs' = "none" /\ cb' # "submit" => Fresh
    BY <1>7, <2>1, <2>2
  <2>4. codec' \in {"ok", "stalled"} => codec \in {"ok", "stalled"}
    BY <2>2
  <2> QED
    BY <1>6, <2>1, <2>3, <2>4, QueueUnchanged
<1>9. CASE InputAvailable \/ DrainTask \/ DrainEnds \/ DrainWaits \/ PostRecover
  <2>1. UNCHANGED <<pending, ready, gap, hand, codec, refs>>
    BY <1>9 DEF InputAvailable, DrainTask, DrainEnds, DrainWaits, PostRecover,
                inputVars, codecVars
  <2>2. cb # "submit" /\ (UNCHANGED cb \/ cb' \in {"idle", "drain"})
    BY <1>9 DEF InputAvailable, DrainTask, DrainEnds, DrainWaits, PostRecover
  <2>3. (cb' # "submit" /\ cb' # "reset") \/ UNCHANGED cb
    BY <2>2
  <2>4. codec' \in {"ok", "stalled"} /\ refs' = "none" => Fresh
    BY <1>7, <2>1, <2>2
  <2> QED
    BY <1>6, <2>1, <2>2, <2>3, <2>4, QueueUnchanged
<1>10. CASE DrainDrops \/ SubmitFails \/ OnError \/ Release
  <2>1. Clear
    BY <1>10 DEF DrainDrops, SubmitFails, OnError, Release
  <2>2. \/ UNCHANGED <<cb, hand, codec, refs>>
        \/ cb' # "submit" /\ hand' \in {hand, NoUnit}
    BY <1>10 DEF DrainDrops, SubmitFails, OnError, Release, codecVars
  <2> QED
    BY <2>1, <2>2, ClearChain
<1>11. CASE Recover \/ SwapSurface
  <2>1. UNCHANGED <<hand, codec, refs>>
    BY <1>11 DEF Recover, SwapSurface, codecVars
  <2>2. CASE BeginReset
    BY <2>1, <2>2, ClearChain DEF BeginReset
  <2>3. CASE UNCHANGED <<inputVars, cb>>
    <3>1. UNCHANGED <<pending, ready, gap, cb>>
      BY <2>3 DEF inputVars
    <3> QED
      BY <1>6, <1>7, <2>1, <3>1, QueueUnchanged
  <2> QED
    BY <1>11, <2>2, <2>3 DEF Recover, SwapSurface
<1>12. CASE CodecFails \/ ReleaseCodec
  <2>1. UNCHANGED <<pending, ready, gap, hand, cb>> /\ codec' \notin {"ok", "stalled"}
    BY <1>12 DEF CodecFails, ReleaseCodec, inputVars
  <2> QED
    BY <1>6, <2>1 DEF ChainInv, QueueTypes, Closed, AllKept, KeyFirst, Fresh
<1> QED
  BY <1>1, <1>2, <1>3, <1>4, <1>5, <1>8, <1>9, <1>10, <1>11, <1>12
  DEF Next, Busy, Posted

\* Whatever the queue, the codec, the surface and the recovery come to, the
\* codec is never given an inter unit when it has nothing to refer to, nor one
\* that follows units the queue dropped: every path of VideoDecoder that drops
\* or resets closes the chain, and only a keyframe opens it.
THEOREM AlwaysChainHolds == Spec => []ChainHolds
<1>1. ChainInv => ChainHolds
  BY DEF ChainInv, KeyFirst, AllKept, Kept, ChainHolds, Submitting
<1> QED
  BY <1>1, InitChain, StepChain, PTL DEF Spec
-----------------------------------------------------------------------------
(* Types and limits *)

Flags ==
  /\ stale \in BOOLEAN /\ ready \in BOOLEAN /\ recovering \in BOOLEAN
  /\ released \in BOOLEAN /\ swap \in BOOLEAN /\ failed \in BOOLEAN
  /\ bound \in BOOLEAN /\ valid \in BOOLEAN /\ calm \in BOOLEAN

Labels ==
  /\ rx \in {"idle", "key", "inter"}
  /\ drain \in {"none", "posted", "delayed"}
  /\ cb \in {"idle", "drain", "submit", "error", "reset"}
  /\ codec \in {"ok", "stalled", "dead", "none"}
  /\ refs \in {"none", "whole", "holed"}

Counts ==
  /\ streak \in 0..WedgeAfter /\ retries \in 0..MaxRetries
  /\ recovers \in 0..MaxRecovers
  /\ Len(pending) <= MaxPending

\* Where the codec's input buffers are: free ones, those it is about to return,
\* one in the hand of the callback thread.  Only a codec that is well returns
\* any, and while it is reset nobody holds one.
Lent ==
  /\ free \in Nat /\ avail \in Nat /\ free + avail <= Buffers
  /\ cb = "submit" => free + avail < Buffers
  /\ codec # "ok" => avail = 0
  /\ cb = "reset" => free = 0

TypeInv == ChainInv /\ Flags /\ Labels /\ Counts /\ Lent

\* Every flag stays one, the conditions the code stores in them included.
LEMMA FlagsStep == Flags /\ [Next]_vars => Flags'
<1> SUFFICES ASSUME Flags, [Next]_vars PROVE Flags'
  OBVIOUS
<1> USE DEF Flags, inputVars, recoveryVars, taskVars, codecVars, envVars
<1>1. ASSUME NEW kind, FeedTest(kind) PROVE Flags'
  BY <1>1 DEF FeedTest
<1>2. CASE Queue
  BY <1>2 DEF Queue, CountDrop, Wedged
<1>3. CASE Age
  BY <1>3 DEF Age
<1>4. CASE InputAvailable
  BY <1>4 DEF InputAvailable
<1>5. CASE DrainTask \/ DrainEnds \/ DrainWaits \/ DrainTakes
  BY <1>5 DEF DrainTask, DrainEnds, DrainWaits, DrainTakes
<1>6. CASE DrainDrops
  BY <1>6 DEF DrainDrops, Clear, CountDrop, Wedged
<1>7. CASE Submit
  BY <1>7 DEF Submit
<1>8. CASE SubmitFails
  BY <1>8 DEF SubmitFails, Clear, CountDrop, Wedged
<1>9. CASE OnError \/ PostRecover
  BY <1>9 DEF OnError, PostRecover, Clear
<1>10. CASE RecoverWaits
  BY <1>10 DEF RecoverWaits
<1>11. CASE Recover
  BY <1>11 DEF Recover, BeginReset, Clear
<1>12. CASE Reset
  BY <1>12 DEF Reset
<1>13. CASE SwapSurface
  BY <1>13 DEF SwapSurface, BeginReset, Clear
<1>14. CASE CodecFails \/ CodecStalls
  BY <1>14 DEF CodecFails, CodecStalls
<1>15. CASE SurfaceDestroyed \/ SurfaceCreated
  BY <1>15 DEF SurfaceDestroyed, SurfaceCreated
<1>16. CASE Release \/ ReleaseCodec \/ CalmsDown
  BY <1>16 DEF Release, ReleaseCodec, CalmsDown, Clear
<1>17. CASE UNCHANGED vars
  BY <1>17 DEF vars
<1> QED
  BY <1>1, <1>2, <1>3, <1>4, <1>5, <1>6, <1>7, <1>8, <1>9, <1>10, <1>11, <1>12,
     <1>13, <1>14, <1>15, <1>16, <1>17 DEF Next, Busy, Posted

LEMMA LabelsStep == Labels /\ [Next]_vars => Labels'
<1> SUFFICES ASSUME Labels, [Next]_vars PROVE Labels'
  OBVIOUS
<1> USE DEF Labels, inputVars, recoveryVars, taskVars, codecVars, envVars
<1>1. CASE FeedTest("key") \/ FeedTest("inter")
  BY <1>1 DEF FeedTest
<1>2. CASE Queue
  BY <1>2 DEF Queue
<1>3. CASE Age \/ InputAvailable \/ DrainTask \/ DrainEnds
  BY <1>3 DEF Age, InputAvailable, DrainTask, DrainEnds
<1>4. CASE DrainWaits \/ DrainDrops \/ DrainTakes
  BY <1>4 DEF DrainWaits, DrainDrops, DrainTakes
<1>5. CASE Submit \/ SubmitFails \/ OnError \/ PostRecover
  BY <1>5 DEF Submit, SubmitFails, OnError, PostRecover
<1>6. CASE RecoverWaits \/ Recover \/ Reset \/ SwapSurface
  BY <1>6 DEF RecoverWaits, Recover, Reset, SwapSurface, BeginReset
<1>7. CASE CodecFails \/ CodecStalls \/ SurfaceDestroyed \/ SurfaceCreated
  BY <1>7 DEF CodecFails, CodecStalls, SurfaceDestroyed, SurfaceCreated
<1>8. CASE Release \/ ReleaseCodec \/ CalmsDown \/ UNCHANGED vars
  BY <1>8 DEF Release, ReleaseCodec, CalmsDown, vars
<1> QED
  BY <1>1, <1>2, <1>3, <1>4, <1>5, <1>6, <1>7, <1>8 DEF Next, Busy, Posted

\* Neither the recovery's counters nor the queue pass their limits.
LEMMA CountsStep == ChainInv /\ Counts /\ [Next]_vars => Counts'
<1> SUFFICES ASSUME ChainInv, Counts, [Next]_vars PROVE Counts'
  OBVIOUS
<1>1. pending \in Seq(Units)
  BY DEF ChainInv, QueueTypes
<1>2. Clear => pending' = <<>> /\ Len(pending') <= MaxPending
  BY PlaybackAssumption DEF Clear
<1>3. /\ OneMore \in 0..MaxRecovers
      /\ CountDrop => /\ streak' \in 0..WedgeAfter /\ retries' \in 0..MaxRetries
                      /\ recovers' \in 0..MaxRecovers
  BY PlaybackAssumption DEF CountDrop, OneMore, Counts
<1> USE DEF inputVars, recoveryVars, taskVars, codecVars, envVars
<1>4. ASSUME NEW kind, FeedTest(kind) PROVE Counts'
  BY <1>4 DEF FeedTest, Counts
<1>5. CASE Queue
  <2> DEFINE kept(large) == IF Full \/ large THEN <<>> ELSE pending
  <2>1. PICK large \in BOOLEAN :
          /\ \/ pending' = kept(large)
             \/ pending' = Append(kept(large), [key |-> rx = "key",
                                  gap |-> IF rx = "key" THEN "no" ELSE gap])
          /\ CountDrop \/ UNCHANGED recoveryVars
    BY <1>5 DEF Queue
  <2>2. kept(large) \in {<<>>, pending}
    OBVIOUS
  <2>3. Len(kept(large)) \in Nat /\ Len(kept(large)) + 1 <= MaxPending
    BY <1>1, PlaybackAssumption DEF Full, Counts
  <2>4. Len(pending') <= MaxPending
    <3>1. CASE pending' = kept(large)
      BY <2>3, <3>1, PlaybackAssumption
    <3>2. ASSUME NEW unit, pending' = Append(kept(large), unit)
          PROVE  Len(pending') <= MaxPending
      <4>1. Len(pending') = Len(kept(large)) + 1
        BY <1>1, <2>2, <3>2
      <4> QED
        BY <2>3, <4>1
    <3> QED
      BY <2>1, <3>1, <3>2
  <2>5. /\ streak' \in 0..WedgeAfter /\ retries' \in 0..MaxRetries
        /\ recovers' \in 0..MaxRecovers
    BY <1>3, <2>1 DEF Counts
  <2> QED
    BY <2>4, <2>5 DEF Counts
<1>6. CASE Age \/ InputAvailable \/ DrainTask \/ DrainEnds \/ DrainWaits
  BY <1>6 DEF Age, InputAvailable, DrainTask, DrainEnds, DrainWaits, Counts
<1>7. CASE DrainDrops \/ SubmitFails
  BY <1>2, <1>3, <1>7 DEF DrainDrops, SubmitFails, Counts
<1>8. CASE DrainTakes
  <2>1. Len(pending') <= MaxPending
    BY <1>1, <1>8, PlaybackAssumption DEF DrainTakes, Counts
  <2> QED
    BY <1>8, <2>1 DEF DrainTakes, Counts
<1>9. CASE Submit \/ OnError \/ PostRecover
  BY <1>2, <1>3, <1>9, PlaybackAssumption DEF Submit, OnError, PostRecover, Counts
<1>10. CASE RecoverWaits
  BY <1>10, PlaybackAssumption DEF RecoverWaits, Counts
<1>11. CASE Recover \/ SwapSurface
  BY <1>2, <1>11, PlaybackAssumption DEF Recover, SwapSurface, BeginReset, Counts
<1>12. CASE Reset \/ CodecFails \/ CodecStalls \/ SurfaceDestroyed \/ SurfaceCreated
  BY <1>12 DEF Reset, CodecFails, CodecStalls, SurfaceDestroyed, SurfaceCreated, Counts
<1>13. CASE Release \/ ReleaseCodec \/ CalmsDown \/ UNCHANGED vars
  BY <1>2, <1>13, PlaybackAssumption DEF Release, ReleaseCodec, CalmsDown, vars, Counts
<1> QED
  BY <1>4, <1>5, <1>6, <1>7, <1>8, <1>9, <1>10, <1>11, <1>12, <1>13
  DEF Next, Busy, Posted

\* A buffer is free, about to be returned, in the callback thread's hand, or
\* with the codec: never in two of these places.
LEMMA LentStep == Lent /\ [Next]_vars => Lent'
<1> SUFFICES ASSUME Lent, [Next]_vars PROVE Lent'
  OBVIOUS
<1> USE PlaybackAssumption
    DEF Lent, inputVars, recoveryVars, taskVars, codecVars, envVars
<1>1. CASE FeedTest("key") \/ FeedTest("inter") \/ Queue \/ Age
  BY <1>1 DEF FeedTest, Queue, Age
<1>2. CASE InputAvailable
  BY <1>2 DEF InputAvailable
<1>3. CASE DrainTask \/ DrainEnds \/ DrainWaits \/ DrainDrops
  BY <1>3 DEF DrainTask, DrainEnds, DrainWaits, DrainDrops
<1>4. CASE DrainTakes
  BY <1>4 DEF DrainTakes
<1>5. CASE Submit
  BY <1>5 DEF Submit
<1>6. CASE SubmitFails
  BY <1>6 DEF SubmitFails
<1>7. CASE OnError \/ PostRecover
  BY <1>7 DEF OnError, PostRecover
<1>8. CASE RecoverWaits \/ Recover
  BY <1>8 DEF RecoverWaits, Recover, BeginReset
<1>9. CASE Reset
  BY <1>9 DEF Reset
<1>10. CASE SwapSurface
  BY <1>10 DEF SwapSurface, BeginReset
<1>11. CASE CodecFails \/ CodecStalls \/ SurfaceDestroyed \/ SurfaceCreated
  BY <1>11 DEF CodecFails, CodecStalls, SurfaceDestroyed, SurfaceCreated
<1>12. CASE Release \/ ReleaseCodec \/ CalmsDown \/ UNCHANGED vars
  BY <1>12 DEF Release, ReleaseCodec, CalmsDown, vars
<1> QED
  BY <1>1, <1>2, <1>3, <1>4, <1>5, <1>6, <1>7, <1>8, <1>9, <1>10, <1>11, <1>12
  DEF Next, Busy, Posted

\* Types, the limit of the queue and of the recovery's counters, and the codec's
\* input buffers: however the codec, its callbacks, the surface and the session
\* interleave, no more of them are free or on their way than there are.
THEOREM TypeCorrect == Spec => []TypeOK
<1>1. Init => TypeInv
  <2> SUFFICES ASSUME Init PROVE TypeInv
    OBVIOUS
  <2>1. Flags
    BY DEF Init, Flags
  <2>2. Labels /\ Counts
    BY PlaybackAssumption DEF Init, Labels, Counts
  <2>3. Lent
    BY PlaybackAssumption DEF Init, Lent
  <2> QED
    BY <2>1, <2>2, <2>3, InitChain DEF TypeInv
<1>2. TypeInv /\ [Next]_vars => TypeInv'
  BY StepChain, FlagsStep, LabelsStep, CountsStep, LentStep DEF TypeInv
<1>3. TypeInv => TypeOK
  <2> SUFFICES ASSUME TypeInv PROVE TypeOK
    OBVIOUS
  <2>1. {stale, ready, recovering, released, swap, failed, bound, valid, calm}
          \subseteq BOOLEAN
    BY DEF TypeInv, Flags
  <2>2. free + avail \in 0..Buffers
    BY PlaybackAssumption DEF TypeInv, Lent
  <2> QED
    BY <2>1, <2>2 DEF TypeInv, ChainInv, QueueTypes, Labels, Counts, TypeOK
<1> QED
  BY <1>1, <1>2, <1>3, PTL DEF Spec

=============================================================================
