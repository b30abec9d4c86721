-------------------------- MODULE RtpReceiverProofs --------------------------
(***************************************************************************)
(* Theorems about RtpReceiver, for every layout of access units, width of  *)
(* the sequence number and limit: the jitter buffer holds what is ahead,   *)
(* every gap is reported, and what the decoder is given is a VideoStream.  *)
(***************************************************************************)
EXTENDS RtpReceiver, FiniteSetTheorems, TLAPS

Depacketizers ==
  [pts : Nat, frame : SUBSET Nat, fuActive : BOOLEAN, keyframe : BOOLEAN,
   damaged : BOOLEAN, pendingGap : BOOLEAN, awaitingKeyframe : BOOLEAN]

-----------------------------------------------------------------------------
(* The inductive invariant *)

\* What the streamer has sent: access units in order, packets numbered through,
\* a marker exactly where a unit ends and the next one begins.
StreamTypes ==
  /\ units \in Seq(BOOLEAN) /\ pos \in Nat /\ sent \subseteq Packet
  /\ chained \in BOOLEAN

OfUnits ==
  \A p \in sent :
    /\ p.unit \in 1 .. Len(units) /\ p.pos < pos
    /\ p.kind \in IdrKinds => units[p.unit]
    /\ p.pos + 1 = pos => p.marker /\ p.unit = Len(units)

Ordered ==
  \A p, q \in sent :
    /\ p.pos = q.pos => p = q
    /\ p.pos < q.pos => p.unit <= q.unit /\ (p.marker => p.unit < q.unit)
    /\ q.pos = p.pos + 1 => q.unit = (IF p.marker THEN p.unit + 1 ELSE p.unit)

StreamInv == StreamTypes /\ OfUnits /\ Ordered

\* Before the first packet of the video.
Fresh ==
  /\ highestExtSeq = -1 /\ nextExtSeq = -1
  /\ jitter = {} /\ depack = NewDepacketizer
  /\ offset = 0 /\ first = 0 /\ nacked = {} /\ shown = 0 /\ whole = TRUE

\* Extended sequence numbers are positions, shifted by whole turns of the
\* sequence number; what is held is ahead of the playout point.
Numbers ==
  /\ highestExtSeq \in Nat /\ nextExtSeq \in Nat
  /\ nextExtSeq <= highestExtSeq + 1
  /\ offset \in Nat /\ offset % SeqMod = 0
  /\ first \in Nat \ {0}
  /\ nacked \subseteq Nat

Held ==
  /\ jitter \subseteq [ext : Nat, packet : sent]
  /\ IsFiniteSet(jitter) /\ Cardinality(jitter) <= JitterMax + 1
  /\ at # "drain" => /\ Cardinality(jitter) <= JitterMax
                     /\ \A e \in jitter : e.ext # nextExtSeq
  /\ \A e \in jitter :
       e.ext = e.packet.pos - offset /\ e.ext \in nextExtSeq .. highestExtSeq

\* d is within packet p's unit, f is the unit the connection starts with.  The
\* frame has all of the unit that was sent at the positions up to last, unless
\* the unit is spoilt or the first one.
Within(d, p, f, last) ==
  /\ d \in Depacketizers /\ ~d.pendingGap /\ d.pts = p.unit
  /\ d.damaged => d.awaitingKeyframe
  /\ d.keyframe => units[p.unit]
  /\ \A n \in d.frame : \E q \in sent : q.unit = p.unit /\ q.pos = n
  /\ ~d.damaged /\ p.unit # f =>
       \A q \in sent : q.unit = p.unit /\ q.pos <= last => q.pos \in d.frame
  /\ ~d.awaitingKeyframe => shown + 1 = p.unit \/ p.unit = f

\* d is between units: p was the last packet of one.
Between(d, p) ==
  /\ d \in Depacketizers /\ ~d.pendingGap /\ d.pts = 0
  /\ ~d.damaged /\ ~d.keyframe
  /\ ~d.awaitingKeyframe => shown = p.unit

\* The depacketizer after p, the last packet it was fed.
FedBy(p) ==
  /\ p.pos + 1 = offset + nextExtSeq
  /\ first <= p.unit
  /\ shown <= p.unit
  /\ IF p.marker THEN Between(depack, p)
     ELSE Within(depack, p, first, p.pos) /\ shown < p.unit

Fed == \E p \in sent : FedBy(p)

\* What was shown is whole, or the unit the connection starts with.
Shown ==
  /\ shown \in Nat /\ whole \in BOOLEAN
  /\ whole \/ shown = first

\* What is missing has been asked for.
Reported ==
  \A n \in nextExtSeq .. highestExtSeq :
    n \in nacked \/ \E e \in jitter : e.ext = n

Started == Numbers /\ Held /\ Reported /\ Fed /\ Shown

ReceiverInv == Fresh \/ Started

\* What a step may show: a keyframe, the unit the connection starts with, or the
\* unit after the one shown before.
ShownStep ==
  \/ UNCHANGED <<shown, whole>>
  \/ /\ UNCHANGED units
     /\ shown' \in shown + 1 .. Len(units)
     /\ units[shown'] \/ shown' = first' \/ (shown > 0 /\ shown' = shown + 1)

-----------------------------------------------------------------------------
(* The streamer *)

\* The packets of a new access unit follow all others; only its last one has
\* the marker.
LEMMA NewPackets ==
  ASSUME StreamTypes, NEW key \in BOOLEAN,
         NEW layout \in IF key THEN KeyLayouts ELSE DeltaLayouts,
         NEW p \in PacketsOf(Len(units) + 1, layout)
  PROVE  /\ p \in Packet /\ p.unit = Len(units) + 1
         /\ p.pos >= pos /\ p.pos < pos + Len(layout)
         /\ p.marker <=> p.pos + 1 = pos + Len(layout)
         /\ p.kind \in IdrKinds => key
         /\ \A q \in PacketsOf(Len(units) + 1, layout) : p.pos = q.pos => p = q
<1>1. layout \in Seq(Kinds) /\ layout # <<>> /\ Len(layout) \in Nat \ {0}
  BY RtpReceiverAssumption DEF IdrKinds, Kinds
<1>2. PICK i \in 1 .. Len(layout) :
        p = [pos |-> pos + i - 1, unit |-> Len(units) + 1, kind |-> layout[i],
             marker |-> i = Len(layout)]
  BY DEF PacketsOf
<1>3. layout[i] \in Kinds /\ (layout[i] \in IdrKinds => key)
  <2>1. CASE key
    BY <1>1, <2>1
  <2>2. CASE ~key
    <3>1. layout \in Seq(Kinds \ IdrKinds)
      BY <2>2, RtpReceiverAssumption
    <3> QED
      BY <3>1
  <2> QED
    BY <2>1, <2>2
<1>4. p \in Packet
  <2>1. pos + i - 1 \in Nat /\ Len(units) + 1 \in Nat
    BY <1>1 DEF StreamTypes
  <2> QED
    BY <1>2, <1>3, <2>1 DEF Packet
<1>5. ASSUME NEW q \in PacketsOf(Len(units) + 1, layout), p.pos = q.pos
      PROVE  p = q
  <2>1. PICK j \in 1 .. Len(layout) :
          q = [pos |-> pos + j - 1, unit |-> Len(units) + 1, kind |-> layout[j],
               marker |-> j = Len(layout)]
    BY DEF PacketsOf
  <2>2. i = j
    BY <1>1, <1>2, <1>5, <2>1 DEF StreamTypes
  <2> QED
    BY <1>2, <2>1, <2>2
<1>6. /\ p.unit = Len(units) + 1 /\ p.pos >= pos /\ p.pos < pos + Len(layout)
      /\ p.kind \in IdrKinds => key
  BY <1>1, <1>2, <1>3 DEF StreamTypes
<1>7. p.marker <=> p.pos + 1 = pos + Len(layout)
  <2>1. p.marker = (i = Len(layout))
    BY <1>2
  <2>2. pos \in Nat /\ p.pos = pos + i - 1
    BY <1>2 DEF StreamTypes
  <2>3. p.pos + 1 = pos + Len(layout) <=> i = Len(layout)
    BY <1>1, <2>2
  <2> QED
    BY <2>1, <2>3
<1> QED
  BY <1>4, <1>5, <1>6, <1>7

LEMMA SendStream == StreamInv /\ SendUnit => StreamInv'
<1> USE RtpReceiverAssumption
<1> SUFFICES ASSUME StreamInv, NEW key \in BOOLEAN,
                    NEW layout \in IF key THEN KeyLayouts ELSE DeltaLayouts,
                    NEW cut \in 0 .. Len(layout),
                    units' = Append(units, key),
                    sent' = sent \cup {p \in PacketsOf(Len(units) + 1, layout) :
                                         p.pos < pos + cut},
                    pos' = pos + Len(layout),
                    chained' = (cut = Len(layout))
             PROVE  StreamInv'
  BY DEF SendUnit
<1> DEFINE New == {p \in PacketsOf(Len(units) + 1, layout) : p.pos < pos + cut}
<1>2. layout \in Seq(Kinds) /\ Len(layout) \in Nat \ {0}
  BY DEF IdrKinds, Kinds
<1>3. /\ StreamTypes /\ pos \in Nat /\ Len(units) \in Nat
      /\ Len(units') = Len(units) + 1 /\ units'[Len(units) + 1] = key
      /\ \A n \in 1 .. Len(units) : units'[n] = units[n]
  BY DEF StreamInv, StreamTypes
<1>4. \A p \in New :
        /\ p \in Packet /\ p.unit = Len(units) + 1
        /\ p.pos >= pos /\ p.pos < pos + Len(layout)
        /\ p.marker <=> p.pos + 1 = pos + Len(layout)
        /\ p.kind \in IdrKinds => key
        /\ \A q \in New : p.pos = q.pos => p = q
  BY <1>3, NewPackets
<1>5. \A p \in sent : /\ p \in Packet /\ p.pos \in Nat /\ p.unit \in 1 .. Len(units)
                      /\ p.pos < pos
                      /\ p.pos + 1 = pos => p.marker /\ p.unit = Len(units)
                      /\ p.kind \in IdrKinds => units[p.unit]
  BY <1>3 DEF StreamInv, StreamTypes, OfUnits, Packet
<1>6. sent' = sent \cup New
  OBVIOUS
<1> HIDE DEF New
<1>7. StreamTypes'
  BY <1>2, <1>3, <1>4, <1>6 DEF StreamInv, StreamTypes
<1>8. OfUnits'
  <2>1. ASSUME NEW p \in sent'
        PROVE  /\ p.unit \in 1 .. Len(units') /\ p.pos < pos'
               /\ p.kind \in IdrKinds => units'[p.unit]
               /\ p.pos + 1 = pos' => p.marker /\ p.unit = Len(units')
    <3>1. CASE p \in New
      <4>1. /\ p.pos \in Nat /\ p.unit = Len(units) + 1 /\ p.pos < pos + Len(layout)
            /\ p.marker <=> p.pos + 1 = pos + Len(layout)
            /\ p.kind \in IdrKinds => key
        BY <1>4, <3>1 DEF Packet
      <4> QED
        BY <1>2, <1>3, <4>1
    <3>2. CASE p \in sent
      <4>1. /\ p.unit \in 1 .. Len(units) /\ p.pos \in Nat /\ p.pos < pos
            /\ p.kind \in IdrKinds => units[p.unit]
        BY <1>5, <3>2
      <4>2. units'[p.unit] = units[p.unit]
        BY <1>3, <4>1
      <4>3. p.pos + 1 # pos'
        BY <1>2, <1>3, <4>1
      <4> QED
        BY <1>2, <1>3, <4>1, <4>2, <4>3
    <3> QED
      BY <1>6, <3>1, <3>2
  <2> QED
    BY <2>1 DEF OfUnits
<1>9. Ordered'
  <2>1. ASSUME NEW p \in sent', NEW q \in sent'
        PROVE  /\ p.pos = q.pos => p = q
               /\ p.pos < q.pos => p.unit <= q.unit /\ (p.marker => p.unit < q.unit)
               /\ q.pos = p.pos + 1 =>
                    q.unit = (IF p.marker THEN p.unit + 1 ELSE p.unit)
    <3>1. CASE p \in sent /\ q \in sent
      BY <3>1 DEF StreamInv, Ordered
    <3>2. CASE p \in sent /\ q \in New
      <4>1. q.pos \in Nat /\ q.pos >= pos /\ q.unit = Len(units) + 1
        BY <1>4, <3>2 DEF Packet
      <4>2. /\ p.pos \in Nat /\ p.unit \in 1 .. Len(units) /\ p.pos < pos
            /\ p.pos + 1 = pos => p.marker /\ p.unit = Len(units)
        BY <1>5, <3>2
      <4>3. p.pos # q.pos /\ p.unit < q.unit
        BY <1>3, <4>1, <4>2
      <4>4. ASSUME q.pos = p.pos + 1 PROVE p.marker /\ q.unit = p.unit + 1
        BY <1>3, <4>1, <4>2, <4>4, SMTT(30)
      <4>5. p.unit \in Int /\ q.unit \in Int
        BY <1>3, <4>1, <4>2
      <4> QED
        BY <4>3, <4>4, <4>5
    <3>3. CASE p \in New /\ q \in sent
      <4>1. p.pos \in Nat /\ p.pos >= pos
        BY <1>4, <3>3 DEF Packet
      <4>2. q.pos \in Nat /\ q.pos < pos
        BY <1>5, <3>3
      <4> QED
        BY <1>3, <4>1, <4>2
    <3>4. CASE p \in New /\ q \in New
      <4>1. /\ p.pos = q.pos => p = q
            /\ p.pos \in Nat /\ q.pos \in Nat
            /\ p.unit = Len(units) + 1 /\ q.unit = Len(units) + 1
            /\ q.pos < pos + Len(layout)
            /\ p.marker <=> p.pos + 1 = pos + Len(layout)
        BY <1>4, <3>4 DEF Packet
      <4> QED
        BY <1>2, <1>3, <4>1
    <3> QED
      BY <1>6, <3>1, <3>2, <3>3, <3>4
  <2> QED
    BY <2>1 DEF Ordered
<1> QED
  BY <1>7, <1>8, <1>9 DEF StreamInv

LEMMA StreamStep == StreamInv /\ [Next]_vars => StreamInv'
<1> SUFFICES ASSUME StreamInv, [Next]_vars PROVE StreamInv'
  OBVIOUS
<1>1. SendUnit \/ UNCHANGED senderVars
  BY DEF Next, vars, PliArrives, PliLost, DrainHeld, DrainDone, LearnEndpoint,
         ServePending, NoVideo, ReceiveVideo, AskKeyframe, DeferPli
<1>2. CASE UNCHANGED senderVars
  BY <1>2 DEF senderVars, StreamInv, StreamTypes, OfUnits, Ordered
<1> QED
  BY <1>1, <1>2, SendStream

-----------------------------------------------------------------------------
(* The depacketizer *)

LEMMA InvalidateType ==
  ASSUME NEW d \in Depacketizers
  PROVE  /\ Invalidate(d) \in Depacketizers
         /\ Invalidate(d).damaged /\ Invalidate(d).awaitingKeyframe
         /\ Invalidate(d).frame = {} /\ Invalidate(d).pts = d.pts
         /\ Invalidate(d).keyframe = d.keyframe
         /\ Invalidate(d).pendingGap = d.pendingGap
BY DEF Invalidate, Depacketizers

LEMMA InvalidateWithin ==
  ASSUME NEW p, NEW d, NEW f, NEW last, Within(d, p, f, last)
  PROVE  \A n : Within(Invalidate(d), p, f, n)
<1>1. d \in Depacketizers
  BY DEF Within
<1> QED
  BY <1>1, InvalidateType DEF Within

\* The record with which feed() begins to append the payload of p.
Opened(d, p) == TakeGap(BeginUnit(d, p))

\* The depacketizer as feed() finds it: after packet l, and told of the gap.
LEMMA OpenWithin ==
  ASSUME StreamInv, shown \in Nat, NEW l \in sent, FedBy(l),
         NEW p \in sent, l.pos < p.pos
  PROVE  /\ p.pos = l.pos + 1 => Within(Opened(depack, p), p, first, p.pos - 1)
         /\ p.pos # l.pos + 1 => Within(Opened(OnGap(depack), p), p, first, p.pos - 1)
<1> DEFINE d == depack
<1>1. /\ l.pos \in Nat /\ p.pos \in Nat /\ l.unit \in Nat \ {0} /\ p.unit \in Nat \ {0}
      /\ l.marker \in BOOLEAN
      /\ \A q \in sent : q.pos \in Nat /\ q.unit \in Nat
  BY DEF StreamInv, StreamTypes, OfUnits, Packet
<1>2. /\ l.unit <= p.unit
      /\ p.pos = l.pos + 1 => p.unit = (IF l.marker THEN l.unit + 1 ELSE l.unit)
  BY DEF StreamInv, Ordered
<1>3. /\ d \in Depacketizers /\ ~d.pendingGap
      /\ d.damaged => d.awaitingKeyframe
      /\ d.pts = (IF l.marker THEN 0 ELSE l.unit)
      /\ d.keyframe => ~l.marker /\ units[l.unit]
  BY DEF FedBy, Within, Between
<1>4. CASE p.pos = l.pos + 1 /\ l.marker
  <2>1. d.pts = 0 /\ ~d.damaged /\ (~d.awaitingKeyframe => shown + 1 = p.unit)
    BY <1>1, <1>2, <1>4 DEF FedBy, Between
  <2>2. Opened(d, p) = [d EXCEPT !.frame = {}, !.fuActive = FALSE, !.keyframe = FALSE,
                                 !.damaged = FALSE, !.pts = p.unit,
                                 !.pendingGap = FALSE]
    BY <1>1, <1>3, <2>1 DEF Opened, TakeGap, BeginUnit, Depacketizers
  <2>3. /\ Opened(d, p) \in Depacketizers /\ ~Opened(d, p).pendingGap
        /\ Opened(d, p).pts = p.unit /\ ~Opened(d, p).damaged
        /\ ~Opened(d, p).keyframe /\ Opened(d, p).frame = {}
        /\ Opened(d, p).awaitingKeyframe = d.awaitingKeyframe
    BY <1>1, <1>3, <2>2 DEF Depacketizers
  <2>4. \A q \in sent : q.unit = p.unit => ~(q.pos <= p.pos - 1)
    <3>1. ASSUME NEW q \in sent, q.unit = p.unit, q.pos <= p.pos - 1 PROVE FALSE
      <4>1. CASE q.pos = l.pos
        <5>1. q = l
          BY <4>1 DEF StreamInv, Ordered
        <5> QED
          BY <1>1, <1>2, <1>4, <3>1, <5>1
      <4>2. CASE q.pos # l.pos
        <5>1. q.pos < l.pos
          BY <1>1, <1>4, <3>1, <4>2
        <5>2. q.unit <= l.unit
          BY <5>1 DEF StreamInv, Ordered
        <5> QED
          BY <1>1, <1>2, <1>4, <3>1, <5>2
      <4> QED
        BY <4>1, <4>2
    <3> QED
      BY <3>1
  <2> QED
    BY <1>1, <1>4, <2>1, <2>3, <2>4 DEF Within
<1>5. CASE p.pos = l.pos + 1 /\ ~l.marker
  <2>1. Within(d, l, first, l.pos) /\ p.unit = l.unit /\ d.pts = p.unit
    BY <1>2, <1>3, <1>5 DEF FedBy
  <2>2. Opened(d, p) = d
    BY <1>3, <2>1 DEF Opened, TakeGap, BeginUnit, Depacketizers
  <2>3. l.pos = p.pos - 1
    BY <1>1, <1>5
  <2> QED
    BY <1>1, <1>5, <2>1, <2>2, <2>3 DEF Within
<1>6. CASE p.pos # l.pos + 1
  <2> DEFINE g == OnGap(d)
  <2>1. /\ g \in Depacketizers /\ g.pendingGap /\ g.damaged /\ g.awaitingKeyframe
        /\ g.frame = {} /\ g.pts = d.pts /\ g.keyframe = d.keyframe
    BY <1>3, InvalidateType DEF OnGap, Depacketizers
  <2> HIDE DEF g
  <2>2. /\ Opened(g, p) \in Depacketizers /\ ~Opened(g, p).pendingGap
        /\ Opened(g, p).pts = p.unit /\ Opened(g, p).damaged
        /\ Opened(g, p).awaitingKeyframe /\ Opened(g, p).frame = {}
        /\ Opened(g, p).keyframe => g.pts = p.unit /\ g.keyframe
    <3>1. CASE g.pts = p.unit
      <4>1. Opened(g, p) = [g EXCEPT !.damaged = TRUE, !.pendingGap = FALSE]
        BY <2>1, <3>1 DEF Opened, TakeGap, BeginUnit, Depacketizers
      <4> QED
        BY <2>1, <3>1, <4>1 DEF Depacketizers
    <3>2. CASE g.pts # p.unit
      <4> DEFINE h == IF g.pts # 0 THEN Invalidate(g) ELSE g
      <4>1. /\ h \in Depacketizers /\ h.awaitingKeyframe /\ h.pendingGap
        BY <2>1, InvalidateType
      <4>2. Opened(g, p) = [h EXCEPT !.frame = {}, !.fuActive = FALSE,
                                     !.keyframe = FALSE, !.damaged = TRUE,
                                     !.pts = p.unit, !.pendingGap = FALSE]
        <5> HIDE DEF h
        <5>1. BeginUnit(g, p) =
                [h EXCEPT !.frame = {}, !.fuActive = FALSE, !.keyframe = FALSE,
                          !.damaged = g.pendingGap, !.pts = p.unit]
          BY <3>2 DEF BeginUnit, h
        <5>2. TakeGap(BeginUnit(g, p)) =
                [h EXCEPT !.frame = {}, !.fuActive = FALSE, !.keyframe = FALSE,
                          !.damaged = TRUE, !.pts = p.unit, !.pendingGap = FALSE]
          BY <1>1, <2>1, <4>1, <5>1 DEF TakeGap, Depacketizers
        <5> QED
          BY <5>2 DEF Opened
      <4> HIDE DEF h
      <4> QED
        BY <1>1, <4>1, <4>2 DEF Depacketizers
    <3> QED
      BY <3>1, <3>2
  <2>3. Opened(g, p).keyframe => units[p.unit]
    BY <1>1, <1>3, <2>1, <2>2
  <2> QED
    BY <1>6, <2>2, <2>3 DEF Within, g
<1> QED
  BY <1>4, <1>5, <1>6

\* The first packet of all.
LEMMA OpenFirst ==
  ASSUME StreamInv, NEW p \in sent
  PROVE  Within(Opened(NewDepacketizer, p), p, p.unit, p.pos - 1)
<1>1. p.unit \in Nat \ {0}
  BY DEF StreamInv, StreamTypes, OfUnits
<1> DEFINE d == NewDepacketizer
<1>2. /\ d \in Depacketizers /\ d.pts = 0 /\ d.frame = {}
      /\ ~d.keyframe /\ ~d.damaged /\ ~d.pendingGap /\ ~d.awaitingKeyframe
  BY DEF NewDepacketizer, Depacketizers
<1> HIDE DEF d
<1>3. Opened(d, p) = [d EXCEPT !.frame = {}, !.fuActive = FALSE, !.keyframe = FALSE,
                               !.damaged = FALSE, !.pts = p.unit,
                               !.pendingGap = FALSE]
  BY <1>1, <1>2 DEF Opened, TakeGap, BeginUnit, Depacketizers
<1>4. /\ Opened(d, p) \in Depacketizers /\ ~Opened(d, p).pendingGap
      /\ Opened(d, p).pts = p.unit /\ ~Opened(d, p).damaged
      /\ ~Opened(d, p).keyframe /\ Opened(d, p).frame = {}
  BY <1>1, <1>2, <1>3 DEF Depacketizers
<1> QED
  BY <1>4 DEF Within, d

\* Appending a payload, or giving the unit up, keeps what Within says.
LEMMA AssembleWithin ==
  ASSUME StreamInv, NEW p \in sent, NEW f, NEW d, Within(d, p, f, p.pos - 1)
  PROVE  /\ Within(Assemble(d, p), p, f, p.pos)
         /\ ~Assemble(d, p).damaged => p.pos \in Assemble(d, p).frame
<1> DEFINE a == Assemble(d, p)
           inside == p.kind \in {"mid", "end"}
<1>1. d \in Depacketizers /\ p.pos \in Nat /\ p.unit \in 1 .. Len(units)
      /\ (p.kind \in IdrKinds => units[p.unit])
  BY DEF Within, StreamInv, StreamTypes, OfUnits, Packet
<1>2. CASE d.damaged
  <2>1. a = d
    BY <1>2 DEF Assemble
  <2> QED
    BY <1>2, <2>1 DEF Within
<1>3. CASE ~d.damaged /\ (Cardinality(d.frame) >= MaxFrame \/ inside # d.fuActive)
  <2>1. a = Invalidate(d)
    BY <1>3 DEF Assemble
  <2> QED
    BY <1>1, <2>1, InvalidateWithin, InvalidateType
<1>4. CASE ~d.damaged /\ ~(Cardinality(d.frame) >= MaxFrame \/ inside # d.fuActive)
  <2>1. a = [d EXCEPT !.frame = d.frame \cup {p.pos},
                      !.keyframe = d.keyframe \/ p.kind \in IdrKinds,
                      !.fuActive = p.kind \in {"start", "istart"} \/ p.kind = "mid"]
    BY <1>4 DEF Assemble
  <2> DEFINE key == d.keyframe \/ p.kind \in IdrKinds
             fu == p.kind \in {"start", "istart"} \/ p.kind = "mid"
             fr == d.frame \cup {p.pos}
  <2>a. key \in BOOLEAN /\ fu \in BOOLEAN /\ fr \in SUBSET Nat
    <3>1. d.frame \in SUBSET Nat
      BY <1>1 DEF Depacketizers
    <3> QED
      BY <1>1, <3>1
  <2>b. a = [d EXCEPT !.frame = fr, !.keyframe = key, !.fuActive = fu]
    BY <2>1
  <2> HIDE DEF key, fu, fr
  <2>c. /\ a \in Depacketizers /\ a.frame = fr /\ a.pts = d.pts
        /\ a.keyframe = key
        /\ a.damaged = d.damaged /\ a.pendingGap = d.pendingGap
        /\ a.awaitingKeyframe = d.awaitingKeyframe
    <3> HIDE DEF a
    <3> QED
      BY <1>1, <2>a, <2>b DEF Depacketizers
  <2>2. /\ a \in Depacketizers /\ a.frame = d.frame \cup {p.pos} /\ a.pts = d.pts
        /\ a.keyframe <=> (d.keyframe \/ p.kind \in IdrKinds)
        /\ a.damaged = d.damaged /\ a.pendingGap = d.pendingGap
        /\ a.awaitingKeyframe = d.awaitingKeyframe
    BY <2>c DEF key, fr
  <2> HIDE DEF a
  <2>3. \A n \in a.frame : \E q \in sent : q.unit = p.unit /\ q.pos = n
    BY <2>2 DEF Within
  <2>4. ASSUME p.unit # f, NEW q \in sent, q.unit = p.unit, q.pos <= p.pos
        PROVE  q.pos \in a.frame
    <3>1. q.pos \in Nat
      BY DEF StreamInv, StreamTypes, Packet
    <3>2. q.pos = p.pos \/ q.pos <= p.pos - 1
      BY <1>1, <2>4, <3>1
    <3> QED
      BY <1>4, <2>2, <2>4, <3>2 DEF Within
  <2> QED
    BY <1>1, <1>4, <2>2, <2>3, <2>4 DEF Within, a
<1> QED
  BY <1>2, <1>3, <1>4

\* What feed() has assembled when it looks at the marker.
Taken(d, p) ==
  LET a == Assemble(Opened(d, p), p)
  IN  IF p.marker /\ a.fuActive THEN Invalidate(a) ELSE a

LEMMA TakenWithin ==
  ASSUME StreamInv, NEW p \in sent, NEW f, NEW d,
         Within(Opened(d, p), p, f, p.pos - 1)
  PROVE  /\ Within(Taken(d, p), p, f, p.pos)
         /\ ~Taken(d, p).damaged => p.pos \in Taken(d, p).frame
<1> DEFINE a == Assemble(Opened(d, p), p)
<1>1. Within(a, p, f, p.pos) /\ (~a.damaged => p.pos \in a.frame)
  BY AssembleWithin
<1>2. Within(Invalidate(a), p, f, p.pos) /\ Invalidate(a).damaged
  <2> HIDE DEF a
  <2>1. a \in Depacketizers
    BY <1>1 DEF Within
  <2> QED
    BY <1>1, <2>1, InvalidateWithin, InvalidateType
<1>3. Taken(d, p) = a \/ Taken(d, p) = Invalidate(a)
  BY DEF Taken
<1> QED
  BY <1>1, <1>2, <1>3

\* A whole unit: nothing of it follows the packet with the marker.
LEMMA WholeFrame ==
  ASSUME StreamInv, NEW p \in sent, p.marker, NEW f, NEW b,
         Within(b, p, f, p.pos), ~b.damaged, p.unit # f
  PROVE  b.frame = {q.pos : q \in {r \in sent : r.unit = p.unit}}
<1>1. ASSUME NEW q \in sent, q.unit = p.unit PROVE q.pos <= p.pos
  <2>1. p.pos \in Nat /\ q.pos \in Nat /\ p.unit \in Nat
    BY DEF StreamInv, StreamTypes, Packet
  <2>2. p.pos < q.pos => p.unit < q.unit
    BY DEF StreamInv, Ordered
  <2> QED
    BY <1>1, <2>1, <2>2
<1>2. \A q \in sent : q.unit = p.unit => q.pos \in b.frame
  BY <1>1 DEF Within
<1>3. \A n \in b.frame : \E q \in sent : q.unit = p.unit /\ q.pos = n
  BY DEF Within
<1> QED
  BY <1>2, <1>3

\* feed(): the depacketizer is after p, and what is shown is a unit the decoder
\* can decode.
LEMMA FeedFed ==
  ASSUME StreamInv, NEW p \in sent, NEW d, NEW f \in Nat,
         Within(Opened(d, p), p, f, p.pos - 1),
         shown \in Nat, shown < p.unit, f <= p.unit,
         whole \in BOOLEAN, whole \/ shown = f,
         Feed(d, p), UNCHANGED <<units, sent>>,
         first' = f, p.pos + 1 = offset' + nextExtSeq'
  PROVE  /\ FedBy(p)' /\ Shown'
         /\ \/ UNCHANGED <<shown, whole>>
            \/ /\ shown' = p.unit
               /\ units[p.unit] \/ p.unit = f \/ shown + 1 = p.unit
<1> DEFINE b == Taken(d, p)
<1>1. /\ depack' = IF p.marker THEN EndUnit(b) ELSE b
      /\ IF p.marker /\ Emits(b)
         THEN /\ shown' = p.unit
              /\ whole' = (b.frame = {q.pos : q \in {r \in sent : r.unit = p.unit}})
         ELSE UNCHANGED <<shown, whole>>
  BY DEF Feed, Taken, Opened
<1>2. Within(b, p, f, p.pos) /\ (~b.damaged => p.pos \in b.frame)
  BY TakenWithin
<1> HIDE DEF b
<1>3. p.unit \in Nat /\ p.marker \in BOOLEAN
  BY DEF StreamInv, StreamTypes, Packet
<1>4. CASE p.marker /\ Emits(b)
  <2>1. /\ shown' = p.unit
        /\ whole' = (b.frame = {q.pos : q \in {r \in sent : r.unit = p.unit}})
    BY <1>1, <1>4
  <2>2. ~b.damaged /\ (b.awaitingKeyframe => b.keyframe)
    BY <1>4 DEF Emits
  <2>3. p.unit = f \/ whole'
    BY <1>2, <1>4, <2>1, <2>2, WholeFrame
  <2>4. units[p.unit] \/ p.unit = f \/ shown + 1 = p.unit
    BY <1>2, <2>2 DEF Within
  <2>5. depack' = EndUnit(b)
    BY <1>1, <1>4
  <2>6. Between(depack, p)'
    <3>1. b \in Depacketizers /\ ~b.pendingGap
      BY <1>2 DEF Within
    <3>2. /\ depack' \in Depacketizers /\ ~depack'.pendingGap /\ depack'.pts = 0
          /\ ~depack'.damaged /\ ~depack'.keyframe
      BY <2>5, <3>1 DEF EndUnit, Depacketizers
    <3> QED
      BY <2>1, <3>2 DEF Between
  <2>7. FedBy(p)'
    BY <1>3, <1>4, <2>1, <2>6 DEF FedBy
  <2>8. Shown'
    BY <1>3, <2>1, <2>3 DEF Shown
  <2> QED
    BY <2>1, <2>4, <2>7, <2>8
<1>5. CASE p.marker /\ ~Emits(b)
  <2>1. UNCHANGED <<shown, whole>> /\ depack' = EndUnit(b)
    BY <1>1, <1>5
  <2>2. b.awaitingKeyframe
    BY <1>2, <1>5 DEF Within, Emits
  <2>3. Between(depack, p)'
    <3>1. b \in Depacketizers /\ ~b.pendingGap
      BY <1>2 DEF Within
    <3>2. /\ depack' \in Depacketizers /\ ~depack'.pendingGap /\ depack'.pts = 0
          /\ ~depack'.damaged /\ ~depack'.keyframe
      BY <2>1, <3>1 DEF EndUnit, Depacketizers
    <3>3. depack'.awaitingKeyframe
      BY <1>5, <2>1, <2>2, <3>1 DEF EndUnit, Depacketizers
    <3> QED
      BY <3>2, <3>3 DEF Between
  <2> QED
    BY <1>3, <1>5, <2>1, <2>3 DEF FedBy, Shown
<1>6. CASE ~p.marker
  <2>1. UNCHANGED <<shown, whole>> /\ depack' = b
    BY <1>1, <1>6
  <2>2. Within(depack, p, first, p.pos)'
    BY <1>2, <2>1 DEF Within
  <2> QED
    BY <1>3, <1>6, <2>1, <2>2 DEF FedBy, Shown
<1> QED
  BY <1>4, <1>5, <1>6

-----------------------------------------------------------------------------
(* Sequence numbers *)

LEMMA Quotient ==
  ASSUME NEW m \in Nat \ {0}, NEW x \in Int
  PROVE  x \div m \in Int /\ x % m \in 0 .. m - 1 /\ x = (x \div m) * m + (x % m)
OBVIOUS

\* The remainder is the only number below m that differs by whole turns.
LEMMA Remainder ==
  ASSUME NEW m \in Nat \ {0}, NEW turns \in Int, NEW r \in 0 .. m - 1
  PROVE  (turns * m + r) % m = r
<1> DEFINE x == turns * m + r
           rest == x % m
           k == (x \div m) - turns
<1>1. x \in Int /\ turns * m \in Int
  OBVIOUS
<1>2. rest \in 0 .. m - 1 /\ (x \div m) \in Int /\ x = (x \div m) * m + rest
  BY <1>1, Quotient
<1>3. k \in Int /\ r - rest = k * m
  <2> HIDE DEF rest
  <2>1. (x \div m) * m - turns * m = k * m
    BY <1>2
  <2> QED
    BY <1>1, <1>2, <2>1
<1> HIDE DEF rest, k
<1>4. k * m < m /\ k * m > -m
  BY <1>2, <1>3
<1>5. k = 0
  <2>1. k >= 1 => k * m >= m
    BY <1>3
  <2>2. k <= -1 => k * m <= -m
    BY <1>3
  <2> QED
    BY <1>3, <1>4, <2>1, <2>2
<1>6. r = rest
  BY <1>2, <1>3, <1>5
<1> QED
  BY <1>6 DEF rest

\* Within half the number space of the highest one seen, Unwrap finds the
\* packet's true number.
LEMMA UnwrapExact ==
  ASSUME StreamInv, Numbers, NEW p \in Arriving
  PROVE  Unwrap(p.pos % SeqMod) = p.pos - offset
<1> DEFINE h == highestExtSeq
           half == SeqMod \div 2
           x == p.pos - offset - h
           s == p.pos % SeqMod
           y == s - h + half
<1>1. /\ SeqMod \in Nat \ {0} /\ Reach \in Nat /\ 2 * Reach < SeqMod
      /\ p.pos \in Nat /\ offset \in Nat /\ offset % SeqMod = 0 /\ h \in Nat
      /\ x \in -Reach .. Reach
  BY RtpReceiverAssumption DEF StreamInv, StreamTypes, Packet, Numbers, Arriving
<1>2. half \in Nat /\ x + half \in 0 .. SeqMod - 1
  BY <1>1
<1>a. SeqMod \in Nat \ {0} /\ p.pos \in Int
  BY <1>1
<1>5. s \in 0 .. SeqMod - 1 /\ \E a \in Int : p.pos = a * SeqMod + s
  BY <1>a, Quotient
<1>3. PICK a \in Int : p.pos = a * SeqMod + s
  BY <1>5
<1>4. PICK o \in Int : offset = o * SeqMod
  <2> DEFINE k == offset \div SeqMod
  <2>a. SeqMod \in Nat \ {0} /\ offset \in Int
    BY <1>1
  <2>1. offset = k * SeqMod + (offset % SeqMod) /\ k \in Int
    BY <2>a, Quotient
  <2> HIDE DEF k
  <2>2. offset = k * SeqMod
    BY <1>1, <2>1
  <2> QED
    BY <2>1, <2>2
<1> HIDE DEF half, s
<1>6. y = (o - a) * SeqMod + (x + half)
  <2>1. (o - a) * SeqMod = o * SeqMod - a * SeqMod
    BY <1>1, <1>3, <1>4
  <2>2. o * SeqMod \in Int /\ a * SeqMod \in Int
    BY <1>1, <1>3, <1>4
  <2> QED
    BY <1>1, <1>2, <1>3, <1>4, <1>5, <2>1, <2>2
<1>7. y % SeqMod = x + half
  <2>1. SeqMod \in Nat \ {0} /\ o - a \in Int /\ x + half \in 0 .. SeqMod - 1
    BY <1>1, <1>2, <1>3, <1>4
  <2> HIDE DEF x, y
  <2> QED
    BY <1>6, <2>1, Remainder
<1>8. Unwrap(s) = h - half + (y % SeqMod)
  BY <1>1 DEF Unwrap, half
<1>9. Unwrap(s) = p.pos - offset
  BY <1>1, <1>2, <1>7, <1>8
<1> QED
  BY <1>9 DEF s

\* The first packet fixes the offset, a multiple of the number space.
LEMMA FirstOffset ==
  ASSUME NEW n \in Nat
  PROVE  /\ (n % SeqMod) \in Nat /\ n - (n % SeqMod) \in Nat
         /\ (n - (n % SeqMod)) % SeqMod = 0
<1> DEFINE s == n % SeqMod
           a == n \div SeqMod
<1>1. SeqMod \in Nat \ {0}
  BY RtpReceiverAssumption
<1>2. s \in 0 .. SeqMod - 1 /\ a \in Int /\ n = a * SeqMod + s
  BY <1>1, Quotient
<1> HIDE DEF s, a
<1>3. a >= 0
  <2>1. a <= -1 => a * SeqMod <= -SeqMod
    BY <1>1, <1>2
  <2>2. a * SeqMod \in Int
    BY <1>1, <1>2
  <2> QED
    BY <1>1, <1>2, <2>1, <2>2
<1>4. a * SeqMod \in Nat
  BY <1>1, <1>2, <1>3
<1>5. n - s = a * SeqMod + 0 /\ n - s \in Nat
  BY <1>1, <1>2, <1>4
<1>6. (n - s) % SeqMod = 0
  <2>1. 0 \in 0 .. SeqMod - 1
    BY <1>1
  <2>2. (a * SeqMod + 0) % SeqMod = 0
    BY <1>1, <1>2, <2>1, Remainder
  <2> QED
    BY <1>5, <2>2
<1>7. s \in Nat
  BY <1>1, <1>2
<1>8. s \in Nat /\ n - s \in Nat /\ (n - s) % SeqMod = 0
  BY <1>5, <1>6, <1>7
<1> QED
  BY <1>8, Zenon DEF s

-----------------------------------------------------------------------------
(* The steps of the receive loop *)

\* The streamer goes on: nothing is added to the units received so far.
LEMMA SendStarted ==
  StreamInv /\ ReceiverInv /\ SendUnit => ReceiverInv' /\ UNCHANGED histVars
<1> SUFFICES ASSUME StreamInv, ReceiverInv, SendUnit
             PROVE  ReceiverInv' /\ UNCHANGED histVars
  OBVIOUS
<1>1. UNCHANGED <<loopVars, histVars>>
  BY DEF SendUnit
<1>2. CASE Fresh
  BY <1>1, <1>2 DEF Fresh, ReceiverInv, loopVars, histVars
<1>3. CASE Started
  <2>a. PICK key \in BOOLEAN :
          \E layout \in IF key THEN KeyLayouts ELSE DeltaLayouts :
          \E cut \in 0 .. Len(layout) :
            /\ units' = Append(units, key)
            /\ sent' = sent \cup {q \in PacketsOf(Len(units) + 1, layout) :
                                    q.pos < pos + cut}
    BY DEF SendUnit
  <2>b. PICK layout \in IF key THEN KeyLayouts ELSE DeltaLayouts :
          \E cut \in 0 .. Len(layout) :
            /\ units' = Append(units, key)
            /\ sent' = sent \cup {q \in PacketsOf(Len(units) + 1, layout) :
                                    q.pos < pos + cut}
    BY <2>a
  <2>1. PICK cut \in 0 .. Len(layout) :
          /\ units' = Append(units, key)
          /\ sent' = sent \cup {q \in PacketsOf(Len(units) + 1, layout) :
                                  q.pos < pos + cut}
    BY <2>b
  <2>2. /\ units \in Seq(BOOLEAN) /\ Len(units) \in Nat
        /\ \A n \in 1 .. Len(units) : units'[n] = units[n]
    BY <2>1 DEF StreamInv, StreamTypes
  <2>3. sent \subseteq sent'
        /\ \A q \in sent' \ sent : q.unit = Len(units) + 1
    BY <2>1, NewPackets DEF StreamInv
  <2>4. PICK p \in sent : FedBy(p)
    BY <1>3 DEF Started, Fed
  <2>5. p.unit \in 1 .. Len(units)
    BY DEF StreamInv, OfUnits
  <2>6. FedBy(p)'
    <3>1. CASE p.marker
      BY <1>1, <2>4, <3>1 DEF FedBy, Between, loopVars, histVars
    <3>2. CASE ~p.marker
      <4>1. Within(depack, p, first, p.pos) /\ shown < p.unit
        BY <2>4, <3>2 DEF FedBy
      <4>2. \A q \in sent' : q.unit = p.unit => q \in sent
        BY <2>2, <2>3, <2>5
      <4>3. Within(depack, p, first, p.pos)'
        <5>1. units'[p.unit] = units[p.unit]
          BY <2>2, <2>5
        <5>2. UNCHANGED <<depack, first, shown>>
          BY <1>1 DEF loopVars, histVars
        <5> QED
          BY <2>3, <4>1, <4>2, <5>1, <5>2 DEF Within
      <4> QED
        BY <1>1, <2>4, <3>2, <4>1, <4>3 DEF FedBy, loopVars, histVars
    <3> QED
      BY <3>1, <3>2
  <2>7. Fed'
    BY <2>3, <2>6 DEF Fed
  <2>8. Held'
    <3>1. Held
      BY <1>3 DEF Started
    <3>2. UNCHANGED <<jitter, at, nextExtSeq, highestExtSeq, offset>>
      BY <1>1 DEF loopVars, histVars
    <3>3. jitter \subseteq [ext : Nat, packet : sent']
      BY <2>3, <3>1 DEF Held
    <3> QED
      BY <3>1, <3>2, <3>3 DEF Held
  <2>9. Numbers' /\ Reported' /\ Shown'
    BY <1>1, <1>3 DEF Started, Numbers, Reported, Shown, loopVars, histVars
  <2> QED
    BY <1>1, <2>7, <2>8, <2>9 DEF ReceiverInv, Started
<1> QED
  BY <1>2, <1>3 DEF ReceiverInv

\* A packet at or after the playout point is fed, and a gap before it told.
LEMMA FeedNext ==
  ASSUME StreamInv, Started, NEW p \in sent, p.pos - offset >= nextExtSeq,
         Feed(IF p.pos - offset = nextExtSeq THEN depack ELSE OnGap(depack), p),
         nextExtSeq' = p.pos - offset + 1,
         UNCHANGED <<units, sent, offset, first>>
  PROVE  Fed' /\ Shown' /\ ShownStep
<1> DEFINE d == IF p.pos - offset = nextExtSeq THEN depack ELSE OnGap(depack)
<1>1. PICK l \in sent : FedBy(l)
  BY DEF Started, Fed
<1>2. /\ l.pos \in Nat /\ p.pos \in Nat /\ l.unit \in Nat
      /\ p.unit \in 1 .. Len(units) /\ Len(units) \in Nat /\ l.marker \in BOOLEAN
      /\ offset \in Nat /\ nextExtSeq \in Nat /\ first \in Nat \ {0}
      /\ shown \in Nat /\ whole \in BOOLEAN /\ (whole \/ shown = first)
  BY DEF StreamInv, StreamTypes, OfUnits, Packet, Started, Numbers, Shown
<1>3. l.pos + 1 = offset + nextExtSeq /\ l.pos < p.pos
  <2>1. l.pos + 1 = offset + nextExtSeq
    BY <1>1 DEF FedBy
  <2> QED
    BY <1>2, <2>1
<1>4. Within(Opened(d, p), p, first, p.pos - 1)
  <2>1. p.pos - offset = nextExtSeq <=> p.pos = l.pos + 1
    BY <1>2, <1>3, SMTT(30)
  <2>2. /\ p.pos = l.pos + 1 => Within(Opened(depack, p), p, first, p.pos - 1)
        /\ p.pos # l.pos + 1 =>
             Within(Opened(OnGap(depack), p), p, first, p.pos - 1)
    BY <1>1, <1>2, <1>3, OpenWithin
  <2> QED
    BY <2>1, <2>2
<1>5. first <= p.unit /\ shown < p.unit
  <2>1. l.unit <= p.unit /\ (l.marker => l.unit < p.unit)
    BY <1>3 DEF StreamInv, Ordered
  <2>2. first <= l.unit /\ shown <= l.unit /\ (~l.marker => shown < l.unit)
    BY <1>1 DEF FedBy
  <2> QED
    BY <1>2, <2>1, <2>2
<1>6. first' = first /\ p.pos + 1 = offset' + nextExtSeq'
  BY <1>2
<1> HIDE DEF d
<1>7. Feed(d, p)
  BY DEF d
<1>8. /\ FedBy(p)' /\ Shown'
      /\ \/ UNCHANGED <<shown, whole>>
         \/ /\ shown' = p.unit
            /\ units[p.unit] \/ p.unit = first \/ shown + 1 = p.unit
  BY <1>2, <1>4, <1>5, <1>6, <1>7, FeedFed
<1>9. Fed'
  BY <1>8 DEF Fed
<1>10. ShownStep
  <2>1. CASE UNCHANGED <<shown, whole>>
    BY <2>1 DEF ShownStep
  <2>2. CASE /\ shown' = p.unit
             /\ units[p.unit] \/ p.unit = first \/ shown + 1 = p.unit
    <3>1. p.unit \in shown + 1 .. Len(units)
      BY <1>2, <1>5
    <3>2. shown + 1 = p.unit => p.unit = first \/ shown > 0
      BY <1>2, <1>5
    <3> QED
      BY <1>6, <2>2, <3>1, <3>2 DEF ShownStep
  <2> QED
    BY <1>8, <2>1, <2>2
<1> QED
  BY <1>8, <1>9, <1>10

LEMMA DrainStep ==
  ASSUME StreamInv, Started, DrainHeld
  PROVE  Started' /\ ShownStep /\ UNCHANGED first
<1>1. PICK e \in jitter :
        /\ Earliest(e)
        /\ jitter' = jitter \ {e}
        /\ nextExtSeq' = e.ext + 1
        /\ Feed(IF e.ext = nextExtSeq THEN depack ELSE OnGap(depack), e.packet)
  BY DEF DrainHeld
<1>2. /\ at = "drain"
      /\ UNCHANGED <<senderVars, at, highestExtSeq, offset, first, nacked>>
  BY DEF DrainHeld
<1> DEFINE p == e.packet
<1>3. /\ jitter \subseteq [ext : Nat, packet : sent]
      /\ IsFiniteSet(jitter) /\ Cardinality(jitter) <= JitterMax + 1
      /\ \A g \in jitter : /\ g.ext \in Nat /\ g.packet \in sent
                           /\ g.ext = g.packet.pos - offset
                           /\ g.ext \in nextExtSeq .. highestExtSeq
  BY DEF Started, Held
<1>4. /\ highestExtSeq \in Nat /\ nextExtSeq \in Nat /\ offset \in Nat
      /\ \A q \in sent : q.pos \in Nat
  BY DEF Started, Numbers, StreamInv, StreamTypes, Packet
<1>5. \A g \in jitter \ {e} : g.ext \in nextExtSeq' .. highestExtSeq
  <2>1. ASSUME NEW g \in jitter, g # e PROVE g.ext # e.ext
    <3>1. ASSUME g.ext = e.ext PROVE FALSE
      <4>1. g.packet.pos = e.packet.pos
        BY <1>3, <1>4, <3>1
      <4>2. g.packet = e.packet
        BY <1>3, <4>1 DEF StreamInv, Ordered
      <4> QED
        BY <1>3, <2>1, <3>1, <4>2
    <3> QED
      BY <3>1
  <2>2. \A g \in jitter : e.ext <= g.ext
    BY <1>1 DEF Earliest
  <2> QED
    BY <1>1, <1>3, <1>4, <2>1, <2>2
<1>6. Fed' /\ Shown' /\ ShownStep
  <2>1. p \in sent /\ p.pos - offset >= nextExtSeq /\ e.ext = p.pos - offset
    BY <1>3, <1>4
  <2>2. UNCHANGED <<units, sent, offset, first>>
    BY <1>2 DEF senderVars
  <2> HIDE DEF p
  <2>3. /\ Feed(IF p.pos - offset = nextExtSeq THEN depack ELSE OnGap(depack), p)
        /\ nextExtSeq' = p.pos - offset + 1
    BY <1>1, <2>1 DEF p
  <2> QED
    BY <2>1, <2>2, <2>3, FeedNext
<1>7. Numbers'
  BY <1>1, <1>2, <1>3, <1>4 DEF Started, Numbers
<1>8. Held'
  <2>1. IsFiniteSet(jitter') /\ Cardinality(jitter') <= JitterMax + 1
    <3>1. IsFiniteSet(jitter') /\ Cardinality(jitter') = Cardinality(jitter) - 1
      BY <1>1, <1>3, FS_RemoveElement
    <3> QED
      BY <1>3, <3>1, FS_CardinalityType, RtpReceiverAssumption
  <2>2. UNCHANGED <<sent, highestExtSeq, offset>> /\ at' = "drain"
    BY <1>2 DEF senderVars
  <2> QED
    BY <1>1, <1>3, <1>5, <2>1, <2>2 DEF Held
<1>9. Reported'
  <2>1. ASSUME NEW n \in nextExtSeq' .. highestExtSeq'
        PROVE  n \in nacked' \/ \E g \in jitter' : g.ext = n
    <3>1. n \in nextExtSeq .. highestExtSeq /\ n # e.ext
      BY <1>1, <1>2, <1>3, <1>4
    <3> QED
      BY <1>1, <1>2, <3>1 DEF Started, Reported
  <2> QED
    BY <2>1 DEF Reported
<1> QED
  BY <1>2, <1>6, <1>7, <1>8, <1>9 DEF Started

\* The first packet of the video fixes the numbers.
LEMMA ReceiveFirst ==
  ASSUME StreamInv, Fresh, ReceiveVideo
  PROVE  Started' /\ ShownStep
<1>1. PICK p \in sent :
        /\ highestExtSeq' = p.pos % SeqMod
        /\ offset' = p.pos - (p.pos % SeqMod)
        /\ first' = p.unit
        /\ nextExtSeq' = (p.pos % SeqMod) + 1
        /\ jitter' = {} /\ nacked' = {}
        /\ Feed(depack, p)
  <2>1. PICK p \in Arriving :
          LET ext  == Unwrap(p.pos % SeqMod)
              feed == nextExtSeq < 0 \/ ext = nextExtSeq
              hold == /\ nextExtSeq >= 0 /\ ext > nextExtSeq
                      /\ \A e \in jitter : e.ext # ext
          IN  /\ highestExtSeq' = IF ext > highestExtSeq THEN ext ELSE highestExtSeq
              /\ nacked' = nacked \cup Skipped(ext)
              /\ offset' = IF highestExtSeq < 0 THEN p.pos - ext ELSE offset
              /\ first' = IF highestExtSeq < 0 THEN p.unit ELSE first
              /\ nextExtSeq' = IF feed THEN ext + 1 ELSE nextExtSeq
              /\ jitter' = IF hold THEN jitter \cup {[ext |-> ext, packet |-> p]}
                           ELSE jitter
              /\ IF feed THEN Feed(depack, p) ELSE UNCHANGED <<depack, shown, whole>>
    BY DEF ReceiveVideo
  <2>2. highestExtSeq = -1 /\ nextExtSeq = -1 /\ jitter = {} /\ nacked = {}
    BY DEF Fresh
  <2>3. Unwrap(p.pos % SeqMod) = p.pos % SeqMod
    BY <2>2 DEF Unwrap
  <2>4. p \in sent /\ p.pos \in Nat
    BY DEF Arriving, StreamInv, StreamTypes, Packet
  <2>5. (p.pos % SeqMod) \in Nat
    BY <2>4, FirstOffset
  <2> DEFINE ext == p.pos % SeqMod
  <2> HIDE DEF ext
  <2>6. Skipped(ext) = {}
    BY <2>2 DEF Skipped
  <2>7. /\ highestExtSeq' = ext /\ offset' = p.pos - ext /\ first' = p.unit
        /\ nextExtSeq' = ext + 1 /\ jitter' = {} /\ nacked' = {}
        /\ Feed(depack, p)
    BY <2>1, <2>2, <2>3, <2>5, <2>6 DEF ext
  <2> QED
    BY <2>4, <2>7 DEF ext
<1>2. /\ UNCHANGED <<units, sent>> /\ at' = "drain"
      /\ depack = NewDepacketizer /\ shown = 0 /\ whole = TRUE
  BY DEF ReceiveVideo, senderVars, Fresh
<1>3. /\ p.pos \in Nat /\ p.unit \in Nat \ {0} /\ p.unit \in 1 .. Len(units)
      /\ Len(units) \in Nat
  BY DEF StreamInv, StreamTypes, OfUnits, Packet
<1> DEFINE ext == p.pos % SeqMod
<1>4. ext \in Nat /\ offset' \in Nat /\ offset' % SeqMod = 0
  BY <1>1, <1>3, FirstOffset
<1>5. /\ highestExtSeq' = ext /\ nextExtSeq' = ext + 1 /\ offset' = p.pos - ext
  BY <1>1
<1> HIDE DEF ext
<1>6. Numbers'
  BY <1>1, <1>3, <1>4, <1>5 DEF Numbers
<1>7. Held'
  <2>1. IsFiniteSet({}) /\ Cardinality({}) = 0
    BY FS_EmptySet
  <2> QED
    BY <1>1, <1>2, <2>1, RtpReceiverAssumption DEF Held
<1>8. Reported'
  BY <1>4, <1>5 DEF Reported
<1>9. /\ FedBy(p)' /\ Shown'
      /\ \/ UNCHANGED <<shown, whole>>
         \/ shown' = p.unit
  <2>1. Within(Opened(NewDepacketizer, p), p, p.unit, p.pos - 1)
    BY OpenFirst
  <2>2. p.pos + 1 = offset' + nextExtSeq'
    BY <1>3, <1>4, <1>5
  <2>3. shown \in Nat /\ shown < p.unit /\ p.unit <= p.unit /\ whole \in BOOLEAN
    BY <1>2, <1>3
  <2>4. Feed(NewDepacketizer, p) /\ first' = p.unit /\ p.unit \in Nat /\ whole
    BY <1>1, <1>2, <1>3
  <2> QED
    BY <1>2, <2>1, <2>2, <2>3, <2>4, FeedFed
<1>10. Fed' /\ Shown'
  BY <1>2, <1>9 DEF Fed
<1>11. ShownStep
  <2>1. CASE UNCHANGED <<shown, whole>>
    BY <2>1 DEF ShownStep
  <2>2. CASE shown' = p.unit
    <3>1. shown' \in shown + 1 .. Len(units)
      BY <1>2, <1>3, <2>2
    <3>2. shown' = first' /\ UNCHANGED units
      BY <1>1, <1>2, <2>2
    <3> QED
      BY <3>1, <3>2 DEF ShownStep
  <2> QED
    BY <1>9, <2>1, <2>2
<1> QED
  BY <1>6, <1>7, <1>8, <1>10, <1>11 DEF Started

\* A later packet is fed, held or dropped.
LEMMA ReceiveLater ==
  ASSUME StreamInv, Started, ReceiveVideo
  PROVE  Started' /\ ShownStep /\ UNCHANGED first
<1>1. PICK p \in Arriving :
        LET ext  == Unwrap(p.pos % SeqMod)
            feed == nextExtSeq < 0 \/ ext = nextExtSeq
            hold == /\ nextExtSeq >= 0 /\ ext > nextExtSeq
                    /\ \A e \in jitter : e.ext # ext
        IN  /\ highestExtSeq' = IF ext > highestExtSeq THEN ext ELSE highestExtSeq
            /\ nacked' = nacked \cup Skipped(ext)
            /\ offset' = IF highestExtSeq < 0 THEN p.pos - ext ELSE offset
            /\ first' = IF highestExtSeq < 0 THEN p.unit ELSE first
            /\ nextExtSeq' = IF feed THEN ext + 1 ELSE nextExtSeq
            /\ jitter' = IF hold THEN jitter \cup {[ext |-> ext, packet |-> p]}
                         ELSE jitter
            /\ IF feed THEN Feed(depack, p) ELSE UNCHANGED <<depack, shown, whole>>
  BY DEF ReceiveVideo
<1> DEFINE ext  == p.pos - offset
           hold == ext > nextExtSeq /\ \A e \in jitter : e.ext # ext
<1>2. /\ highestExtSeq \in Nat /\ nextExtSeq \in Nat /\ offset \in Nat
      /\ nextExtSeq <= highestExtSeq + 1 /\ nacked \subseteq Nat
      /\ p \in sent /\ p.pos \in Nat /\ ext \in Int
  BY DEF Started, Numbers, Arriving, StreamInv, StreamTypes, Packet
<1>3. Unwrap(p.pos % SeqMod) = ext
  BY UnwrapExact DEF Started
<1>4. /\ highestExtSeq' = IF ext > highestExtSeq THEN ext ELSE highestExtSeq
      /\ nacked' = nacked \cup (highestExtSeq + 1 .. ext - 1)
      /\ UNCHANGED <<offset, first>>
      /\ nextExtSeq' = IF ext = nextExtSeq THEN ext + 1 ELSE nextExtSeq
      /\ jitter' = IF hold THEN jitter \cup {[ext |-> ext, packet |-> p]} ELSE jitter
      /\ IF ext = nextExtSeq THEN Feed(depack, p)
         ELSE UNCHANGED <<depack, shown, whole>>
  <2> HIDE DEF ext
  <2>1. /\ ~(highestExtSeq < 0) /\ ~(nextExtSeq < 0) /\ nextExtSeq >= 0
        /\ Skipped(ext) = highestExtSeq + 1 .. ext - 1
    BY <1>2 DEF Skipped
  <2>2. Unwrap(p.pos % SeqMod) = ext
    BY <1>3
  <2> QED
    BY <1>1, <2>1, <2>2
<1>5. UNCHANGED <<units, sent>> /\ at # "drain" /\ at' = "drain"
  BY DEF ReceiveVideo, senderVars
<1>6. /\ jitter \subseteq [ext : Nat, packet : sent]
      /\ IsFiniteSet(jitter) /\ Cardinality(jitter) <= JitterMax
      /\ \A g \in jitter : /\ g.ext \in Nat /\ g.ext # nextExtSeq
                           /\ g.ext = g.packet.pos - offset
                           /\ g.ext \in nextExtSeq .. highestExtSeq
  BY <1>5 DEF Started, Held
<1>7. Numbers'
  <2>1. highestExtSeq' \in Nat /\ nextExtSeq' \in Nat /\ nextExtSeq' <= highestExtSeq' + 1
    <3> HIDE DEF ext, hold
    <3> QED
      BY <1>2, <1>4
  <2>2. nacked' \subseteq Nat
    <3> HIDE DEF ext, hold
    <3> QED
      BY <1>2, <1>4
  <2> QED
    BY <1>4, <2>1, <2>2 DEF Started, Numbers
<1>8. Held'
  <2>1. CASE hold
    <3> DEFINE e == [ext |-> ext, packet |-> p]
    <3>1. /\ jitter' = jitter \cup {e} /\ nextExtSeq' = nextExtSeq
          /\ e \in [ext : Nat, packet : sent] /\ e.ext = e.packet.pos - offset
          /\ e.ext = ext
      BY <1>2, <1>4, <2>1
    <3>2. IsFiniteSet(jitter') /\ Cardinality(jitter') <= JitterMax + 1
      <4> HIDE DEF e
      <4>1. /\ IsFiniteSet(jitter')
            /\ \/ Cardinality(jitter') = Cardinality(jitter)
               \/ Cardinality(jitter') = Cardinality(jitter) + 1
        BY <1>6, <3>1, FS_AddElement
      <4> QED
        BY <1>6, <4>1, FS_CardinalityType, RtpReceiverAssumption
    <3>3. \A g \in jitter' : /\ g.ext = g.packet.pos - offset'
                             /\ g.ext \in nextExtSeq' .. highestExtSeq'
      <4> HIDE DEF e
      <4>1. ext \in nextExtSeq' .. highestExtSeq'
        BY <1>2, <1>4, <2>1
      <4>2. \A g \in jitter : g.ext \in nextExtSeq' .. highestExtSeq'
        BY <1>2, <1>4, <1>6, <3>1
      <4> QED
        BY <1>4, <1>6, <3>1, <4>1, <4>2
    <3> QED
      BY <1>4, <1>5, <1>6, <3>1, <3>2, <3>3 DEF Held
  <2>2. CASE ~hold
    <3>1. jitter' = jitter
      BY <1>4, <2>2
    <3>2. \A g \in jitter : g.ext \in nextExtSeq' .. highestExtSeq'
      BY <1>2, <1>4, <1>6
    <3>3. Cardinality(jitter) <= JitterMax + 1
      BY <1>6, FS_CardinalityType, RtpReceiverAssumption
    <3> QED
      BY <1>4, <1>5, <1>6, <3>1, <3>2, <3>3 DEF Held
  <2> QED
    BY <2>1, <2>2
<1>9. Reported'
  <2>1. ASSUME NEW n \in nextExtSeq' .. highestExtSeq'
        PROVE  n \in nacked' \/ \E g \in jitter' : g.ext = n
    <3>1. CASE n <= highestExtSeq
      <4>1. n \in nextExtSeq .. highestExtSeq
        BY <1>2, <1>4, <3>1
      <4> QED
        BY <1>4, <4>1 DEF Started, Reported
    <3>2. CASE n > highestExtSeq /\ n # ext
      <4>1. n \in highestExtSeq + 1 .. ext - 1
        BY <1>2, <1>4, <3>2
      <4> QED
        BY <1>4, <4>1
    <3>3. CASE n > highestExtSeq /\ n = ext
      <4>1. hold
        BY <1>2, <1>4, <1>6, <3>3
      <4>2. [ext |-> ext, packet |-> p] \in jitter'
        BY <1>4, <4>1
      <4> QED
        BY <3>3, <4>2
    <3> QED
      BY <1>2, <1>4, <3>1, <3>2, <3>3
  <2> QED
    BY <2>1 DEF Reported
<1>10. Fed' /\ Shown' /\ ShownStep
  <2>1. CASE ext = nextExtSeq
    <3>1. /\ Feed(IF p.pos - offset = nextExtSeq THEN depack ELSE OnGap(depack), p)
          /\ nextExtSeq' = p.pos - offset + 1 /\ p.pos - offset >= nextExtSeq
      BY <1>2, <1>4, <2>1
    <3> QED
      BY <1>2, <1>4, <1>5, <3>1, FeedNext
  <2>2. CASE ext # nextExtSeq
    <3>1. UNCHANGED <<depack, shown, whole, units, sent, offset, first, nextExtSeq>>
      BY <1>4, <1>5, <2>2
    <3> QED
      BY <3>1 DEF Started, Fed, FedBy, Within, Between, Shown, ShownStep
  <2> QED
    BY <2>1, <2>2
<1> QED
  BY <1>4, <1>7, <1>8, <1>9, <1>10 DEF Started

LEMMA ReceiverStep ==
  ASSUME StreamInv, ReceiverInv, [Next]_vars
  PROVE  ReceiverInv' /\ ShownStep /\ (first' = first \/ first = 0)
<1> DEFINE Still == /\ UNCHANGED <<senderVars, nextExtSeq, highestExtSeq, jitter,
                                   depack, histVars>>
                    /\ \/ at' = "drain" \/ at # "drain"
                       \/ /\ Cardinality(jitter) <= JitterMax
                          /\ \A e \in jitter : e.ext # nextExtSeq
<1>1. SendUnit \/ DrainHeld \/ ReceiveVideo \/ Still
  <2>1. CASE PliArrives \/ PliLost \/ AskKeyframe \/ DeferPli \/ UNCHANGED vars
    <3>1. UNCHANGED <<senderVars, loopVars, histVars>>
      BY <2>1 DEF PliArrives, PliLost, AskKeyframe, DeferPli, vars
    <3> QED
      BY <3>1 DEF loopVars
  <2>2. CASE DrainDone \/ LearnEndpoint \/ ServePending \/ NoVideo
    BY <2>2 DEF DrainDone, LearnEndpoint, ServePending, NoVideo
  <2> QED
    BY <2>1, <2>2 DEF Next
<1>2. CASE SendUnit
  BY <1>2, SendStarted DEF ShownStep, histVars
<1>3. CASE DrainHeld
  <2>1. Started
    BY <1>3 DEF ReceiverInv, Fresh, DrainHeld
  <2> QED
    BY <1>3, <2>1, DrainStep DEF ReceiverInv
<1>4. CASE ReceiveVideo
  <2>1. CASE Fresh
    BY <1>4, <2>1, ReceiveFirst DEF ReceiverInv, Fresh
  <2>2. CASE Started
    BY <1>4, <2>2, ReceiveLater DEF ReceiverInv
  <2> QED
    BY <2>1, <2>2 DEF ReceiverInv
<1>5. CASE Still
  <2>1. UNCHANGED <<units, sent, nextExtSeq, highestExtSeq, jitter, depack,
                    offset, first, nacked, shown, whole>>
    BY <1>5 DEF senderVars, histVars
  <2>2. CASE Fresh
    BY <2>1, <2>2 DEF Fresh, ReceiverInv, ShownStep
  <2>3. CASE Started
    <3>1. Numbers' /\ Reported' /\ Shown'
      BY <2>1, <2>3 DEF Started, Numbers, Reported, Shown
    <3>2. Fed'
      BY <2>1, <2>3 DEF Started, Fed, FedBy, Within, Between
    <3>3. Held'
      BY <1>5, <2>1, <2>3 DEF Started, Held
    <3> QED
      BY <2>1, <3>1, <3>2, <3>3 DEF ReceiverInv, Started, ShownStep
  <2> QED
    BY <2>2, <2>3 DEF ReceiverInv
<1> QED
  BY <1>1, <1>2, <1>3, <1>4, <1>5

-----------------------------------------------------------------------------
(* The theorems *)

LEMMA Initially == Init => StreamInv /\ ReceiverInv
<1> SUFFICES ASSUME Init PROVE StreamInv /\ ReceiverInv
  OBVIOUS
<1>1. StreamInv
  <2>1. units = <<>> /\ units \in Seq(BOOLEAN) /\ sent = {} /\ chained = FALSE
    BY DEF Init
  <2>2. pos \in Nat
    <3>1. pos \in Starts
      BY DEF Init
    <3> QED
      BY <3>1, RtpReceiverAssumption
  <2> QED
    BY <2>1, <2>2 DEF StreamInv, StreamTypes, OfUnits, Ordered
<1>2. ReceiverInv
  BY DEF Init, ReceiverInv, Fresh
<1> QED
  BY <1>1, <1>2

LEMMA Invariant == Spec => [](StreamInv /\ ReceiverInv)
<1>1. StreamInv /\ ReceiverInv /\ [Next]_vars => (StreamInv /\ ReceiverInv)'
  BY StreamStep, ReceiverStep
<1> QED
  BY Initially, <1>1, PTL DEF Spec

\* The control state and the requests.
Controls ==
  /\ pli \in BOOLEAN /\ forced \in BOOLEAN
  /\ at \in {"drain", "receive", "endpoint", "handle"} /\ remote \in BOOLEAN
  /\ asker \in {"idle", "defer"} /\ pliPending \in BOOLEAN

LEMMA ControlStep == Controls /\ [Next]_vars => Controls'
<1> SUFFICES ASSUME Controls, [Next]_vars PROVE Controls'
  OBVIOUS
<1> USE DEF Controls
<1>1. CASE SendUnit
  BY <1>1 DEF SendUnit, loopVars
<1>2. CASE PliArrives \/ PliLost
  BY <1>2 DEF PliArrives, PliLost, loopVars
<1>3. CASE DrainHeld
  <2>1. pli' \in BOOLEAN
    BY <1>3 DEF DrainHeld, MaybeAsk
  <2> QED
    BY <1>3, <2>1 DEF DrainHeld
<1>4. CASE DrainDone \/ LearnEndpoint \/ NoVideo
  BY <1>4 DEF DrainDone, LearnEndpoint, NoVideo
<1>5. CASE ServePending
  <2>1. pli' \in BOOLEAN
    BY <1>5 DEF ServePending
  <2> QED
    BY <1>5, <2>1 DEF ServePending
<1>6. CASE ReceiveVideo
  <2>1. pli' \in BOOLEAN
    BY <1>6 DEF ReceiveVideo, MaybeAsk
  <2> QED
    BY <1>6, <2>1 DEF ReceiveVideo
<1>7. CASE AskKeyframe
  BY <1>7 DEF AskKeyframe, loopVars
<1>8. CASE DeferPli
  BY <1>8 DEF DeferPli, loopVars
<1>9. CASE UNCHANGED vars
  BY <1>9 DEF vars, loopVars
<1> QED
  BY <1>1, <1>2, <1>3, <1>4, <1>5, <1>6, <1>7, <1>8, <1>9 DEF Next

\* The state has its types; at most one packet more is held than the limit.
THEOREM TypeCorrect == Spec => []TypeOK
<1>1. Init => Controls
  BY DEF Init, Controls
<1>2. StreamInv /\ ReceiverInv /\ Controls => TypeOK
  <2> SUFFICES ASSUME StreamInv, ReceiverInv, Controls PROVE TypeOK
    OBVIOUS
  <2>1. sent \subseteq Packet
    BY DEF StreamInv, StreamTypes
  <2>2. CASE Fresh
    <3>1. Cardinality(jitter) <= JitterMax + 1
      BY <2>2, FS_EmptySet, RtpReceiverAssumption DEF Fresh
    <3> QED
      BY <2>1, <2>2, <3>1
         DEF Fresh, NewDepacketizer, StreamInv, StreamTypes, Controls, TypeOK
  <2>3. CASE Started
    <3>1. depack \in Depacketizers
      BY <2>3 DEF Started, Fed, FedBy, Within, Between
    <3>2. jitter \subseteq [ext : Nat, packet : Packet]
      BY <2>1, <2>3 DEF Started, Held
    <3> QED
      BY <2>3, <3>1, <3>2 DEF Started, Numbers, Held, Shown, StreamInv, StreamTypes,
                              Controls, TypeOK, Depacketizers
  <2> QED
    BY <2>2, <2>3 DEF ReceiverInv
<1> QED
  BY Invariant, ControlStep, <1>1, <1>2, PTL DEF Spec

\* Stale retransmissions are recognised and dropped: the jitter buffer holds
\* nothing behind the playout point, nothing twice, and every packet under its
\* true position, however often the 16-bit sequence number has wrapped.
THEOREM NothingStaleHeld == Spec => []JitterAhead
<1>1. StreamInv /\ ReceiverInv => JitterAhead
  <2> SUFFICES ASSUME StreamInv, ReceiverInv, NEW e \in jitter
               PROVE  /\ e.ext >= nextExtSeq
                      /\ e.ext = e.packet.pos - offset
                      /\ \A g \in jitter : g.ext = e.ext => g = e
    BY DEF JitterAhead
  <2>1. Started
    BY DEF ReceiverInv, Fresh
  <2>2. jitter \subseteq [ext : Nat, packet : sent]
    BY <2>1 DEF Started, Held
  <2>3. \A g \in jitter : /\ g.ext = g.packet.pos - offset
                          /\ g.ext \in nextExtSeq .. highestExtSeq
                          /\ g.packet \in sent
    BY <2>1, <2>2 DEF Started, Held
  <2>4. \A q \in sent : q.pos \in Nat
    BY DEF StreamInv, StreamTypes, Packet
  <2>5. offset \in Nat /\ nextExtSeq \in Nat /\ highestExtSeq \in Nat
    BY <2>1 DEF Started, Numbers
  <2>6. ASSUME NEW g \in jitter, g.ext = e.ext PROVE g = e
    <3>1. g.packet.pos = e.packet.pos
      BY <2>3, <2>4, <2>5, <2>6
    <3>2. g.packet = e.packet
      BY <2>3, <3>1 DEF StreamInv, Ordered
    <3> QED
      BY <2>2, <2>6, <3>2
  <2> QED
    BY <2>3, <2>5, <2>6
<1> QED
  BY Invariant, <1>1, PTL

\* Every number missed at or after the playout point has been asked for.
THEOREM GapsAlwaysReported == Spec => []GapsReported
<1>1. ReceiverInv => GapsReported
  <2>1. Fresh => GapsReported
    BY DEF Fresh, GapsReported
  <2>2. Started => GapsReported
    BY DEF Started, Reported, GapsReported
  <2> QED
    BY <2>1, <2>2 DEF ReceiverInv
<1> QED
  BY Invariant, <1>1, PTL

\* The receiver implements VideoStream: whatever is lost, repeated or late, the
\* decoder is given units in order, each a keyframe (or the one the connection
\* starts with) or the direct successor of the unit before.
THEOREM ImplementsVideoStream == Spec => DecodableStream
<1> DEFINE U == IF first = 0 THEN <<>>
                ELSE [n \in 1 .. Len(units) |-> units[n] \/ n = first]
           S == IF whole \/ shown = first THEN shown ELSE -1
<1>1. Init => Stream!Init
  BY DEF Init, Stream!Init
<1>2. ASSUME StreamInv, ReceiverInv, StreamInv', ReceiverInv', [Next]_vars
      PROVE  [Stream!Next]_Stream!vars
  <2>1. ShownStep /\ (first' = first \/ first = 0)
    BY <1>2, ReceiverStep
  <2>2. S = shown /\ S' = shown'
    BY <1>2 DEF ReceiverInv, Fresh, Started, Shown
  <2>3. units \in Seq(BOOLEAN) /\ units' \in Seq(BOOLEAN)
    BY <1>2 DEF StreamInv, StreamTypes
  <2>4. /\ Len(units) <= Len(units')
        /\ \A n \in 1 .. Len(units) : units'[n] = units[n]
    <3>1. SendUnit \/ UNCHANGED units
      BY <1>2 DEF Next, vars, senderVars, PliArrives, PliLost, DrainHeld, DrainDone,
             LearnEndpoint, ServePending, NoVideo, ReceiveVideo, AskKeyframe, DeferPli
    <3>2. CASE SendUnit
      BY <2>3, <3>2 DEF SendUnit
    <3>3. CASE UNCHANGED units
      BY <2>3, <3>3
    <3> QED
      BY <3>1, <3>2, <3>3
  <2>5. Len(U) \in Nat /\ Len(U) <= Len(U') /\ \A n \in 1 .. Len(U) : U'[n] = U[n]
    <3>1. CASE first = 0
      <4>1. U = <<>> /\ Len(U) = 0
        BY <3>1
      <4>2. Len(U') \in Nat
        BY <2>3
      <4> QED
        BY <4>1, <4>2
    <3>2. CASE first # 0
      <4>1. first' = first
        BY <2>1, <3>2
      <4>2. /\ U = [n \in 1 .. Len(units) |-> units[n] \/ n = first]
            /\ U' = [n \in 1 .. Len(units') |-> units'[n] \/ n = first]
        BY <3>2, <4>1
      <4>3. Len(units) \in Nat /\ Len(units') \in Nat
        BY <2>3
      <4>4. Len(U) = Len(units) /\ Len(U') = Len(units')
        BY <4>2, <4>3
      <4> QED
        BY <2>4, <4>2, <4>3, <4>4
    <3> QED
      BY <3>1, <3>2
  <2>6. S' = S \/ (/\ S' \in S + 1 .. Len(U')
                   /\ U'[S'] \/ (S > 0 /\ S' = S + 1))
    <3>1. CASE UNCHANGED <<shown, whole>>
      BY <2>2, <3>1
    <3>2. CASE /\ UNCHANGED units
               /\ shown' \in shown + 1 .. Len(units)
               /\ units[shown'] \/ shown' = first' \/ (shown > 0 /\ shown' = shown + 1)
      <4>1. first' # 0 /\ shown \in Nat /\ Len(units) \in Nat
        BY <1>2, <2>3, <3>2 DEF ReceiverInv, Fresh, Started, Numbers, Shown
      <4>2. /\ U' = [n \in 1 .. Len(units) |-> units[n] \/ n = first']
            /\ shown' \in 1 .. Len(units)
        BY <3>2, <4>1
      <4>3. Len(U') = Len(units) /\ U'[shown'] = (units[shown'] \/ shown' = first')
        BY <4>1, <4>2
      <4> QED
        BY <2>2, <3>2, <4>3
    <3> QED
      BY <2>1, <3>1, <3>2 DEF ShownStep
  <2> HIDE DEF U, S
  <2>7. /\ Len(U) <= Len(U') /\ \A n \in 1 .. Len(U) : U'[n] = U[n]
        /\ \/ /\ S' \in S + 1 .. Len(U')
              /\ U'[S'] \/ (S > 0 /\ S' = S + 1)
           \/ S' = S
    BY <2>5, <2>6
  <2> QED
    BY <2>7 DEF U, S, Stream!Next, Stream!Encode, Stream!Show
<1> QED
  <2>1. [](StreamInv /\ ReceiverInv) /\ [][Next]_vars => [][Stream!Next]_Stream!vars
    BY <1>2, PTL
  <2> QED
    BY Invariant, <1>1, <2>1, PTL DEF Spec, DecodableStream, Stream!Spec

=============================================================================
