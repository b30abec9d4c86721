---------------------------- MODULE RtpReceiver ----------------------------
(***************************************************************************)
(* The video path of the Quest client's RtpReceiver.java: the receive loop *)
(* with its jitter buffer, NACKs and keyframe requests, and the            *)
(* VideoDepacketizer that assembles access units.                          *)
(*                                                                         *)
(* The streamer is the environment, as RtpServer models it: it numbers the *)
(* packets of every access unit, sends some or all of them, and after a    *)
(* unit not sent completely goes on with a keyframe (PacketStream).        *)
(* The network loses, repeats and reorders packets: whatever was sent may  *)
(* arrive at any time, any number of times, or never, so a retransmission  *)
(* is nothing new.  The clock is a choice: a held packet's repair budget   *)
(* or a request's throttle interval has passed or not.  Receiver reports   *)
(* and the bytes of a packet are left out; a packet is known by its        *)
(* position in the stream, its unit and the kind of its payload:           *)
(*   "nal" one whole NAL unit, "idr" one that is an IDR slice,             *)
(*   "start", "istart" the first fragment of a (IDR) unit, "mid", "end".   *)
(***************************************************************************)
EXTENDS Integers, Sequences, FiniteSets

CONSTANTS
  KeyLayouts,    \* payload kinds of the packets of a keyframe
  DeltaLayouts,  \* and of a dependent access unit
  SeqMod,        \* size of the sequence number space (65536)
  Starts,        \* positions a connection may start at
  Reach,         \* bound: packets late, or lost in a row
  JitterMax,     \* packets the jitter buffer holds before it gives up (512)
  NackMaxGap,    \* largest gap repaired by NACKs (256)
  MaxFrame,      \* packets that fit into the frame buffer (4 MiB)
  MaxUnits       \* bound: access units

Kinds == {"nal", "idr", "start", "istart", "mid", "end"}
IdrKinds == {"idr", "istart"}

ASSUME RtpReceiverAssumption ==
  /\ KeyLayouts \subseteq Seq(Kinds) \ {<<>>} /\ KeyLayouts # {}
  /\ DeltaLayouts \subseteq Seq(Kinds \ IdrKinds) \ {<<>>} /\ DeltaLayouts # {}
  /\ SeqMod \in Nat \ {0} /\ Starts \subseteq Nat /\ Starts # {}
  /\ Reach \in Nat /\ 2 * Reach < SeqMod
  /\ JitterMax \in Nat /\ NackMaxGap \in Nat /\ MaxFrame \in Nat
  /\ MaxUnits \in Nat

VARIABLES
  \* the streamer and the network
  units,         \* access units encoded so far: is it a keyframe?
  chained,       \* the last one was sent to its last packet
  sent,          \* packets sent so far
  pos,           \* position of the next packet
  pli, forced,   \* a PLI is under way; it has reached the encoder
  \* the receive loop
  at,            \* where it is
  remote,        \* remoteAddress is known
  nextExtSeq, highestExtSeq,
  jitter,        \* the packets held, with their extended sequence numbers
  depack,        \* the depacketizer
  \* requestKeyframe() on other threads
  asker,         \* one of them is inside it
  pliPending,    \* pliPending
  \* history
  offset,        \* position minus extended sequence number
  first,         \* unit of the first packet received; 0: none
  nacked,        \* numbers asked for again, or in a gap too large for it
  shown, whole   \* the last unit handed to the decoder; it was complete

senderVars == <<units, chained, sent, pos>>
loopVars   == <<at, remote, nextExtSeq, highestExtSeq, jitter, depack>>
histVars   == <<offset, first, nacked, shown, whole>>
vars == <<senderVars, pli, forced, loopVars, asker, pliPending, histVars>>

Packet == [pos : Nat, unit : Nat, kind : Kinds, marker : BOOLEAN]

\* pts 0 stands for Long.MIN_VALUE; frame is the set of positions written to it.
NewDepacketizer ==
  [pts |-> 0, frame |-> {}, fuActive |-> FALSE, keyframe |-> FALSE,
   damaged |-> FALSE, pendingGap |-> FALSE, awaitingKeyframe |-> FALSE]

Init ==
  /\ units = <<>> /\ chained = FALSE
  /\ sent = {}
  /\ pos \in Starts
  /\ pli = FALSE /\ forced = FALSE
  /\ at = "drain"
  /\ remote = FALSE
  /\ nextExtSeq = -1 /\ highestExtSeq = -1
  /\ jitter = {}
  /\ depack = NewDepacketizer
  /\ asker = "idle" /\ pliPending = FALSE
  /\ offset = 0 /\ first = 0
  /\ nacked = {}
  /\ shown = 0 /\ whole = TRUE

-----------------------------------------------------------------------------
(* The streamer *)

PacketsOf(n, layout) ==
  {[pos |-> pos + i - 1, unit |-> n, kind |-> layout[i],
    marker |-> i = Len(layout)] : i \in 1 .. Len(layout)}

\* An access unit is numbered; its first cut packets are sent.  What is queued
\* behind an incomplete unit is dropped without being sent.
SendUnit ==
  /\ Len(units) < MaxUnits
  /\ \E key \in BOOLEAN :
     \E layout \in IF key THEN KeyLayouts ELSE DeltaLayouts :
     \E cut \in 0 .. Len(layout) :
       /\ forced => key
       /\ key \/ chained \/ cut = 0
       /\ units' = Append(units, key)
       /\ sent' = sent \cup {p \in PacketsOf(Len(units) + 1, layout) :
                               p.pos < pos + cut}
       /\ pos' = pos + Len(layout)
       /\ chained' = (cut = Len(layout))
  /\ forced' = FALSE
  /\ UNCHANGED <<pli, loopVars, asker, pliPending, histVars>>

PliArrives ==
  /\ pli
  /\ pli' = FALSE
  /\ forced' = TRUE
  /\ UNCHANGED <<senderVars, loopVars, asker, pliPending, histVars>>

PliLost ==
  /\ pli
  /\ pli' = FALSE
  /\ UNCHANGED <<senderVars, forced, loopVars, asker, pliPending, histVars>>

-----------------------------------------------------------------------------
(* The depacketizer: its methods, from one record to the next *)

Invalidate(d) ==
  [d EXCEPT !.damaged = TRUE, !.awaitingKeyframe = TRUE, !.frame = {},
            !.fuActive = FALSE]

\* onGap()
OnGap(d) == [Invalidate(d) EXCEPT !.pendingGap = TRUE]

\* A new timestamp begins a new access unit; one that had no marker is damaged.
BeginUnit(d, p) ==
  IF d.pts = p.unit THEN d
  ELSE [(IF d.pts # 0 THEN Invalidate(d) ELSE d) EXCEPT
          !.frame = {}, !.fuActive = FALSE, !.keyframe = FALSE,
          !.damaged = d.pendingGap, !.pts = p.unit]

TakeGap(d) ==
  [d EXCEPT !.damaged = d.damaged \/ d.pendingGap, !.pendingGap = FALSE]

\* The payload is appended, or the unit is given up because it does not fit in,
\* or because its fragments do not belong together.
Assemble(d, p) ==
  LET starts == p.kind \in {"start", "istart"}
      inside == p.kind \in {"mid", "end"}
  IN  IF d.damaged THEN d
      ELSE IF \/ Cardinality(d.frame) >= MaxFrame
              \/ inside # d.fuActive
      THEN Invalidate(d)
      ELSE [d EXCEPT !.frame = d.frame \cup {p.pos},
                     !.keyframe = d.keyframe \/ p.kind \in IdrKinds,
                     !.fuActive = starts \/ p.kind = "mid"]

\* Whether the unit that ends with a marker goes to the decoder.
Emits(d) ==
  ~d.damaged /\ d.frame # {} /\ (d.awaitingKeyframe => d.keyframe)

\* The marker: an open fragment spoils the unit; the next one starts afresh.
EndUnit(d) ==
  [d EXCEPT !.awaitingKeyframe = d.awaitingKeyframe /\ ~Emits(d), !.frame = {},
            !.fuActive = FALSE, !.keyframe = FALSE, !.damaged = FALSE, !.pts = 0]

\* feed(p): the depacketizer, and what the decoder is given.
Feed(d, p) ==
  LET a == Assemble(TakeGap(BeginUnit(d, p)), p)
      b == IF p.marker /\ a.fuActive THEN Invalidate(a) ELSE a
      complete == {q.pos : q \in {r \in sent : r.unit = p.unit}}
  IN  /\ depack' = IF p.marker THEN EndUnit(b) ELSE b
      /\ IF p.marker /\ Emits(b)
         THEN shown' = p.unit /\ whole' = (b.frame = complete)
         ELSE UNCHANGED <<shown, whole>>

-----------------------------------------------------------------------------
(* The receive loop *)

\* sendPli(), unless its throttle interval has not passed.
MaybeAsk(wanted) == pli' \in IF wanted THEN {pli, TRUE} ELSE {pli}

Earliest(e) == e \in jitter /\ \A f \in jitter : e.ext <= f.ext

\* Mutant of DrainHeld: the gap before the packet is not noticed.
DrainHeld_NoGap ==
  /\ at = "drain"
  /\ \E e \in jitter :
       /\ Earliest(e)
       /\ jitter' = jitter \ {e}
       /\ nextExtSeq' = e.ext + 1
       /\ Feed(depack, e.packet)
       /\ MaybeAsk(depack'.awaitingKeyframe)
  /\ UNCHANGED <<senderVars, forced, at, remote, highestExtSeq, asker,
                 pliPending, offset, first, nacked>>

\* The earliest held packet is due: it is the next one, the buffer is too full,
\* or its repair budget is used up.
DrainHeld ==
  /\ at = "drain"
  /\ \E e \in jitter :
       /\ Earliest(e)
       /\ jitter' = jitter \ {e}
       /\ nextExtSeq' = e.ext + 1
       /\ Feed(IF e.ext = nextExtSeq THEN depack ELSE OnGap(depack), e.packet)
       /\ MaybeAsk(e.ext # nextExtSeq \/ depack'.awaitingKeyframe)
  /\ UNCHANGED <<senderVars, forced, at, remote, highestExtSeq, asker,
                 pliPending, offset, first, nacked>>

\* Nothing is due: the earliest held packet is ahead and within its budget.
DrainDone ==
  /\ at = "drain"
  /\ Cardinality(jitter) <= JitterMax
  /\ \A e \in jitter : e.ext # nextExtSeq
  /\ at' = "receive"
  /\ UNCHANGED <<senderVars, pli, forced, remote, nextExtSeq, highestExtSeq,
                 jitter, depack, asker, pliPending, histVars>>

\* The first packet reveals the streamer's endpoint ...
LearnEndpoint ==
  /\ at = "receive" /\ ~remote
  /\ remote' = TRUE
  /\ at' = "endpoint"
  /\ UNCHANGED <<senderVars, pli, forced, nextExtSeq, highestExtSeq, jitter,
                 depack, asker, pliPending, histVars>>

\* ... and a request that had to wait for it is served.
ServePending ==
  /\ at = "endpoint"
  /\ pliPending' = FALSE
  /\ pli' = (pli \/ pliPending)
  /\ at' = "handle"
  /\ UNCHANGED <<senderVars, forced, remote, nextExtSeq, highestExtSeq, jitter,
                 depack, asker, histVars>>

\* The receive times out, or the packet is audio or malformed.
NoVideo ==
  /\ at = "receive" \/ at = "handle"
  /\ at' = "drain"
  /\ UNCHANGED <<senderVars, pli, forced, remote, nextExtSeq, highestExtSeq,
                 jitter, depack, asker, pliPending, histVars>>

\* Mutant of Unwrap: the difference is taken without its sign.
Unwrap_Unsigned(seq) ==
  IF highestExtSeq < 0 THEN seq
  ELSE highestExtSeq + ((seq - highestExtSeq) % SeqMod)

\* The 16-bit number seq as the nearest to the highest one seen.
Unwrap(seq) ==
  IF highestExtSeq < 0 THEN seq
  ELSE LET half == SeqMod \div 2
       IN  highestExtSeq - half + ((seq - highestExtSeq + half) % SeqMod)

Arriving ==
  {p \in sent : highestExtSeq >= 0 =>
     p.pos - offset - highestExtSeq \in -Reach .. Reach}

\* Mutant of Skipped: the first missing number is left out.
Skipped_OffByOne(ext) ==
  IF highestExtSeq >= 0 THEN highestExtSeq + 2 .. ext - 1 ELSE {}

\* The numbers skipped by a packet ahead of all others.
Skipped(ext) ==
  IF highestExtSeq >= 0 THEN highestExtSeq + 1 .. ext - 1 ELSE {}

\* A video packet: a gap before it is NACKed at once, then it is fed if it is the
\* next one, held if it is ahead, and dropped if it is late or held already.
ReceiveVideo ==
  /\ at = "handle" \/ (at = "receive" /\ remote)
  /\ \E p \in Arriving :
       LET ext  == Unwrap(p.pos % SeqMod)
           feed == nextExtSeq < 0 \/ ext = nextExtSeq
           hold == /\ nextExtSeq >= 0 /\ ext > nextExtSeq
                   /\ \A e \in jitter : e.ext # ext
           huge == Cardinality(Skipped(ext)) > NackMaxGap
       IN  /\ highestExtSeq' = IF ext > highestExtSeq THEN ext ELSE highestExtSeq
           /\ nacked' = nacked \cup Skipped(ext)
           /\ offset' = IF highestExtSeq < 0 THEN p.pos - ext ELSE offset
           /\ first' = IF highestExtSeq < 0 THEN p.unit ELSE first
           /\ nextExtSeq' = IF feed THEN ext + 1 ELSE nextExtSeq
           /\ jitter' = IF hold THEN jitter \cup {[ext |-> ext, packet |-> p]}
                        ELSE jitter
           /\ IF feed THEN Feed(depack, p) ELSE UNCHANGED <<depack, shown, whole>>
           /\ MaybeAsk(huge \/ (feed /\ depack'.awaitingKeyframe))
  /\ at' = "drain"
  /\ UNCHANGED <<senderVars, forced, remote, asker, pliPending>>

-----------------------------------------------------------------------------
(* requestKeyframe() by the session or the decoder, if its throttle allows it *)

AskKeyframe ==
  /\ asker = "idle"
  /\ IF remote THEN pli' = TRUE /\ asker' = asker
     ELSE pli' = pli /\ asker' = "defer"
  /\ UNCHANGED <<senderVars, forced, loopVars, pliPending, histVars>>

DeferPli ==
  /\ asker = "defer"
  /\ pliPending' = TRUE
  /\ asker' = "idle"
  /\ UNCHANGED <<senderVars, pli, forced, loopVars, histVars>>

Next ==
  \/ SendUnit \/ PliArrives \/ PliLost
  \/ DrainHeld \/ DrainDone \/ LearnEndpoint \/ ServePending \/ NoVideo
  \/ ReceiveVideo
  \/ AskKeyframe \/ DeferPli

Spec == Init /\ [][Next]_vars

-----------------------------------------------------------------------------
(* Properties *)

TypeOK ==
  /\ units \in Seq(BOOLEAN) /\ chained \in BOOLEAN
  /\ sent \subseteq Packet /\ pos \in Nat
  /\ pli \in BOOLEAN /\ forced \in BOOLEAN
  /\ at \in {"drain", "receive", "endpoint", "handle"} /\ remote \in BOOLEAN
  /\ nextExtSeq \in Int /\ highestExtSeq \in Int
  /\ jitter \subseteq [ext : Nat, packet : Packet]
  /\ Cardinality(jitter) <= JitterMax + 1
  /\ depack \in [pts : Nat, frame : SUBSET Nat, fuActive : BOOLEAN,
                 keyframe : BOOLEAN, damaged : BOOLEAN, pendingGap : BOOLEAN,
                 awaitingKeyframe : BOOLEAN]
  /\ asker \in {"idle", "defer"} /\ pliPending \in BOOLEAN
  /\ offset \in Nat /\ first \in Nat /\ nacked \subseteq Nat
  /\ shown \in Nat /\ whole \in BOOLEAN

\* "stale retransmissions can be recognised and dropped" (RtpReceiver.java:158):
\* the jitter buffer holds nothing behind the playout point, nothing twice, and
\* everything under its true position, across the wrap of the sequence number.
JitterAhead ==
  \A e \in jitter :
    /\ e.ext >= nextExtSeq
    /\ e.ext = e.packet.pos - offset
    /\ \A f \in jitter : f.ext = e.ext => f = e

\* A packet that is missed while the playout point has not passed it has been
\* asked for again, or its gap is so large that a keyframe was (unless throttled).
GapsReported ==
  highestExtSeq >= 0 => \A n \in nextExtSeq .. highestExtSeq :
    n \in nacked \/ \E e \in jitter : e.ext = n

\* Whatever the network does, the decoder is given what VideoStream promises,
\* if the unit the connection starts with counts as a whole keyframe (the client
\* cannot tell, see WholeUnits).
Stream == INSTANCE VideoStream WITH
  units <- IF first = 0 THEN <<>>
           ELSE [n \in 1 .. Len(units) |-> units[n] \/ n = first],
  shown <- IF whole \/ shown = first THEN shown ELSE -1

DecodableStream == Stream!Spec

\* "Complete Annex B access unit" (RtpReceiver.java:35): every unit handed to
\* the decoder has all its packets.
WholeUnits == whole

=============================================================================
