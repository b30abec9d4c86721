---------------------------- MODULE KeyframeLoop ---------------------------
(***************************************************************************)
(* How a picture comes back: the loop that encoder, server, network,       *)
(* receiver and decoder make of access units going one way and keyframe    *)
(* requests going the other.  Each part is the abstraction of a module of  *)
(* its own (RtpServer, RtpReceiver, Playback); here they meet, and every   *)
(* one of them loses things until the environment is calm.                 *)
(*                                                                         *)
(* Units are encoded on every tick of the capture thread, changed screen   *)
(* or not, and each depends on the one before it.  The server drops units  *)
(* on two threads, under its lock, and either asks for a keyframe only     *)
(* after the unlock.  The receive loop hands units on in order, so what is *)
(* lost shows as a gap in front of the next packet.  Requests travel by    *)
(* UDP, once, and are throttled by two intervals at the receiver.          *)
(***************************************************************************)
EXTENDS Naturals, Sequences

CONSTANT MaxFlight    \* bound: units on their way

ASSUME LoopAssumption == MaxFlight \in Nat \ {0}

VARIABLES
  force,       \* Encoder::force_keyframe_
  hand,        \* the unit the capture thread has encoded and not yet broadcast
  refuses,     \* RtpServer::awaiting_keyframe_
  owes,        \* threads that have dropped units and not yet called
               \* on_keyframe_request
  cut,         \* history: a unit since the last one queued was not sent whole
  flight,      \* units queued or sent, and not yet received: a "key" or "inter"
               \* unit, an "orphan", which depends on one the server dropped, a
               \* "stub", whose last packets are never sent, or one that is "gone"
  pli,         \* a keyframe request is on its way to the streamer
  remote,      \* remoteAddress is known
  heard,       \* a packet of the video has been received
  gap,         \* packets are missing before the next one
  awaiting,    \* VideoDepacketizer.awaitingKeyframe
  missing,     \* history: the next unit depends on one that was not handed on
  auto,        \* less than 500 ms since lastAutoPli
  external,    \* less than 250 ms since lastExternalPliMs
  asker,       \* the session's own request: "start", "defer", or "done"
  pliPending,
  posted,      \* the decoder's request is posted to its callback thread
  ready,       \* VideoDecoder.inputChainReady
  chain,       \* what its codec has: "none", a "broken" or a "whole" chain
  calm         \* nothing is lost any more

queueVars    == <<refuses, owes, cut, flight>>
streamerVars == <<force, hand, queueVars>>
receiverVars == <<remote, heard, gap, awaiting, missing, auto, external, pliPending>>
decoderVars  == <<posted, ready, chain>>
loopVars == <<streamerVars, pli, receiverVars, asker, decoderVars, calm>>

Units == {"key", "inter", "orphan"}

\* READY has been answered: the server has asked for a keyframe.
LoopInit ==
  /\ force = TRUE /\ hand = "none"
  /\ refuses = TRUE /\ owes = {} /\ cut = TRUE /\ flight = <<>>
  /\ pli = FALSE
  /\ remote = FALSE /\ heard = FALSE /\ gap = FALSE /\ awaiting = FALSE
  /\ missing = TRUE /\ auto = FALSE /\ external = FALSE
  /\ asker = "start" /\ pliPending = FALSE
  /\ posted = FALSE /\ ready = FALSE /\ chain = "none"
  /\ calm = FALSE

-----------------------------------------------------------------------------
(* The streamer *)

\* A tick: encode() takes the forced flag.  Keyframes come unasked, too.
Encode(key) ==
  /\ hand = "none" /\ "capture" \notin owes
  /\ force => key
  /\ force' = FALSE
  /\ hand' = IF key THEN "key" ELSE "inter"
  /\ UNCHANGED <<queueVars, pli, receiverVars, asker, decoderVars, calm>>

\* broadcast_video() lets nothing pass that depends on a dropped unit.  What it
\* refuses has no numbers: no gap will show it.
Refuse ==
  /\ hand = "inter" /\ refuses
  /\ hand' = "none"
  /\ cut' = TRUE
  /\ UNCHANGED <<force, refuses, owes, flight, pli, receiverVars, asker,
                 decoderVars, calm>>

Passes == hand # "none" /\ (refuses => hand = "key")

Queue ==
  /\ Passes
  /\ Len(flight) < MaxFlight
  /\ flight' = Append(flight, IF cut /\ hand = "inter" THEN "orphan" ELSE hand)
  /\ hand' = "none"
  /\ refuses' = FALSE
  /\ cut' = (cut /\ hand = "inter")
  /\ UNCHANGED <<force, owes, pli, receiverVars, asker, decoderVars, calm>>

\* What the queue may leave of the units on their way when it is dropped: those
\* sent, then a unit of which the first packets, or none, were.
Rests ==
  { Append(SubSeq(flight, 1, n), "gone") : n \in 0 .. Len(flight) } \cup
  { Append(SubSeq(flight, 1, n), "stub") :
      n \in { m \in 0 .. Len(flight) - 1 : flight[m + 1] \in Units } }

\* The queue is full or late, or the unit too large: all that is queued is
\* dropped, and the unit, which has its numbers, too, unless it is a keyframe
\* that fits.
Overflow ==
  /\ ~calm
  /\ Passes
  /\ hand' = "none"
  /\ \/ /\ flight' \in { q \in Rests : Len(q) <= MaxFlight }
        /\ refuses' = TRUE /\ cut' = TRUE
        /\ owes' = owes \cup {"capture"}
     \/ /\ hand = "key"
        /\ \E q \in Rests : /\ Len(q) <= Len(flight) /\ Len(q) < MaxFlight
                           /\ flight' = Append(q, "key")
        /\ refuses' = FALSE /\ cut' = FALSE
        /\ UNCHANGED owes
  /\ UNCHANGED <<force, pli, receiverVars, asker, decoderVars, calm>>

\* The sender thread cannot send a packet, or not in time: the rest of its unit
\* and all that is queued are dropped, under the lock.
SendFails ==
  /\ ~calm
  /\ "sender" \notin owes
  /\ flight' \in { q \in Rests : Len(q) <= Len(flight) /\ flight[Len(q)] \in Units }
  /\ refuses' = TRUE /\ cut' = TRUE
  /\ owes' = owes \cup {"sender"}
  /\ UNCHANGED <<force, hand, pli, receiverVars, asker, decoderVars, calm>>

\* The thread that dropped them asks for a keyframe, after the unlock.
Request(thread) ==
  /\ thread \in owes
  /\ owes' = owes \ {thread}
  /\ force' = TRUE
  /\ UNCHANGED <<hand, refuses, cut, flight, pli, receiverVars, asker, decoderVars,
                 calm>>

PliArrives ==
  /\ pli
  /\ pli' = FALSE
  /\ force' = TRUE
  /\ UNCHANGED <<hand, queueVars, receiverVars, asker, decoderVars, calm>>

PliLost ==
  /\ pli /\ ~calm
  /\ pli' = FALSE
  /\ UNCHANGED <<streamerVars, receiverVars, asker, decoderVars, calm>>

-----------------------------------------------------------------------------
(* The receiver *)

\* The first packet, of audio perhaps, reveals where requests go.
LearnEndpoint ==
  /\ ~remote
  /\ remote' = TRUE
  /\ pli' = (pli \/ pliPending)
  /\ pliPending' = FALSE
  /\ UNCHANGED <<streamerVars, heard, gap, awaiting, missing, auto, external, asker,
                 decoderVars, calm>>

\* All packets of the next unit are lost.
Missed ==
  /\ flight # <<>>
  /\ Head(flight) = "gone" \/ ~calm
  /\ flight' = Tail(flight)
  /\ gap' = heard
  /\ missing' = TRUE
  /\ UNCHANGED <<force, hand, refuses, owes, cut, pli, remote, heard, awaiting,
                 auto, external, asker, pliPending, decoderVars, calm>>

\* Mutant of Asks: only a gap makes the loop ask.
Asks_OnGapOnly(late) ==
  /\ auto' = (auto \/ late)
  /\ pli' = (pli \/ (late /\ ~auto))
  /\ UNCHANGED external

\* The receive loop asks for a keyframe: for a gap, and for as long as the
\* depacketizer needs one, each subject to its throttle.
Asks(late) ==
  /\ auto' = (auto \/ late)
  /\ external' = (external \/ awaiting')
  /\ pli' = (pli \/ (late /\ ~auto) \/ (awaiting' /\ ~external))

\* feed() of the decoder: an inter unit does not open the chain, and is dropped
\* without a word.
Show(key, sound) ==
  /\ ready' = (ready \/ key)
  /\ chain' = CASE key /\ sound -> "whole"
                [] ready' /\ ~sound -> "broken"
                [] OTHER -> chain

\* Mutant of Intact: pendingGap is not reset.
Intact_GapStays ==
  LET unit  == Head(flight)
      key   == unit = "key"
      sound == key \/ (unit = "inter" /\ ~missing)
      emits == ~gap /\ (awaiting => key)
  IN /\ unit \in Units
     /\ awaiting' = (gap \/ (awaiting /\ ~key))
     /\ gap' = gap
     /\ missing' = ~(emits /\ sound)
     /\ Asks(gap)
     /\ IF emits THEN Show(key, sound) ELSE UNCHANGED <<ready, chain>>

\* Mutant of Intact: any complete unit ends the wait for a keyframe.
Intact_AnyUnitOpens ==
  LET unit  == Head(flight)
      key   == unit = "key"
      sound == key \/ (unit = "inter" /\ ~missing)
      emits == ~gap /\ (awaiting => key)
  IN /\ unit \in Units
     /\ awaiting' = gap
     /\ gap' = FALSE
     /\ missing' = ~(emits /\ sound)
     /\ Asks(gap)
     /\ IF emits THEN Show(key, sound) ELSE UNCHANGED <<ready, chain>>

\* All packets of a unit arrive.  After a gap it is given up all the same: the
\* gap might have been its own.
Intact ==
  LET unit  == Head(flight)
      key   == unit = "key"
      sound == key \/ (unit = "inter" /\ ~missing)
      emits == ~gap /\ (awaiting => key)
  IN /\ unit \in Units
     /\ awaiting' = (gap \/ (awaiting /\ ~key))
     /\ gap' = FALSE
     /\ missing' = ~(emits /\ sound)
     /\ Asks(gap)
     /\ IF emits THEN Show(key, sound) ELSE UNCHANGED <<ready, chain>>

\* Packets in the middle are missing, or the gap before the unit is seen.
CutMiddle ==
  /\ awaiting' = TRUE
  /\ gap' = FALSE
  /\ missing' = TRUE
  /\ Asks(TRUE)
  /\ UNCHANGED <<ready, chain>>

\* The last packets are missing, which the next unit will show.
CutEnd ==
  /\ awaiting' = (awaiting \/ gap)
  /\ gap' = TRUE
  /\ missing' = TRUE
  /\ Asks(gap)
  /\ UNCHANGED <<ready, chain>>

\* The very first packets are missing, which nothing shows: the rest passes
\* for a complete unit, and if its slices are there for a keyframe.
CutStart ==
  /\ ~heard /\ Head(flight) \in Units
  /\ UNCHANGED <<awaiting, gap>>
  /\ missing' = TRUE
  /\ Asks(FALSE)
  /\ \E key \in {FALSE, Head(flight) = "key"} : Show(key, FALSE)

Receive ==
  /\ remote
  /\ flight # <<>> /\ Head(flight) # "gone"
  /\ flight' = Tail(flight)
  /\ heard' = TRUE
  /\ \/ Intact
     \/ ~calm /\ (CutMiddle \/ CutStart)
     \/ (~calm \/ Head(flight) = "stub") /\ CutEnd
  /\ UNCHANGED <<force, hand, refuses, owes, cut, remote, asker, pliPending, posted,
                 calm>>

AutoExpires ==
  /\ auto
  /\ auto' = FALSE
  /\ UNCHANGED <<streamerVars, pli, remote, heard, gap, awaiting, missing,
                 external, pliPending, asker, decoderVars, calm>>

ExternalExpires ==
  /\ external
  /\ external' = FALSE
  /\ UNCHANGED <<streamerVars, pli, remote, heard, gap, awaiting, missing,
                 auto, pliPending, asker, decoderVars, calm>>

-----------------------------------------------------------------------------
(* requestKeyframe() by others *)

\* The session asks after START.  Nobody knows where to until the first packet
\* has come, and the test and the note are two steps.
SessionAsks ==
  /\ asker = "start"
  /\ asker' = IF external \/ remote THEN "done" ELSE "defer"
  /\ external' = TRUE
  /\ pli' = (pli \/ (remote /\ ~external))
  /\ UNCHANGED <<streamerVars, remote, heard, gap, awaiting, missing, auto,
                 pliPending, decoderVars, calm>>

SessionDefers ==
  /\ asker = "defer"
  /\ asker' = "done"
  /\ pliPending' = TRUE
  /\ UNCHANGED <<streamerVars, pli, remote, heard, gap, awaiting, missing, auto,
                 external, decoderVars, calm>>

\* A request that meets the throttle is forgotten.
DecoderAsks ==
  /\ posted
  /\ posted' = FALSE
  /\ external' = TRUE
  /\ pli' = (pli \/ ~external)
  /\ UNCHANGED <<streamerVars, remote, heard, gap, awaiting, missing, auto,
                 pliPending, asker, ready, chain, calm>>

-----------------------------------------------------------------------------
(* The decoder, as far as it loses units *)

\* dropPendingInputs(): its queue is full or stale, a submission failed.
DecoderDrops ==
  /\ ~calm /\ ready
  /\ ready' = FALSE /\ chain' = "none"
  /\ posted' = TRUE
  /\ UNCHANGED <<streamerVars, pli, receiverVars, asker, calm>>

\* recover(), and onError() before it: the codec starts over, and nobody asks.
DecoderResets ==
  /\ ~calm
  /\ ready' = FALSE /\ chain' = "none"
  /\ UNCHANGED <<streamerVars, pli, receiverVars, asker, posted, calm>>

\* feed() drops a unit while recovering, and an open chain has a hole.
DecoderSkips ==
  /\ ~calm /\ ready
  /\ chain' = "broken"
  /\ UNCHANGED <<streamerVars, pli, receiverVars, asker, posted, ready, calm>>

CalmsDown ==
  /\ ~calm
  /\ calm' = TRUE
  /\ UNCHANGED <<streamerVars, pli, receiverVars, asker, decoderVars>>

Tick == Encode(TRUE) \/ Encode(FALSE)
Broadcast == Refuse \/ Queue \/ Overflow
Arrival == Receive \/ Missed

LoopNext ==
  \/ Encode(TRUE) \/ Encode(FALSE)
  \/ Refuse \/ Queue \/ Overflow
  \/ SendFails \/ Request("capture") \/ Request("sender")
  \/ PliArrives \/ PliLost
  \/ LearnEndpoint \/ Missed \/ Receive
  \/ AutoExpires \/ ExternalExpires
  \/ SessionAsks \/ SessionDefers \/ DecoderAsks
  \/ DecoderDrops \/ DecoderResets \/ DecoderSkips
  \/ CalmsDown

\* The threads of the streamer go on, what is sent arrives or is missed, intervals
\* pass.  That a keyframe comes unasked is no part of it, and a capture thread that
\* ends (NeverAbandoned of RtpServer) is left out.
LoopFairness ==
  /\ WF_loopVars(Tick) /\ WF_loopVars(Broadcast)
  /\ WF_loopVars(Request("capture")) /\ WF_loopVars(Request("sender"))
  /\ WF_loopVars(Arrival) /\ WF_loopVars(flight # <<>> /\ LearnEndpoint)
  /\ WF_loopVars(PliArrives)
  /\ WF_loopVars(AutoExpires) /\ WF_loopVars(ExternalExpires)

LoopSpec == LoopInit /\ [][LoopNext]_loopVars /\ LoopFairness

-----------------------------------------------------------------------------
(* Properties *)

LoopTypeOK ==
  /\ {force, refuses, cut, pli, remote, heard, gap, awaiting, missing, auto,
      external, pliPending, posted, ready, calm} \subseteq BOOLEAN
  /\ hand \in {"none", "key", "inter"}
  /\ owes \subseteq {"capture", "sender"}
  /\ flight \in Seq(Units \cup {"stub", "gone"}) /\ Len(flight) <= MaxFlight
  /\ asker \in {"start", "defer", "done"}
  /\ chain \in {"none", "broken", "whole"}

\* Wherever units are dropped, between encoding and queueing, in the queue or half
\* sent, by either thread and however late it asks for a keyframe, the server
\* queues nothing that depends on them.
NothingOrphaned == \A i \in DOMAIN flight : flight[i] # "orphan"

\* A sound picture stays sound: whatever the server drops, with numbers to show for
\* it or without, and whatever the network loses or the receiver gives up after a
\* gap, the decoder is given nothing that depends on it while its chain is open.
\* What it skips itself does break the picture, and so does a stream whose very
\* first packets are lost; either is left to PictureComes.
Undamaged ==
  /\ [](LoopTypeOK /\ NothingOrphaned)
  /\ [][chain # "broken" /\ chain' = "broken" => DecoderSkips \/ ~heard]_loopVars

Showing == ready /\ chain = "whole"

\* Once the receiver knows that it needs a keyframe, requests alone bring the
\* picture back when the network lets them: one that is lost or throttled is
\* repeated, and so is one whose keyframe was given up after a gap.
RequestsRepair == calm /\ awaiting ~> Showing

\* With a keyframe every two seconds the picture comes back from anything: a
\* forgotten request, a first unit without its head, a decoder that starts over.
PictureComes == []<><<Encode(TRUE)>>_loopVars => (calm ~> Showing)

\* Requests alone.  Does not hold: a request of the session or the decoder is
\* made once, and what the receiver takes for a good stream it does not repair.
RequestsSuffice == calm ~> Showing
=============================================================================
