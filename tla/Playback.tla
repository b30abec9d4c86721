----------------------------- MODULE Playback ------------------------------
(***************************************************************************)
(* VideoDecoder: access units from the RTP receiver are queued for a       *)
(* hardware codec and submitted as the codec returns its input buffers.    *)
(* The receiver thread feeds, the callback thread submits and recovers,    *)
(* the UI thread takes surfaces away and gives new ones, and the session's *)
(* worker releases everything.  The codec fails, stalls, and loses its     *)
(* surface.                                                                *)
(*                                                                         *)
(* The receiver delivers a whole stream: keyframes, and units that         *)
(* directly follow the one delivered before.  What a unit refers to is     *)
(* kept as one bit: whether units delivered just before it were dropped.   *)
(* Once the environment is calm the surface stays and nothing fails.       *)
(***************************************************************************)
EXTENDS Integers, Sequences

CONSTANTS
  MaxPending,     \* MAX_PENDING_FRAMES
  WedgeAfter,     \* WEDGE_RESET_AFTER_KEYFRAME_DROPS
  MaxRetries,     \* RECOVER_MAX_RETRIES
  Buffers,        \* input buffers of the codec
  MaxRecovers     \* bound: recover() tasks that wait; more count as so many

ASSUME PlaybackAssumption ==
  /\ MaxPending \in Nat \ {0} /\ WedgeAfter \in Nat \ {0}
  /\ MaxRetries \in Nat /\ Buffers \in Nat \ {0} /\ MaxRecovers \in Nat \ {0}

VARIABLES
  rx,          \* the unit feed() is about to append: "key", "inter"; or "idle"
  pending,     \* pendingInputs: is it a keyframe, does it follow a gap
  stale,       \* the oldest of them is past its budget
  ready,       \* inputChainReady
  gap,         \* what became of the units since the last one queued: "no" gap,
               \* a "drop" that closed the chain, or a "hole" in an open one
  streak,      \* keyframeDropStreak
  recovering,
  released,
  recovers,    \* recover() tasks posted to the callback thread
  retries,     \* recoverRetries
  drain,       \* drainInputsTask is "posted", "delayed", or "none"
  swap,        \* setSurface() has posted its task
  failed,      \* onError() is due
  cb,          \* what the callback thread is doing
  hand,        \* the unit it submits
  free,        \* freeInputs
  codec,       \* "ok", "stalled", "dead", or "none"
  avail,       \* buffers the codec is about to return
  bound,       \* the codec renders to the present surface
  refs,        \* what the codec has for the next unit to refer to: "none", a
               \* "whole" chain, or one with holes
  valid,       \* the surface is valid
  calm         \* the environment has stopped misbehaving

inputVars == <<pending, stale, ready, gap>>
recoveryVars == <<streak, recovering, recovers, retries>>
taskVars == <<drain, swap, failed>>
codecVars == <<codec, avail, bound, refs>>
envVars == <<released, valid, calm>>
vars == <<rx, inputVars, recoveryVars, taskVars, cb, hand, free, codecVars,
          envVars>>

Gaps == {"no", "drop", "hole"}
Units == [key : BOOLEAN, gap : Gaps]
NoUnit == [key |-> FALSE, gap |-> "no"]

Init ==
  /\ rx = "idle"
  /\ pending = <<>> /\ stale = FALSE /\ ready = FALSE /\ gap = "drop"
  /\ streak = 0 /\ recovering = FALSE /\ recovers = 0 /\ retries = 0
  /\ drain = "none" /\ swap = FALSE /\ failed = FALSE
  /\ cb = "idle" /\ hand = NoUnit /\ free = 0
  /\ codec \in {"ok", "none"}     \* none: the surface was not valid at set-up
  /\ avail = (IF codec = "ok" THEN Buffers ELSE 0)
  /\ valid = (codec = "ok") /\ bound = valid
  /\ refs = "none"
  /\ released = FALSE /\ calm = FALSE

\* The codec is well and is about to be given what is pending.
Healthy ==
  /\ calm /\ codec = "ok"
  /\ avail > 0 \/ drain = "posted" \/ cb \in {"drain", "submit"}

\* A calm environment delivers no faster than a healthy codec takes.
Overrun == Healthy /\ ~stale /\ Len(pending) = MaxPending

\* Nothing more fails, and no surface comes, once the session is over.
Trouble == ~calm /\ ~released

\* cbHandler.post(this::recover)
OneMore == IF recovers < MaxRecovers THEN recovers + 1 ELSE recovers

-----------------------------------------------------------------------------
(* The input queue *)

\* clearPendingInputs()
Clear ==
  /\ pending' = <<>>
  /\ stale' = FALSE
  /\ ready' = FALSE
  /\ gap' = "drop"

HasKey(q) == \E i \in DOMAIN q : q[i].key

\* Mutant of Wedged: a dropped keyframe is not held against the codec.
Wedged_Never == FALSE

\* Too many keyframes in a row could not be queued: the codec does not recycle
\* its buffers.
Wedged == HasKey(pending) /\ streak + 1 >= WedgeAfter /\ ~recovering

\* The part of dropPendingInputs() that concerns recovery.
CountDrop ==
  /\ streak' = IF HasKey(pending) /\ streak < WedgeAfter THEN streak + 1 ELSE streak
  /\ recovering' = (recovering \/ Wedged)
  /\ recovers' = IF Wedged THEN OneMore ELSE recovers
  /\ UNCHANGED retries

-----------------------------------------------------------------------------
(* feed(), on the receiver thread *)

\* The first test, without the lock.
FeedTest(kind) ==
  /\ rx = "idle" /\ ~Overrun
  /\ IF released \/ recovering \/ codec = "none"
     THEN /\ gap' = IF released THEN gap ELSE IF ready THEN "hole" ELSE "drop"
          /\ UNCHANGED rx
     ELSE rx' = kind /\ UNCHANGED gap
  /\ UNCHANGED <<pending, stale, ready, recoveryVars, taskVars, cb, hand, free,
                 codecVars, envVars>>

Full == Len(pending) >= MaxPending \/ stale

\* A keyframe opens the chain.
Admit(open) == open \/ rx = "key"

\* Under the lock.  A unit that is too large for the byte limit drops what is
\* pending, and itself.
Queue ==
  /\ rx # "idle"
  /\ rx' = "idle"
  /\ \E large \in IF calm THEN {FALSE} ELSE BOOLEAN :
       LET drop == Full \/ large
           open == ready /\ ~drop
           kept == IF drop THEN <<>> ELSE pending
       IN /\ IF Admit(open) /\ ~large
             THEN /\ pending' = Append(kept, [key |-> rx = "key",
                                              gap |-> IF rx = "key" THEN "no" ELSE gap])
                  /\ ready' = TRUE /\ gap' = "no"
                  /\ drain' = "posted"
             ELSE /\ pending' = kept
                  /\ ready' = open
                  /\ gap' = IF open THEN gap ELSE "drop"
                  /\ UNCHANGED drain
          /\ stale' = (stale /\ ~drop)
          /\ IF drop THEN CountDrop ELSE UNCHANGED recoveryVars
  /\ UNCHANGED <<swap, failed, cb, hand, free, codecVars, envVars>>

\* The oldest unit waits longer than INPUT_BUDGET_MS.
Age ==
  /\ pending # <<>> /\ ~stale /\ ~Healthy
  /\ stale' = TRUE
  /\ UNCHANGED <<rx, pending, ready, gap, recoveryVars, taskVars, cb, hand, free,
                 codecVars, envVars>>

-----------------------------------------------------------------------------
(* The callback thread *)

\* onInputBufferAvailable()
InputAvailable ==
  /\ cb = "idle"
  /\ codec = "ok" /\ avail > 0
  /\ avail' = avail - 1
  /\ IF released \/ recovering THEN UNCHANGED <<free, cb>>
     ELSE free' = free + 1 /\ cb' = "drain"
  /\ UNCHANGED <<rx, inputVars, recoveryVars, taskVars, hand, codec, bound,
                 refs, envVars>>

\* drainInputsTask: posted by feed(), or due when the oldest unit is stale.
DrainTask ==
  /\ cb = "idle"
  /\ drain = "posted" \/ (drain = "delayed" /\ stale)
  /\ drain' = "none"
  /\ cb' = "drain"
  /\ UNCHANGED <<rx, inputVars, recoveryVars, swap, failed, hand, free,
                 codecVars, envVars>>

\* One round of drainPendingInputs(), under the lock.
DrainEnds ==
  /\ cb = "drain"
  /\ released \/ recovering
  /\ cb' = "idle"
  /\ UNCHANGED <<rx, inputVars, recoveryVars, taskVars, hand, free, codecVars,
                 envVars>>

DrainWaits ==
  /\ cb = "drain" /\ ~released /\ ~recovering
  /\ pending = <<>> \/ (~stale /\ free = 0)
  /\ cb' = "idle"
  /\ drain' = IF pending = <<>> THEN "none" ELSE "delayed"
  /\ UNCHANGED <<rx, inputVars, recoveryVars, swap, failed, hand, free,
                 codecVars, envVars>>

DrainDrops ==
  /\ cb = "drain" /\ ~released /\ ~recovering
  /\ pending # <<>> /\ stale
  /\ Clear /\ CountDrop
  /\ cb' = "idle"
  /\ drain' = "none"
  /\ UNCHANGED <<rx, swap, failed, hand, free, codecVars, envVars>>

DrainTakes ==
  /\ cb = "drain" /\ ~released /\ ~recovering
  /\ pending # <<>> /\ ~stale /\ free > 0
  /\ hand' = Head(pending)
  /\ pending' = Tail(pending)
  /\ free' = free - 1
  /\ drain' = "none"
  /\ cb' = "submit"
  /\ UNCHANGED <<rx, stale, ready, gap, recoveryVars, swap, failed, codecVars,
                 envVars>>

\* queueInputBuffer() takes the unit; the buffer will come back if the codec
\* is well.
Submit ==
  /\ cb = "submit"
  /\ codec \in {"ok", "stalled"}
  /\ refs' = IF hand.key THEN "whole"
             ELSE IF refs = "none" \/ hand.gap = "drop" THEN "none"
             ELSE IF hand.gap = "hole" THEN "holed" ELSE refs
  /\ avail' = IF codec = "ok" THEN avail + 1 ELSE avail
  /\ streak' = 0
  /\ hand' = NoUnit
  /\ cb' = "drain"
  /\ UNCHANGED <<rx, inputVars, recovering, recovers, retries, taskVars, free,
                 codec, bound, envVars>>

\* Mutant of SubmitFails: the units that follow the lost one stay queued.
SubmitFails_KeepsRest ==
  /\ cb = "submit"
  /\ ~Healthy
  /\ UNCHANGED <<inputVars, recoveryVars>>
  /\ avail' = IF codec = "ok" THEN avail + 1 ELSE avail
  /\ hand' = NoUnit
  /\ cb' = "drain"
  /\ UNCHANGED <<rx, taskVars, free, codec, bound, refs, envVars>>

\* No buffer, one too small, or an exception: what follows the lost unit goes.
SubmitFails ==
  /\ cb = "submit"
  /\ ~Healthy
  /\ Clear /\ CountDrop
  /\ avail' = IF codec = "ok" THEN avail + 1 ELSE avail
  /\ hand' = NoUnit
  /\ cb' = "drain"
  /\ UNCHANGED <<rx, taskVars, free, codec, bound, refs, envVars>>

\* onError(): the queue is cleared first, and feed() may come in between.
OnError ==
  /\ cb = "idle" /\ failed
  /\ failed' = FALSE
  /\ Clear
  /\ cb' = "error"
  /\ UNCHANGED <<rx, recoveryVars, drain, swap, hand, free, codecVars, envVars>>

PostRecover ==
  /\ cb = "error"
  /\ cb' = "idle"
  /\ IF released \/ recovering THEN UNCHANGED <<recovering, recovers>>
     ELSE recovering' = TRUE /\ recovers' = OneMore
  /\ UNCHANGED <<rx, inputVars, streak, retries, taskVars, hand, free, codecVars,
                 envVars>>

\* recover() up to the reset: the surface is valid.
BeginReset ==
  /\ free' = 0
  /\ Clear
  /\ streak' = 0 /\ retries' = 0
  /\ cb' = "reset"

\* No surface to render to: try again later, and give up in the end.
RecoverWaits ==
  /\ cb = "idle" /\ recovers > 0
  /\ ~released /\ codec # "none" /\ ~valid
  /\ IF retries < MaxRetries
     THEN retries' = retries + 1 /\ UNCHANGED <<recovering, recovers>>
     ELSE retries' = 0 /\ recovering' = FALSE /\ recovers' = recovers - 1
  /\ UNCHANGED <<rx, inputVars, streak, taskVars, cb, hand, free, codecVars,
                 envVars>>

Recover ==
  /\ cb = "idle" /\ recovers > 0
  /\ released \/ codec = "none" \/ valid
  /\ recovers' = recovers - 1
  /\ IF released \/ codec = "none"
     THEN UNCHANGED <<inputVars, streak, retries, cb, free>>
     ELSE BeginReset
  /\ UNCHANGED <<rx, recovering, taskVars, hand, codecVars, envVars>>

\* reset(), configure() and start() of the codec, or an exception.
Reset ==
  /\ cb = "reset"
  /\ cb' = "idle"
  /\ recovering' = FALSE
  /\ failed' = FALSE
  /\ refs' = "none"
  /\ \/ /\ codec # "none" /\ valid
        /\ codec' = "ok" /\ avail' = Buffers /\ bound' = TRUE
     \/ /\ ~calm \/ codec = "none"
        /\ codec' = (IF codec = "none" THEN "none" ELSE "dead")
        /\ avail' = 0 /\ bound' = FALSE
  /\ UNCHANGED <<rx, inputVars, streak, recovers, retries, drain, swap, hand,
                 free, envVars>>

\* The task of setSurface(): a live swap, or a reset onto the new surface.
SwapSurface ==
  /\ cb = "idle" /\ swap
  /\ swap' = FALSE
  /\ IF released \/ codec = "none" \/ ~valid
     THEN UNCHANGED <<inputVars, recoveryVars, cb, free, bound>>
     ELSE \/ /\ ~recovering /\ codec \in {"ok", "stalled"}
             /\ bound' = TRUE
             /\ retries' = 0
             /\ UNCHANGED <<inputVars, streak, recovering, recovers, cb, free>>
          \/ /\ recovering \/ codec = "dead" \/ ~calm
             /\ recovering' = TRUE
             /\ BeginReset
             /\ UNCHANGED <<recovers, bound>>
  /\ UNCHANGED <<rx, drain, failed, hand, codec, avail, refs, envVars>>

Busy ==
  \/ DrainEnds \/ DrainWaits \/ DrainDrops \/ DrainTakes
  \/ Submit \/ SubmitFails
  \/ PostRecover \/ Reset

-----------------------------------------------------------------------------
(* Codec, surface, session *)

CodecFails ==
  /\ Trouble
  /\ codec \in {"ok", "stalled"}
  /\ codec' = "dead"
  /\ avail' = 0
  /\ refs' = "none"
  /\ failed' = TRUE
  /\ UNCHANGED <<rx, inputVars, recoveryVars, drain, swap, cb, hand, free, bound,
                 envVars>>

\* A shared hardware instance stops returning buffers, without an error.
CodecStalls ==
  /\ Trouble
  /\ codec = "ok"
  /\ codec' = "stalled"
  /\ avail' = 0
  /\ UNCHANGED <<rx, inputVars, recoveryVars, taskVars, cb, hand, free, bound,
                 refs, envVars>>

SurfaceDestroyed ==
  /\ Trouble
  /\ valid
  /\ valid' = FALSE
  /\ bound' = FALSE
  /\ UNCHANGED <<rx, inputVars, recoveryVars, taskVars, cb, hand, free, codec,
                 avail, refs, released, calm>>

\* surfaceCreated(): setSurface() posts its task if there is a codec.
SurfaceCreated ==
  /\ Trouble
  /\ ~valid
  /\ valid' = TRUE
  /\ swap' = (swap \/ codec # "none")
  /\ UNCHANGED <<rx, inputVars, recoveryVars, drain, failed, cb, hand, free,
                 codecVars, released, calm>>

\* release(): the flag, the queue and the free buffers, which nobody uses any
\* more once the flag is set ...
Release ==
  /\ Trouble
  /\ released' = TRUE
  /\ Clear
  /\ drain' = "none" /\ free' = 0
  /\ UNCHANGED <<rx, recoveryVars, swap, failed, cb, hand, codecVars, valid, calm>>

\* ... then the codec, and the callback thread: the tasks it still has find
\* the flag.
ReleaseCodec ==
  /\ released /\ codec # "none"
  /\ codec' = "none" /\ avail' = 0 /\ bound' = FALSE /\ refs' = "none"
  /\ swap' = FALSE /\ failed' = FALSE /\ recovers' = 0
  /\ UNCHANGED <<rx, inputVars, streak, recovering, retries, drain, cb, hand, free,
                 envVars>>

CalmsDown ==
  /\ Trouble /\ valid
  /\ calm' = TRUE
  /\ UNCHANGED <<rx, inputVars, recoveryVars, taskVars, cb, hand, free, codecVars,
                 released, valid>>

Posted == OnError \/ SwapSurface \/ Recover \/ RecoverWaits

Next ==
  \/ FeedTest("key") \/ FeedTest("inter") \/ Queue \/ Age
  \/ InputAvailable \/ DrainTask \/ Posted \/ Busy
  \/ CodecFails \/ CodecStalls \/ SurfaceDestroyed \/ SurfaceCreated
  \/ Release \/ ReleaseCodec \/ CalmsDown

\* The threads run, the handler serves what is posted to it, time passes, and
\* keyframes go on coming: the encoder sends them periodically.
Fairness ==
  /\ WF_vars(Queue) /\ WF_vars(Busy) /\ WF_vars(Age)
  /\ SF_vars(FeedTest("key"))
  /\ SF_vars(InputAvailable) /\ SF_vars(DrainTask) /\ SF_vars(Posted)

Spec == Init /\ [][Next]_vars /\ Fairness

-----------------------------------------------------------------------------
(* Properties *)

\* Types, and the limit of the queue.
TypeOK ==
  /\ rx \in {"idle", "key", "inter"}
  /\ pending \in Seq(Units) /\ Len(pending) <= MaxPending
  /\ {stale, ready, recovering, released, swap, failed, bound,
      valid, calm} \subseteq BOOLEAN
  /\ streak \in 0..WedgeAfter /\ retries \in 0..MaxRetries /\ recovers \in 0..MaxRecovers
  /\ drain \in {"none", "posted", "delayed"}
  /\ cb \in {"idle", "drain", "submit", "error", "reset"}
  /\ hand \in Units
  /\ codec \in {"ok", "stalled", "dead", "none"}
  /\ gap \in Gaps /\ refs \in {"none", "whole", "holed"}
  /\ free + avail \in 0..Buffers

Submitting == cb = "submit" /\ codec \in {"ok", "stalled"} /\ ~hand.key

\* "A queued IDR opens the dependency chain; any dropped input closes it": the
\* codec is not given a unit without what it refers to.  Does not hold: the
\* first test of feed() drops a unit, while recovering, and leaves a chain open
\* that a keyframe has opened after recover() closed it.
InputChain == Submitting => refs = "whole" /\ hand.gap = "no"

\* That is the only way: a full or stale queue, a submission that fails, an
\* error of the codec, a reset or a swap of the surface never leave a hole in
\* what is submitted.
ChainHolds == Submitting => refs # "none" /\ hand.gap # "drop"

\* Once the environment is calm a picture comes, again and again, whatever the
\* codec, the surface and the recovery had come to.
Showing == codec = "ok" /\ bound /\ refs = "whole"
PictureReturns == (calm /\ codec # "none" /\ ~released) ~> Showing
=============================================================================
