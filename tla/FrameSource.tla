---------------------------- MODULE FrameSource ----------------------------
(***************************************************************************)
(* The frame buffers between a PipeWire capture stream and the capture     *)
(* thread: PortalPipeWireSource, which rotates three buffers, and          *)
(* MutterVirtualSource, which copies into the third.  The PipeWire thread  *)
(* negotiates formats and fills buffers, the capture thread pulls the      *)
(* latest frame and encodes it without holding mu_, and main() stops the   *)
(* source and then joins the capture thread.                               *)
(*                                                                         *)
(* A buffer has an identity (the AVFrame it is), the format it was         *)
(* allocated for and the number of the captured frame it holds, 0 while    *)
(* nothing was written to it.  A format is a pixel format and a size.      *)
(***************************************************************************)
EXTENDS Naturals

CONSTANTS
  Pixels,         \* pixel formats a stream may negotiate
  FrameSizes,     \* frame sizes
  AllocMayFail,   \* whether av_frame_get_buffer() may fail in a delivery
  MaxFrames       \* bound: frames captured

ASSUME FrameSourceAssumption ==
  /\ Pixels # {} /\ FrameSizes # {}
  /\ AllocMayFail \in BOOLEAN
  /\ MaxFrames \in Nat

Format == [pixel : Pixels, size : FrameSizes]
Ids    == 1 .. 4       \* three buffers, and the frame last points to
NoBuf  == [id |-> 0]
Buffer == [id : Ids, format : Format, frame : 0 .. MaxFrames]

VARIABLES
  kind,               \* which of the two sources; "none" before make_source()
  front, back, out,   \* front_, back_, out_
  have_new,           \* have_new_
  captured,           \* frames captured so far
  cap, last,          \* capture thread, and the AVFrame it encodes (an id)
  scaler,             \* the input format sws_ was created for; {} before
  main                \* the end of main(), and stop()

bufVars == <<front, back, out>>
vars == <<kind, bufVars, have_new, captured, cap, last, scaler, main>>

Used == {front.id, back.id, out.id} \ {0}

\* What the allocator may return while the buffers in use are these: any free
\* memory, and which it is matters only where the capture thread still points to it.
Fresh(used) ==
  LET free == Ids \ used
  IN  (free \cap {last}) \cup {CHOOSE x \in free \ {last} : TRUE}

Blank(i, format) == [id |-> i, format |-> format, frame |-> 0]

Init ==
  /\ kind = "none"
  /\ front = NoBuf /\ back = NoBuf /\ out = NoBuf
  /\ have_new = FALSE
  /\ captured = 0
  /\ cap = "tick" /\ last = 0
  /\ scaler = {}
  /\ main = "run"

\* make_source()
MakeSource(k) ==
  /\ kind = "none"
  /\ kind' = k
  /\ UNCHANGED <<bufVars, have_new, captured, cap, last, scaler, main>>

-----------------------------------------------------------------------------
(* PipeWire thread, until stop() has ended its loop *)

\* on_param_changed(): the portal source keeps its buffers when nothing changed.
\* Each buffer is freed before its successor is allocated.
Negotiate ==
  /\ kind # "none"
  /\ main \in {"run", "flag"}
  /\ \E format \in Format :
       /\ kind = "portal" /\ front # NoBuf => front.format # format
       /\ \E i \in Fresh({back.id, out.id}) : \E j \in Fresh({i, out.id}) :
            front' = Blank(i, format) /\ back' = Blank(j, format)
  /\ UNCHANGED <<kind, out, have_new, captured, cap, last, scaler, main>>

\* on_process(): the frame is copied into back_, which becomes front_.
Process ==
  /\ main \in {"run", "flag"}
  /\ back # NoBuf
  /\ captured < MaxFrames
  /\ captured' = captured + 1
  /\ front' = [back EXCEPT !.frame = captured + 1]
  /\ back' = front
  /\ have_new' = TRUE
  /\ UNCHANGED <<kind, out, cap, last, scaler, main>>

-----------------------------------------------------------------------------
(* Capture thread *)

\* out_ as deliver_front_locked() finds or makes it for the front buffer; an old
\* one is freed first.
KeepsOut == out # NoBuf /\ out.format = front.format
OutFor ==
  IF KeepsOut THEN {out}
  ELSE {Blank(i, front.format) : i \in Fresh({front.id, back.id})}

\* Mutant of Deliver: what is returned is the front buffer, not out_.
Deliver_ReturnsFront ==
  /\ \E b \in OutFor :
       IF kind = "portal"
       THEN out' = front /\ front' = b
       ELSE out' = [b EXCEPT !.frame = front.frame] /\ front' = front
  /\ back' = back
  /\ last' = front'.id

\* deliver_front_locked(): the buffers are rotated, or the frame is copied; the
\* capture thread then holds out_.
Deliver ==
  /\ \E b \in OutFor :
       IF kind = "portal"
       THEN out' = front /\ front' = b
       ELSE out' = [b EXCEPT !.frame = front.frame] /\ front' = front
  /\ back' = back
  /\ last' = out'.id

\* The new out_ cannot be allocated: the old one is gone already, and the capture
\* thread goes on with last.
DeliverFails ==
  /\ AllocMayFail
  /\ ~KeepsOut
  /\ out' = NoBuf
  /\ UNCHANGED <<front, back, last>>

\* Mutant of Pull: have_new_ is not cleared.
Pull_KeepsFlag ==
  /\ cap = "tick"
  /\ main = "run"
  /\ have_new
  /\ cap' = "pulled"
  /\ Deliver \/ DeliverFails
  /\ UNCHANGED <<kind, have_new, captured, scaler, main>>

\* latest_frame() with something new.
Pull ==
  /\ cap = "tick"
  /\ main = "run"
  /\ have_new
  /\ have_new' = FALSE
  /\ cap' = "pulled"
  /\ Deliver \/ DeliverFails
  /\ UNCHANGED <<kind, captured, scaler, main>>

\* latest_frame() with nothing new: the previous frame is encoded again.
PullNothing ==
  /\ cap = "tick"
  /\ main = "run"
  /\ ~have_new
  /\ cap' = "pulled"
  /\ UNCHANGED <<kind, bufVars, have_new, captured, last, scaler, main>>

\* The formats encode() may find in the frame it is given: memory that was freed
\* may hold anything.
FormatsFound ==
  IF last \in Used THEN {b.format : b \in {x \in {front, back, out} : x.id = last}}
  ELSE Format

\* encode(last) begins: the scaler is kept while the pixel format stays the same.
EncodeBegin ==
  /\ cap = "pulled"
  /\ IF last = 0
     THEN cap' = "tick" /\ scaler' = scaler
     ELSE /\ cap' = "encode"
          /\ \E format \in FormatsFound :
               scaler' = IF \E f \in scaler : f.pixel = format.pixel
                         THEN scaler ELSE {format}
  /\ UNCHANGED <<kind, bufVars, have_new, captured, last, main>>

EncodeEnd ==
  /\ cap = "encode"
  /\ cap' = "tick"
  /\ UNCHANGED <<kind, bufVars, have_new, captured, last, scaler, main>>

\* The loop ends: g_stop is set or p->running cleared, latest_frame() says that
\* the source ended, or encode() failed.
CaptureEnds ==
  /\ cap \in {"tick", "encode"}
  /\ cap' = "ended"
  /\ UNCHANGED <<kind, bufVars, have_new, captured, last, scaler, main>>

Capture == Pull \/ PullNothing \/ EncodeBegin \/ EncodeEnd \/ CaptureEnds

-----------------------------------------------------------------------------
(* The end of main() *)

\* p->running = false; source->stop() clears running_ ...
StopFlag ==
  /\ main = "run"
  /\ main' = "flag"
  /\ UNCHANGED <<kind, bufVars, have_new, captured, cap, last, scaler>>

\* ... and, with the PipeWire thread gone, frees the three buffers.
StopFree ==
  /\ main = "flag"
  /\ front' = NoBuf /\ back' = NoBuf /\ out' = NoBuf
  /\ main' = "join"
  /\ UNCHANGED <<kind, have_new, captured, cap, last, scaler>>

JoinCapture ==
  /\ main = "join"
  /\ cap = "ended"
  /\ main' = "joined"
  /\ UNCHANGED <<kind, bufVars, have_new, captured, cap, last, scaler>>

Main == StopFlag \/ StopFree \/ JoinCapture

Next ==
  \/ \E k \in {"portal", "mutter"} : MakeSource(k)
  \/ Negotiate \/ Process \/ Capture \/ Main

Spec == Init /\ [][Next]_vars

-----------------------------------------------------------------------------
(* Properties *)

\* Types; the three buffers are distinct.
TypeOK ==
  /\ kind \in {"none", "portal", "mutter"}
  /\ {front, back, out} \subseteq Buffer \cup {NoBuf}
  /\ front # NoBuf => front.id \notin {back.id, out.id}
  /\ back # NoBuf => back.id # out.id
  /\ have_new \in BOOLEAN
  /\ captured \in 0 .. MaxFrames
  /\ cap \in {"tick", "pulled", "encode", "ended"}
  /\ last \in Ids \cup {0}
  /\ scaler \in SUBSET Format
  /\ main \in {"run", "flag", "join", "joined"}

\* "out_ stays exclusively with the consumer until its next pull"
\* (portal_pipewire_source.cpp:672): until stop() frees everything, the frame the
\* capture thread works on is neither of the buffers the PipeWire thread writes and
\* replaces, whatever memory the allocator gives out again; unless a delivery that
\* failed has just freed that frame, which leaves no out_.
LentExclusively ==
  last # 0 /\ out # NoBuf /\ main \in {"run", "flag"} => last \notin {front.id, back.id}

\* The same sentence without the exception.  Does not hold: after a delivery that
\* failed last points to free memory, and a renegotiation may be given just that.
ConsumerAlone ==
  last # 0 /\ main \in {"run", "flag"} => last \notin {front.id, back.id}

\* A pull that reports a new frame returns the newest captured one, or a buffer
\* a renegotiation has just put in its place, and never an older frame.
NewestOrBlank ==
  [][Pull /\ last' # 0 /\ last' = out'.id => out'.frame \in {0, captured}]_vars

\* "return the most recently captured frame", "1 -> a new frame arrived since
\* the last call" (frame_source.hpp:51-55).
OnlyCaptured == [][Pull /\ last' = out'.id => out'.frame = captured]_vars

\* "a borrowed frame owned by the source, valid until the next call"
\* (frame_source.hpp:44): the frame being encoded has not been freed.
ValidUntilNextCall == cap = "encode" => last \in Used

\* "0 -> nothing new; caller should re-encode the previously returned frame"
\* (frame_source.hpp:56): there is such a frame, while the source runs.
PreviousFrameKept == cap = "encode" /\ main = "run" => last \in Used

\* "Input frames may be any pixel format/size" (encoder.hpp:9): a frame is
\* converted by a scaler created for its size.
ScalerFits ==
  cap = "encode" /\ last = out.id => \E f \in scaler : f.size = out.format.size

=============================================================================
