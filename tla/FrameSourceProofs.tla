------------------------- MODULE FrameSourceProofs --------------------------
(***************************************************************************)
(* Theorems about FrameSource, for all formats and any number of frames,   *)
(* and about MonitorPipeline, for any number of monitors and any codecs:   *)
(* what is there at each stage of main(), and how far it is from the end.  *)
(*                                                                         *)
(* The frame lent to the capture thread is out of the PipeWire thread's    *)
(* reach: the buffers are distinct, and the lent frame is out_, unless a   *)
(* delivery that failed has freed it and left no out_.                     *)
(*                                                                         *)
(* The pipeline runs its frame source as FrameSource allows, so that holds *)
(* there too.  What it holds at each stage of main(), and which session    *)
(* its node, its remote and its input come from, is an invariant of five   *)
(* parts (Alive).                                                          *)
(***************************************************************************)
EXTENDS MonitorPipeline, TLAPS

Live == main \in {"run", "flag"}

Types ==
  /\ kind \in {"none", "portal", "mutter"}
  /\ front \in Buffer \cup {NoBuf}
  /\ back \in Buffer \cup {NoBuf}
  /\ out \in Buffer \cup {NoBuf}
  /\ have_new \in BOOLEAN
  /\ captured \in 0 .. MaxFrames
  /\ cap \in {"tick", "pulled", "encode", "ended"}
  /\ last \in Ids \cup {0}
  /\ scaler \in SUBSET Format
  /\ main \in {"run", "flag", "join", "joined"}

Distinct ==
  /\ front.id # 0 => front.id \notin {back.id, out.id}
  /\ back.id # 0 => back.id # out.id

\* A frame is announced only while there is a front buffer.
Announced == Live /\ have_new => front # NoBuf

Lent == Live /\ last # 0 /\ out # NoBuf => last = out.id

Inv == Types /\ Distinct /\ Announced /\ Lent

\* A buffer is in use exactly if its id is not 0.
LEMMA BufferIds ==
  ASSUME NEW b \in Buffer \cup {NoBuf}
  PROVE  /\ b.id \in 0 .. 4
         /\ b # NoBuf => b \in Buffer /\ b.id \in Ids /\ b.format \in Format
         /\ b = NoBuf => b.id = 0
  BY DEF Buffer, NoBuf, Ids

\* The allocator finds memory while two buffers are in use, and none of theirs.
LEMMA NewId ==
  ASSUME NEW a, NEW b
  PROVE  /\ \A i \in Fresh({a, b}) : i \in Ids /\ i # 0 /\ i \notin {a, b}
         /\ \E i : i \in Fresh({a, b})
<1> DEFINE free == Ids \ {a, b}
<1>1. 1 \in Ids /\ 2 \in Ids /\ 3 \in Ids /\ 4 \in Ids /\ 0 \notin Ids
  BY DEF Ids
<1>2. \E x : x \in free \ {last}
  BY <1>1
<1>3. (CHOOSE x \in free \ {last} : TRUE) \in free \ {last}
  BY <1>2
<1>4. Fresh({a, b}) = (free \cap {last}) \cup {CHOOSE x \in free \ {last} : TRUE}
  BY DEF Fresh
<1> HIDE DEF free
<1>5. \A i \in Fresh({a, b}) : i \in free
  BY <1>3, <1>4
<1> QED
  BY <1>1, <1>4, <1>5 DEF free

LEMMA BlankTypes ==
  ASSUME NEW i \in Ids, NEW format \in Format
  PROVE  Blank(i, format) \in Buffer /\ Blank(i, format).id = i
  BY FrameSourceAssumption DEF Blank, Buffer

LEMMA NegotiateInv == Inv /\ Negotiate => Inv'
<1> SUFFICES ASSUME Inv, Negotiate PROVE Inv'
  OBVIOUS
<1>1. PICK format \in Format :
        \E i \in Fresh({back.id, out.id}) : \E j \in Fresh({i, out.id}) :
          front' = Blank(i, format) /\ back' = Blank(j, format)
  BY DEF Negotiate
<1>2. PICK i \in Fresh({back.id, out.id}) : \E j \in Fresh({i, out.id}) :
        front' = Blank(i, format) /\ back' = Blank(j, format)
  BY <1>1
<1>3. PICK j \in Fresh({i, out.id}) :
        front' = Blank(i, format) /\ back' = Blank(j, format)
  BY <1>2
<1>4. Live /\ UNCHANGED <<kind, out, have_new, captured, cap, last, scaler, main>>
  BY DEF Negotiate, Live
<1>5. i \in Ids /\ i # 0 /\ i # out.id
  BY NewId
<1>6. j \in Ids /\ j # 0 /\ j \notin {i, out.id}
  BY NewId
<1>7. /\ front' \in Buffer /\ front'.id = i
      /\ back' \in Buffer /\ back'.id = j
  BY <1>3, <1>5, <1>6, BlankTypes
<1>8. front' # NoBuf
  BY <1>5, <1>7 DEF NoBuf
<1> QED
  BY <1>4, <1>5, <1>6, <1>7, <1>8
  DEF Inv, Types, Distinct, Announced, Lent, Live

LEMMA ProcessInv == Inv /\ Process => Inv'
<1> SUFFICES ASSUME Inv, Process PROVE Inv'
  OBVIOUS
<1>1. back \in Buffer /\ back.id # 0
  BY BufferIds DEF Inv, Types, Process, Ids
<1>2. captured + 1 \in 0 .. MaxFrames
  BY FrameSourceAssumption DEF Inv, Types, Process
<1>3. /\ front' = [back EXCEPT !.frame = captured + 1]
      /\ back' = front /\ captured' = captured + 1
      /\ have_new' = TRUE /\ UNCHANGED <<kind, out, cap, last, scaler, main>>
  BY DEF Process
<1>4. front' \in Buffer /\ front'.id = back.id
  BY <1>1, <1>2, <1>3 DEF Buffer
<1>5. front' # NoBuf
  BY <1>1, <1>4 DEF NoBuf
<1> QED
  BY <1>1, <1>2, <1>3, <1>4, <1>5
  DEF Inv, Types, Distinct, Announced, Lent, Live

\* The buffer that takes the place of out_ is none of the PipeWire thread's.
LEMMA OutForTypes ==
  ASSUME Inv, front # NoBuf, NEW b \in OutFor
  PROVE  b \in Buffer /\ b.id # 0 /\ b.id \notin {front.id, back.id}
<1>1. front \in Buffer /\ front.id # 0 /\ front.format \in Format
  BY BufferIds DEF Inv, Types, Ids
<1>2. CASE KeepsOut
  <2>1. b = out /\ out # NoBuf
    BY <1>2 DEF OutFor, KeepsOut
  <2>2. out \in Buffer /\ out.id # 0
    BY <2>1, BufferIds DEF Inv, Types, Ids
  <2> QED
    BY <1>1, <2>1, <2>2 DEF Inv, Distinct
<1>3. CASE ~KeepsOut
  <2>1. PICK i \in Fresh({front.id, back.id}) : b = Blank(i, front.format)
    BY <1>3 DEF OutFor
  <2>2. i \in Ids /\ i # 0 /\ i \notin {front.id, back.id}
    BY NewId
  <2> QED
    BY <1>1, <2>1, <2>2, BlankTypes
<1> QED
  BY <1>2, <1>3

LEMMA PullInv == Inv /\ Pull => Inv'
<1> SUFFICES ASSUME Inv, Pull PROVE Inv'
  OBVIOUS
<1>1. /\ Live /\ front # NoBuf /\ have_new' = FALSE /\ cap' = "pulled"
      /\ UNCHANGED <<kind, captured, scaler, main>>
  BY DEF Pull, Inv, Announced, Live
<1>2. front \in Buffer /\ front.id # 0
  BY <1>1, BufferIds DEF Inv, Types, Ids
<1>4. CASE Deliver
  <2>1. PICK b \in OutFor :
          IF kind = "portal"
          THEN out' = front /\ front' = b
          ELSE out' = [b EXCEPT !.frame = front.frame] /\ front' = front
    BY <1>4 DEF Deliver
  <2>2. b \in Buffer /\ b.id # 0 /\ b.id \notin {front.id, back.id}
    BY <1>1, OutForTypes
  <2>3. back' = back /\ last' = out'.id
    BY <1>4 DEF Deliver
  <2>4. CASE kind = "portal"
    <3>1. out' = front /\ front' = b
      BY <2>1, <2>4
    <3>2. front' # NoBuf
      BY <2>2, <3>1 DEF NoBuf
    <3>3. front.id \in Ids
      BY <1>2 DEF Buffer
    <3> QED
      BY <1>1, <1>2, <2>2, <2>3, <3>1, <3>2, <3>3
      DEF Inv, Types, Distinct, Announced, Lent
  <2>5. CASE kind # "portal"
    <3>1. out' = [b EXCEPT !.frame = front.frame] /\ front' = front
      BY <2>1, <2>5
    <3>2. out' \in Buffer /\ out'.id = b.id /\ out'.id \in Ids
      BY <1>2, <2>2, <3>1 DEF Buffer
    <3> QED
      BY <1>1, <1>2, <2>2, <2>3, <3>1, <3>2
      DEF Inv, Types, Distinct, Announced, Lent
  <2> QED
    BY <2>4, <2>5
<1>5. CASE DeliverFails
  <2>1. out' = NoBuf /\ out'.id = 0 /\ UNCHANGED <<front, back, last>>
    BY <1>5 DEF DeliverFails, NoBuf
  <2> QED
    BY <1>1, <2>1 DEF Inv, Types, Distinct, Announced, Lent
<1> QED
  BY <1>4, <1>5 DEF Pull

LEMMA InitInv == Init => Inv
<1> SUFFICES ASSUME Init PROVE Inv
  OBVIOUS
<1>1. front.id = 0 /\ back.id = 0 /\ out.id = 0
  BY DEF Init, NoBuf
<1>2. captured \in 0 .. MaxFrames
  BY FrameSourceAssumption DEF Init
<1>3. Types
  BY <1>2 DEF Init, Types
<1>4. Distinct /\ Announced /\ Lent
  BY <1>1 DEF Init, Distinct, Announced, Lent, Live
<1> QED
  BY <1>3, <1>4 DEF Inv

\* What is bound to the scaler is a set of formats.
LEMMA EncodeBeginInv == Inv /\ EncodeBegin => Inv'
<1> SUFFICES ASSUME Inv, EncodeBegin PROVE Inv'
  OBVIOUS
<1>1. UNCHANGED <<kind, front, back, out, have_new, captured, last, main>>
  BY DEF EncodeBegin, bufVars
<1>2. cap' \in {"tick", "encode"}
  BY DEF EncodeBegin
<1>3. scaler' \in SUBSET Format
  <2>1. CASE scaler' = scaler
    BY <2>1 DEF Inv, Types
  <2>2. CASE scaler' # scaler
    <3>1. PICK format \in FormatsFound : last # 0 /\ scaler' = {format}
      BY <2>2 DEF EncodeBegin
    <3>2. \A b \in {front, back, out} : b.id = last => b.format \in Format
      BY <3>1, BufferIds DEF Inv, Types
    <3>3. format \in Format
      BY <3>2 DEF FormatsFound
    <3> QED
      BY <3>1, <3>3
  <2> QED
    BY <2>1, <2>2
<1> QED
  BY <1>1, <1>2, <1>3 DEF Inv, Types, Distinct, Announced, Lent, Live

LEMMA NextInv == Inv /\ [Next]_vars => Inv'
<1> SUFFICES ASSUME Inv, [Next]_vars PROVE Inv'
  OBVIOUS
<1>1. CASE PullNothing \/ EncodeEnd \/ CaptureEnds \/ UNCHANGED vars
  <2>1. UNCHANGED <<kind, front, back, out, have_new, captured, last, scaler, main>>
    BY <1>1 DEF PullNothing, EncodeEnd, CaptureEnds, vars, bufVars
  <2>2. cap' \in {"pulled", "tick", "ended", cap}
    BY <1>1 DEF PullNothing, EncodeEnd, CaptureEnds, vars
  <2> QED
    BY <2>1, <2>2 DEF Inv, Types, Distinct, Announced, Lent, Live
<1>2. CASE StopFlag
  <2>1. /\ UNCHANGED <<kind, front, back, out, have_new, captured, cap, last, scaler>>
        /\ Live /\ main' = "flag"
    BY <1>2 DEF StopFlag, bufVars, Live
  <2> QED
    BY <2>1 DEF Inv, Types, Distinct, Announced, Lent
<1>3. CASE StopFree
  <2>1. /\ front' = NoBuf /\ back' = NoBuf /\ out' = NoBuf /\ main' = "join"
        /\ UNCHANGED <<kind, have_new, captured, cap, last, scaler>>
    BY <1>3 DEF StopFree
  <2> QED
    BY <2>1 DEF Inv, Types, Distinct, Announced, Lent, Live, NoBuf
<1>4. CASE JoinCapture
  <2>1. /\ UNCHANGED <<kind, front, back, out, have_new, captured, cap, last, scaler>>
        /\ main' = "joined"
    BY <1>4 DEF JoinCapture, bufVars
  <2> QED
    BY <2>1 DEF Inv, Types, Distinct, Announced, Lent, Live
<1>5. ASSUME NEW k \in {"portal", "mutter"}, MakeSource(k)
      PROVE  Inv'
  <2>1. /\ UNCHANGED <<front, back, out, have_new, captured, cap, last, scaler, main>>
        /\ kind' = k
    BY <1>5 DEF MakeSource, bufVars
  <2> QED
    BY <2>1 DEF Inv, Types, Distinct, Announced, Lent, Live
<1> QED
  BY <1>1, <1>2, <1>3, <1>4, <1>5, NegotiateInv, ProcessInv, PullInv, EncodeBeginInv
  DEF Next, Capture, Main

LEMMA InvariantHolds == Spec => []Inv
  BY InitInv, NextInv, PTL DEF Spec

\* Every variable keeps its type, and the three buffers are three AVFrames: no
\* rotation, copy or renegotiation makes two of the pointers share one.
THEOREM TypeCorrect == Spec => []TypeOK
<1>1. Inv => TypeOK
  BY BufferIds DEF Inv, Types, Distinct, TypeOK, NoBuf, Ids
<1> QED
  BY InvariantHolds, <1>1, PTL

\* "out_ stays exclusively with the consumer until its next pull": through every
\* renegotiation and delivery, for both sources and whatever memory is allocated
\* again, the PipeWire thread holds neither as front_ nor as back_ the frame the
\* capture thread encodes, unless a failed delivery has freed that frame.
THEOREM AlwaysLentExclusively == Spec => []LentExclusively
<1>1. Inv => LentExclusively
  BY BufferIds DEF Inv, Types, Distinct, Lent, Live, LentExclusively, NoBuf
<1> QED
  BY InvariantHolds, <1>1, PTL

\* What a pull is told of is the newest captured frame, or the blank buffer of a
\* renegotiation that came after it.
Newest == Live /\ have_new => front.frame \in {0, captured}

LEMMA NextNewest == Inv /\ Newest /\ [Next]_vars => Newest'
<1> SUFFICES ASSUME Inv, Newest, [Next]_vars PROVE Newest'
  OBVIOUS
<1>1. CASE Negotiate
  <2>1. front'.frame = 0
    BY <1>1 DEF Negotiate, Blank
  <2> QED
    BY <2>1 DEF Newest
<1>2. CASE Process
  <2>1. back \in Buffer
    BY <1>2 DEF Inv, Types, Process
  <2>2. front'.frame = captured'
    BY <1>2, <2>1 DEF Process, Buffer
  <2> QED
    BY <2>2 DEF Newest
<1>3. CASE Pull
  BY <1>3 DEF Pull, Newest
<1>4. CASE StopFree
  BY <1>4 DEF StopFree, Newest, Live
<1>5. CASE UNCHANGED <<front, have_new, captured>> /\ (Live' => Live)
  BY <1>5 DEF Newest
<1>6. CASE (\E k \in {"portal", "mutter"} : MakeSource(k)) \/ StopFlag \/ JoinCapture
  <2>1. UNCHANGED <<front, have_new, captured>> /\ (Live' => Live)
    BY <1>6 DEF MakeSource, StopFlag, JoinCapture, bufVars, Live
  <2> QED
    BY <2>1, <1>5
<1>7. CASE PullNothing \/ EncodeBegin \/ EncodeEnd \/ CaptureEnds \/ UNCHANGED vars
  <2>1. UNCHANGED <<front, have_new, captured>> /\ (Live' => Live)
    BY <1>7 DEF PullNothing, EncodeBegin, EncodeEnd, CaptureEnds, vars, bufVars, Live
  <2> QED
    BY <2>1, <1>5
<1> QED
  BY <1>1, <1>2, <1>3, <1>4, <1>6, <1>7 DEF Next, Capture, Main

LEMMA NewestHolds == Spec => []Newest
<1>1. Init => Newest
  BY DEF Init, Newest
<1> QED
  BY <1>1, InvariantHolds, NextNewest, PTL DEF Spec

\* A pull that reports a new frame hands over the newest captured one or a blank
\* buffer, never an older frame: no rotation of the three buffers, renegotiation
\* or failed allocation puts a frame the capture thread could have had before
\* behind the flag that announces a new one.
THEOREM NeverAnOlderFrame == Spec => NewestOrBlank
<1>1. ASSUME Inv, Newest, Pull, last' # 0, last' = out'.id
      PROVE  out'.frame \in {0, captured}
  <2>1. front # NoBuf /\ front.frame \in {0, captured}
    BY <1>1 DEF Pull, Inv, Announced, Newest, Live
  <2>2. out'.frame = front.frame
    <3>1. ~DeliverFails
      BY <1>1 DEF DeliverFails, NoBuf
    <3>2. Deliver
      BY <1>1, <3>1 DEF Pull
    <3>3. CASE kind = "portal"
      BY <3>2, <3>3 DEF Deliver
    <3>4. CASE kind # "portal"
      <4>1. PICK b \in OutFor : out' = [b EXCEPT !.frame = front.frame]
        BY <3>2, <3>4 DEF Deliver
      <4>2. b \in Buffer
        BY <1>1, <2>1, OutForTypes
      <4> QED
        BY <4>1, <4>2 DEF Buffer
    <3> QED
      BY <3>3, <3>4
  <2> QED
    BY <2>1, <2>2
<1>2. Inv /\ Newest /\ [Next]_vars
        => [Pull /\ last' # 0 /\ last' = out'.id => out'.frame \in {0, captured}]_vars
  BY <1>1
<1> QED
  BY <1>2, InvariantHolds, NewestHolds, PTL DEF Spec, NewestOrBlank
-----------------------------------------------------------------------------
(* The pipeline *)

Begun  == {"mutter", "add", "signals", "make"}
Asking == {"connect", "fallback", "ask", "remote"}
Serving == {"others"} \cup {"audio", "opus", "mute", "run", "audiostop", "stop"}

\* The source exists from make_source() on and is stopped in the end; then it
\* holds neither buffers nor PipeWire objects nor a session.
SourceLife ==
  /\ kind \in {"none", "portal", "mutter"}
  /\ kind = "none" <=> stage \in Begun
  /\ main # "run" => stage \in {"stop", "destroy", "exited"}
  /\ stage = "exited" => main \in {"join", "joined"}
  /\ main \in {"join", "joined"} =>
       /\ front = NoBuf /\ back = NoBuf /\ out = NoBuf
       /\ portal = "none" /\ ~input_ready /\ pw["video"] = {}

\* Encoder, server and audio thread live within the stages of main().
MediaLife ==
  /\ stage \in {"server"} \cup Serving => encoder # "none"
  /\ encoder # "none" => stage \in {"server", "destroy"} \cup Serving
  /\ stage \in Serving => server # NoServer
  /\ server # NoServer =>
       stage \in Serving \cup {"destroy"} /\ encoder # "none" /\ encoder = server.codec
  /\ audio = "run" => stage \in {"run", "audiostop"}
  /\ sender # "none" => stage \in Serving \cup {"destroy"} /\ encoder # "none"

\* What a PipeWire source holds is always a beginning of Objects ...
Nested == \A c \in {"video", "audio"} : \E n \in 0 .. 6 : pw[c] = Upto(n)

\* ... and nothing outside the stages between start() and stop().
ObjectLife ==
  /\ stage \in Begun \cup Asking \cup {"start"} => pw["video"] = {}
  /\ pw["audio"] # {} => stage \in {"opus", "mute", "run", "audiostop"}

\* A Mutter session that outlives the start is complete, and its source's monitor
\* is one of its own.
MutterLife ==
  /\ stage = "mutter" => mutter = "none" /\ added = 0
  /\ stage \in {"add", "signals"} => mutter = "open"
  /\ stage = "add" => added < Monitors - 1
  /\ stage = "signals" => added = Monitors - 1
  /\ mutter # "none" /\ stage \notin {"add", "signals"} =>
       mutter = "started" /\ nodes = Virtuals
  /\ kind = "mutter" => mon # 0 /\ portal = "none" /\ stage \notin Asking
  /\ kind = "mutter" /\ stage # "exited" => mutter = "started"
  /\ stage = "exited" => mutter = "none"

\* Which session the node, the remote and the right to inject come from.
PortalLife ==
  /\ stage \in Begun \cup {"connect", "fallback"} => portal = "none"
  /\ stage \in Begun \cup Asking => ~input_ready
  /\ stage \in {"ask", "remote"} => portal \in Modes
  /\ stage = "ask" => grants < Len(Requests(portal))
  /\ stage = "remote" => grants = Len(Requests(portal)) /\ node = portal
  /\ kind = "portal" /\ (stage = "start" \/ pw["video"] # {}) =>
       node = portal /\ remote = portal
  /\ input_ready =>
       /\ portal = "combined" /\ grants = Len(Requests("combined"))
       /\ node = "combined" /\ remote = "combined"
  /\ server.input => node = "combined" /\ remote = "combined"

Alive ==
  /\ PipelineTypes /\ SourceLife /\ MediaLife /\ Nested /\ ObjectLife
  /\ MutterLife /\ PortalLife

LEMMA UptoObjects ==
  /\ \A n \in 0 .. 6 : Upto(n) \subseteq Upto(6)
  /\ \A n \in 1 .. 5 : Upto(n) = Upto(n - 1) \cup {Objects[n]}
  /\ Upto(6) = Upto(5) \cup {"link"}
  /\ \A n \in 0 .. 5 : \A x \in n + 1 .. 5 : Objects[x] \notin Upto(n)
  /\ \A n \in 0 .. 5 : "link" \notin Upto(n)
<1>1. \A x \in 1 .. 5 : Objects[x] # "link"
  BY DEF Objects
<1>2. \A x, y \in 1 .. 6 : Objects[x] = Objects[y] => x = y
  BY DEF Objects
<1>3. Objects[6] = "link"
  BY DEF Objects
<1> QED
  BY <1>1, <1>2, <1>3 DEF Upto

LEMMA InitAlive == PipelineInit => Alive
<1> SUFFICES ASSUME PipelineInit PROVE Alive
  OBVIOUS
<1>1. Upto(0) = {}
  BY DEF Upto
<1>2. Nested
  BY <1>1 DEF Nested, PipelineInit
<1>3. PipelineTypes
  <2>1. pw \in [{"video", "audio"} -> SUBSET Upto(6)]
    BY DEF PipelineInit
  <2>2. server \in [codec : Codecs \cup {"none"}, input : BOOLEAN]
    BY DEF PipelineInit, NoServer
  <2>3. mon \in 0 .. Monitors - 1 /\ added \in 0 .. Monitors - 1
    BY PipelineAssumption DEF PipelineInit
  <2>4. /\ nodes \subseteq Virtuals /\ grants \in 0 .. 4
        /\ {portal, node, remote} \subseteq Modes \cup {"none"}
    BY DEF PipelineInit
  <2>5. /\ stopping = FALSE /\ input_ready = FALSE /\ stage = "mutter"
        /\ mutter = "none" /\ encoder = "none" /\ audio = "none" /\ sender = "none"
    BY DEF PipelineInit
  <2> QED
    BY <2>1, <2>2, <2>3, <2>4, <2>5 DEF PipelineTypes
<1> QED
  BY <1>2, <1>3
  DEF Alive, SourceLife, MediaLife, ObjectLife, MutterLife, PortalLife, PipelineInit,
      Init, Begun, Asking, Serving, NoServer

LEMMA MutterSteps ==
  ASSUME Alive,
         SkipMutter \/ OpenMutter \/ AddMonitor \/ StreamAdded \/ MutterReady
           \/ MutterFallsBack \/ Make
  PROVE  Alive'
<1> USE PipelineAssumption
    DEF Alive, PipelineTypes, SourceLife, MediaLife, Nested, ObjectLife, MutterLife,
        PortalLife, Begun, Asking, Serving, Go, Modes, Virtuals,
        vars, bufVars, deskVars, mediaVars
<1>1. CASE SkipMutter      BY <1>1 DEF SkipMutter
<1>2. CASE OpenMutter      BY <1>2 DEF OpenMutter
<1>3. CASE AddMonitor      BY <1>3 DEF AddMonitor
<1>4. CASE StreamAdded     BY <1>4 DEF StreamAdded
<1>5. CASE MutterReady     BY <1>5 DEF MutterReady
<1>6. CASE MutterFallsBack BY <1>6 DEF MutterFallsBack, MutterGone
<1>7. CASE Make            BY <1>7 DEF Make, MakeSource
<1> QED
  BY <1>1, <1>2, <1>3, <1>4, <1>5, <1>6, <1>7

LEMMA PortalSteps ==
  ASSUME Alive,
         Connect \/ Granted \/ Refused \/ RequestTimesOut \/ OpenRemote \/ RemoteFails
  PROVE  Alive'
<1> USE PipelineAssumption
    DEF Alive, PipelineTypes, SourceLife, MediaLife, Nested, ObjectLife, MutterLife,
        PortalLife, Begun, Asking, Serving, Go, Modes, Virtuals, Requests,
        vars, bufVars, deskVars, mediaVars
<1>1. CASE Connect    BY <1>1 DEF Connect
<1>2. CASE Granted
  <2>1. portal = "combined" \/ portal = "capture"
    BY <1>2 DEF Granted
  <2>2. CASE grants' = Len(Requests(portal))
    <3>1. stage' = "remote" /\ node' = portal
      BY <1>2, <2>2 DEF Granted
    <3>2. grants' \in 0 .. 4
      BY <2>1, <2>2
    <3>3. PipelineTypes'
      BY <1>2, <2>1, <3>1, <3>2 DEF Granted
    <3>4. SourceLife' /\ MediaLife' /\ Nested' /\ ObjectLife' /\ MutterLife'
      BY <1>2, <3>1 DEF Granted
    <3>5. PortalLife'
      BY <1>2, <2>1, <2>2, <3>1 DEF Granted, NoServer
    <3> QED
      BY <3>3, <3>4, <3>5
  <2>3. CASE grants' # Len(Requests(portal)) BY <1>2, <2>1, <2>3 DEF Granted
  <2> QED
    BY <2>2, <2>3
<1>3. CASE OpenRemote BY <1>3 DEF OpenRemote
<1>4. CASE PortalGivesUp /\ stage \in {"ask", "remote"}
  BY <1>4 DEF PortalGivesUp
<1> QED
  BY <1>1, <1>2, <1>3, <1>4 DEF Refused, RequestTimesOut, RemoteFails

LEMMA MediaSteps ==
  ASSUME Alive,
         FormatKnown \/ FormatTimesOut \/ OpenEncoder \/ EncoderFails \/ StartServer
           \/ ServerFails \/ OthersFail \/ StartThreads \/ NoAudio \/ OpenOpus
           \/ OpusFails \/ Muted \/ AudioEnds \/ SenderEnds \/ SenderWakes \/ Interrupt
  PROVE  Alive'
<1> USE PipelineAssumption
    DEF Alive, PipelineTypes, SourceLife, MediaLife, Nested, ObjectLife, MutterLife,
        PortalLife, Begun, Asking, Serving, Go, NoServer,
        vars, bufVars, deskVars, mediaVars
<1>1. CASE FormatKnown \/ FormatTimesOut \/ EncoderFails \/ ServerFails \/ OthersFail
  BY <1>1 DEF FormatKnown, FormatTimesOut, EncoderFails, ServerFails, OthersFail
<1>2. CASE OpenEncoder BY <1>2 DEF OpenEncoder
<1>3. CASE StartServer BY <1>3 DEF StartServer
<1>4. CASE StartThreads \/ NoAudio \/ OpusFails \/ Muted
  BY <1>4 DEF StartThreads, NoAudio, OpusFails, Muted
<1>5. CASE OpenOpus    BY <1>5 DEF OpenOpus
<1>6. CASE AudioEnds   BY <1>6 DEF AudioEnds
<1>7. CASE Interrupt   BY <1>7 DEF Interrupt
<1>8. CASE SenderEnds \/ SenderWakes BY <1>8 DEF SenderEnds, SenderWakes
<1> QED
  BY <1>1, <1>2, <1>3, <1>4, <1>5, <1>6, <1>7, <1>8

LEMMA StartSteps ==
  ASSUME Alive, StartVideo \/ StartVideoFails \/ StartAudio \/ StartAudioFails
  PROVE  Alive'
<1>1. PICK c \in {"video", "audio"}, n \in 0 .. 6 :
        /\ pw' = [pw EXCEPT ![c] = Upto(n)]
        /\ c = "video" => stage = "start" /\ stage' \in {"format", "destroy"}
        /\ c = "audio" => stage = "audio" /\ stage' \in {"opus", "mute"}
  BY DEF StartVideo, StartVideoFails, StartAudio, StartAudioFails, Go, Partial
<1>2. UNCHANGED <<vars, stopping, mon, deskVars, mediaVars>>
  BY DEF StartVideo, StartVideoFails, StartAudio, StartAudioFails
<1>3. pw' \in [{"video", "audio"} -> SUBSET Upto(6)]
  BY <1>1, UptoObjects DEF Alive, PipelineTypes
<1>4. Nested'
  BY <1>1 DEF Alive, PipelineTypes, Nested
<1>5. PipelineTypes'
  BY <1>1, <1>2, <1>3 DEF Alive, PipelineTypes, deskVars, mediaVars
<1>6. \A d \in {"video", "audio"} : d # c => pw'[d] = pw[d]
  BY <1>1 DEF Alive, PipelineTypes
<1>7. SourceLife' /\ ObjectLife'
  BY <1>1, <1>2, <1>6
  DEF Alive, SourceLife, ObjectLife, Begun, Asking, vars, bufVars, deskVars
<1>8. MediaLife'
  BY <1>1, <1>2 DEF Alive, MediaLife, Serving, mediaVars
<1>9. MutterLife'
  BY <1>1, <1>2 DEF Alive, MutterLife, Asking, vars, deskVars
<1>10. PortalLife'
  BY <1>1, <1>2, <1>6 DEF Alive, PortalLife, Begun, Asking, vars, deskVars, mediaVars
<1> QED
  BY <1>4, <1>5, <1>7, <1>8, <1>9, <1>10 DEF Alive

\* stop() takes the last object away.
LEMMA ReleaseStep ==
  ASSUME Alive, NEW c \in {"video", "audio"}, Release(c)
  PROVE  Alive'
<1>1. PICK n \in 0 .. 6 : pw[c] = Upto(n)
  BY DEF Alive, Nested
<1>2. PICK i \in 1 .. 5 :
        /\ Objects[i] \in pw[c]
        /\ \A later \in i + 1 .. 5 : Objects[later] \notin pw[c]
        /\ pw' = [pw EXCEPT ![c] = pw[c] \ {Objects[i], "link"}]
  BY DEF Release
<1>3. UNCHANGED <<vars, stage, stopping, mon, deskVars, mediaVars>>
  BY DEF Release
<1>4. n >= i /\ (n <= 5 => n = i)
  BY <1>1, <1>2, UptoObjects DEF Upto
<1>5. pw[c] \ {Objects[i], "link"} = Upto(i - 1)
  <2>1. CASE n <= 5
    BY <1>1, <1>4, <2>1, UptoObjects
  <2>2. CASE n = 6
    <3>1. i = 5
      BY <1>1, <1>2, <2>2, UptoObjects
    <3> QED
      BY <1>1, <2>2, <3>1, UptoObjects
  <2> QED
    BY <2>1, <2>2
<1>6. pw' \in [{"video", "audio"} -> SUBSET Upto(6)] /\ pw'[c] = Upto(i - 1)
  BY <1>2, <1>5, UptoObjects DEF Alive, PipelineTypes
<1>7. \A d \in {"video", "audio"} : pw'[d] \subseteq pw[d] /\ (d # c => pw'[d] = pw[d])
  BY <1>2 DEF Alive, PipelineTypes
<1>8. Nested'
  BY <1>6, <1>7 DEF Alive, Nested
<1>9. PipelineTypes'
  BY <1>3, <1>6 DEF Alive, PipelineTypes, deskVars, mediaVars
<1>10. SourceLife' /\ ObjectLife'
  BY <1>3, <1>7 DEF Alive, SourceLife, ObjectLife, vars, bufVars, deskVars
<1>11. MediaLife' /\ MutterLife'
  BY <1>3 DEF Alive, MediaLife, MutterLife, vars, deskVars, mediaVars
<1>12. PortalLife'
  BY <1>3, <1>7 DEF Alive, PortalLife, vars, deskVars, mediaVars
<1> QED
  BY <1>8, <1>9, <1>10, <1>11, <1>12 DEF Alive

LEMMA EndSteps ==
  ASSUME Alive,
         ShutDown \/ JoinAudio \/ StopRunning \/ Join \/ TellSender \/ StopServer
           \/ DestroyServer \/ DestroyEncoder \/ Return
  PROVE  Alive'
<1> USE PipelineAssumption
    DEF Alive, PipelineTypes, SourceLife, MediaLife, Nested, ObjectLife, MutterLife,
        PortalLife, Begun, Asking, Serving, Go, NoServer, ServerGone, StopsVideo,
        DestroySource,
        vars, bufVars, deskVars, mediaVars, pipeVars
<1>1. CASE ShutDown \/ JoinAudio BY <1>1 DEF ShutDown, JoinAudio
<1>2. CASE StopRunning    BY <1>2 DEF StopRunning, StopFlag
<1>3. CASE Join           BY <1>3 DEF Join, JoinCapture
<1>4. CASE StopServer     BY <1>4 DEF StopServer
<1>5. CASE DestroyServer  BY <1>5 DEF DestroyServer
<1>6. CASE DestroyEncoder BY <1>6 DEF DestroyEncoder
<1>7. CASE Return         BY <1>7 DEF Return, MutterGone, Virtuals
<1>8. CASE TellSender     BY <1>8 DEF TellSender
<1> QED
  BY <1>1, <1>2, <1>3, <1>4, <1>5, <1>6, <1>7, <1>8

LEMMA StopSourceStep ==
  ASSUME Alive, StopSource
  PROVE  Alive'
<1>1. /\ front' = NoBuf /\ back' = NoBuf /\ out' = NoBuf /\ main' = "join"
      /\ portal' = "none" /\ grants' = 0 /\ input_ready' = FALSE
      /\ UNCHANGED <<kind, stage, stopping, mon, mutter, added, nodes, node, remote, pw>>
      /\ UNCHANGED <<encoder, server, sender, audio>>
      /\ pw["video"] = {} /\ stage \in {"stop", "destroy"} /\ main = "flag"
  BY DEF StopSource, StopFree, StopsVideo, DestroySource, mediaVars
<1>2. PipelineTypes'
  <2>1. grants' \in 0 .. 4
    BY <1>1
  <2>3. input_ready' \in BOOLEAN
    BY <1>1
  <2>2. {portal', node', remote'} \subseteq Modes \cup {"none"}
    BY <1>1 DEF Alive, PipelineTypes
  <2> QED
    BY <1>1, <2>1, <2>2, <2>3 DEF Alive, PipelineTypes
<1>3. SourceLife' /\ MediaLife' /\ Nested' /\ ObjectLife' /\ MutterLife'
  BY <1>1 DEF Alive, SourceLife, MediaLife, Nested, ObjectLife, MutterLife, Begun, Asking
<1>4. PortalLife'
  BY <1>1 DEF Alive, PortalLife, Begun, Asking
<1> QED
  BY <1>2, <1>3, <1>4 DEF Alive

\* The threads of the source leave main()'s state alone, and write no buffer once
\* stop() has freed them.
LEMMA ThreadSteps ==
  ASSUME Alive, PipeWire \/ Captures \/ UNCHANGED <<vars, pipeVars>>
  PROVE  Alive'
<1>1. UNCHANGED <<kind, main>> /\ UNCHANGED pipeVars
  BY DEF PipeWire, Captures, Negotiate, Process, Capture, Pull, PullNothing, EncodeBegin,
         EncodeEnd, CaptureEnds, vars
<1>2. main \in {"join", "joined"} => UNCHANGED <<front, back, out>>
  BY DEF PipeWire, Captures, Negotiate, Process, Capture, Pull, PullNothing, EncodeBegin,
         EncodeEnd, CaptureEnds, vars, bufVars
<1>3. SourceLife'
  BY <1>1, <1>2 DEF Alive, SourceLife, pipeVars, deskVars
<1> QED
  BY <1>1, <1>3
  DEF Alive, PipelineTypes, MediaLife, Nested, ObjectLife, MutterLife, PortalLife,
      pipeVars, deskVars, mediaVars

LEMMA NextAlive == Alive /\ [PipelineNext]_<<vars, pipeVars>> => Alive'
  BY MutterSteps, PortalSteps, MediaSteps, StartSteps, ReleaseStep, EndSteps,
     StopSourceStep, ThreadSteps
  DEF PipelineNext, Desktop, StartUp, TakeDown

LEMMA AliveHolds == PipelineSpec => []Alive
  BY InitAlive, NextAlive, PTL DEF PipelineSpec

\* Every step of the pipeline is one of its frame source or leaves that alone.
LEMMA SourceSteps == [PipelineNext]_<<vars, pipeVars>> => [Next]_vars
<1> SUFFICES ASSUME [PipelineNext]_<<vars, pipeVars>>, ~UNCHANGED vars PROVE Next
  OBVIOUS
<1>1. CASE Desktop
  BY <1>1 DEF Desktop, StreamAdded, Granted, Refused, PortalGivesUp
<1>2. CASE StartUp
  <2>1. Make
    BY <1>2
    DEF StartUp, SkipMutter, OpenMutter, AddMonitor, MutterReady, MutterFallsBack,
        Connect, RequestTimesOut, OpenRemote, RemoteFails, PortalGivesUp, StartVideo,
        StartVideoFails, FormatKnown, FormatTimesOut, OpenEncoder, EncoderFails,
        StartServer, ServerFails, OthersFail, StartThreads, NoAudio, StartAudio,
        StartAudioFails, OpenOpus, OpusFails, Muted
  <2> QED
    BY <2>1 DEF Make, Next
<1>3. CASE TakeDown
  <2>1. StopRunning \/ StopSource \/ Join
    BY <1>3
    DEF TakeDown, ShutDown, Release, JoinAudio, TellSender, StopServer, DestroyServer,
        DestroyEncoder, Return
  <2> QED
    BY <2>1 DEF StopRunning, StopSource, Join, Next, Main
<1>4. CASE PipeWire \/ Captures
  BY <1>4 DEF PipeWire, Captures, Next
<1> QED
  BY <1>1, <1>2, <1>3, <1>4
  DEF PipelineNext, Interrupt, AudioEnds, SenderEnds, SenderWakes

\* The pipeline uses its source as FrameSource describes: stop() once, the capture
\* thread joined after it, no callback before start() or after the stream is gone.
THEOREM ImplementsFrameSource == PipelineSpec => Spec
<1>1. PipelineInit => Init
  BY DEF PipelineInit
<1> QED
  BY <1>1, SourceSteps, PTL DEF PipelineSpec, Spec

\* Types of the pipeline, for any number of monitors and any codecs.
THEOREM PipelineTypeCorrect == PipelineSpec => []PipelineTypeOK
<1>1. TypeOK /\ Alive => PipelineTypeOK
  BY DEF Alive, PipelineTypeOK
<1> QED
  BY ImplementsFrameSource, TypeCorrect, AliveHolds, <1>1, PTL

\* Whichever step of the start fails, and however the streamer is asked to end,
\* main() returns with nothing held and no thread running.
THEOREM AlwaysReleased == PipelineSpec => []Released
<1>1. Alive => Released
  BY DEF Alive, Released, ServerGone, SourceLife, MediaLife, ObjectLife, MutterLife, Serving
<1> QED
  BY AliveHolds, <1>1, PTL

\* No callback, thread, source or PipeWire object outlives what it uses, on the way
\* up, on the way down and on every way out in between.
THEOREM AlwaysTargetsAlive == PipelineSpec => []TargetsAlive
<1>1. ASSUME Alive PROVE TargetsAlive
  <2>1. \A c \in {"video", "audio"} : \A o \in pw[c] : Needs[o] \subseteq pw[c]
    <3>1. \A n \in 0 .. 6 : \A o \in Upto(n) : Needs[o] \subseteq Upto(n)
      BY DEF Upto, Objects, Needs
    <3> QED
      BY <1>1, <3>1 DEF Alive, Nested
  <2>2. pw["video"] # {} /\ kind = "mutter" => mutter = "started"
    BY <1>1 DEF Alive, SourceLife, MutterLife
  <2> QED
    BY <1>1, <2>1, <2>2 DEF Alive, TargetsAlive, MediaLife, Serving, Threaded
<1> QED
  BY AliveHolds, <1>1, PTL

\* After whatever attempts failed, input is offered and taken only on a session
\* whose every request was granted, devices among them.
THEOREM InputAlwaysGranted == PipelineSpec => []InputGranted
<1>1. Alive => InputGranted
  BY DEF Alive, InputGranted, PortalLife
<1> QED
  BY AliveHolds, <1>1, PTL

\* The stream is connected to the node of the session that is held, and a Mutter
\* session that is held is complete.
THEOREM AlwaysRightNode == PipelineSpec => []RightNode
<1>1. ASSUME Alive PROVE RightNode
  <2>1. kind # "none" /\ mutter # "none" => mutter = "started" /\ nodes = Virtuals
    BY <1>1 DEF Alive, MutterLife, SourceLife, Begun
  <2>2. CASE "link" \in pw["video"]
    <3>1. pw["video"] # {} /\ stage # "exited" /\ kind # "none"
      BY <1>1, <2>2 DEF Alive, SourceLife, ObjectLife, Begun
    <3>2. kind = "mutter" => mon \in nodes
      BY <1>1, <2>1, <3>1, PipelineAssumption
      DEF Alive, MutterLife, PipelineTypes, Virtuals
    <3>3. kind = "portal" => node = portal /\ remote = portal
      <4>1. CASE main \in {"run", "flag"}
        BY <1>1, <3>1, <4>1 DEF Alive, PortalLife
      <4> QED
        BY <1>1, <3>1, <4>1 DEF Alive, PortalLife
    <3>4. kind \in {"portal", "mutter"}
      BY <1>1, <3>1 DEF Alive, SourceLife
    <3> QED
      BY <2>1, <3>2, <3>3, <3>4 DEF RightNode
  <2> QED
    BY <2>1, <2>2 DEF RightNode
<1> QED
  BY AliveHolds, <1>1, PTL

\* The frame lent to the capture thread stays out of the PipeWire thread's reach in
\* the pipeline, too.
THEOREM AlwaysLentInPipeline == PipelineSpec => []LentExclusively
  BY ImplementsFrameSource, AlwaysLentExclusively, PTL

\* Nor does a pull in the pipeline return an old frame.
THEOREM NeverOlderInPipeline == PipelineSpec => NewestOrBlank
  BY ImplementsFrameSource, NeverAnOlderFrame, PTL

-----------------------------------------------------------------------------
(* Towards the end of main() *)

\* The way main() has before it, on its longest path.  A step that obtains something
\* brings it nearer to the end by what giving that back costs, and one more.
StagesLeft ==
  CASE stage = "mutter"    -> 40 + Monitors
    [] stage = "add"       -> 39 + Monitors - added
    [] stage = "signals"   -> 39
    [] stage = "make"      -> 38
    [] stage = "connect"   -> 37
    [] stage = "ask"       -> (IF portal = "combined" THEN 36 ELSE 30) - grants
    [] stage = "remote"    -> IF portal = "combined" THEN 32 ELSE 27
    [] stage = "fallback"  -> 31
    [] stage = "start"     -> 26
    [] stage = "format"    -> 20
    [] stage = "encoder"   -> 19
    [] stage = "server"    -> 16
    [] stage = "others"    -> 13
    [] stage = "audio"     -> 12
    [] stage = "opus"      -> 6
    [] stage = "mute"      -> 5
    [] stage = "run"       -> 4
    [] stage = "audiostop" -> 3
    [] stage = "stop"      -> 2
    [] stage = "destroy"   -> 1
    [] stage = "exited"    -> 0

\* The objects the source of c has to give back; "link" goes with any of them.
Has(c, o) == IF o \in pw[c] THEN 1 ELSE 0
ObjectsLeft(c) ==
  Has(c, "loop") + Has(c, "context") + Has(c, "thread") + Has(c, "core") + Has(c, "stream")

\* The steps of the video source's stop(), and of the capture thread after it.
StopLeft ==
  CASE main = "run" -> 3 [] main = "flag" -> 2 [] main = "join" -> 1 [] main = "joined" -> 0
CaptureLeft ==
  CASE cap = "pulled" -> 3 [] cap = "encode" -> 2 [] cap = "tick" -> 1 [] cap = "ended" -> 0

\* The destructors of encoder and server, and the word to the sender thread.
MediaLeft ==
  (IF encoder = "none" THEN 0 ELSE 1) + (IF server = NoServer THEN 0 ELSE 1)
    + (IF sender = "loop" THEN 1 ELSE 0)

StepsLeft == StagesLeft + ObjectsLeft("video") + ObjectsLeft("audio") + StopLeft + MediaLeft

\* Every step of main(), a failure or a refusal included, brings it nearer to its
\* end; nothing else sets it back, and once the source has been told to stop, every
\* step of the capture thread brings that nearer to its own.
TowardsExit ==
  [][/\ StepsLeft' <= StepsLeft
     /\ StartUp \/ TakeDown \/ Granted \/ Refused => StepsLeft' < StepsLeft
     /\ main # "run" /\ Captures => CaptureLeft' < CaptureLeft]_<<vars, pipeVars>>

\* stop() always finds an object it can give back next.
NextObject(c) ==
  \E i \in 1 .. 5 :
    Objects[i] \in pw[c] /\ \A later \in i + 1 .. 5 : Objects[later] \notin pw[c]

\* What stop() and the destructors need is there, and the source's threads are joined
\* only after they have been told to end.  In every other stage main() can always go
\* on, at least by a failure or a time-out, but in "run", which an interrupt ends.
NeverStuck ==
  /\ stage \in {"stop", "destroy"} => kind # "none"
  /\ \A c \in {"video", "audio"} : pw[c] # {} => NextObject(c)
  /\ stage \in {"audiostop", "stop"} => stopping
  /\ stage = "destroy" => audio # "run"

Told == stage \in {"audiostop", "stop"} => stopping

Counted ==
  /\ StagesLeft \in Nat
  /\ ObjectsLeft("video") \in 0 .. 5 /\ ObjectsLeft("audio") \in 0 .. 5
  /\ StopLeft \in 0 .. 3 /\ MediaLeft \in 0 .. 3

LEMMA AlwaysCounted == Alive /\ TypeOK => Counted
<1> SUFFICES ASSUME Alive, TypeOK PROVE Counted
  OBVIOUS
<1>1. ObjectsLeft("video") \in 0 .. 5 /\ ObjectsLeft("audio") \in 0 .. 5
  BY DEF ObjectsLeft, Has
<1>2. StopLeft \in 0 .. 3
  BY DEF TypeOK, StopLeft
<1>3. MediaLeft \in 0 .. 3
  BY DEF MediaLeft
<1>4. StagesLeft \in Nat
  BY PipelineAssumption
  DEF Alive, PipelineTypes, StagesLeft, MutterLife, PortalLife, Requests, Modes
<1> QED
  BY <1>1, <1>2, <1>3, <1>4 DEF Counted

\* The ways in which a step makes the sum of its parts smaller.
LEMMA Sums ==
  ASSUME NEW s \in Nat, NEW v \in 0 .. 5, NEW a \in 0 .. 5, NEW t \in 0 .. 3, NEW m \in 0 .. 3,
         NEW ss \in Nat, NEW vv \in 0 .. 5, NEW aa \in 0 .. 5, NEW tt \in 0 .. 3,
         NEW mm \in 0 .. 3,
         \/ ss < s /\ vv = v /\ aa = a /\ tt = t /\ mm <= m
         \/ ss + 6 <= s /\ (vv = v \/ aa = a) /\ tt = t /\ mm = m
         \/ ss = s /\ vv + 1 = v /\ aa = a /\ tt = t /\ mm = m
         \/ ss = s /\ vv = v /\ aa + 1 = a /\ tt = t /\ mm = m
         \/ ss = s /\ vv = v /\ aa = a /\ tt + 1 = t /\ mm = m
         \/ ss = s /\ vv = v /\ aa = a /\ tt = t /\ mm + 1 = m
  PROVE  ss + vv + aa + tt + mm < s + v + a + t + m
  OBVIOUS

\* What encoder and server cost is less than the way gone in obtaining them.
LEMMA Obtained ==
  ASSUME NEW s \in Nat, NEW c \in Nat, NEW m \in Nat, NEW ss \in Nat, NEW mm \in Nat,
         ss + 3 <= s, mm <= m + 2
  PROVE  ss + c + mm < s + c + m
<1>1. ss + mm < s + m
  OBVIOUS
<1> QED
  BY <1>1

\* Steps of the start that neither obtain nor give back anything.
LEMMA AskingNearer ==
  ASSUME Alive, Counted, Counted',
         \/ SkipMutter \/ OpenMutter \/ AddMonitor \/ MutterReady \/ MutterFallsBack \/ Make
         \/ Connect \/ Granted \/ Refused \/ RequestTimesOut \/ OpenRemote \/ RemoteFails
  PROVE  StepsLeft' < StepsLeft
<1>1. UNCHANGED <<pw, main, encoder, server, sender>>
  BY DEF SkipMutter, OpenMutter, AddMonitor, MutterReady, MutterFallsBack, Make, MakeSource,
         Connect, Granted, Refused, RequestTimesOut, OpenRemote, RemoteFails, PortalGivesUp,
         vars, mediaVars
<1>2. /\ ObjectsLeft("video")' = ObjectsLeft("video")
      /\ ObjectsLeft("audio")' = ObjectsLeft("audio")
      /\ StopLeft' = StopLeft /\ MediaLeft' = MediaLeft /\ MediaLeft' <= MediaLeft
  BY <1>1 DEF ObjectsLeft, Has, StopLeft, MediaLeft
<1>3. StagesLeft' < StagesLeft
  <2> USE PipelineAssumption DEF StagesLeft, Go, Alive, PipelineTypes
  <2>1. CASE SkipMutter      BY <2>1 DEF SkipMutter
  <2>2. CASE OpenMutter      BY <2>2 DEF OpenMutter, MutterLife
  <2>3. CASE AddMonitor      BY <2>3 DEF AddMonitor
  <2>4. CASE MutterReady     BY <2>4 DEF MutterReady
  <2>5. CASE MutterFallsBack BY <2>5 DEF MutterFallsBack
  <2>6. CASE Make            BY <2>6 DEF Make
  <2>7. CASE Connect         BY <2>7 DEF Connect, Modes
  <2>8. CASE Granted
    BY <2>8 DEF Granted, PortalLife, Requests, Modes
  <2>9. CASE OpenRemote      BY <2>9 DEF OpenRemote
  <2>10. CASE PortalGivesUp /\ stage \in {"ask", "remote"}
    BY <2>10 DEF PortalGivesUp, PortalLife, Requests, Modes
  <2> QED
    BY <2>1, <2>2, <2>3, <2>4, <2>5, <2>6, <2>7, <2>8, <2>9, <2>10
    DEF Refused, RequestTimesOut, RemoteFails
<1> QED
  BY <1>2, <1>3, Sums DEF Counted, StepsLeft

\* Steps that obtain something, or fail to.
LEMMA StartNearer ==
  ASSUME Alive, Counted, Counted',
         \/ StartVideo \/ StartVideoFails \/ FormatKnown \/ FormatTimesOut
         \/ OpenEncoder \/ EncoderFails \/ StartServer \/ ServerFails
         \/ OthersFail \/ StartThreads
         \/ NoAudio \/ StartAudio \/ StartAudioFails \/ OpenOpus \/ OpusFails \/ Muted
  PROVE  StepsLeft' < StepsLeft
<1>1. main' = main
  BY DEF StartVideo, StartVideoFails, FormatKnown, FormatTimesOut, OpenEncoder, EncoderFails,
         StartServer, ServerFails, OthersFail, StartThreads, NoAudio, StartAudio,
         StartAudioFails, OpenOpus, OpusFails, Muted, vars
<1>2. StopLeft' = StopLeft
  BY <1>1 DEF StopLeft
<1>3. CASE StartVideo \/ StartVideoFails
  <2>1. /\ stage = "start" /\ stage' \in {"format", "destroy"}
        /\ pw'["audio"] = pw["audio"] /\ UNCHANGED <<encoder, server, sender>>
    BY <1>3 DEF StartVideo, StartVideoFails, Go, Alive, PipelineTypes, mediaVars
  <2>2. MediaLeft' = MediaLeft /\ ObjectsLeft("audio")' = ObjectsLeft("audio")
    BY <2>1 DEF MediaLeft, ObjectsLeft, Has
  <2>3. StagesLeft' + 6 <= StagesLeft
    BY <2>1 DEF StagesLeft
  <2> QED
    BY <1>2, <2>2, <2>3, Sums DEF Counted, StepsLeft
<1>4. CASE StartAudio \/ StartAudioFails
  <2>1. /\ stage = "audio" /\ stage' \in {"opus", "mute"}
        /\ pw'["video"] = pw["video"] /\ UNCHANGED <<encoder, server, sender>>
    BY <1>4 DEF StartAudio, StartAudioFails, Go, Alive, PipelineTypes, mediaVars
  <2>2. MediaLeft' = MediaLeft /\ ObjectsLeft("video")' = ObjectsLeft("video")
    BY <2>1 DEF MediaLeft, ObjectsLeft, Has
  <2>3. StagesLeft' + 6 <= StagesLeft
    BY <2>1 DEF StagesLeft
  <2> QED
    BY <1>2, <2>2, <2>3, Sums DEF Counted, StepsLeft
<1>5. CASE OpenEncoder \/ StartServer \/ ServerFails
  <2>1. pw' = pw /\ (encoder = "none" \/ server = NoServer)
    BY <1>5 DEF OpenEncoder, StartServer, ServerFails, Go, Alive, MediaLife, Serving
  <2>2. /\ ObjectsLeft("video")' = ObjectsLeft("video")
        /\ ObjectsLeft("audio")' = ObjectsLeft("audio")
    BY <2>1 DEF ObjectsLeft, Has
  <2>3. MediaLeft' <= MediaLeft + 2
    BY <1>5, <2>1 DEF OpenEncoder, StartServer, ServerFails, MediaLeft
  <2>4. StagesLeft' + 3 <= StagesLeft
    BY <1>5 DEF OpenEncoder, StartServer, ServerFails, Go, StagesLeft
  <2> DEFINE rest == ObjectsLeft("video") + ObjectsLeft("audio") + StopLeft
  <2>5. rest' = rest /\ rest \in Nat
    BY <1>2, <2>2 DEF Counted
  <2>6. /\ StepsLeft = StagesLeft + rest + MediaLeft
        /\ StepsLeft' = StagesLeft' + rest' + MediaLeft'
    BY DEF StepsLeft, Counted
  <2>7. /\ StagesLeft \in Nat /\ StagesLeft' \in Nat
        /\ MediaLeft \in Nat /\ MediaLeft' \in Nat
    BY DEF Counted
  <2> HIDE DEF rest
  <2>8. StagesLeft' + rest + MediaLeft' < StagesLeft + rest + MediaLeft
    BY <2>3, <2>4, <2>5, <2>7, Obtained
  <2> QED
    BY <2>5, <2>6, <2>8
<1>6. CASE \/ FormatKnown \/ FormatTimesOut \/ EncoderFails
           \/ OthersFail \/ StartThreads \/ NoAudio \/ OpenOpus \/ OpusFails \/ Muted
  <2>1. UNCHANGED <<pw, encoder, server, sender>>
    BY <1>6 DEF FormatKnown, FormatTimesOut, EncoderFails, OthersFail,
                StartThreads, NoAudio, OpenOpus, OpusFails, Muted, mediaVars
  <2>2. /\ ObjectsLeft("video")' = ObjectsLeft("video")
        /\ ObjectsLeft("audio")' = ObjectsLeft("audio")
        /\ MediaLeft' <= MediaLeft
    BY <2>1 DEF ObjectsLeft, Has, MediaLeft
  <2>3. StagesLeft' < StagesLeft
    BY <1>6 DEF FormatKnown, FormatTimesOut, EncoderFails, OthersFail,
                StartThreads, NoAudio, OpenOpus, OpusFails, Muted, Go, StagesLeft
  <2> QED
    BY <1>2, <2>2, <2>3, Sums DEF Counted, StepsLeft
<1> QED
  BY <1>3, <1>4, <1>5, <1>6

\* stop() of a source gives back one object more.
LEMMA ReleaseNearer ==
  ASSUME Alive, Counted, Counted', NEW c \in {"video", "audio"}, Release(c)
  PROVE  StepsLeft' < StepsLeft
<1>1. PICK i \in 1 .. 5 :
        Objects[i] \in pw[c] /\ pw' = [pw EXCEPT ![c] = pw[c] \ {Objects[i], "link"}]
  BY DEF Release
<1>2. /\ pw'[c] = pw[c] \ {Objects[i], "link"}
      /\ \A d \in {"video", "audio"} : d # c => pw'[d] = pw[d]
  BY <1>1 DEF Alive, PipelineTypes
<1>3. Objects[i] \in {"loop", "context", "thread", "core", "stream"}
  BY DEF Objects
<1>4. ObjectsLeft(c)' + 1 = ObjectsLeft(c)
  <2>1. Has(c, Objects[i]) = 1 /\ Has(c, Objects[i])' = 0
    BY <1>1, <1>2 DEF Has
  <2>2. \A o \in {"loop", "context", "thread", "core", "stream"} :
          o # Objects[i] => Has(c, o)' = Has(c, o)
    BY <1>2 DEF Has
  <2>3. \A o : Has(c, o) \in {0, 1}
    BY DEF Has
  <2> QED
    BY <1>3, <2>1, <2>2, <2>3 DEF ObjectsLeft
<1>5. \A d \in {"video", "audio"} : d # c => ObjectsLeft(d)' = ObjectsLeft(d)
  BY <1>2 DEF ObjectsLeft, Has
<1>6. StagesLeft' = StagesLeft /\ StopLeft' = StopLeft /\ MediaLeft' = MediaLeft
  BY DEF Release, StagesLeft, StopLeft, MediaLeft, vars, deskVars, mediaVars
<1>7. CASE c = "video"
  BY <1>4, <1>5, <1>6, <1>7 DEF Counted, StepsLeft
<1>8. CASE c = "audio"
  BY <1>4, <1>5, <1>6, <1>8 DEF Counted, StepsLeft
<1> QED
  BY <1>7, <1>8

\* The other steps of the end.
LEMMA EndNearer ==
  ASSUME Alive, Counted, Counted',
         \/ ShutDown \/ JoinAudio \/ StopRunning \/ StopSource \/ Join \/ TellSender
         \/ StopServer \/ DestroyServer \/ DestroyEncoder \/ Return
  PROVE  StepsLeft' < StepsLeft
<1>1. UNCHANGED pw
  BY DEF ShutDown, JoinAudio, StopRunning, StopSource, Join, TellSender, StopServer,
         DestroyServer, DestroyEncoder, Return, pipeVars
<1>2. /\ ObjectsLeft("video")' = ObjectsLeft("video")
      /\ ObjectsLeft("audio")' = ObjectsLeft("audio")
  BY <1>1 DEF ObjectsLeft, Has
<1>3. CASE ShutDown \/ JoinAudio \/ Return
  <2>1. UNCHANGED <<main, encoder, server, sender>>
    BY <1>3 DEF ShutDown, JoinAudio, Return, vars, mediaVars
  <2>2. StagesLeft' < StagesLeft
    BY <1>3 DEF ShutDown, JoinAudio, Return, DestroySource, Go, StagesLeft
  <2>3. StopLeft' = StopLeft /\ MediaLeft' <= MediaLeft
    BY <2>1 DEF StopLeft, MediaLeft
  <2> QED
    BY <1>2, <2>2, <2>3, Sums DEF Counted, StepsLeft
<1>4. CASE StopRunning \/ StopSource \/ Join
  <2>1. /\ UNCHANGED <<encoder, server, sender, stage>> /\ stage \in {"stop", "destroy"}
        /\ \/ main = "run" /\ main' = "flag"
           \/ main = "flag" /\ main' = "join"
           \/ main = "join" /\ main' = "joined"
    BY <1>4 DEF StopRunning, StopSource, Join, StopFlag, StopFree, JoinCapture, StopsVideo,
                DestroySource, pipeVars, mediaVars
  <2>2. StopLeft' + 1 = StopLeft
    BY <2>1 DEF StopLeft
  <2>3. StagesLeft' = StagesLeft /\ MediaLeft' = MediaLeft
    BY <2>1 DEF StagesLeft, MediaLeft
  <2> QED
    BY <1>2, <2>2, <2>3, Sums DEF Counted, StepsLeft
<1>5. CASE TellSender \/ StopServer \/ DestroyServer \/ DestroyEncoder
  <2>1. /\ main' = main
        /\ \/ server' = NoServer /\ UNCHANGED <<encoder, sender>>
           \/ encoder # "none" /\ encoder' = "none" /\ UNCHANGED <<server, sender>>
           \/ sender' # "loop" /\ UNCHANGED <<encoder, server>>
    BY <1>5 DEF TellSender, StopServer, DestroyServer, DestroyEncoder, vars
  <2>2. StopLeft' = StopLeft /\ MediaLeft' <= MediaLeft
    BY <2>1 DEF StopLeft, MediaLeft
  <2>3. CASE StopServer
    <3>1. StagesLeft' < StagesLeft
      BY <2>3 DEF StopServer, Go, StagesLeft
    <3> QED
      BY <1>2, <2>2, <3>1, Sums DEF Counted, StepsLeft
  <2>4. CASE TellSender \/ DestroyServer \/ DestroyEncoder
    <3>1. stage \in {"stop", "destroy"} /\ stage' = stage
      BY <2>4 DEF TellSender, DestroyServer, DestroyEncoder
    <3>2. StagesLeft' = StagesLeft
      BY <3>1 DEF StagesLeft
    <3>3. MediaLeft' + 1 = MediaLeft
      BY <2>4 DEF TellSender, DestroyServer, DestroyEncoder, MediaLeft
    <3> QED
      BY <1>2, <2>2, <3>2, <3>3, Sums DEF Counted, StepsLeft
  <2> QED
    BY <1>5, <2>3, <2>4
<1> QED
  BY <1>3, <1>4, <1>5

\* The others' steps: announcements, the user, the threads.
LEMMA OthersKeep ==
  ASSUME StreamAdded \/ Interrupt \/ AudioEnds \/ SenderEnds \/ SenderWakes \/ PipeWire
           \/ Captures \/ UNCHANGED <<vars, pipeVars>>
  PROVE  StepsLeft' = StepsLeft
<1>1. /\ UNCHANGED <<stage, added, portal, grants, pw, main, encoder, server>>
      /\ (sender' = "loop") <=> (sender = "loop")
  BY DEF StreamAdded, Interrupt, AudioEnds, SenderEnds, SenderWakes, PipeWire, Captures,
         Negotiate, Process, Capture, Pull, PullNothing, EncodeBegin, EncodeEnd,
         CaptureEnds, pipeVars, deskVars,
         mediaVars, vars
<1> QED
  BY <1>1 DEF StepsLeft, StagesLeft, ObjectsLeft, Has, StopLeft, MediaLeft

LEMMA CaptureNearer ==
  ASSUME main # "run", Captures
  PROVE  CaptureLeft' < CaptureLeft
  BY DEF Captures, Capture, Pull, PullNothing, EncodeBegin, EncodeEnd, CaptureEnds,
         CaptureLeft

LEMMA StepNearer ==
  ASSUME Alive, Counted, Counted', [PipelineNext]_<<vars, pipeVars>>
  PROVE  /\ StepsLeft' <= StepsLeft
         /\ StartUp \/ TakeDown \/ Granted \/ Refused => StepsLeft' < StepsLeft
<1>1. StartUp \/ TakeDown \/ Granted \/ Refused => StepsLeft' < StepsLeft
  BY AskingNearer, StartNearer, ReleaseNearer, EndNearer DEF StartUp, TakeDown
<1>2. CASE StartUp \/ TakeDown \/ Granted \/ Refused
  BY <1>1, <1>2 DEF Counted, StepsLeft
<1>3. CASE ~(StartUp \/ TakeDown \/ Granted \/ Refused)
  BY <1>1, <1>3, OthersKeep DEF PipelineNext, Desktop, Counted, StepsLeft
<1> QED
  BY <1>1, <1>2, <1>3

LEMMA NextTold == Told /\ [PipelineNext]_<<vars, pipeVars>> => Told'
  BY DEF Told, PipelineNext, Desktop, StreamAdded, Granted, Refused, PortalGivesUp, StartUp,
         SkipMutter, OpenMutter, AddMonitor, MutterReady, MutterFallsBack, Make, Connect,
         RequestTimesOut, OpenRemote, RemoteFails, StartVideo, StartVideoFails, FormatKnown,
         FormatTimesOut, OpenEncoder, EncoderFails, StartServer, ServerFails, OthersFail,
         StartThreads, NoAudio, StartAudio, StartAudioFails, OpenOpus, OpusFails, Muted,
         Interrupt, AudioEnds, SenderEnds, SenderWakes, TakeDown, ShutDown, Release, JoinAudio,
         StopRunning, StopSource, Join, TellSender, StopServer, DestroyServer,
         DestroyEncoder, Return, PipeWire, Captures, Go,
         pipeVars

\* The streamer ends when asked to, what of it is a matter of safety: main() has a
\* bounded way to its end from wherever the interrupt meets it, the longest one
\* through the portal's dialog and its fallback, and on it joins only threads that
\* have been told to end and have a bounded way of their own, and the sender thread,
\* which may have missed it.
THEOREM AlwaysTowardsExit == PipelineSpec => []NeverStuck /\ TowardsExit
<1>1. ASSUME Alive, Told PROVE NeverStuck
  <2>1. ASSUME NEW c \in {"video", "audio"}, pw[c] # {} PROVE NextObject(c)
    <3>1. PICK n \in 0 .. 6 : pw[c] = Upto(n)
      BY <1>1 DEF Alive, Nested
    <3>2. n # 0
      BY <2>1, <3>1 DEF Upto
    <3>3. CASE n \in 1 .. 5
      BY <3>1, <3>3, UptoObjects DEF NextObject
    <3>4. CASE n = 6
      BY <3>1, <3>4, UptoObjects DEF NextObject
    <3> QED
      BY <3>2, <3>3, <3>4
  <2> QED
    BY <1>1, <2>1 DEF Alive, NeverStuck, Told, SourceLife, MediaLife, Begun
<1>2. PipelineInit => Told
  BY DEF PipelineInit, Told
<1>3. Alive /\ Counted /\ Counted' /\ [PipelineNext]_<<vars, pipeVars>> =>
        [/\ StepsLeft' <= StepsLeft
         /\ StartUp \/ TakeDown \/ Granted \/ Refused => StepsLeft' < StepsLeft
         /\ main # "run" /\ Captures => CaptureLeft' < CaptureLeft]_<<vars, pipeVars>>
  BY StepNearer, CaptureNearer
<1> QED
  BY <1>1, <1>2, <1>3, NextTold, AliveHolds, AlwaysCounted, ImplementsFrameSource, TypeCorrect,
     PTL DEF PipelineSpec, TowardsExit
=============================================================================
