--------------------------- MODULE MonitorPipeline ---------------------------
(***************************************************************************)
(* How main() of the streamer brings up, runs and takes down the pipeline  *)
(* of one monitor: the optional Mutter session, the desktop portal with    *)
(* its fallback to a capture-only session, the PipeWire objects of the     *)
(* video and the audio source, encoder, server and threads.  Any step may  *)
(* fail; then main() returns and its locals are destroyed in reverse order *)
(* of declaration.  The source's frame buffers are FrameSource's.          *)
(*                                                                         *)
(* The desktop is external: the portal grants or refuses a request or      *)
(* never answers, Mutter announces a stream or does not.                   *)
(***************************************************************************)
EXTENDS FrameSource, Sequences

CONSTANTS
  Monitors,   \* opt.monitors
  Codecs      \* codecs the encoder can be opened with

ASSUME PipelineAssumption ==
  /\ Monitors \in Nat \ {0}
  /\ Codecs # {} /\ "none" \notin Codecs

Virtuals == 1 .. Monitors - 1     \* what the Mutter session hosts
Modes    == {"combined", "capture"}

\* The requests of a portal session, in order; a combined session also asks for
\* the devices.
Requests(mode) ==
  IF mode = "combined"
  THEN <<"CreateSession", "SelectDevices", "SelectSources", "Start">>
  ELSE <<"CreateSession", "SelectSources", "Start">>

\* What a PipeWire source holds, in the order start() obtains it; "link" is the
\* stream's connection, without which it has no callbacks.
Objects == <<"loop", "context", "thread", "core", "stream", "link">>
Upto(n) == {Objects[i] : i \in 1 .. n}

\* How many start() leaves when it fails; pw_stream_new() is not tested.
Partial == {0, 1, 2, 3, 5}

\* What must still be there while an object is.
Needs == [loop    |-> {},
          context |-> {"loop"},
          thread  |-> {"loop", "context"},
          core    |-> {"context", "thread"},
          stream  |-> {"core"},
          link    |-> {"stream"}]

NoServer == [codec |-> "none", input |-> FALSE]

VARIABLES
  stage,         \* where main() is
  stopping,      \* g_stop
  mon,           \* p->index
  mutter,        \* mutter_session: none, open or started
  added, nodes,  \* how many monitors it has, and those whose node_id is known
  portal,        \* portal_: the mode of the session it holds
  grants,        \* requests of that session that were granted
  node, remote,  \* the modes of the sessions node_id and pw_fd come from
  input_ready,   \* input_ready_
  pw,            \* PipeWire objects of the video and of the audio source
  encoder,       \* its codec
  server,        \* the codec it announces, and whether on_input is set
  sender,        \* the server's sender thread: none, in its loop, told to end,
                 \* or asleep because it missed that
  audio          \* the audio thread

deskVars  == <<mutter, added, nodes, portal, grants, node, remote, input_ready>>
mediaVars == <<encoder, server, sender, audio>>
pipeVars  == <<stage, stopping, mon, deskVars, pw, mediaVars>>

PipelineInit ==
  /\ Init
  /\ stage = "mutter" /\ stopping = FALSE
  /\ mon \in 0 .. Monitors - 1
  /\ mutter = "none" /\ added = 0 /\ nodes = {}
  /\ portal = "none" /\ grants = 0 /\ node = "none" /\ remote = "none"
  /\ input_ready = FALSE
  /\ pw = [c \in {"video", "audio"} |-> {}]
  /\ encoder = "none" /\ server = NoServer
  /\ sender = "none" /\ audio = "none"

Go(from, to) == stage = from /\ stage' = to
-----------------------------------------------------------------------------
(* The Mutter session *)

\* The source is not mutter, there is one monitor only, or
\* METASHARE_MUTTER_DIRECT is not set; or open() fails.
SkipMutter ==
  /\ Go("mutter", "make")
  /\ UNCHANGED <<vars, stopping, mon, deskVars, pw, mediaVars>>

OpenMutter ==
  /\ Go("mutter", "add")
  /\ Monitors > 1
  /\ mutter' = "open"
  /\ UNCHANGED <<vars, stopping, mon, added, nodes, portal, grants, node, remote,
                 input_ready, pw, mediaVars>>

\* add_virtual_monitor(), and after the last one start() up to its wait.
AddMonitor ==
  /\ stage = "add"
  /\ added' = added + 1
  /\ stage' = IF added' = Monitors - 1 THEN "signals" ELSE "add"
  /\ UNCHANGED <<vars, stopping, mon, mutter, nodes, portal, grants, node, remote,
                 input_ready, pw, mediaVars>>

\* PipeWireStreamAdded, if the subscription lives: start() makes it on a proxy
\* local to the loop over the monitors.
StreamAdded ==
  /\ stage = "signals"
  /\ \E i \in (1 .. added) \ nodes : nodes' = nodes \cup {i}
  /\ UNCHANGED <<vars, stage, stopping, mon, mutter, added, portal, grants, node,
                 remote, input_ready, pw, mediaVars>>

MutterReady ==
  /\ Go("signals", "make")
  /\ nodes = 1 .. added
  /\ mutter' = "started"
  /\ UNCHANGED <<vars, stopping, mon, added, nodes, portal, grants, node, remote,
                 input_ready, pw, mediaVars>>

\* close()
MutterGone == mutter' = "none" /\ added' = 0 /\ nodes' = {}

\* A monitor cannot be added, Start fails, or not every stream was announced in
\* time: mutter_session.reset().
MutterFallsBack ==
  /\ stage \in {"add", "signals"} /\ stage' = "make"
  /\ MutterGone
  /\ UNCHANGED <<vars, stopping, mon, portal, grants, node, remote, input_ready, pw,
                 mediaVars>>

\* make_source(): the first monitor is always the portal's.
Make ==
  /\ stage = "make"
  /\ LET k == IF mon # 0 /\ mutter # "none" THEN "mutter" ELSE "portal"
     IN  MakeSource(k) /\ stage' = IF k = "mutter" THEN "start" ELSE "connect"
  /\ UNCHANGED <<stopping, mon, deskVars, pw, mediaVars>>

-----------------------------------------------------------------------------
(* PortalPipeWireSource::run_portal() *)

\* run_portal_session() up to its first request.  --no-input asks for capture only.
Connect ==
  /\ \E mode \in Modes :
       /\ stage = "connect" \/ (stage = "fallback" /\ mode = "capture")
       /\ portal' = mode
  /\ stage' = "ask"
  /\ grants' = 0
  /\ UNCHANGED <<vars, stopping, mon, mutter, added, nodes, node, remote,
                 input_ready, pw, mediaVars>>

\* Mutant of Granted: input is declared ready with the devices.
Granted_ReadyEarly ==
  /\ stage = "ask"
  /\ grants' = grants + 1
  /\ input_ready' = (input_ready \/ portal = "combined")
  /\ IF grants' = Len(Requests(portal))
     THEN stage' = "remote" /\ node' = portal
     ELSE stage' = "ask" /\ node' = node
  /\ UNCHANGED <<vars, stopping, mon, mutter, added, nodes, portal, remote, pw,
                 mediaVars>>

\* Mutant of Granted: the node of an earlier attempt is kept.
Granted_KeepsNode ==
  /\ stage = "ask"
  /\ grants' = grants + 1
  /\ IF grants' = Len(Requests(portal))
     THEN stage' = "remote" /\ node' = IF node = "none" THEN portal ELSE node
     ELSE stage' = "ask" /\ node' = node
  /\ UNCHANGED <<vars, stopping, mon, mutter, added, nodes, portal, remote,
                 input_ready, pw, mediaVars>>

\* The pending request is granted; the response to the last one names the node.
Granted ==
  /\ stage = "ask"
  /\ grants' = grants + 1
  /\ IF grants' = Len(Requests(portal))
     THEN stage' = "remote" /\ node' = portal
     ELSE stage' = "ask" /\ node' = node
  /\ UNCHANGED <<vars, stopping, mon, mutter, added, nodes, portal, remote,
                 input_ready, pw, mediaVars>>

\* The session failed: a combined one gives way to a second attempt, after that
\* start() fails.
PortalGivesUp ==
  /\ IF portal = "combined"
     THEN stage' = "fallback" /\ portal' = "none" /\ grants' = 0
     ELSE stage' = "destroy" /\ UNCHANGED <<portal, grants>>
  /\ UNCHANGED <<vars, stopping, mon, mutter, added, nodes, node, remote, input_ready,
                 pw, mediaVars>>

\* No bus, an error of the call, a refusal, or a response that names no stream.
Refused == stage = "ask" /\ PortalGivesUp

\* Mutant of RequestTimesOut: the wait for the response has no limit.
RequestTimesOut_Never == FALSE /\ stage = "ask" /\ PortalGivesUp

\* portal_request() waits 120 seconds.
RequestTimesOut == stage = "ask" /\ PortalGivesUp

\* OpenPipeWireRemote; with a combined session input is now ready.
OpenRemote ==
  /\ Go("remote", "start")
  /\ remote' = portal
  /\ input_ready' = (portal = "combined")
  /\ UNCHANGED <<vars, stopping, mon, mutter, added, nodes, portal, grants, node,
                 pw, mediaVars>>

RemoteFails == stage = "remote" /\ PortalGivesUp

-----------------------------------------------------------------------------
(* PipeWire, encoder, server *)

\* start() of a PipeWire source; the loop's lock keeps callbacks out until its end.
StartVideo ==
  /\ Go("start", "format")
  /\ kind = "mutter" => mon \in nodes
  /\ pw' = [pw EXCEPT !["video"] = Upto(6)]
  /\ UNCHANGED <<vars, stopping, mon, deskVars, mediaVars>>

StartVideoFails ==
  /\ Go("start", "destroy")
  /\ \E n \in Partial : pw' = [pw EXCEPT !["video"] = Upto(n)]
  /\ UNCHANGED <<vars, stopping, mon, deskVars, mediaVars>>

\* The end of start(): a format was negotiated, or none in two seconds.
FormatKnown ==
  /\ Go("format", "encoder")
  /\ front # NoBuf
  /\ UNCHANGED <<vars, stopping, mon, deskVars, pw, mediaVars>>

FormatTimesOut ==
  /\ Go("format", "destroy")
  /\ UNCHANGED <<vars, stopping, mon, deskVars, pw, mediaVars>>

\* Encoder::open() commits to the first candidate that opens.
OpenEncoder ==
  /\ Go("encoder", "server")
  /\ encoder' \in Codecs
  /\ UNCHANGED <<vars, stopping, mon, deskVars, pw, server, sender, audio>>

EncoderFails ==
  /\ Go("encoder", "destroy")
  /\ UNCHANGED <<vars, stopping, mon, deskVars, pw, mediaVars>>

\* The callbacks are set, on_input if the source has an input sink.
StartServer ==
  /\ Go("server", "others")
  /\ server' = [codec |-> encoder, input |-> input_ready]
  /\ sender' = "loop"
  /\ UNCHANGED <<vars, stopping, mon, deskVars, pw, encoder, audio>>

\* No UDP socket, or, with the threads running, no signaling port.
ServerFails ==
  /\ Go("server", "destroy")
  /\ sender' \in {"none", "loop"}
  /\ UNCHANGED <<vars, stopping, mon, deskVars, pw, encoder, server, audio>>

\* The other pipelines: one of them fails, or all are up and the capture threads
\* are started.
OthersFail ==
  /\ Go("others", "destroy")
  /\ UNCHANGED <<vars, stopping, mon, deskVars, pw, mediaVars>>

StartThreads ==
  /\ Go("others", "audio")
  /\ UNCHANGED <<vars, stopping, mon, deskVars, pw, mediaVars>>

-----------------------------------------------------------------------------
(* Audio: what fails is disabled, the streamer goes on *)

NoAudio ==
  /\ Go("audio", "run")
  /\ UNCHANGED <<vars, stopping, mon, deskVars, pw, mediaVars>>

StartAudio ==
  /\ Go("audio", "opus")
  /\ pw' = [pw EXCEPT !["audio"] = Upto(6)]
  /\ UNCHANGED <<vars, stopping, mon, deskVars, mediaVars>>

StartAudioFails ==
  /\ Go("audio", "mute")
  /\ \E n \in Partial : pw' = [pw EXCEPT !["audio"] = Upto(n)]
  /\ UNCHANGED <<vars, stopping, mon, deskVars, mediaVars>>

OpenOpus ==
  /\ Go("opus", "run")
  /\ audio' = "run"
  /\ UNCHANGED <<vars, stopping, mon, deskVars, pw, encoder, server,
                 sender>>

OpusFails ==
  /\ Go("opus", "mute")
  /\ UNCHANGED <<vars, stopping, mon, deskVars, pw, mediaVars>>

\* ac is destroyed, its source stopped.
Muted ==
  /\ Go("mute", "run")
  /\ pw["audio"] = {}
  /\ UNCHANGED <<vars, stopping, mon, deskVars, pw, mediaVars>>

\* The audio thread ends: g_stop, or an error of its encoder.
AudioEnds ==
  /\ audio = "run" /\ audio' = "ended"
  /\ UNCHANGED <<vars, stage, stopping, mon, deskVars, pw, encoder, server,
                 sender>>

-----------------------------------------------------------------------------
(* The end *)

Interrupt ==
  /\ ~stopping /\ stopping' = TRUE
  /\ UNCHANGED <<vars, stage, mon, deskVars, pw, mediaVars>>

ShutDown ==
  /\ Go("run", "audiostop")
  /\ stopping
  /\ UNCHANGED <<vars, stopping, mon, deskVars, pw, mediaVars>>

\* The destructors of p: the server goes first, then the encoder, then the source.
ServerGone    == server = NoServer /\ sender = "none"
DestroySource == stage = "destroy" /\ ServerGone /\ encoder = "none"

StopsVideo == kind # "none" /\ (stage = "stop" \/ DestroySource)
StopsAudio == stage \in {"mute", "audiostop"}

\* stop() of a PipeWire source, object by object.
Release(c) ==
  /\ pw[c] # {}
  /\ \/ c = "video" /\ StopsVideo /\ main = "flag"
     \/ c = "audio" /\ StopsAudio
  /\ \E i \in 1 .. 5 :
       /\ Objects[i] \in pw[c]
       /\ \A later \in i + 1 .. 5 : Objects[later] \notin pw[c]
       /\ pw' = [pw EXCEPT ![c] = @ \ {Objects[i], "link"}]
  /\ UNCHANGED <<vars, stage, stopping, mon, deskVars, mediaVars>>

\* The audio source has stopped: join its thread.
JoinAudio ==
  /\ Go("audiostop", "stop")
  /\ pw["audio"] = {}
  /\ audio # "run"
  /\ UNCHANGED <<vars, stopping, mon, deskVars, pw, mediaVars>>

\* stop() of the video source: running_ first ...
StopRunning ==
  /\ StopsVideo
  /\ StopFlag
  /\ UNCHANGED pipeVars

\* ... and, with PipeWire gone, the buffers, the injection and the portal.
StopSource ==
  /\ StopsVideo
  /\ pw["video"] = {}
  /\ StopFree
  /\ input_ready' = FALSE /\ portal' = "none" /\ grants' = 0
  /\ UNCHANGED <<stage, stopping, mon, mutter, added, nodes, node, remote, pw,
                 mediaVars>>

Join ==
  /\ stage = "stop"
  /\ JoinCapture
  /\ UNCHANGED pipeVars

\* server->stop(), or the destructor's: running_ is cleared and send_cv_ notified
\* without send_mu_, so the sender thread is told, or about to sleep and misses it.
TellSender ==
  /\ stage = "destroy" \/ (stage = "stop" /\ main = "joined")
  /\ sender = "loop" /\ sender' \in {"told", "asleep"}
  /\ UNCHANGED <<vars, stage, stopping, mon, deskVars, pw, encoder, server, audio>>

\* The sender thread tests running_.
SenderEnds ==
  /\ sender = "told" /\ sender' = "none"
  /\ UNCHANGED <<vars, stage, stopping, mon, deskVars, pw, encoder, server, audio>>

\* A wait may end for no reason, or for a repair the NACK thread has still queued.
SenderWakes ==
  /\ sender = "asleep" /\ sender' = "told"
  /\ UNCHANGED <<vars, stage, stopping, mon, deskVars, pw, encoder, server, audio>>

\* server->stop() has joined its threads, and main() returns.
StopServer ==
  /\ Go("stop", "destroy")
  /\ main = "joined" /\ sender = "none"
  /\ server' = NoServer
  /\ UNCHANGED <<vars, stopping, mon, deskVars, pw, encoder, sender, audio>>

DestroyServer ==
  /\ stage = "destroy" /\ server # NoServer /\ sender = "none"
  /\ server' = NoServer
  /\ UNCHANGED <<vars, stage, stopping, mon, deskVars, pw, encoder, sender, audio>>

\* Mutant of DestroyEncoder: declared after the server, destroyed before it.
DestroyEncoder_First ==
  /\ stage = "destroy" /\ encoder # "none"
  /\ encoder' = "none"
  /\ UNCHANGED <<vars, stage, stopping, mon, deskVars, pw, server, sender, audio>>

DestroyEncoder ==
  /\ stage = "destroy" /\ ServerGone /\ encoder # "none"
  /\ encoder' = "none"
  /\ UNCHANGED <<vars, stage, stopping, mon, deskVars, pw, server, sender, audio>>

\* Mutant of Return: stop() returns at once unless the source is running.
Return_NotRunning ==
  /\ DestroySource
  /\ main \in {"join", "joined"} \/ (main = "run" /\ "link" \notin pw["video"])
  /\ MutterGone
  /\ stage' = "exited"
  /\ UNCHANGED <<vars, stopping, mon, portal, grants, node, remote, input_ready, pw,
                 mediaVars>>

\* The source is gone, the Mutter session follows.
Return ==
  /\ DestroySource /\ main \in {"join", "joined"}
  /\ MutterGone
  /\ stage' = "exited"
  /\ UNCHANGED <<vars, stopping, mon, portal, grants, node, remote, input_ready, pw,
                 mediaVars>>

-----------------------------------------------------------------------------
Desktop == StreamAdded \/ Granted \/ Refused

StartUp ==
  \/ SkipMutter \/ OpenMutter \/ AddMonitor \/ MutterReady \/ MutterFallsBack \/ Make
  \/ Connect \/ RequestTimesOut \/ OpenRemote \/ RemoteFails
  \/ StartVideo \/ StartVideoFails \/ FormatKnown \/ FormatTimesOut
  \/ OpenEncoder \/ EncoderFails \/ StartServer \/ ServerFails
  \/ OthersFail \/ StartThreads
  \/ NoAudio \/ StartAudio \/ StartAudioFails \/ OpenOpus \/ OpusFails \/ Muted

TakeDown ==
  \/ ShutDown \/ \E c \in {"video", "audio"} : Release(c)
  \/ JoinAudio \/ StopRunning \/ StopSource \/ Join \/ TellSender \/ StopServer
  \/ DestroyServer \/ DestroyEncoder \/ Return

\* The PipeWire thread of the video source, and the capture thread.
PipeWire == "link" \in pw["video"] /\ (Negotiate \/ Process) /\ UNCHANGED pipeVars

Threaded == stage \in {"audio", "opus", "mute", "run", "audiostop", "stop"}
Captures == Threaded /\ Capture /\ UNCHANGED pipeVars

PipelineNext ==
  \/ Desktop \/ StartUp \/ Interrupt \/ AudioEnds \/ TakeDown
  \/ SenderEnds \/ SenderWakes \/ PipeWire \/ Captures

PipelineSpec == PipelineInit /\ [][PipelineNext]_<<vars, pipeVars>>

\* main() goes on, every wait of it has a limit but the joins; the threads test
\* g_stop and their running flags.  Nothing promises that a sleeping one wakes.
Fairness ==
  /\ WF_<<vars, pipeVars>>(StartUp \/ TakeDown)
  /\ WF_<<vars, pipeVars>>(AudioEnds /\ stopping)
  /\ WF_<<vars, pipeVars>>(SenderEnds)
  /\ WF_<<vars, pipeVars>>(Captures /\ (EncodeBegin \/ EncodeEnd))
  /\ WF_<<vars, pipeVars>>(Captures /\ CaptureEnds /\ main # "run")

FairPipelineSpec == PipelineSpec /\ Fairness

-----------------------------------------------------------------------------
(* Properties *)

PipelineTypes ==
  /\ stage \in {"mutter", "add", "signals", "make", "connect", "fallback", "ask",
                "remote", "start", "format", "encoder", "server", "others", "audio",
                "opus", "mute", "run", "audiostop", "stop", "destroy", "exited"}
  /\ stopping \in BOOLEAN /\ input_ready \in BOOLEAN
  /\ mon \in 0 .. Monitors - 1
  /\ mutter \in {"none", "open", "started"}
  /\ added \in 0 .. Monitors - 1 /\ nodes \subseteq Virtuals
  /\ {portal, node, remote} \subseteq Modes \cup {"none"}
  /\ grants \in 0 .. 4
  /\ pw \in [{"video", "audio"} -> SUBSET Upto(6)]
  /\ encoder \in Codecs \cup {"none"}
  /\ server \in [codec : Codecs \cup {"none"}, input : BOOLEAN]
  /\ sender \in {"none", "loop", "told", "asleep"}
  /\ audio \in {"none", "run", "ended"}

\* Types, those of the frame source among them.
PipelineTypeOK == TypeOK /\ PipelineTypes

\* Whatever failed and however far the start had come, nothing is held when
\* main() has returned, and no thread runs.
Released ==
  stage = "exited" =>
    /\ \A c \in {"video", "audio"} : pw[c] = {}
    /\ front = NoBuf /\ back = NoBuf /\ out = NoBuf
    /\ portal = "none" /\ mutter = "none" /\ ~input_ready
    /\ encoder = "none" /\ ServerGone /\ audio # "run"

\* Nothing is used after it is gone: the server's callbacks have the encoder they
\* were bound to, whose codec the server announced; the capture and audio threads
\* have encoder and server, the sender thread the encoder it asks for keyframes; the
\* Mutter session outlives its source ("must outlive every MutterVirtualSource that
\* references it", main.cpp:384); and no PipeWire object outlives one it was made
\* from.
TargetsAlive ==
  /\ server # NoServer => encoder = server.codec
  /\ Threaded /\ cap # "ended" => encoder # "none" /\ server # NoServer
  /\ audio = "run" => server # NoServer
  /\ sender # "none" => encoder # "none"
  /\ pw["video"] # {} /\ kind = "mutter" => mutter = "started"
  /\ \A c \in {"video", "audio"} : \A o \in pw[c] : Needs[o] \subseteq pw[c]

\* After a combined session that failed half-way, injection is offered on nothing
\* but a combined session all of whose requests were granted, and the server takes
\* input only for a stream of such a session.
InputGranted ==
  /\ input_ready => portal = "combined" /\ grants = Len(Requests("combined"))
  /\ server.input => node = "combined" /\ remote = "combined"

\* The stream is connected to what was granted last: a portal source to the node
\* and the remote of the session it holds, never to those of the session that gave
\* way to it, a Mutter source to a node its session announced.  A Mutter session
\* that could not announce every monitor is closed before any source is made.
RightNode ==
  /\ "link" \in pw["video"] =>
       IF kind = "portal" THEN node = portal /\ remote = portal ELSE mon \in nodes
  /\ kind # "none" /\ mutter # "none" => mutter = "started" /\ nodes = Virtuals

\* Asked to stop, even in the middle of the portal's dialog, the streamer ends,
\* unless the sender thread has missed that and sleeps for ever: the join of
\* SenderWait's StopReturns.
StopsWhenAsked == stopping ~> (stage = "exited" \/ [](sender = "asleep"))

=============================================================================
