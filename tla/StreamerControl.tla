-------------------------- MODULE StreamerControl --------------------------
(***************************************************************************)
(* The control panel (src/client/gtk/main_window.cpp) and the streamer     *)
(* process it starts, watches and stops.  All the code runs as callbacks   *)
(* of one GLib main loop; the child, its output and the two-second timers  *)
(* proceed beside it.                                                      *)
(*                                                                         *)
(* The children are numbered in the order they are started.  A child that  *)
(* received SIGTERM may exit or not: stop_streamer() itself expects the    *)
(* second case.  The two pipes of a child are handled alike, one is        *)
(* modelled; what it holds is counted in halves of the 4096-byte buffer of *)
(* on_pipe_io().                                                           *)
(***************************************************************************)
EXTENDS Naturals

CONSTANTS
  MaxChildren,  \* bound: streamers started
  MaxTimers,    \* bound: timers pending at once
  MaxPipe       \* bound: half buffers in the pipe

ASSUME StreamerControlAssumption ==
  MaxChildren \in Nat \ {0} /\ MaxTimers \in Nat \ {0} /\ MaxPipe \in Nat \ {0}

VARIABLES
  \* the window
  pid,        \* pid_, as the number of the child; 0: none
  running,    \* running_
  watched,    \* the IO source of the pipe is connected
  gui,        \* the main loop: "loop", "read" inside on_pipe_io(), or "closed"
  timers,     \* pending escalation timers
  \* outside
  child,      \* state of each child
  pipe        \* half buffers of output not yet read

vars == <<pid, running, watched, gui, timers, child, pipe>>

Children == 1 .. MaxChildren

\* none     not started yet              term   was sent SIGTERM
\* alive    runs, was never signalled    killed was sent SIGKILL
\* dead     exited, not reported yet     reaped on_child_exited() is over
States == {"none", "alive", "term", "killed", "dead", "reaped"}
Live   == {"alive", "term", "killed"}

Init ==
  /\ pid = 0
  /\ running = FALSE
  /\ watched = FALSE
  /\ gui = "loop"
  /\ timers = 0
  /\ child = [c \in Children |-> "none"]
  /\ pipe = 0

\* kill(): a child that is dead already, or is being killed, does not change.
Signalled(c, to) ==
  child' = [child EXCEPT ![c] = IF @ \in {"alive", "term"} THEN to ELSE @]

-----------------------------------------------------------------------------
(* Callbacks of the main loop *)

\* start_streamer(): the child is spawned and watched.  (When spawning fails
\* nothing changes.)
StartStreamer ==
  /\ gui = "loop"
  /\ ~running
  /\ \E c \in Children :
       /\ child[c] = "none"
       /\ \A d \in 1 .. c - 1 : child[d] # "none"
       /\ pid' = c
       /\ child' = [child EXCEPT ![c] = "alive"]
  /\ running' = TRUE
  /\ watched' = TRUE
  /\ pipe' = 0
  /\ UNCHANGED <<gui, timers>>

\* Mutant of StopStreamer: no timer is armed.
StopStreamer_NoTimer ==
  /\ gui = "loop"
  /\ running
  /\ Signalled(pid, "term")
  /\ UNCHANGED <<pid, running, watched, gui, timers, pipe>>

\* Mutant of StopStreamer: a second stop cancels the timer of the first.
StopStreamer_Cancels ==
  /\ gui = "loop"
  /\ running
  /\ Signalled(pid, "term")
  /\ timers' = IF timers > 0 THEN 0 ELSE 1
  /\ UNCHANGED <<pid, running, watched, gui, pipe>>

\* stop_streamer(): SIGTERM, and a timer.
StopStreamer ==
  /\ gui = "loop"
  /\ running
  /\ timers < MaxTimers
  /\ Signalled(pid, "term")
  /\ timers' = timers + 1
  /\ UNCHANGED <<pid, running, watched, gui, pipe>>

\* The timer of some stop_streamer(): it looks at pid_ as it is now.
Escalate ==
  /\ gui = "loop"
  /\ timers > 0
  /\ timers' = timers - 1
  /\ IF running /\ pid > 0 THEN Signalled(pid, "killed") ELSE child' = child
  /\ UNCHANGED <<pid, running, watched, gui, pipe>>

\* Mutant of OnChildExited: the IO sources stay connected.
OnChildExited_KeepsWatch ==
  /\ gui = "loop"
  /\ pid > 0 /\ child[pid] = "dead"
  /\ child' = [child EXCEPT ![pid] = "reaped"]
  /\ pipe' = 0
  /\ pid' = 0
  /\ running' = FALSE
  /\ UNCHANGED <<watched, gui, timers>>

\* on_child_exited(): the sources are disconnected and the pipe closed, whatever
\* it still holds.
OnChildExited ==
  /\ gui = "loop"
  /\ pid > 0 /\ child[pid] = "dead"
  /\ child' = [child EXCEPT ![pid] = "reaped"]
  /\ watched' = FALSE
  /\ pipe' = 0
  /\ pid' = 0
  /\ running' = FALSE
  /\ UNCHANGED <<gui, timers>>

\* Whether read() on the pipe has an answer: bytes, or the end of the file once
\* the child is gone.
Readable == pipe > 0 \/ (pid > 0 /\ child[pid] = "dead")

\* One read() of on_pipe_io(): a full buffer is followed by another read, which
\* blocks the main loop while the pipe is empty; end of file drops the source.
ReadPipe ==
  /\ watched /\ Readable
  /\ gui = "read" \/ gui = "loop"
  /\ IF pipe >= 2
     THEN gui' = "read" /\ pipe' = pipe - 2 /\ watched' = watched
     ELSE gui' = "loop" /\ pipe' = 0 /\ watched' = (pipe > 0)
  /\ UNCHANGED <<pid, running, timers, child>>

\* The window is closed: the destructor sends SIGTERM, the main loop ends.
CloseWindow ==
  /\ gui = "loop"
  /\ IF running /\ pid > 0 THEN Signalled(pid, "term") ELSE child' = child
  /\ gui' = "closed"
  /\ UNCHANGED <<pid, running, watched, timers, pipe>>

-----------------------------------------------------------------------------
(* The child *)

Output ==
  /\ pid > 0 /\ child[pid] \in Live
  /\ pipe < MaxPipe
  /\ pipe' = pipe + 1
  /\ UNCHANGED <<pid, running, watched, gui, timers, child>>

\* It exits on its own, by crashing, or because of a signal.
Exit(c) ==
  /\ child[c] \in Live
  /\ child' = [child EXCEPT ![c] = "dead"]
  /\ UNCHANGED <<pid, running, watched, gui, timers, pipe>>

Next ==
  \/ StartStreamer \/ StopStreamer \/ Escalate \/ OnChildExited \/ ReadPipe
  \/ CloseWindow
  \/ Output \/ \E c \in Children : Exit(c)

Spec == Init /\ [][Next]_vars

\* Whenever the main loop is free it dispatches every source that is due, so a
\* timer or an exit is not overtaken by output for ever; the kernel ends a killed
\* process.
\* Nobody promises that a child obeys SIGTERM, or that it writes anything.
Fairness ==
  /\ SF_vars(Escalate) /\ SF_vars(OnChildExited) /\ WF_vars(ReadPipe)
  /\ \A c \in Children : WF_vars(child[c] = "killed" /\ Exit(c))

FairSpec == Spec /\ Fairness

-----------------------------------------------------------------------------
(* Properties *)

\* Types, and pid_ is set exactly while running_ is.
TypeOK ==
  /\ running <=> pid > 0
  /\ pid \in 0 .. MaxChildren
  /\ running \in BOOLEAN /\ watched \in BOOLEAN
  /\ gui \in {"loop", "read", "closed"}
  /\ timers \in 0 .. MaxTimers
  /\ child \in [Children -> States]
  /\ pipe \in 0 .. MaxPipe

\* At most one streamer exists at a time, and while one does, dead but not
\* reported included, the window knows its pid: it can still be stopped, and a
\* signal never goes to a pid that was given back to the system.
OneChild ==
  \A c \in Children :
    child[c] \in Live \cup {"dead"} <=> (running /\ pid = c)

\* The window never polls a pipe that is closed or belongs to an earlier child.
WatchesOwnPipe == watched => running /\ child[pid] \in Live \cup {"dead"}

\* What the window holds, the pid and the watch of the pipe, belongs to the one
\* streamer there is.
OwnChild == OneChild /\ WatchesOwnPipe

\* A child that has not obeyed SIGTERM still has a timer that will find it,
\* however many children and timers came before, unless the panel is closed.
StopEscalates ==
  gui # "closed" => \A c \in Children : child[c] = "term" => timers > 0

\* A child that was asked to stop ends, unless the panel is closed or its main
\* loop is held for good by a read of the child's output.
StopEndsChild ==
  \A c \in Children :
    (child[c] = "term") ~> (child[c] \in {"dead", "reaped"} \/ [](gui # "loop"))

\* "If the child doesn't exit within a couple of seconds, escalate to SIGKILL"
\* (main_window.cpp:420): only a child that was asked to stop is killed.
KillsOnlyStopped ==
  [][\A c \in Children : child'[c] = "killed" => child[c] # "alive"]_vars

\* "Watch the pipes asynchronously on the GLib main loop" (main_window.cpp:390):
\* once the child has fallen silent, no read of its output holds the main loop.
ReadsReturn ==
  <>[][pipe' <= pipe]_vars => ((gui = "read") ~> (gui = "loop"))

\* "Make sure we don't leave a streamer process orphaned if the user closes the
\* window mid-stream" (main_window.cpp:92).
NoOrphan == (gui = "closed") ~> (\A c \in Children : child[c] \notin Live)

=============================================================================
