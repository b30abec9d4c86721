----------------------------- MODULE InputPath -----------------------------
(***************************************************************************)
(* Pointer, scroll and key input on its way from a Quest panel to the      *)
(* host's desktop: SessionInputForwarder turns gestures into lines on the  *)
(* UI thread, StreamSession queues them, the input sender of the open      *)
(* session writes them to the signaling connection, and the streamer's     *)
(* signaling thread injects them through the portal.                       *)
(*                                                                         *)
(* Sessions come and go while the finger moves.  The worker that closes a  *)
(* session interrupts its sender and does not wait for it, so the sender   *)
(* of an old session may meet the queue of the next.                       *)
(*                                                                         *)
(* A pointer event is known by its number, which is also its position.     *)
(***************************************************************************)
EXTENDS Integers, Sequences

CONSTANTS
  Actions,        \* the UI events that happen
  LastEvent,      \* bound: UI events
  LastSession,    \* bound: sessions that reach START
  QueueCap,       \* INPUT_QUEUE_CAP
  ErrorLimit      \* injection errors after which input is disabled

\* What the activity listens to: touches and moves, scrolling, and the text
\* the editor commits; and the switch of the toolbar.
ActionKinds == {"DOWN", "MOVE", "UP", "CANCEL", "SCROLL", "TEXT", "TOGGLE"}

ASSUME InputAssumption ==
  /\ Actions \subseteq ActionKinds
  /\ LastEvent \in Nat /\ LastSession \in Nat
  /\ QueueCap \in Nat \ {0} /\ ErrorLimit \in Nat \ {0}

Sessions == 1..LastSession

VARIABLES
  events,     \* number of UI events so far
  touch,      \* a finger is on the surface
  primary,    \* syntheticPrimary
  held,       \* heldButtons: the primary button
  enabled,    \* RemoteInputController.pointerEnabled
  todo,       \* lines the UI thread has still to enqueue for this event
  tested,     \* the UI thread has seen inputOpen and is about to queue a line
  open,       \* StreamSession.inputOpen
  queue,      \* StreamSession.inputQueue
  session,    \* the last session to reach START; 0: none
  worker,     \* where the session's worker thread is
  sender,     \* where the input sender of each session is
  hand,       \* the line each sender holds
  interrupted,\* senders that have been interrupted
  wire,       \* lines written and not yet read by the streamer
  serving,    \* the streamer serves the connection of the last session
  ready,      \* input_ready_
  errors,     \* input_errors_
  injected,   \* the last line injected
  pointer,    \* position of the pointer on the desktop
  button,     \* the left button is down on the desktop
  lost        \* history: events that lost a line

uiVars == <<events, touch, primary, held, enabled, todo, tested>>
workerVars == <<open, session, worker>>
senderVars == <<sender, hand, interrupted>>
hostVars == <<serving, ready, errors, injected, pointer, button>>
vars == <<uiVars, workerVars, queue, senderVars, wire, hostVars, lost>>

Kinds == {"move", "press", "release", "scroll", "keydown", "keyup"}
NoLine == [kind |-> "none", event |-> 0]

Init ==
  /\ events = 0
  /\ touch = FALSE /\ primary = FALSE /\ held = FALSE /\ enabled = TRUE
  /\ todo = <<>> /\ tested = FALSE
  /\ open = FALSE /\ queue = <<>> /\ session = 0 /\ worker = "connecting"
  /\ sender = [s \in Sessions |-> "none"]
  /\ hand = [s \in Sessions |-> NoLine]
  /\ interrupted = {}
  /\ wire = <<>>
  /\ serving = FALSE /\ ready = TRUE /\ errors = 0
  /\ injected = NoLine /\ pointer = 0 /\ button = FALSE
  /\ lost = {}

LinesOf(q) == {q[i] : i \in DOMAIN q}

\* History of the pointer's lines only.
Lose(S) ==
  lost' = lost \cup {line.event : line \in {l \in S : l.kind \in {"move", "press", "release"}}}

-----------------------------------------------------------------------------
(* UI thread *)

\* Gestures as Android delivers them: a touch begins, and ends or is cancelled;
\* moving (or hovering), scrolling and typing go on beside it.
Possible(action) ==
  CASE action = "DOWN" -> ~touch
    [] action \in {"UP", "CANCEL"} -> touch
    [] OTHER -> TRUE

\* Mutant of Primary: a cancelled touch is not treated as released.
Primary_NotOnCancel(action) ==
  CASE action = "DOWN" -> TRUE
    [] action = "UP" -> FALSE
    [] OTHER -> primary

\* A touch carries no button bits: syntheticPrimary stands for them.
Primary(action) ==
  CASE action = "DOWN" -> TRUE
    [] action \in {"UP", "CANCEL"} -> FALSE
    [] OTHER -> primary

\* "Position before buttons, so a click lands where the cursor is."  A scroll
\* may be too small for a step; a character is pressed and released.
LineKinds(action, stepped) ==
  LET scroll == IF action = "SCROLL" /\ stepped THEN <<"scroll">> ELSE <<>>
      move == IF action \in {"DOWN", "MOVE", "UP"} THEN <<"move">> ELSE <<>>
      change == CASE Primary(action) /\ ~held -> <<"press">>
                  [] held /\ ~Primary(action) -> <<"release">>
                  [] OTHER -> <<>>
  IN IF action = "TEXT" THEN <<"keydown", "keyup">> ELSE scroll \o move \o change

\* capturePointer() lets the event through; text does not pass there.
Captured(action) == enabled \/ action = "TEXT"

\* onPointerInput() or onTextInput().  The pointer is ignored while the toolbar
\* has disabled it; the event then counts as lost.
Event(action) ==
  /\ events < LastEvent
  /\ todo = <<>>
  /\ action # "TOGGLE" /\ Possible(action)
  /\ events' = events + 1
  /\ touch' = (action = "DOWN" \/ (touch /\ action \notin {"UP", "CANCEL"}))
  /\ IF Captured(action)
     THEN /\ \E stepped \in BOOLEAN :
               LET kinds == LineKinds(action, stepped)
               IN todo' = [i \in DOMAIN kinds |-> [kind |-> kinds[i], event |-> events']]
          /\ primary' = Primary(action)
          /\ held' = Primary(action)
          /\ UNCHANGED lost
     ELSE /\ lost' = lost \cup {events'}
          /\ UNCHANGED <<todo, primary, held>>
  /\ UNCHANGED <<enabled, tested, workerVars, queue, senderVars, wire, hostVars>>

\* enqueueInput() tests inputOpen without the lock.
TestOpen ==
  /\ todo # <<>> /\ ~tested
  /\ IF open THEN tested' = TRUE /\ UNCHANGED <<todo, lost>>
     ELSE /\ todo' = Tail(todo)
          /\ Lose({Head(todo)})
          /\ UNCHANGED tested
  /\ UNCHANGED <<events, touch, primary, held, enabled, workerVars,
                 queue, senderVars, wire, hostVars>>

\* notifyAll()
Woken == [s \in Sessions |-> IF sender[s] = "wait" THEN "take" ELSE sender[s]]

\* Mutant of Coalesce: any queued move gives way to a newer one.
Coalesce_Anywhere(q, line) ==
  LET Stays(l) == line.kind # "move" \/ l.kind # "move"
  IN Append(SelectSeq(q, Stays), line)

\* A move replaces the move just before it.
Coalesce(q, line) ==
  LET n == Len(q)
      replaces == line.kind = "move" /\ n > 0 /\ q[n].kind = "move"
  IN Append(IF replaces THEN SubSeq(q, 1, n - 1) ELSE q, line)

\* The oldest line goes when there are too many.
Limited(q) == IF Len(q) > QueueCap THEN Tail(q) ELSE q

\* Mutant of Enqueue: the sender is not notified.
Enqueue_Silent ==
  /\ tested
  /\ LET q == Coalesce(queue, Head(todo))
     IN /\ queue' = Limited(q)
        /\ Lose(LinesOf(q) \ LinesOf(Limited(q)))
  /\ todo' = Tail(todo)
  /\ tested' = FALSE
  /\ UNCHANGED <<events, touch, primary, held, enabled, workerVars,
                 senderVars, wire, hostVars>>

Enqueue ==
  /\ tested
  /\ LET q == Coalesce(queue, Head(todo))
     IN /\ queue' = Limited(q)
        /\ Lose(LinesOf(q) \ LinesOf(Limited(q)))
  /\ todo' = Tail(todo)
  /\ tested' = FALSE
  /\ sender' = Woken
  /\ UNCHANGED <<events, touch, primary, held, enabled, workerVars,
                 hand, interrupted, wire, hostVars>>

\* The toolbar switches pointer input off and on.
SetPointerEnabled ==
  /\ "TOGGLE" \in Actions
  /\ events < LastEvent
  /\ todo = <<>>
  /\ events' = events + 1
  /\ enabled' = ~enabled
  /\ UNCHANGED <<touch, primary, held, todo, tested, workerVars, queue,
                 senderVars, wire, hostVars, lost>>

UI == TestOpen \/ Enqueue

-----------------------------------------------------------------------------
(* The session's worker *)

\* START has been read on a new connection.  The streamer accepts it only
\* after it is done with the one before.
Started ==
  /\ worker = "connecting"
  /\ session < LastSession
  /\ ~serving
  /\ session' = session + 1
  /\ serving' = TRUE
  /\ worker' = "clear"
  /\ UNCHANGED <<uiVars, open, queue, senderVars, wire, ready, errors,
                 injected, pointer, button, lost>>

ClearOld ==
  /\ worker = "clear"
  /\ worker' = "open"
  /\ queue' = <<>>
  /\ Lose(LinesOf(queue))
  /\ UNCHANGED <<uiVars, open, session, senderVars, wire, hostVars>>

OpenInput ==
  /\ worker = "open"
  /\ worker' = "stream"
  /\ open' = TRUE
  /\ sender' = [sender EXCEPT ![session] = "test"]
  /\ UNCHANGED <<uiVars, session, queue, hand, interrupted, wire, hostVars, lost>>

\* The stream ends for the client: by itself, by stop(), or because the
\* streamer has gone.
CloseInput ==
  /\ worker = "stream"
  /\ worker' = "closing"
  /\ open' = FALSE
  /\ UNCHANGED <<uiVars, session, queue, senderVars, wire, hostVars, lost>>

\* clear(), notifyAll() and interrupt()
ClearQueue ==
  /\ worker = "closing"
  /\ worker' = "shut"
  /\ queue' = <<>>
  /\ Lose(LinesOf(queue))
  /\ sender' = Woken
  /\ interrupted' = interrupted \cup {session}
  /\ UNCHANGED <<uiVars, open, session, hand, wire, hostVars>>

\* closeSignalingSocket(), after the decoders are released.
CloseSocket ==
  /\ worker = "shut"
  /\ worker' = "connecting"
  /\ UNCHANGED <<uiVars, open, session, queue, senderVars, wire, hostVars, lost>>

Worker == ClearOld \/ OpenInput \/ ClearQueue \/ CloseSocket

-----------------------------------------------------------------------------
(* The input senders *)

SenderTest(s) ==
  /\ sender[s] = "test"
  /\ sender' = [sender EXCEPT ![s] = IF open THEN "take" ELSE "end"]
  /\ UNCHANGED <<uiVars, workerVars, queue, hand, interrupted, wire, hostVars, lost>>

\* Under the lock: wait, leave, or take the oldest line.  An interrupt ends a
\* wait, and nothing else.
SenderTake(s) ==
  /\ sender[s] = "take"
  /\ CASE queue = <<>> /\ open ->
            /\ sender' = [sender EXCEPT ![s] = IF s \in interrupted THEN "end" ELSE "wait"]
            /\ UNCHANGED <<queue, hand>>
       [] ~open ->
            sender' = [sender EXCEPT ![s] = "end"] /\ UNCHANGED <<queue, hand>>
       [] OTHER ->
            /\ sender' = [sender EXCEPT ![s] = "write"]
            /\ hand' = [hand EXCEPT ![s] = Head(queue)]
            /\ queue' = Tail(queue)
  /\ UNCHANGED <<uiVars, workerVars, interrupted, wire, hostVars, lost>>

\* The connection of s can still be written to.
Alive(s) == s = session /\ worker # "connecting" /\ serving

\* Mutant of SenderWrite: the socket is the session's current one.
SenderWrite_CurrentSocket(s) ==
  /\ sender[s] = "write"
  /\ IF Alive(session)
     THEN /\ wire' = Append(wire, hand[s])
          /\ sender' = [sender EXCEPT ![s] = "test"]
          /\ UNCHANGED lost
     ELSE /\ sender' = [sender EXCEPT ![s] = "end"]
          /\ Lose({hand[s]})
          /\ UNCHANGED wire
  /\ hand' = [hand EXCEPT ![s] = NoLine]
  /\ UNCHANGED <<uiVars, workerVars, queue, interrupted, hostVars>>

\* Its own socket: closed by now, perhaps, and then the sender ends.
SenderWrite(s) ==
  /\ sender[s] = "write"
  /\ IF Alive(s)
     THEN /\ wire' = Append(wire, hand[s])
          /\ sender' = [sender EXCEPT ![s] = "test"]
          /\ UNCHANGED lost
     ELSE /\ sender' = [sender EXCEPT ![s] = "end"]
          /\ Lose({hand[s]})
          /\ UNCHANGED wire
  /\ hand' = [hand EXCEPT ![s] = NoLine]
  /\ UNCHANGED <<uiVars, workerVars, queue, interrupted, hostVars>>

Sender(s) == SenderTest(s) \/ SenderTake(s) \/ SenderWrite(s)

-----------------------------------------------------------------------------
(* The streamer's signaling thread *)

ReadLine ==
  /\ serving /\ wire # <<>>
  /\ wire' = Tail(wire)
  /\ UNCHANGED <<uiVars, workerVars, queue, senderVars, serving>>

\* pointer_motion() and pointer_button(), as the desktop sees them.
PointerAfter(line) == IF line.kind = "move" THEN line.event ELSE pointer
ButtonAfter(line) ==
  IF line.kind \in {"press", "release"} THEN line.kind = "press" ELSE button

\* The portal takes the call.
Inject ==
  LET line == Head(wire)
  IN /\ ReadLine
     /\ ready
     /\ injected' = line
     /\ pointer' = PointerAfter(line)
     /\ button' = ButtonAfter(line)
     /\ UNCHANGED <<ready, errors, lost>>

\* input_error(): the call fails; the last of too many disables input.
InjectFails ==
  /\ ReadLine
  /\ ready
  /\ errors' = errors + 1
  /\ ready' = (errors + 1 < ErrorLimit)
  /\ Lose({Head(wire)})
  /\ UNCHANGED <<injected, pointer, button>>

\* Input is disabled, or the format of the stream is not known yet.
InjectNothing ==
  /\ ReadLine
  /\ ~ready \/ (Head(wire).kind = "move" /\ pointer = 0)
  /\ Lose({Head(wire)})
  /\ UNCHANGED <<ready, errors, injected, pointer, button>>

\* The streamer is done with the connection: all of it is read, or it timed
\* out, or the streamer stopped, and what is on the wire is lost.
Dropped ==
  /\ serving
  /\ serving' = FALSE
  /\ wire' = <<>>
  /\ Lose(LinesOf(wire))
  /\ UNCHANGED <<uiVars, workerVars, queue, senderVars, ready, errors, injected,
                 pointer, button>>

Signaling == Inject \/ InjectNothing

Next ==
  \/ \E action \in Actions : Event(action)
  \/ UI \/ SetPointerEnabled
  \/ Started \/ CloseInput \/ Worker
  \/ \E s \in Sessions : Sender(s)
  \/ Signaling \/ InjectFails \/ Dropped

Spec == Init /\ [][Next]_vars

-----------------------------------------------------------------------------
(* Properties *)

\* Types, and the limit of the queue.
TypeOK ==
  /\ events \in 0..LastEvent
  /\ {touch, primary, held, enabled, tested, open, serving, ready, button} \subseteq BOOLEAN
  /\ LinesOf(todo) \cup LinesOf(queue) \cup LinesOf(wire)
       \subseteq [kind : Kinds, event : 1..LastEvent]
  /\ Len(queue) <= QueueCap
  /\ session \in 0..LastSession
  /\ worker \in {"connecting", "clear", "open", "stream", "closing", "shut"}
  /\ sender \in [Sessions -> {"none", "test", "take", "wait", "write", "end"}]
  /\ interrupted \subseteq Sessions
  /\ errors \in 0..ErrorLimit /\ (ready <=> errors < ErrorLimit)
  /\ pointer \in 0..LastEvent
  /\ lost \subseteq 1..LastEvent

\* An event has up to two lines.
Number(line) ==
  2 * line.event - (IF line.kind \in {"press", "release", "keyup"} THEN 0 ELSE 1)

\* The lines of all sessions are injected in the order the UI emitted them,
\* each at most once, although two senders may drain the queue side by side
\* and connections break and are made again under them.
Promised == INSTANCE RemoteInput WITH
  emitted <- 2 * events,
  injected <- IF injected = NoLine THEN 0 ELSE Number(injected)
InOrder == Promised!Spec

\* "Position before buttons, so a click lands where the cursor is": a press is
\* injected where its touch began, however many moves were coalesced, unless
\* its event has lost a line or the sender of an old session is about to lose
\* one that it took from the queue of the new session.
PressesAimed ==
  injected.kind = "press" =>
    \/ pointer = injected.event
    \/ injected.event \in lost
    \/ \E s \in Sessions : s < session /\ hand[s].event = injected.event

\* The same, whatever is lost.  Does not hold: the line with the position may
\* be dropped alone, by a full queue or before the session is open.
AlwaysAimed == injected.kind = "press" => pointer = injected.event

\* When every line has arrived and none was lost, the button on the desktop is
\* down exactly while the finger is.
Mirrored ==
  (todo = <<>> /\ queue = <<>> /\ wire = <<>> /\ lost = {}
     /\ \A s \in Sessions : hand[s] = NoLine)
  => button = touch

\* With no finger on the surface and nothing under way, no button is left
\* pressed.  Does not hold: a lost release is never repeated, neither by the
\* next session nor by the streamer at a disconnect.
NotStuck ==
  (todo = <<>> /\ queue = <<>> /\ wire = <<>> /\ ~touch
     /\ \A s \in Sessions : hand[s] = NoLine)
  => ~button

\* No wakeup is lost: a sender that waits belongs to the last session, has
\* nothing to take, and is yet to be told if its session has been closed.
WaitsRightly ==
  \A s \in Sessions :
    sender[s] = "wait" => s = session /\ queue = <<>> /\ (open \/ worker = "closing")
=============================================================================
