------------------------- MODULE QuestSessionProofs -------------------------
(***************************************************************************)
(* Theorems about the session of the Quest client: InputPath, for every    *)
(* number of sessions and events and every limit of the queue, and the     *)
(* sessions themselves as Session has them, for every backlog: the two     *)
(* ends stay in step, and either one ends when it is told to.              *)
(***************************************************************************)
EXTENDS InputPath, Session, TLAPS

SenderStates == {"none", "test", "take", "wait", "write", "end"}

WorkerTypes ==
  /\ session \in 0..LastSession
  /\ open \in BOOLEAN
  /\ sender \in [Sessions -> SenderStates]

\* Input is open exactly while the worker streams.
OpenWhileStreaming == open <=> worker = "stream"

\* A session that has not opened its input has no sender, and one that has
\* closed it has interrupted its sender.
HasBegun(s) == s < session \/ (s = session /\ worker \notin {"clear", "open"})
HasClosed(s) == s < session \/ (s = session /\ worker \in {"shut", "connecting"})
SendersFollow ==
  \A s \in Sessions :
    /\ sender[s] # "none" => HasBegun(s)
    /\ HasClosed(s) => s \in interrupted

\* Only the sender of the session that is open, or about to be closed, waits.
WaitersKnown ==
  \A s \in Sessions :
    sender[s] = "wait" =>
      s = session /\ queue = <<>> /\ worker \in {"stream", "closing"}

WaitInv == WorkerTypes /\ OpenWhileStreaming /\ SendersFollow /\ WaitersKnown

LEMMA InitWait == Init => WaitInv
<1> SUFFICES ASSUME Init PROVE WaitInv
  OBVIOUS
<1>1. /\ session = 0 /\ open = FALSE /\ worker = "connecting"
      /\ sender = [s \in Sessions |-> "none"]
  BY DEF Init
<1>2. WorkerTypes
  <2>1. session \in 0..LastSession
    BY <1>1, InputAssumption
  <2>2. open \in BOOLEAN
    BY <1>1
  <2>3. sender \in [Sessions -> SenderStates]
    BY <1>1 DEF SenderStates
  <2> QED
    BY <2>1, <2>2, <2>3 DEF WorkerTypes
<1>3. \A s \in Sessions : s \in Int /\ s > 0 /\ sender[s] = "none"
  BY <1>1, InputAssumption DEF Sessions
<1>4. OpenWhileStreaming
  BY <1>1 DEF OpenWhileStreaming
<1>5. SendersFollow
  BY <1>1, <1>3 DEF SendersFollow, HasClosed
<1>6. WaitersKnown
  BY <1>3 DEF WaitersKnown
<1> QED
  BY <1>2, <1>4, <1>5, <1>6 DEF WaitInv

\* The UI thread: whoever waits is woken with every line.
LEMMA UiWait == WaitInv /\ (UI \/ SetPointerEnabled \/ \E action \in Actions : Event(action))
                => WaitInv'
<1> SUFFICES ASSUME WaitInv,
                    UI \/ SetPointerEnabled \/ \E action \in Actions : Event(action)
             PROVE  WaitInv'
  OBVIOUS
<1>1. UNCHANGED <<open, session, worker, interrupted>>
  BY DEF UI, TestOpen, Enqueue, SetPointerEnabled, Event, workerVars, senderVars
<1>2. CASE UNCHANGED <<sender, queue>>
  BY <1>1, <1>2 DEF WaitInv, WorkerTypes, OpenWhileStreaming, SendersFollow,
                    WaitersKnown, HasBegun, HasClosed
<1>3. CASE sender' = Woken
  <2>1. \A s \in Sessions :
          sender'[s] = (IF sender[s] = "wait" THEN "take" ELSE sender[s])
    BY <1>3 DEF Woken
  <2>2. sender' \in [Sessions -> SenderStates] /\ \A s \in Sessions : sender'[s] # "wait"
    BY <1>3 DEF Woken, WaitInv, WorkerTypes, SenderStates
  <2> QED
    BY <1>1, <2>1, <2>2
    DEF WaitInv, WorkerTypes, OpenWhileStreaming, SendersFollow, WaitersKnown,
        HasBegun, HasClosed
<1>4. UNCHANGED <<sender, queue>> \/ sender' = Woken
  BY DEF UI, TestOpen, Enqueue, SetPointerEnabled, Event, senderVars
<1> QED
  BY <1>2, <1>3, <1>4

\* The worker: a session starts only when the one before is closed, and
\* closing it wakes and interrupts its sender.
LEMMA WorkerWait == WaitInv /\ (Started \/ CloseInput \/ Worker) => WaitInv'
<1> SUFFICES ASSUME WaitInv, Started \/ CloseInput \/ Worker PROVE WaitInv'
  OBVIOUS
<1> USE InputAssumption DEF Sessions
<1>1. CASE Started
  <2>1. /\ worker = "connecting" /\ worker' = "clear" /\ session < LastSession
        /\ session' = session + 1 /\ UNCHANGED <<open, sender, interrupted, queue>>
    BY <1>1 DEF Started, senderVars
  <2>2. WorkerTypes' /\ OpenWhileStreaming'
    BY <2>1 DEF WaitInv, WorkerTypes, OpenWhileStreaming
  <2>3. SendersFollow'
    BY <2>1 DEF WaitInv, WorkerTypes, SendersFollow, HasBegun, HasClosed
  <2>4. WaitersKnown'
    BY <2>1 DEF WaitInv, WaitersKnown
  <2> QED
    BY <2>2, <2>3, <2>4 DEF WaitInv
<1>2. CASE ClearOld
  <2>1. /\ worker = "clear" /\ worker' = "open"
        /\ UNCHANGED <<open, session, sender, interrupted>>
    BY <1>2 DEF ClearOld, senderVars
  <2> QED
    BY <2>1 DEF WaitInv, WorkerTypes, OpenWhileStreaming, SendersFollow, WaitersKnown,
                HasBegun, HasClosed
<1>3. CASE OpenInput
  <2>1. /\ worker = "open" /\ worker' = "stream" /\ open' = TRUE
        /\ sender' = [sender EXCEPT ![session] = "test"]
        /\ UNCHANGED <<session, interrupted, queue>>
    BY <1>3 DEF OpenInput
  <2>2. /\ sender' \in [Sessions -> SenderStates]
        /\ \A s \in Sessions : sender'[s] = IF s = session THEN "test" ELSE sender[s]
    BY <2>1 DEF WaitInv, WorkerTypes, SenderStates
  <2>3. WorkerTypes' /\ OpenWhileStreaming'
    BY <2>1, <2>2 DEF WaitInv, WorkerTypes, OpenWhileStreaming
  <2>4. SendersFollow'
    BY <2>1, <2>2 DEF WaitInv, WorkerTypes, SendersFollow, HasBegun, HasClosed
  <2>5. WaitersKnown'
    BY <2>1, <2>2 DEF WaitInv, WaitersKnown
  <2> QED
    BY <2>3, <2>4, <2>5 DEF WaitInv
<1>4. CASE CloseInput
  <2>1. /\ worker = "stream" /\ worker' = "closing" /\ open' = FALSE
        /\ UNCHANGED <<session, sender, interrupted, queue>>
    BY <1>4 DEF CloseInput, senderVars
  <2> QED
    BY <2>1 DEF WaitInv, WorkerTypes, OpenWhileStreaming, SendersFollow, WaitersKnown,
                HasBegun, HasClosed
<1>5. CASE ClearQueue
  <2>1. /\ worker = "closing" /\ worker' = "shut" /\ sender' = Woken
        /\ interrupted' = interrupted \cup {session}
        /\ UNCHANGED <<open, session>>
    BY <1>5 DEF ClearQueue
  <2>2. /\ sender' \in [Sessions -> SenderStates]
        /\ \A s \in Sessions : /\ sender'[s] # "wait"
                               /\ sender'[s] = "none" <=> sender[s] = "none"
    BY <2>1 DEF Woken, WaitInv, WorkerTypes, SenderStates
  <2>3. WorkerTypes' /\ OpenWhileStreaming'
    BY <2>1, <2>2 DEF WaitInv, WorkerTypes, OpenWhileStreaming
  <2>4. SendersFollow'
    BY <2>1, <2>2 DEF WaitInv, WorkerTypes, SendersFollow, HasBegun, HasClosed
  <2>5. WaitersKnown'
    BY <2>2 DEF WaitersKnown
  <2> QED
    BY <2>3, <2>4, <2>5 DEF WaitInv
<1>6. CASE CloseSocket
  <2>1. /\ worker = "shut" /\ worker' = "connecting"
        /\ UNCHANGED <<open, session, sender, interrupted, queue>>
    BY <1>6 DEF CloseSocket, senderVars
  <2> QED
    BY <2>1 DEF WaitInv, WorkerTypes, OpenWhileStreaming, SendersFollow, WaitersKnown,
                HasBegun, HasClosed
<1> QED
  BY <1>1, <1>2, <1>3, <1>4, <1>5, <1>6 DEF Worker

\* The senders: one that finds nothing to take waits, unless interrupted.
LEMMA TakeWait == ASSUME NEW s \in Sessions, WaitInv, Sender(s) PROVE WaitInv'
<1> USE InputAssumption DEF Sessions
<1>1. UNCHANGED <<open, session, worker, interrupted>>
  BY DEF Sender, SenderTest, SenderTake, SenderWrite, workerVars
<1>2. sender[s] \in {"test", "take", "write"}
  BY DEF Sender, SenderTest, SenderTake, SenderWrite
<1>3. PICK next \in {"test", "take", "wait", "write", "end"} :
        sender' = [sender EXCEPT ![s] = next]
  BY DEF Sender, SenderTest, SenderTake, SenderWrite
<1>4. /\ sender' \in [Sessions -> SenderStates]
      /\ sender'[s] = next
      /\ \A t \in Sessions : t # s => sender'[t] = sender[t]
  BY <1>3 DEF WaitInv, WorkerTypes, SenderStates
<1>5. next = "wait" =>
        queue = <<>> /\ open /\ s \notin interrupted /\ UNCHANGED queue
  <2>1. SUFFICES ASSUME next = "wait"
                 PROVE  queue = <<>> /\ open /\ s \notin interrupted /\ UNCHANGED queue
    OBVIOUS
  <2>2. sender'[s] = "wait"
    BY <1>4, <2>1
  <2>3. ~SenderTest(s)
    BY <1>4, <2>2 DEF SenderTest, WaitInv, WorkerTypes
  <2>4. ~SenderWrite(s)
    BY <1>4, <2>2 DEF SenderWrite, WaitInv, WorkerTypes
  <2>5. SenderTake(s)
    BY <2>3, <2>4 DEF Sender
  <2>6. CASE queue = <<>> /\ open
    BY <1>4, <2>2, <2>5, <2>6 DEF SenderTake, WaitInv, WorkerTypes
  <2>7. CASE ~open
    BY <1>4, <2>2, <2>5, <2>7 DEF SenderTake, WaitInv, WorkerTypes
  <2>8. CASE open /\ queue # <<>>
    BY <1>4, <2>2, <2>5, <2>8 DEF SenderTake, WaitInv, WorkerTypes
  <2> QED
    BY <2>6, <2>7, <2>8
<1>6. UNCHANGED queue \/ queue # <<>>
  BY DEF Sender, SenderTest, SenderTake, SenderWrite
<1>7. WorkerTypes' /\ OpenWhileStreaming'
  BY <1>1, <1>4 DEF WaitInv, WorkerTypes, OpenWhileStreaming
<1>8. SendersFollow'
  BY <1>1, <1>2, <1>4 DEF WaitInv, SendersFollow, HasBegun, HasClosed
<1>9. WaitersKnown'
  <2>1. ASSUME NEW t \in Sessions, sender'[t] = "wait"
        PROVE  t = session' /\ queue' = <<>> /\ worker' \in {"stream", "closing"}
    <3>1. CASE t = s
      <4>1. next = "wait"
        BY <1>4, <2>1, <3>1
      <4>2. queue = <<>> /\ open /\ s \notin interrupted /\ UNCHANGED queue
        BY <1>5, <4>1
      <4>3. worker = "stream"
        BY <4>2 DEF WaitInv, OpenWhileStreaming
      <4>4. s = session
        BY <1>2, <4>2 DEF WaitInv, SendersFollow, HasBegun, HasClosed
      <4> QED
        BY <1>1, <3>1, <4>2, <4>3, <4>4
    <3>2. CASE t # s
      <4>1. sender[t] = "wait"
        BY <1>4, <2>1, <3>2
      <4>2. t = session /\ queue = <<>> /\ worker \in {"stream", "closing"}
        BY <4>1 DEF WaitInv, WaitersKnown
      <4> QED
        BY <1>1, <1>6, <4>2
    <3> QED
      BY <3>1, <3>2
  <2> QED
    BY <2>1 DEF WaitersKnown
<1> QED
  BY <1>7, <1>8, <1>9 DEF WaitInv

LEMMA StepWait == WaitInv /\ [Next]_vars => WaitInv'
<1> SUFFICES ASSUME WaitInv, [Next]_vars PROVE WaitInv'
  OBVIOUS
<1>1. CASE UI \/ SetPointerEnabled \/ \E action \in Actions : Event(action)
  BY <1>1, UiWait
<1>2. CASE Started \/ CloseInput \/ Worker
  BY <1>2, WorkerWait
<1>3. ASSUME NEW s \in Sessions, Sender(s) PROVE WaitInv'
  BY <1>3, TakeWait
<1>4. CASE Signaling \/ InjectFails \/ Dropped \/ UNCHANGED vars
  <2>1. UNCHANGED <<open, session, worker, queue, sender, interrupted>>
    BY <1>4 DEF Signaling, Inject, InjectNothing, InjectFails, ReadLine, Dropped,
                vars, workerVars, senderVars
  <2> QED
    BY <2>1 DEF WaitInv, WorkerTypes, OpenWhileStreaming, SendersFollow, WaitersKnown,
                HasBegun, HasClosed
<1> QED
  BY <1>1, <1>2, <1>3, <1>4 DEF Next

\* No wakeup of an input sender is lost, however sessions follow each other and
\* whatever the UI queues: who waits has nothing to take, belongs to the last
\* session, and is woken when that is closed.
THEOREM AlwaysWaitsRightly == Spec => []WaitsRightly
<1>1. WaitInv => WaitsRightly
  BY DEF WaitInv, WaitersKnown, OpenWhileStreaming, WaitsRightly
<1> QED
  BY <1>1, InitWait, StepWait, PTL DEF Spec
-----------------------------------------------------------------------------
(* The lines on their way *)

Line == [kind : Kinds, event : 1..LastEvent]
Move(e) == [kind |-> "move", event |-> e]
PointerKinds == {"move", "press", "release"}
Changes == {"press", "release"}

\* The line in the hand of the last session's sender; what the senders before
\* it hold they can only lose.
Current == {hand[s] : s \in Sessions \cap {session}} \ {NoLine}

Pending == LinesOf(wire) \cup Current \cup LinesOf(queue) \cup LinesOf(todo)

LastNumber == IF injected = NoLine THEN 0 ELSE Number(injected)

Rising(q) == \A i, j \in DOMAIN q : i < j => Number(q[i]) < Number(q[j])
Before(S, T) == \A l \in S, m \in T : Number(l) < Number(m)

FlowTypes ==
  /\ events \in 0..LastEvent /\ pointer \in 0..LastEvent
  /\ todo \in Seq(Line) /\ queue \in Seq(Line) /\ wire \in Seq(Line)
  /\ Len(queue) <= QueueCap
  /\ hand \in [Sessions -> Line \cup {NoLine}]
  /\ injected \in Line \cup {NoLine}
  /\ \A s \in Sessions : hand[s] # NoLine <=> sender[s] = "write"
  /\ lost \subseteq 1..LastEvent

Told ==
  /\ \A l \in Pending : l.event <= events
  /\ LastNumber <= 2 * events
  /\ \A l \in LinesOf(todo) : l.event = events
  /\ held \in BOOLEAN /\ primary = held
  /\ tested => todo # <<>>

\* From the host back to the UI thread: first emitted, first injected.
Order ==
  /\ Rising(wire) /\ Rising(queue) /\ Rising(todo)
  /\ Before(LinesOf(wire), Current \cup LinesOf(queue) \cup LinesOf(todo))
  /\ Before(Current, LinesOf(queue) \cup LinesOf(todo))
  /\ Before(LinesOf(queue), LinesOf(todo))
  /\ \A l \in Pending : LastNumber < Number(l)
  /\ 2 * pointer - 1 <= LastNumber

\* The pointer is where the touch of event e began, or never will be.
AimedAt(e) ==
  \/ pointer = e
  \/ e \in lost
  \/ \E s \in Sessions : s < session /\ hand[s] = Move(e)

Aim ==
  /\ \A l \in Pending : l.kind = "press" => AimedAt(l.event) \/ Move(l.event) \in Pending
  /\ injected.kind = "press" => AimedAt(injected.event)

\* While nothing is lost the last press or release on its way tells what the
\* finger does; without one the button does.
Intact ==
  /\ lost = {}
  /\ \A s \in Sessions : s < session => hand[s].kind \notin PointerKinds
PendingChanges == {l \in Pending : l.kind \in Changes}
Mirror ==
  Intact =>
    /\ held = touch
    /\ PendingChanges = {} => button = touch
    /\ PendingChanges # {} =>
         \E l \in PendingChanges :
           /\ \A m \in PendingChanges : m.event <= l.event
           /\ (l.kind = "press") = touch

FlowInv == FlowTypes /\ Told /\ Order /\ Aim /\ Mirror

-----------------------------------------------------------------------------
(* Sequences of lines *)

LEMMA NumberOf ==
  ASSUME NEW l \in Line
  PROVE  /\ l.event \in Nat /\ l.event > 0 /\ l.kind \in Kinds /\ l # NoLine
         /\ Number(l) = 2 * l.event - (IF l.kind \in {"press", "release", "keyup"}
                                       THEN 0 ELSE 1)
         /\ Number(l) \in Nat /\ 2 * l.event - 1 <= Number(l)
         /\ Number(l) <= 2 * l.event
<1>1. l.event \in Nat /\ l.event > 0 /\ l.kind \in Kinds
  BY InputAssumption DEF Line
<1>2. l # NoLine
  BY <1>1 DEF NoLine
<1> QED
  BY <1>1, <1>2 DEF Number

LEMMA TailLines ==
  ASSUME NEW q \in Seq(Line), q # <<>>
  PROVE  /\ Tail(q) \in Seq(Line) /\ Head(q) \in Line
         /\ LinesOf(q) = {Head(q)} \cup LinesOf(Tail(q))
         /\ Rising(q) => Rising(Tail(q)) /\ Before({Head(q)}, LinesOf(Tail(q)))
<1>1. /\ Len(q) \in Nat \ {0} /\ Head(q) = q[1] /\ Tail(q) \in Seq(Line)
      /\ Len(Tail(q)) = Len(q) - 1
      /\ \A i \in 1 .. Len(q) - 1 : Tail(q)[i] = q[i + 1]
  OBVIOUS
<1>2. DOMAIN q = 1 .. Len(q) /\ DOMAIN Tail(q) = 1 .. Len(q) - 1
  BY <1>1
<1>3. LinesOf(q) = {Head(q)} \cup LinesOf(Tail(q))
  <2>1. ASSUME NEW i \in 1 .. Len(q)
        PROVE  q[i] = Head(q) \/ \E j \in DOMAIN Tail(q) : q[i] = Tail(q)[j]
    <3>1. CASE i = 1
      BY <1>1, <3>1
    <3>2. CASE i # 1
      <4>1. i - 1 \in DOMAIN Tail(q) /\ q[i] = Tail(q)[i - 1]
        BY <1>1, <1>2, <3>2
      <4> QED
        BY <4>1
    <3> QED
      BY <3>1, <3>2
  <2>2. ASSUME NEW j \in DOMAIN Tail(q) PROVE j + 1 \in DOMAIN q /\ Tail(q)[j] = q[j + 1]
    BY <1>1, <1>2
  <2>3. 1 \in DOMAIN q
    BY <1>1, <1>2
  <2> QED
    BY <1>1, <1>2, <2>1, <2>2, <2>3 DEF LinesOf
<1>4. ASSUME Rising(q) PROVE Rising(Tail(q)) /\ Before({Head(q)}, LinesOf(Tail(q)))
  <2>1. ASSUME NEW i \in DOMAIN Tail(q), NEW j \in DOMAIN Tail(q), i < j
        PROVE  Number(Tail(q)[i]) < Number(Tail(q)[j])
    <3>1. i + 1 \in DOMAIN q /\ j + 1 \in DOMAIN q /\ i + 1 < j + 1
      BY <1>1, <1>2, <2>1
    <3>2. Tail(q)[i] = q[i + 1] /\ Tail(q)[j] = q[j + 1]
      BY <1>1, <1>2
    <3> QED
      BY <1>4, <3>1, <3>2 DEF Rising
  <2>2. ASSUME NEW j \in DOMAIN Tail(q) PROVE Number(Head(q)) < Number(Tail(q)[j])
    <3>1. 1 \in DOMAIN q /\ j + 1 \in DOMAIN q /\ 1 < j + 1
      BY <1>1, <1>2
    <3>2. Tail(q)[j] = q[j + 1]
      BY <1>1, <1>2
    <3> QED
      BY <1>1, <1>4, <3>1, <3>2 DEF Rising
  <2> QED
    BY <2>1, <2>2 DEF Rising, Before, LinesOf
<1>5. Head(q) \in Line
  BY <1>1
<1> QED
  BY <1>1, <1>3, <1>4, <1>5

LEMMA AppendLines ==
  ASSUME NEW q \in Seq(Line), NEW x \in Line
  PROVE  /\ Append(q, x) \in Seq(Line) /\ LinesOf(Append(q, x)) = LinesOf(q) \cup {x}
         /\ Len(Append(q, x)) = Len(q) + 1
         /\ Rising(q) /\ Before(LinesOf(q), {x}) => Rising(Append(q, x))
<1> DEFINE r == Append(q, x)
           n == Len(q)
<1>1. /\ n \in Nat /\ r \in Seq(Line) /\ Len(r) = n + 1
      /\ DOMAIN q = 1 .. n /\ DOMAIN r = 1 .. n + 1
      /\ \A i \in 1 .. n : r[i] = q[i]
      /\ r[n + 1] = x
  OBVIOUS
<1> HIDE DEF r, n
<1>2. \A i \in DOMAIN r : i = n + 1 \/ i \in DOMAIN q
  BY <1>1
<1>3. n + 1 \in DOMAIN r /\ \A i \in DOMAIN q : i \in DOMAIN r
  BY <1>1
<1>4. LinesOf(r) = LinesOf(q) \cup {x}
  BY <1>1, <1>2, <1>3 DEF LinesOf
<1>5. ASSUME Rising(q), Before(LinesOf(q), {x}) PROVE Rising(r)
  <2>1. ASSUME NEW i \in DOMAIN r, NEW j \in DOMAIN r, i < j
        PROVE  Number(r[i]) < Number(r[j])
    <3>1. i \in DOMAIN q
      BY <1>1, <2>1
    <3>2. CASE j = n + 1
      BY <1>1, <1>5, <3>1, <3>2 DEF Before, LinesOf
    <3>3. CASE j \in DOMAIN q
      BY <1>1, <1>5, <2>1, <3>1, <3>3 DEF Rising
    <3> QED
      BY <1>2, <3>2, <3>3
  <2> QED
    BY <2>1 DEF Rising
<1> QED
  BY <1>1, <1>4, <1>5 DEF r, n

\* Only the newest line gives way, one move to another.
LEMMA CoalesceLines ==
  ASSUME NEW q \in Seq(Line), NEW x \in Line, Rising(q), Before(LinesOf(q), {x})
  PROVE  /\ Coalesce(q, x) \in Seq(Line) /\ Len(Coalesce(q, x)) <= Len(q) + 1
         /\ Rising(Coalesce(q, x)) /\ x \in LinesOf(Coalesce(q, x))
         /\ LinesOf(Coalesce(q, x)) \subseteq LinesOf(q) \cup {x}
         /\ \A l \in LinesOf(q) \ LinesOf(Coalesce(q, x)) :
              /\ l.kind = "move" /\ x.kind = "move"
              /\ \A m \in LinesOf(q) : m = l \/ Number(m) < Number(l)
<1> DEFINE n == Len(q)
           replaces == x.kind = "move" /\ n > 0 /\ q[n].kind = "move"
           s == SubSeq(q, 1, n - 1)
<1>1. n \in Nat /\ DOMAIN q = 1 .. n
  OBVIOUS
<1>2. CASE ~replaces
  <2>1. Coalesce(q, x) = Append(q, x)
    BY <1>2 DEF Coalesce
  <2> QED
    BY <2>1, AppendLines
<1>3. CASE replaces
  <2>1. Coalesce(q, x) = Append(s, x)
    BY <1>3 DEF Coalesce
  <2>2. /\ s \in Seq(Line) /\ Len(s) = n - 1 /\ DOMAIN s = 1 .. n - 1
        /\ \A i \in 1 .. n - 1 : s[i] = q[i]
    BY <1>1, <1>3
  <2> HIDE DEF s
  <2>3. Rising(s)
    BY <1>1, <2>2 DEF Rising
  <2>4. LinesOf(s) \subseteq LinesOf(q)
    BY <1>1, <2>2 DEF LinesOf
  <2>5. Before(LinesOf(s), {x})
    BY <2>4 DEF Before
  <2>6. \A l \in LinesOf(q) \ LinesOf(s) : l = q[n]
    BY <1>1, <2>2 DEF LinesOf
  <2>7. \A m \in LinesOf(q) : m = q[n] \/ Number(m) < Number(q[n])
    <3>1. ASSUME NEW i \in 1 .. n PROVE q[i] = q[n] \/ Number(q[i]) < Number(q[n])
      <4>1. i = n \/ (i < n /\ n \in 1 .. n)
        <5> HIDE DEF n
        <5> QED
          BY <1>1
      <4> QED
        BY <1>1, <4>1 DEF Rising
    <3> QED
      BY <1>1, <3>1 DEF LinesOf
  <2>8. /\ Append(s, x) \in Seq(Line) /\ LinesOf(Append(s, x)) = LinesOf(s) \cup {x}
        /\ Len(Append(s, x)) = Len(s) + 1 /\ Rising(Append(s, x))
    BY <2>2, <2>3, <2>5, AppendLines
  <2>9. Len(Append(s, x)) <= n + 1
    <3> HIDE DEF n
    <3> QED
      BY <1>1, <2>2, <2>8
  <2> QED
    BY <1>3, <2>1, <2>4, <2>6, <2>7, <2>8, <2>9
<1> QED
  BY <1>2, <1>3

LEMMA LimitedLines ==
  ASSUME NEW q \in Seq(Line), Rising(q), Len(q) <= QueueCap + 1
  PROVE  /\ Limited(q) \in Seq(Line) /\ Len(Limited(q)) <= QueueCap
         /\ Rising(Limited(q)) /\ LinesOf(Limited(q)) \subseteq LinesOf(q)
<1>1. CASE Len(q) > QueueCap
  <2>1. q # <<>> /\ Limited(q) = Tail(q)
    BY <1>1, InputAssumption DEF Limited
  <2>2. Len(Tail(q)) = Len(q) - 1
    BY <2>1
  <2> QED
    <3>1. Len(Tail(q)) <= QueueCap
      BY <1>1, <2>1, <2>2, InputAssumption
    <3>2. /\ Tail(q) \in Seq(Line) /\ Rising(Tail(q))
          /\ LinesOf(Tail(q)) \subseteq LinesOf(q)
      BY <2>1, TailLines
    <3> QED
      BY <2>1, <3>1, <3>2
<1>2. CASE ~(Len(q) > QueueCap)
  BY <1>2, InputAssumption DEF Limited
<1> QED
  BY <1>1, <1>2

-----------------------------------------------------------------------------
(* Steps that inject nothing and add nothing *)

\* A pointer line that is no longer on its way is lost, or will be: it is in
\* the hand of an old session's sender.
Gone(l) ==
  l.kind \in PointerKinds =>
    \/ l.event \in lost'
    \/ \E s \in Sessions : s < session' /\ hand'[s] = l

\* Or it was a move, and no press depends on it.
Replaced(l) ==
  l.kind = "move" /\ \A m \in Pending' : m.kind = "press" => m.event # l.event

Passes ==
  /\ UNCHANGED <<events, touch, primary, held, injected, pointer, button>>
  /\ Pending' \subseteq Pending /\ LinesOf(todo') \subseteq LinesOf(todo)
  /\ tested' => todo' # <<>>
  /\ lost \subseteq lost'
  /\ \A l \in Pending \ Pending' : Gone(l) \/ Replaced(l)
  /\ \A s \in Sessions : s < session => Gone(hand[s])

\* Lines only disappear.
Shrinks ==
  /\ LinesOf(wire') \subseteq LinesOf(wire) /\ Current' \subseteq Current
  /\ LinesOf(queue') \subseteq LinesOf(queue) /\ LinesOf(todo') \subseteq LinesOf(todo)
  /\ Rising(wire)' /\ Rising(queue)' /\ Rising(todo)'
  /\ UNCHANGED <<injected, pointer>>

LEMMA ShrinksOrder ==
  ASSUME Order, Shrinks
  PROVE  Order' /\ Pending' \subseteq Pending
<1>1. Pending' \subseteq Pending
  BY DEF Shrinks, Pending
<1>2. UNCHANGED LastNumber /\ UNCHANGED pointer
  BY DEF Shrinks, LastNumber
<1>3. \A l \in Pending' : LastNumber' < Number(l)
  BY <1>1, <1>2 DEF Order
<1>4. /\ Before(LinesOf(wire), Current \cup LinesOf(queue) \cup LinesOf(todo))'
      /\ Before(Current, LinesOf(queue) \cup LinesOf(todo))'
      /\ Before(LinesOf(queue), LinesOf(todo))'
  BY DEF Order, Shrinks, Before
<1> QED
  BY <1>1, <1>2, <1>3, <1>4 DEF Order, Shrinks

LEMMA PassesTold ==
  ASSUME Told, Passes
  PROVE  Told'
<1>1. UNCHANGED LastNumber /\ UNCHANGED <<events, held, primary>>
  BY DEF Passes, LastNumber
<1> QED
  BY <1>1 DEF Told, Passes

LEMMA PassesAim ==
  ASSUME Aim, Passes
  PROVE  Aim'
<1>1. \A e : AimedAt(e) => AimedAt(e)'
  <2>1. ASSUME NEW e, AimedAt(e) PROVE AimedAt(e)'
    <3>1. CASE pointer = e \/ e \in lost
      BY <3>1 DEF AimedAt, Passes
    <3>2. ASSUME NEW s \in Sessions, s < session, hand[s] = Move(e) PROVE AimedAt(e)'
      <4>1. Gone(Move(e)) /\ Move(e).kind \in PointerKinds /\ Move(e).event = e
        BY <3>2 DEF Passes, Move, PointerKinds
      <4> QED
        BY <4>1 DEF Gone, AimedAt
    <3> QED
      BY <2>1, <3>1, <3>2 DEF AimedAt
  <2> QED
    BY <2>1
<1>2. ASSUME NEW l \in Pending', l.kind = "press"
      PROVE  AimedAt(l.event)' \/ Move(l.event) \in Pending'
  <2>1. AimedAt(l.event) \/ Move(l.event) \in Pending
    BY <1>2 DEF Aim, Passes
  <2>2. ASSUME Move(l.event) \in Pending \ Pending' PROVE AimedAt(l.event)'
    <3>1. Move(l.event).kind \in PointerKinds /\ Move(l.event).event = l.event
      BY DEF Move, PointerKinds
    <3>2. ~Replaced(Move(l.event))
      BY <1>2, <3>1 DEF Replaced
    <3>3. Gone(Move(l.event))
      BY <2>2, <3>2 DEF Passes
    <3> QED
      BY <3>1, <3>3 DEF Gone, AimedAt
  <2> QED
    BY <1>1, <2>1, <2>2
<1>3. injected.kind = "press" => AimedAt(injected.event)'
  <2>1. injected.kind = "press" => AimedAt(injected.event)
    BY DEF Aim
  <2>2. AimedAt(injected.event) => AimedAt(injected.event)'
    <3>1. injected' = injected
      BY DEF Passes
    <3> QED
      BY <1>1, <3>1 DEF AimedAt
  <2> QED
    BY <2>1, <2>2
<1>4. (injected.kind = "press" => AimedAt(injected.event))'
  <2>1. injected' = injected
    BY DEF Passes
  <2> QED
    BY <1>3, <2>1 DEF AimedAt
<1> QED
  BY <1>2, <1>4 DEF Aim

LEMMA PassesMirror ==
  ASSUME Mirror, Passes
  PROVE  Mirror'
<1> SUFFICES ASSUME Intact'
             PROVE  /\ held' = touch'
                    /\ PendingChanges' = {} => button' = touch'
                    /\ PendingChanges' # {} =>
                         \E l \in PendingChanges' :
                           /\ \A m \in PendingChanges' : m.event <= l.event
                           /\ (l.kind = "press") = touch'
  BY DEF Mirror
<1>1. \A l : Gone(l) => l.kind \notin PointerKinds
  BY DEF Gone, Intact
<1>2. Intact
  BY <1>1 DEF Intact, Passes
<1>3. PendingChanges' = PendingChanges
  <2>1. PendingChanges' \subseteq PendingChanges
    BY DEF PendingChanges, Passes
  <2>2. \A l \in PendingChanges : l.kind \in PointerKinds
    BY DEF PendingChanges, Changes, PointerKinds
  <2>3. PendingChanges \subseteq PendingChanges'
    <3>1. \A l \in PendingChanges : ~Replaced(l)
      BY DEF PendingChanges, Changes, Replaced
    <3> QED
      BY <1>1, <2>2, <3>1 DEF PendingChanges, Passes
  <2> QED
    BY <2>1, <2>3
<1>4. UNCHANGED <<held, touch, button>>
  BY DEF Passes
<1> QED
  BY <1>2, <1>3, <1>4 DEF Mirror

LEMMA LoseFacts ==
  ASSUME FlowTypes, NEW S, S \subseteq Line, Lose(S)
  PROVE  /\ lost \subseteq lost' /\ lost' \subseteq 1..LastEvent
         /\ \A l \in S : Gone(l)
<1>1. \A l \in S : l.event \in 1..LastEvent
  BY DEF Line
<1> QED
  BY <1>1 DEF Lose, Gone, PointerKinds, FlowTypes

\* What stays in the same hand is still there.
LEMMA HandsStay ==
  ASSUME UNCHANGED <<hand, session>>
  PROVE  Current' = Current /\ \A s \in Sessions : s < session => Gone(hand[s])
BY DEF Current, Gone

LEMMA TypesStay ==
  ASSUME FlowTypes, UNCHANGED <<events, pointer, hand, injected>>,
         sender' = Woken \/ UNCHANGED sender,
         sender \in [Sessions -> SenderStates],
         todo' \in Seq(Line), queue' \in Seq(Line), wire' \in Seq(Line),
         Len(queue') <= QueueCap,
         lost' \subseteq 1..LastEvent
  PROVE  FlowTypes'
<1>1. \A s \in Sessions : sender'[s] = "write" <=> sender[s] = "write"
  BY DEF Woken
<1> QED
  BY <1>1 DEF FlowTypes

\* A head line or a whole queue is lost; nothing else moves.
LEMMA DropsFlow ==
  ASSUME FlowInv, sender \in [Sessions -> SenderStates],
         UNCHANGED <<events, touch, primary, held, injected, pointer, button,
                     hand, session>>,
         sender' = Woken \/ UNCHANGED sender,
         NEW S, S \subseteq Line, Lose(S), Pending \ Pending' \subseteq S,
         todo' \in Seq(Line), queue' \in Seq(Line), wire' \in Seq(Line),
         Len(queue') <= QueueCap,
         Shrinks, tested' => todo' # <<>>
  PROVE  FlowInv'
<1>1. /\ lost \subseteq lost' /\ lost' \subseteq 1..LastEvent
      /\ \A l \in S : Gone(l)
  BY LoseFacts DEF FlowInv
<1>2. FlowTypes'
  BY <1>1, TypesStay DEF FlowInv
<1>3. Order' /\ Pending' \subseteq Pending
  BY ShrinksOrder DEF FlowInv
<1>4. Passes
  BY <1>1, <1>3, HandsStay DEF Passes, Shrinks
<1> QED
  BY <1>2, <1>3, <1>4, PassesTold, PassesAim, PassesMirror DEF FlowInv

LEMMA Doubled ==
  ASSUME NEW a \in Int, NEW b \in Int, NEW c \in Int, a <= b, c <= 2 * a
  PROVE  c <= 2 * b
OBVIOUS

\* No line moves.
LEMMA IdleFlow ==
  ASSUME FlowInv,
         UNCHANGED <<touch, primary, held, injected, pointer, button, hand, session,
                     todo, queue, wire, lost>>,
         \A s \in Sessions : sender'[s] = "write" <=> sender[s] = "write",
         tested' => todo # <<>>,
         events' \in events .. LastEvent, events' = events \/ todo = <<>>
  PROVE  FlowInv'
<1>1. Pending' = Pending /\ Current' = Current
  BY DEF Pending, Current
<1>2. FlowTypes'
  <2>1. events \in 0 .. LastEvent
    BY DEF FlowInv, FlowTypes
  <2>2. events' \in 0 .. LastEvent
    BY <2>1, InputAssumption
  <2> QED
    BY <2>2 DEF FlowInv, FlowTypes
<1>3. Told'
  <2>1. \A l \in Pending : l.event \in Nat
    <3>1. \A s \in Sessions : hand[s] = NoLine \/ hand[s] \in Line
      BY DEF FlowInv, FlowTypes
    <3>2. Pending \subseteq Line
      BY <3>1 DEF FlowInv, FlowTypes, Pending, Current, LinesOf
    <3> QED
      BY <3>2, NumberOf
  <2>2. LastNumber \in Int
    BY NumberOf DEF FlowInv, FlowTypes, LastNumber
  <2>3. LastNumber' = LastNumber
    BY DEF LastNumber
  <2>4. events \in Int /\ events' \in Int /\ events <= events'
    BY InputAssumption DEF FlowInv, FlowTypes
  <2>5. \A l \in LinesOf(todo) : l.event = events'
    BY DEF FlowInv, Told, LinesOf
  <2>6. /\ \A l \in Pending : l.event <= events
        /\ LastNumber <= 2 * events
        /\ held \in BOOLEAN /\ primary = held
    BY DEF FlowInv, Told
  <2>7. /\ \A l \in Pending' : l.event <= events'
        /\ LastNumber' <= 2 * events'
    <3>1. ASSUME NEW l \in Pending PROVE l.event <= events'
      BY <2>1, <2>4, <2>6
    <3>2. LastNumber <= 2 * events'
      <4>1. LastNumber <= 2 * events
        BY <2>6
      <4> QED
        BY <2>2, <2>4, <4>1, Doubled
    <3> QED
      BY <1>1, <2>3, <3>1, <3>2
  <2> QED
    BY <2>5, <2>6, <2>7 DEF Told
<1>4. Order'
  BY <1>1 DEF FlowInv, Order, LastNumber
<1>5. Aim'
  BY <1>1 DEF FlowInv, Aim, AimedAt
<1>6. Mirror'
  BY <1>1 DEF FlowInv, Mirror, Intact, PendingChanges
<1> QED
  BY <1>2, <1>3, <1>4, <1>5, <1>6 DEF FlowInv

LEMMA LineTypes ==
  ASSUME FlowTypes
  PROVE  Pending \subseteq Line /\ Current \subseteq Line
<1>1. \A s \in Sessions : hand[s] = NoLine \/ hand[s] \in Line
  BY DEF FlowTypes
<1> QED
  BY <1>1 DEF FlowTypes, Pending, Current, LinesOf

-----------------------------------------------------------------------------
(* The UI thread *)

LEMMA TestFlow == FlowInv /\ WaitInv /\ TestOpen => FlowInv'
<1> SUFFICES ASSUME FlowInv, WaitInv, TestOpen PROVE FlowInv'
  OBVIOUS
<1>1. /\ todo # <<>> /\ ~tested
      /\ UNCHANGED <<events, touch, primary, held, injected, pointer, button, hand,
                     session, sender, queue, wire>>
  BY DEF TestOpen, workerVars, senderVars, hostVars
<1>2. CASE open
  BY <1>1, <1>2, IdleFlow DEF TestOpen, FlowInv, FlowTypes
<1>3. CASE ~open
  <2>1. todo' = Tail(todo) /\ Lose({Head(todo)}) /\ UNCHANGED tested
    BY <1>3 DEF TestOpen
  <2>2. /\ todo \in Seq(Line) /\ queue' \in Seq(Line) /\ wire' \in Seq(Line)
        /\ Order /\ Len(queue') <= QueueCap
    BY <1>1 DEF FlowInv, FlowTypes
  <2>3. /\ todo' \in Seq(Line) /\ Head(todo) \in Line
        /\ LinesOf(todo) = {Head(todo)} \cup LinesOf(todo')
        /\ Rising(todo')
    BY <1>1, <2>1, <2>2, TailLines DEF Order
  <2>4. Current' = Current
    BY <1>1 DEF Current
  <2>5. Shrinks
    BY <1>1, <2>2, <2>3, <2>4 DEF Shrinks, Order
  <2>6. Pending \ Pending' \subseteq {Head(todo)}
    BY <1>1, <2>3, <2>4 DEF Pending
  <2>7. tested' => todo' # <<>>
    BY <1>1, <2>1
  <2> QED
    BY <1>1, <2>1, <2>2, <2>3, <2>5, <2>6, <2>7, DropsFlow DEF WaitInv, WorkerTypes
<1> QED
  BY <1>2, <1>3

\* A move that gives way to a newer one has no press behind it any more.
LEMMA EnqueueFlow == FlowInv /\ WaitInv /\ Enqueue => FlowInv'
<1> SUFFICES ASSUME FlowInv, WaitInv, Enqueue PROVE FlowInv'
  OBVIOUS
<1> DEFINE x == Head(todo)
           q == Coalesce(queue, x)
           S == LinesOf(q) \ LinesOf(queue')
<1>1. /\ tested /\ tested' = FALSE /\ todo' = Tail(todo) /\ sender' = Woken
      /\ UNCHANGED <<events, touch, primary, held, injected, pointer, button, hand,
                     session, wire>>
      /\ queue' = Limited(q) /\ Lose(S)
  BY DEF Enqueue, workerVars, hostVars
<1>2. /\ FlowTypes /\ Told /\ Order /\ Aim /\ Mirror
      /\ todo \in Seq(Line) /\ queue \in Seq(Line) /\ wire \in Seq(Line)
      /\ Len(queue) <= QueueCap /\ todo # <<>>
  BY <1>1 DEF FlowInv, FlowTypes, Told
<1>3. /\ todo' \in Seq(Line) /\ x \in Line
      /\ LinesOf(todo) = {x} \cup LinesOf(todo')
      /\ Rising(todo') /\ Before({x}, LinesOf(todo'))
  BY <1>1, <1>2, TailLines DEF Order
<1>4. Before(LinesOf(queue), {x})
  BY <1>2, <1>3 DEF Order, Before
<1>5. /\ q \in Seq(Line) /\ Len(q) <= Len(queue) + 1 /\ Rising(q)
      /\ LinesOf(q) \subseteq LinesOf(queue) \cup {x}
      /\ \A l \in LinesOf(queue) \ LinesOf(q) :
           /\ l.kind = "move" /\ x.kind = "move"
           /\ \A m \in LinesOf(queue) : m = l \/ Number(m) < Number(l)
      /\ x \in LinesOf(q)
  BY <1>2, <1>3, <1>4, CoalesceLines DEF Order
<1>6. Len(q) <= QueueCap + 1
  BY <1>2, <1>5, InputAssumption
<1>7. /\ queue' \in Seq(Line) /\ Len(queue') <= QueueCap /\ Rising(queue')
      /\ LinesOf(queue') \subseteq LinesOf(q)
  BY <1>1, <1>5, <1>6, LimitedLines
<1>8. Current' = Current /\ wire' = wire
  BY <1>1 DEF Current
<1> HIDE DEF x, q
<1>9. S \subseteq Line
  BY <1>5 DEF LinesOf
<1>10. /\ lost \subseteq lost' /\ lost' \subseteq 1..LastEvent
       /\ \A l \in S : Gone(l)
  BY <1>1, <1>2, <1>9, LoseFacts
<1>11. FlowTypes'
  BY <1>1, <1>2, <1>3, <1>7, <1>10, TypesStay DEF WaitInv, WorkerTypes
<1>12. LinesOf(queue') \subseteq LinesOf(queue) \cup {x} /\ Pending' \subseteq Pending
  BY <1>3, <1>5, <1>7, <1>8 DEF Pending
<1>13. Order'
  <2>1. LastNumber' = LastNumber /\ pointer' = pointer
    BY <1>1 DEF LastNumber
  <2>2. \A l \in Pending' : LastNumber' < Number(l)
    BY <1>2, <1>12, <2>1 DEF Order
  <2>3. Before(LinesOf(wire), Current \cup LinesOf(queue) \cup LinesOf(todo))'
    BY <1>2, <1>3, <1>8, <1>12 DEF Order, Before
  <2>4. Before(Current, LinesOf(queue) \cup LinesOf(todo))'
    BY <1>2, <1>3, <1>8, <1>12 DEF Order, Before
  <2>5. Before(LinesOf(queue), LinesOf(todo))'
    BY <1>2, <1>3, <1>12 DEF Order, Before
  <2>6. Rising(wire)' /\ Rising(queue)' /\ Rising(todo)'
    BY <1>2, <1>3, <1>7, <1>8 DEF Order
  <2> QED
    BY <1>2, <2>1, <2>2, <2>3, <2>4, <2>5, <2>6 DEF Order
<1>14. \A l \in Pending \ Pending' : Gone(l) \/ Replaced(l)
  <2>1. ASSUME NEW l \in Pending \ Pending' PROVE Gone(l) \/ Replaced(l)
    <3>1. l \in LinesOf(queue) \cup {x}
      BY <1>3, <1>8 DEF Pending
    <3>2. CASE l \in S
      BY <1>10, <3>2
    <3>3. CASE l \notin S
      <4>1. l \notin LinesOf(queue')
        BY DEF Pending
      <4>2. l \in LinesOf(queue) \ LinesOf(q)
        BY <1>5, <3>1, <3>3, <4>1
      <4>3. l.kind = "move" /\ \A m \in LinesOf(queue) : m = l \/ Number(m) < Number(l)
        BY <1>5, <4>2
      <4>4. l \in Line /\ Number(l) = 2 * l.event - 1 /\ l.event \in Nat
        <5>1. l \in Line
          BY <1>2, <4>2 DEF LinesOf
        <5> QED
          BY <4>3, <5>1, NumberOf
      <4>5. ASSUME NEW m \in Pending', m.kind = "press", m.event = l.event PROVE FALSE
        <5>1. m \in Pending /\ m \in Line
          BY <1>2, <1>12, LineTypes
        <5>2. Number(m) = 2 * l.event
          BY <4>5, <5>1, NumberOf
        <5>3. CASE m \in LinesOf(wire) \cup Current
          <6>1. Number(m) < Number(l)
            BY <1>2, <4>2, <5>3 DEF Order, Before
          <6> QED
            BY <4>4, <5>2, <6>1
        <5>4. CASE m \in LinesOf(queue)
          <6>1. m = l \/ Number(m) < Number(l)
            BY <4>3, <5>4
          <6> QED
            BY <4>3, <4>4, <4>5, <5>2, <6>1
        <5>5. CASE m \in LinesOf(todo)
          <6>1. m.event = events /\ x.event = events
            BY <1>2, <1>3, <5>5 DEF Told
          <6>2. x.kind = "move" /\ Number(x) = 2 * x.event - 1
            BY <1>3, <1>5, <4>2, NumberOf
          <6>3. Number(l) < Number(x)
            BY <1>4, <4>2 DEF Before
          <6> QED
            BY <4>4, <4>5, <6>1, <6>2, <6>3
        <5> QED
          BY <5>1, <5>3, <5>4, <5>5 DEF Pending
      <4> QED
        BY <4>3, <4>5 DEF Replaced
    <3> QED
      BY <3>2, <3>3
  <2> QED
    BY <2>1
<1>15. Passes
  <2>1. \A s \in Sessions : s < session => Gone(hand[s])
    BY <1>1, HandsStay
  <2> QED
    BY <1>1, <1>3, <1>10, <1>12, <1>14, <2>1 DEF Passes
<1> QED
  BY <1>2, <1>11, <1>13, <1>15, PassesTold, PassesAim, PassesMirror DEF FlowInv

LEMMA SameSequence ==
  ASSUME NEW S, NEW q \in Seq(S), NEW r \in Seq(S), Len(q) = Len(r),
         \A i \in 1 .. Len(q) : q[i] = r[i]
  PROVE  q = r
OBVIOUS

LEMMA Pair ==
  ASSUME NEW a \in Kinds, NEW b \in Kinds
  PROVE  <<>> \o <<a>> \o <<b>> = <<a, b>>
<1> DEFINE q == <<>> \o <<a>>
           r == q \o <<b>>
           t == <<a, b>>
<1>1. q = <<a>>
  OBVIOUS
<1> HIDE DEF q
<1>2. r \in Seq(Kinds) /\ Len(r) = 2 /\ r[1] = a /\ r[2] = b
  BY <1>1
<1>3. t \in Seq(Kinds) /\ Len(t) = 2 /\ t[1] = a /\ t[2] = b
  OBVIOUS
<1>4. r = t
  <2> HIDE DEF r, t
  <2>1. \A i \in 1 .. Len(r) : r[i] = t[i]
    BY <1>2, <1>3
  <2> QED
    BY <1>2, <1>3, <2>1, SameSequence
<1> QED
  BY <1>4 DEF q

\* What LineKinds makes of an action: a press follows its position.
LEMMA KindsOf ==
  ASSUME NEW action \in ActionKinds, NEW stepped \in BOOLEAN,
         held \in BOOLEAN, primary = held
  PROVE  /\ Primary(action) \in BOOLEAN
         /\ \/ /\ Primary(action) = held
               /\ LineKinds(action, stepped) \in
                    {<<>>, <<"scroll">>, <<"move">>, <<"keydown", "keyup">>}
            \/ /\ Primary(action) /\ ~held
               /\ LineKinds(action, stepped) = <<"move", "press">>
            \/ /\ ~Primary(action) /\ held
               /\ LineKinds(action, stepped) \in {<<"move", "release">>, <<"release">>}
<1> DEFINE scroll == IF action = "SCROLL" /\ stepped THEN <<"scroll">> ELSE <<>>
           move == IF action \in {"DOWN", "MOVE", "UP"} THEN <<"move">> ELSE <<>>
           change == CASE Primary(action) /\ ~held -> <<"press">>
                       [] held /\ ~Primary(action) -> <<"release">>
                       [] OTHER -> <<>>
<1>1. LineKinds(action, stepped) =
        IF action = "TEXT" THEN <<"keydown", "keyup">> ELSE scroll \o move \o change
  BY DEF LineKinds
<1>2. CASE action = "DOWN"
  <2>1. Primary(action) = TRUE /\ scroll = <<>> /\ move = <<"move">>
    BY <1>2 DEF Primary
  <2>2. CASE held
    <3>1. change = <<>>
      BY <2>1, <2>2
    <3>2. scroll \o move \o change = <<"move">>
      <4> HIDE DEF scroll, move, change
      <4> QED
        BY <2>1, <3>1
    <3> QED
      BY <1>1, <1>2, <2>1, <2>2, <3>2
  <2>3. CASE ~held
    <3>1. change = <<"press">>
      BY <2>1, <2>3
    <3>2. scroll \o move \o change = <<"move", "press">>
      <4> HIDE DEF scroll, move, change
      <4> QED
        BY <2>1, <3>1, Pair DEF Kinds
    <3> QED
      BY <1>1, <1>2, <2>1, <2>3, <3>2
  <2> QED
    BY <2>2, <2>3
<1>3. CASE action = "UP"
  <2>1. Primary(action) = FALSE /\ scroll = <<>> /\ move = <<"move">>
    BY <1>3 DEF Primary
  <2>2. CASE ~held
    <3>1. change = <<>>
      BY <2>1, <2>2
    <3>2. scroll \o move \o change = <<"move">>
      <4> HIDE DEF scroll, move, change
      <4> QED
        BY <2>1, <3>1
    <3> QED
      BY <1>1, <1>3, <2>1, <2>2, <3>2
  <2>3. CASE held
    <3>1. change = <<"release">>
      BY <2>1, <2>3
    <3>2. scroll \o move \o change = <<"move", "release">>
      <4> HIDE DEF scroll, move, change
      <4> QED
        BY <2>1, <3>1, Pair DEF Kinds
    <3> QED
      BY <1>1, <1>3, <2>1, <2>3, <3>2
  <2> QED
    BY <2>2, <2>3
<1>4. CASE action = "CANCEL"
  <2>1. Primary(action) = FALSE /\ scroll = <<>> /\ move = <<>>
    BY <1>4 DEF Primary
  <2>2. CASE ~held
    <3>1. change = <<>>
      BY <2>1, <2>2
    <3>2. scroll \o move \o change = <<>>
      <4> HIDE DEF scroll, move, change
      <4> QED
        BY <2>1, <3>1
    <3> QED
      BY <1>1, <1>4, <2>1, <2>2, <3>2
  <2>3. CASE held
    <3>1. change = <<"release">>
      BY <2>1, <2>3
    <3>2. scroll \o move \o change = <<"release">>
      <4> HIDE DEF scroll, move, change
      <4> QED
        BY <2>1, <3>1
    <3> QED
      BY <1>1, <1>4, <2>1, <2>3, <3>2
  <2> QED
    BY <2>2, <2>3
<1>5. CASE action \in {"MOVE", "SCROLL", "TOGGLE", "TEXT"}
  <2>1. Primary(action) = held
    BY <1>5 DEF Primary
  <2>2. change = <<>>
    BY <2>1
  <2>3. CASE action = "TEXT"
    BY <1>1, <2>1, <2>3
  <2>4. CASE action = "MOVE"
    <3>1. scroll = <<>> /\ move = <<"move">>
      BY <2>4
    <3>2. scroll \o move \o change = <<"move">>
      <4> HIDE DEF scroll, move, change
      <4> QED
        BY <2>2, <3>1
    <3> QED
      BY <1>1, <2>1, <2>4, <3>2
  <2>5. CASE action = "SCROLL" /\ stepped
    <3>1. scroll = <<"scroll">> /\ move = <<>>
      BY <2>5
    <3>2. scroll \o move \o change = <<"scroll">>
      <4> HIDE DEF scroll, move, change
      <4> QED
        BY <2>2, <3>1
    <3> QED
      BY <1>1, <2>1, <2>5, <3>2
  <2>6. CASE (action = "SCROLL" /\ ~stepped) \/ action = "TOGGLE"
    <3>1. scroll = <<>> /\ move = <<>>
      BY <2>6
    <3>2. scroll \o move \o change = <<>>
      <4> HIDE DEF scroll, move, change
      <4> QED
        BY <2>2, <3>1
    <3> QED
      BY <1>1, <2>1, <2>6, <3>2
  <2> QED
    BY <1>5, <2>3, <2>4, <2>5, <2>6
<1> QED
  BY <1>2, <1>3, <1>4, <1>5 DEF ActionKinds

LinesFor(kinds, e) == [i \in DOMAIN kinds |-> [kind |-> kinds[i], event |-> e]]

\* The lines of one event, in the order of their numbers.
LEMMA LinesFrom ==
  ASSUME NEW e \in 1..LastEvent,
         NEW kinds \in {<<>>, <<"scroll">>, <<"move">>, <<"keydown", "keyup">>,
                        <<"move", "press">>, <<"move", "release">>, <<"release">>}
  PROVE  /\ LinesFor(kinds, e) \in Seq(Line) /\ Rising(LinesFor(kinds, e))
         /\ LinesOf(LinesFor(kinds, e)) =
              {[kind |-> kinds[i], event |-> e] : i \in DOMAIN kinds}
<1> DEFINE q == LinesFor(kinds, e)
<1>1. /\ kinds \in Seq(Kinds) /\ Len(kinds) \in 0..2 /\ DOMAIN kinds = 1 .. Len(kinds)
      /\ Len(kinds) = 2 => /\ kinds[1] \notin {"press", "release", "keyup"}
                           /\ kinds[2] \in {"press", "release", "keyup"}
  <2>1. CASE kinds = <<>>
    BY <2>1
  <2>2. ASSUME NEW k \in {"scroll", "move", "release"}, kinds = <<k>>
        PROVE  /\ kinds \in Seq(Kinds) /\ Len(kinds) = 1
               /\ DOMAIN kinds = 1 .. Len(kinds)
    BY <2>2 DEF Kinds
  <2>3. CASE kinds = <<"keydown", "keyup">>
    BY <2>3 DEF Kinds
  <2>4. CASE kinds = <<"move", "press">>
    BY <2>4 DEF Kinds
  <2>5. CASE kinds = <<"move", "release">>
    BY <2>5 DEF Kinds
  <2> QED
    BY <2>1, <2>2, <2>3, <2>4, <2>5
<1>2. \A i \in DOMAIN kinds : [kind |-> kinds[i], event |-> e] \in Line
  BY <1>1 DEF Line
<1>3. q \in Seq(Line)
  BY <1>1, <1>2 DEF LinesFor
<1>4. DOMAIN q = DOMAIN kinds /\ \A i \in DOMAIN q : q[i] = [kind |-> kinds[i], event |-> e]
  BY DEF LinesFor
<1>5. LinesOf(q) = {[kind |-> kinds[i], event |-> e] : i \in DOMAIN kinds}
  BY <1>4 DEF LinesOf
<1> HIDE DEF q
<1>6. ASSUME NEW i \in DOMAIN q, NEW j \in DOMAIN q, i < j
      PROVE  Number(q[i]) < Number(q[j])
  <2>1. i = 1 /\ j = 2 /\ Len(kinds) = 2
    BY <1>1, <1>4, <1>6
  <2>2. q[i].kind = kinds[1] /\ q[j].kind = kinds[2] /\ q[i].event = e /\ q[j].event = e
    <3>1. /\ q[i] = [kind |-> kinds[i], event |-> e]
          /\ q[j] = [kind |-> kinds[j], event |-> e]
      BY <1>4
    <3> QED
      BY <2>1, <3>1
  <2>3. Number(q[i]) = 2 * e - 1 /\ Number(q[j]) = 2 * e
    BY <1>1, <2>1, <2>2, InputAssumption DEF Number
  <2> QED
    BY <2>3, InputAssumption
<1> QED
  BY <1>3, <1>5, <1>6 DEF Rising, q

\* What is on its way before an event has smaller numbers than its lines.
LEMMA NewerLines ==
  ASSUME FlowInv, NEW m \in Line, m.event = events + 1
  PROVE  /\ \A l \in Pending : Number(l) < Number(m) /\ l.event < m.event
         /\ LastNumber < Number(m)
<1>1. events \in Nat /\ m.event = events + 1 /\ Number(m) \in Nat
      /\ 2 * m.event - 1 <= Number(m)
  BY NumberOf, InputAssumption DEF FlowInv, FlowTypes
<1>2. ASSUME NEW l \in Pending PROVE Number(l) < Number(m) /\ l.event < m.event
  <2>1. l \in Line /\ l.event <= events
    BY LineTypes DEF FlowInv, Told
  <2>2. l.event \in Nat /\ Number(l) \in Nat /\ Number(l) <= 2 * l.event
    BY <2>1, NumberOf
  <2> QED
    BY <1>1, <2>1, <2>2
<1>3. LastNumber < Number(m)
  <2>1. LastNumber \in Int /\ LastNumber <= 2 * events
    BY NumberOf DEF FlowInv, FlowTypes, Told, LastNumber
  <2> QED
    BY <1>1, <2>1
<1> QED
  BY <1>2, <1>3

LEMMA CapturedFlow ==
  ASSUME FlowInv, NEW action \in Actions, Event(action), Captured(action)
  PROVE  FlowInv'
<1> DEFINE e == events + 1
<1>1. /\ events < LastEvent /\ todo = <<>> /\ events' = e
      /\ touch' = (action = "DOWN" \/ (touch /\ action \notin {"UP", "CANCEL"}))
      /\ UNCHANGED <<tested, session, queue, sender, hand, wire, injected, pointer,
                     button, lost>>
      /\ primary' = Primary(action) /\ held' = Primary(action)
      /\ action \in ActionKinds
  BY InputAssumption
     DEF Event, workerVars, senderVars, hostVars
<1>2. PICK stepped \in BOOLEAN :
        todo' = [i \in DOMAIN LineKinds(action, stepped) |->
                   [kind |-> LineKinds(action, stepped)[i], event |-> events']]
  BY DEF Event
<1> DEFINE kinds == LineKinds(action, stepped)
<1>3. /\ FlowTypes /\ Told /\ Order /\ Aim /\ Mirror
      /\ held \in BOOLEAN /\ primary = held /\ events \in Nat /\ e \in 1..LastEvent
  BY <1>1, InputAssumption DEF FlowInv, FlowTypes, Told
<1>4. /\ Primary(action) \in BOOLEAN
      /\ \/ /\ Primary(action) = held
            /\ kinds \in {<<>>, <<"scroll">>, <<"move">>, <<"keydown", "keyup">>}
         \/ /\ Primary(action) /\ ~held
            /\ kinds = <<"move", "press">>
         \/ /\ ~Primary(action) /\ held
            /\ kinds \in {<<"move", "release">>, <<"release">>}
  BY <1>1, <1>3, KindsOf
<1>5. todo' = [i \in DOMAIN kinds |-> [kind |-> kinds[i], event |-> e]]
  BY <1>1, <1>2
<1> HIDE DEF kinds, e
<1>6. /\ todo' \in Seq(Line) /\ Rising(todo')
      /\ LinesOf(todo') = {[kind |-> kinds[i], event |-> e] : i \in DOMAIN kinds}
  <2>1. kinds \in {<<>>, <<"scroll">>, <<"move">>, <<"keydown", "keyup">>,
                   <<"move", "press">>, <<"move", "release">>, <<"release">>}
    BY <1>4
  <2>2. todo' = LinesFor(kinds, e)
    BY <1>5 DEF LinesFor
  <2> QED
    BY <1>3, <2>1, <2>2, LinesFrom
<1>7. /\ \A l \in LinesOf(todo') : l \in Line /\ l.event = e
      /\ \A l \in LinesOf(todo') : \E i \in DOMAIN kinds : l.kind = kinds[i]
  BY <1>6 DEF LinesOf
<1>8. LinesOf(todo) = {} /\ Current' = Current
  <2>1. LinesOf(<<>>) = {}
    BY DEF LinesOf
  <2> QED
    BY <1>1, <2>1 DEF Current
<1>9. Pending' = Pending \cup LinesOf(todo')
  BY <1>1, <1>8 DEF Pending
<1>10. \A m \in LinesOf(todo') :
         /\ \A l \in Pending : Number(l) < Number(m) /\ l.event < m.event
         /\ LastNumber < Number(m)
  BY <1>7, NewerLines DEF e
<1>11. LastNumber' = LastNumber
  BY <1>1 DEF LastNumber
<1>12. FlowTypes'
  <2>1. events' \in 0..LastEvent
    BY <1>1, <1>3, InputAssumption
  <2> QED
    BY <1>1, <1>3, <1>6, <2>1 DEF FlowTypes
<1>13. Told'
  <2>1. \A l \in Pending : l.event \in Nat /\ l.event <= events
    BY <1>3, LineTypes, NumberOf DEF Told
  <2>2. events' = events + 1
    BY <1>1 DEF e
  <2>3. \A l \in Pending' : l.event <= events'
    <3>1. ASSUME NEW l \in Pending' PROVE l.event <= events'
      <4>1. CASE l \in Pending
        BY <1>3, <2>1, <2>2, <4>1
      <4>2. CASE l \in LinesOf(todo')
        BY <1>1, <1>3, <1>7, <4>2, InputAssumption DEF e
      <4> QED
        BY <1>9, <4>1, <4>2
    <3> QED
      BY <3>1
  <2>4. LastNumber' <= 2 * events'
    <3>1. LastNumber \in Int /\ LastNumber <= 2 * events
      BY <1>3, NumberOf DEF FlowTypes, Told, LastNumber
    <3>2. events \in Int /\ events' \in Int /\ events <= events'
      BY <1>3, <2>2
    <3> QED
      BY <1>11, <3>1, <3>2, Doubled
  <2>5. held' \in BOOLEAN /\ primary' = held'
    BY <1>1, <1>4
  <2>6. tested' => todo' # <<>>
    BY <1>1, <1>3 DEF Told
  <2> QED
    BY <1>1, <1>7, <2>3, <2>4, <2>5, <2>6 DEF Told
<1>14. Order'
  <2>1. \A l \in Pending' : LastNumber' < Number(l)
    BY <1>3, <1>9, <1>10, <1>11 DEF Order
  <2>2. Before(Pending, LinesOf(todo'))
    BY <1>10 DEF Before
  <2>3. LinesOf(wire) \subseteq Pending /\ Current \subseteq Pending
        /\ LinesOf(queue) \subseteq Pending
    BY DEF Pending
  <2>4. Before(LinesOf(wire), Current \cup LinesOf(queue) \cup LinesOf(todo))'
    BY <1>1, <1>3, <1>8, <2>2, <2>3 DEF Order, Before
  <2>5. Before(Current, LinesOf(queue) \cup LinesOf(todo))'
    BY <1>1, <1>3, <1>8, <2>2, <2>3 DEF Order, Before
  <2>6. Before(LinesOf(queue), LinesOf(todo))'
    BY <1>1, <2>2, <2>3 DEF Before
  <2>7. Rising(wire)' /\ Rising(queue)' /\ Rising(todo)' /\ 2 * pointer' - 1 <= LastNumber'
    BY <1>1, <1>3, <1>6, <1>11 DEF Order
  <2> QED
    BY <2>1, <2>4, <2>5, <2>6, <2>7 DEF Order
<1>15. Aim'
  <2>1. \A n : AimedAt(n)' <=> AimedAt(n)
    BY <1>1 DEF AimedAt
  <2>2. ASSUME NEW l \in Pending', l.kind = "press"
        PROVE  AimedAt(l.event)' \/ Move(l.event) \in Pending'
    <3>1. CASE l \in Pending
      BY <1>3, <1>9, <2>1, <2>2, <3>1 DEF Aim
    <3>2. CASE l \in LinesOf(todo')
      <4>1. kinds = <<"move", "press">>
        BY <1>4, <1>7, <2>2, <3>2
      <4>2. [kind |-> kinds[1], event |-> e] \in LinesOf(todo') /\ kinds[1] = "move"
        BY <1>6, <4>1
      <4> QED
        BY <1>7, <1>9, <3>2, <4>2 DEF Move
    <3> QED
      BY <1>9, <3>1, <3>2
  <2>3. (injected.kind = "press" => AimedAt(injected.event))'
    BY <1>1, <1>3 DEF Aim, AimedAt
  <2> QED
    BY <2>2, <2>3 DEF Aim
<1>16. Mirror'
  <2> SUFFICES ASSUME Intact'
               PROVE  /\ held' = touch'
                      /\ PendingChanges' = {} => button' = touch'
                      /\ PendingChanges' # {} =>
                           \E l \in PendingChanges' :
                             /\ \A m \in PendingChanges' : m.event <= l.event
                             /\ (l.kind = "press") = touch'
    BY DEF Mirror
  <2>1. Intact /\ held = touch
    BY <1>1, <1>3 DEF Intact, Mirror
  <2>2. held' = touch'
    BY <1>1, <1>3, <2>1 DEF Primary, ActionKinds
  <2>3. PendingChanges' = PendingChanges \cup {l \in LinesOf(todo') : l.kind \in Changes}
    BY <1>9 DEF PendingChanges
  <2>4. CASE Primary(action) = held
    <3>1. \A i \in DOMAIN kinds : kinds[i] \notin Changes
      BY <1>4, <2>4 DEF Changes
    <3>2. PendingChanges' = PendingChanges
      BY <1>7, <2>3, <3>1
    <3>3. touch' = touch /\ button' = button
      BY <1>1, <2>1, <2>2, <2>4
    <3> QED
      BY <1>3, <2>1, <2>2, <3>2, <3>3 DEF Mirror
  <2>5. CASE Primary(action) # held
    <3> DEFINE change == IF Primary(action) THEN "press" ELSE "release"
               c == [kind |-> change, event |-> e]
    <3>1. \E i \in DOMAIN kinds : kinds[i] = change
      <4>1. CASE Primary(action) /\ ~held
        <5>1. kinds = <<"move", "press">>
          BY <1>3, <1>4, <4>1
        <5>2. 2 \in DOMAIN kinds /\ kinds[2] = "press"
          BY <5>1
        <5> QED
          BY <4>1, <5>2
      <4>2. CASE ~Primary(action) /\ held
        <5>1. kinds \in {<<"move", "release">>, <<"release">>}
          BY <1>3, <1>4, <4>2
        <5>2. CASE kinds = <<"release">>
          <6>1. 1 \in DOMAIN kinds /\ kinds[1] = "release"
            BY <5>2
          <6> QED
            BY <4>2, <6>1
        <5>3. CASE kinds = <<"move", "release">>
          <6>1. 2 \in DOMAIN kinds /\ kinds[2] = "release"
            BY <5>3
          <6> QED
            BY <4>2, <6>1
        <5> QED
          BY <5>1, <5>2, <5>3
      <4> QED
        BY <1>3, <1>4, <2>5, <4>1, <4>2
    <3>2. c \in LinesOf(todo') /\ c.kind = change /\ c.event = e /\ change \in Changes
      BY <1>6, <3>1 DEF Changes
    <3> HIDE DEF c
    <3>3. c \in PendingChanges'
      BY <2>3, <3>2
    <3>4. \A m \in PendingChanges' : m.event <= c.event
      <4>1. \A m \in Pending : m.event \in Nat /\ m.event < e
        BY <1>3, <1>7, <1>10, <3>2, LineTypes, NumberOf
      <4>2. \A m \in LinesOf(todo') : m.event = e
        BY <1>7
      <4>3. e \in Nat
        BY <1>3, InputAssumption DEF e
      <4>4. \A m \in Pending' : m.event <= e
        BY <1>9, <4>1, <4>2, <4>3
      <4> QED
        BY <3>2, <4>4 DEF PendingChanges
    <3>5. (c.kind = "press") = touch'
      BY <1>1, <1>4, <2>2, <3>2
    <3> QED
      BY <2>2, <3>3, <3>4, <3>5
  <2> QED
    BY <2>4, <2>5
<1> QED
  BY <1>12, <1>13, <1>14, <1>15, <1>16 DEF FlowInv

\* An event that the toolbar keeps from the controller counts as lost.
LEMMA IgnoredFlow ==
  ASSUME FlowInv, NEW action \in Actions, Event(action), ~Captured(action)
  PROVE  FlowInv'
<1>1. /\ events < LastEvent /\ events' = events + 1 /\ todo = <<>>
      /\ lost' = lost \cup {events'}
      /\ UNCHANGED <<todo, primary, held, tested, session, queue, sender, hand, wire,
                     injected, pointer, button>>
  BY DEF Event, workerVars, senderVars, hostVars
<1>2. Pending' = Pending /\ Current' = Current /\ LastNumber' = LastNumber
  BY <1>1 DEF Pending, Current, LastNumber
<1>3. events' \in 1..LastEvent /\ events \in Nat /\ FlowTypes
  BY <1>1, InputAssumption DEF FlowInv, FlowTypes
<1>4. FlowTypes'
  <2>1. events' \in 0..LastEvent /\ lost' \subseteq 1..LastEvent
    BY <1>1, <1>3, InputAssumption DEF FlowTypes
  <2> QED
    BY <1>1, <1>3, <2>1 DEF FlowTypes
<1>5. Told'
  <2>1. LastNumber' <= 2 * events'
    <3>1. LastNumber \in Int /\ LastNumber <= 2 * events
      BY <1>3, NumberOf DEF FlowInv, FlowTypes, Told, LastNumber
    <3>2. events \in Int /\ events' \in Int /\ events <= events'
      BY <1>1, <1>3
    <3> QED
      BY <1>2, <3>1, <3>2, Doubled
  <2>2. \A l \in Pending : l.event \in Nat /\ l.event <= events
    BY <1>3, LineTypes, NumberOf DEF FlowInv, Told
  <2>3. \A l \in Pending' : l.event <= events'
    BY <1>1, <1>2, <1>3, <2>2
  <2>4. \A l \in LinesOf(todo') : l.event = events'
    BY <1>1 DEF LinesOf
  <2> QED
    BY <1>1, <2>1, <2>3, <2>4 DEF FlowInv, Told
<1>6. Order'
  BY <1>1, <1>2 DEF FlowInv, Order
<1>7. Aim'
  <2>1. \A n : AimedAt(n) => AimedAt(n)'
    BY <1>1 DEF AimedAt
  <2>2. (injected.kind = "press" => AimedAt(injected.event))'
    BY <1>1 DEF FlowInv, Aim, AimedAt
  <2>3. \A l \in Pending' : l.kind = "press" => AimedAt(l.event)' \/ Move(l.event) \in Pending'
    BY <1>2, <2>1 DEF FlowInv, Aim
  <2> QED
    BY <2>2, <2>3 DEF Aim
<1>8. Mirror'
  BY <1>1 DEF Mirror, Intact
<1> QED
  BY <1>4, <1>5, <1>6, <1>7, <1>8 DEF FlowInv

-----------------------------------------------------------------------------
(* The worker and the senders *)

\* The queue, or what is on the wire, is lost as a whole.
LEMMA EmptyLines == LinesOf(<<>>) = {} /\ Rising(<<>>) /\ <<>> \in Seq(Line) /\ Len(<<>>) = 0
BY DEF LinesOf, Rising

LEMMA ClearFlow == FlowInv /\ WaitInv /\ (ClearOld \/ ClearQueue) => FlowInv'
<1> SUFFICES ASSUME FlowInv, WaitInv, ClearOld \/ ClearQueue PROVE FlowInv'
  OBVIOUS
<1>1. /\ UNCHANGED <<events, touch, primary, held, injected, pointer, button, hand,
                     session, todo, tested, wire>>
      /\ queue' = <<>> /\ Lose(LinesOf(queue))
      /\ sender' = Woken \/ UNCHANGED sender
  BY DEF ClearOld, ClearQueue, uiVars, senderVars, hostVars
<1>2. /\ todo' \in Seq(Line) /\ queue' \in Seq(Line) /\ wire' \in Seq(Line)
      /\ Len(queue') <= QueueCap /\ LinesOf(queue) \subseteq Line /\ Order
      /\ tested' => todo' # <<>>
  <2>1. LinesOf(queue) \subseteq Line
    BY DEF FlowInv, FlowTypes, LinesOf
  <2> QED
    BY <1>1, <2>1, EmptyLines, InputAssumption DEF FlowInv, FlowTypes, Told
<1>3. Current' = Current /\ LinesOf(queue') = {}
  BY <1>1, EmptyLines DEF Current
<1>4. Shrinks
  BY <1>1, <1>2, <1>3, EmptyLines DEF Shrinks, Order
<1>5. Pending \ Pending' \subseteq LinesOf(queue)
  BY <1>1, <1>3 DEF Pending
<1> QED
  BY <1>1, <1>2, <1>4, <1>5, DropsFlow DEF WaitInv, WorkerTypes

\* A new session: what the last sender holds is now in an old hand.
LEMMA StartFlow == FlowInv /\ WaitInv /\ Started => FlowInv'
<1> SUFFICES ASSUME FlowInv, WaitInv, Started PROVE FlowInv'
  OBVIOUS
<1>1. /\ UNCHANGED <<events, touch, primary, held, injected, pointer, button, hand,
                     sender, todo, tested, queue, wire, lost>>
      /\ session' = session + 1 /\ session < LastSession
  BY DEF Started, uiVars, senderVars
<1>2. session \in Nat /\ session' \in Sessions /\ FlowTypes /\ Order
  BY <1>1, InputAssumption DEF WaitInv, WorkerTypes, Sessions, FlowInv
<1>3. hand[session'] = NoLine
  <2>1. sender[session'] = "none"
    BY <1>1, <1>2 DEF WaitInv, SendersFollow, HasBegun
  <2> QED
    BY <1>2, <2>1 DEF FlowTypes
<1>4. Current' = {}
  BY <1>1, <1>2, <1>3 DEF Current
<1>5. FlowTypes'
  BY <1>1, <1>2 DEF FlowTypes
<1>6. Shrinks
  BY <1>1, <1>2, <1>4 DEF Shrinks, Order
<1>7. Order' /\ Pending' \subseteq Pending
  BY <1>2, <1>6, ShrinksOrder
<1>8. ASSUME NEW s \in Sessions, s < session \/ s = session PROVE Gone(hand[s])
  BY <1>1, <1>2, <1>8, InputAssumption DEF Gone, Sessions
<1>9. \A l \in Pending \ Pending' : Gone(l)
  <2>1. \A l \in Pending \ Pending' : l \in Current
    BY <1>1 DEF Pending
  <2>2. \A l \in Current : Gone(l)
    BY <1>8 DEF Current
  <2> QED
    BY <2>1, <2>2
<1>10. Passes
  <2>1. \A s \in Sessions : s < session => Gone(hand[s])
    BY <1>8
  <2>2. tested' => todo' # <<>>
    BY <1>1 DEF FlowInv, Told
  <2> QED
    BY <1>1, <1>6, <1>7, <1>9, <2>1, <2>2 DEF Passes, Shrinks
<1> QED
  BY <1>5, <1>7, <1>10, PassesTold, PassesAim, PassesMirror DEF FlowInv

LEMMA WorkerFlow ==
  FlowInv /\ WaitInv /\ (OpenInput \/ CloseInput \/ CloseSocket) => FlowInv'
<1> SUFFICES ASSUME FlowInv, WaitInv, OpenInput \/ CloseInput \/ CloseSocket
             PROVE  FlowInv'
  OBVIOUS
<1>1. /\ UNCHANGED <<events, touch, primary, held, injected, pointer, button, hand,
                     session, todo, tested, queue, wire, lost>>
      /\ UNCHANGED sender \/ (worker = "open" /\
                              sender' = [sender EXCEPT ![session] = "test"])
  BY DEF OpenInput, CloseInput, CloseSocket, uiVars, senderVars, hostVars
<1>2. \A s \in Sessions : sender'[s] = "write" <=> sender[s] = "write"
  <2>1. CASE UNCHANGED sender
    BY <2>1
  <2>2. CASE worker = "open" /\ sender' = [sender EXCEPT ![session] = "test"]
    <3>1. ASSUME NEW s \in Sessions PROVE sender'[s] = "write" <=> sender[s] = "write"
      <4>1. CASE s = session
        <5>1. sender[s] = "none"
          BY <2>2, <4>1, InputAssumption DEF WaitInv, SendersFollow, HasBegun, Sessions
        <5>2. sender'[s] = "test"
          BY <2>2, <4>1 DEF WaitInv, WorkerTypes
        <5> QED
          BY <5>1, <5>2
      <4>2. CASE s # session
        BY <2>2, <4>2 DEF WaitInv, WorkerTypes
      <4> QED
        BY <4>1, <4>2
    <3> QED
      BY <3>1
  <2> QED
    BY <1>1, <2>1, <2>2
<1>3. events' \in events .. LastEvent /\ (tested' => todo # <<>>)
  BY <1>1, InputAssumption DEF FlowInv, FlowTypes, Told
<1> QED
  BY <1>1, <1>2, <1>3, IdleFlow

\* A sender takes the oldest line of the queue: it moves on, or into an old hand.
LEMMA TakeFlow ==
  ASSUME FlowInv, WaitInv, NEW s \in Sessions, sender[s] = "take", queue # <<>>,
         sender' = [sender EXCEPT ![s] = "write"],
         hand' = [hand EXCEPT ![s] = Head(queue)], queue' = Tail(queue),
         UNCHANGED <<events, touch, primary, held, injected, pointer, button,
                     session, todo, tested, wire, lost>>
  PROVE  FlowInv'
<1> DEFINE x == Head(queue)
<1>1. /\ FlowTypes /\ Order /\ queue \in Seq(Line) /\ Len(queue) <= QueueCap
      /\ hand \in [Sessions -> Line \cup {NoLine}]
      /\ sender \in [Sessions -> SenderStates] /\ session \in Nat
  BY InputAssumption DEF FlowInv, FlowTypes, WaitInv, WorkerTypes
<1>2. /\ queue' \in Seq(Line) /\ x \in Line
      /\ LinesOf(queue) = {x} \cup LinesOf(queue')
      /\ Rising(queue') /\ Before({x}, LinesOf(queue'))
  BY <1>1, TailLines DEF Order
<1>3. Len(queue') <= QueueCap
  <2>1. Len(queue') = Len(queue) - 1 /\ Len(queue) \in Nat
    BY <1>1
  <2> QED
    BY <1>1, <2>1, InputAssumption
<1>4. s <= session /\ s \in Nat
  BY <1>1, InputAssumption DEF WaitInv, SendersFollow, HasBegun, Sessions
<1>5. hand[s] = NoLine /\ x # NoLine
  BY <1>1, <1>2, NumberOf DEF FlowTypes
<1> HIDE DEF x
<1>6. hand' = [hand EXCEPT ![s] = x]
  BY DEF x
<1>7. FlowTypes'
  <2>1. hand' \in [Sessions -> Line \cup {NoLine}]
    BY <1>1, <1>2, <1>6
  <2>2. \A t \in Sessions : hand'[t] # NoLine <=> sender'[t] = "write"
    BY <1>1, <1>5, <1>6 DEF FlowTypes
  <2> QED
    BY <1>1, <1>2, <1>3, <2>1, <2>2 DEF FlowTypes
<1>8. IF s = session THEN Current = {} /\ Current' = {x} ELSE Current' = Current
  <2>1. CASE s = session
    BY <1>1, <1>5, <1>6, <2>1 DEF Current
  <2>2. CASE s # session
    BY <1>1, <1>6, <2>2 DEF Current
  <2> QED
    BY <2>1, <2>2
<1>9. /\ Pending' \subseteq Pending /\ Pending \ Pending' \subseteq {x}
      /\ s = session => Pending' = Pending
  BY <1>2, <1>8 DEF Pending
<1>10. LastNumber' = LastNumber
  BY DEF LastNumber
<1>11. Order'
  <2>1. \A l \in Pending' : LastNumber' < Number(l)
    BY <1>1, <1>9, <1>10 DEF Order
  <2>2. Current' \subseteq Current \cup {x} /\ LinesOf(queue') \subseteq LinesOf(queue)
    BY <1>2, <1>8
  <2>3. Before(LinesOf(wire), Current \cup LinesOf(queue) \cup LinesOf(todo))'
    BY <1>1, <1>2, <2>2 DEF Order, Before
  <2>4. Before(Current, LinesOf(queue) \cup LinesOf(todo))'
    BY <1>1, <1>2, <1>8, <2>2 DEF Order, Before
  <2>5. Before(LinesOf(queue), LinesOf(todo))'
    BY <1>1, <2>2 DEF Order, Before
  <2> QED
    BY <1>1, <1>2, <1>10, <2>1, <2>3, <2>4, <2>5 DEF Order
<1>12. Passes
  <2>1. ASSUME s # session PROVE Gone(x)
    BY <1>1, <1>4, <1>6, <2>1 DEF Gone
  <2>2. \A l \in Pending \ Pending' : Gone(l)
    BY <1>9, <2>1
  <2>3. \A t \in Sessions : t < session => Gone(hand[t])
    <3>1. ASSUME NEW t \in Sessions, t < session PROVE Gone(hand[t])
      <4>1. CASE t = s
        BY <1>5, <4>1 DEF Gone, NoLine, PointerKinds
      <4>2. CASE t # s
        BY <1>1, <1>6, <3>1, <4>2 DEF Gone
      <4> QED
        BY <4>1, <4>2
    <3> QED
      BY <3>1
  <2>4. tested' => todo' # <<>>
    BY DEF FlowInv, Told
  <2> QED
    BY <1>9, <2>2, <2>3, <2>4 DEF Passes
<1> QED
  BY <1>7, <1>11, <1>12, PassesTold, PassesAim, PassesMirror DEF FlowInv

\* A line goes onto the wire of its own session, or is lost with its socket.
LEMMA WriteFlow ==
  ASSUME FlowInv, WaitInv, NEW s \in Sessions, SenderWrite(s)
  PROVE  FlowInv'
<1> DEFINE x == hand[s]
<1>1. /\ sender[s] = "write" /\ hand' = [hand EXCEPT ![s] = NoLine]
      /\ UNCHANGED <<events, touch, primary, held, injected, pointer, button,
                     session, todo, tested, queue>>
  BY DEF SenderWrite, uiVars, workerVars, hostVars
<1>2. /\ FlowTypes /\ Order /\ hand \in [Sessions -> Line \cup {NoLine}]
      /\ sender \in [Sessions -> SenderStates] /\ session \in Nat
  BY InputAssumption DEF FlowInv, FlowTypes, WaitInv, WorkerTypes
<1>3. x \in Line /\ x # NoLine
  BY <1>1, <1>2 DEF FlowTypes
<1>4. IF s = session THEN Current = {x} /\ Current' = {} ELSE Current' = Current
  <2>1. CASE s = session
    BY <1>1, <1>2, <1>3, <2>1 DEF Current
  <2>2. CASE s # session
    BY <1>1, <1>2, <2>2 DEF Current
  <2> QED
    BY <2>1, <2>2
<1> HIDE DEF x
<1>5. \A t \in Sessions : t # s => hand'[t] = hand[t]
  BY <1>1, <1>2
<1>6. hand' \in [Sessions -> Line \cup {NoLine}] /\ hand'[s] = NoLine
  BY <1>1, <1>2
<1>7. ASSUME wire' \in Seq(Line), lost' \subseteq 1..LastEvent,
             NEW next \in {"test", "end"}, sender' = [sender EXCEPT ![s] = next]
      PROVE  FlowTypes'
  <2>1. \A t \in Sessions : hand'[t] # NoLine <=> sender'[t] = "write"
    BY <1>2, <1>5, <1>6, <1>7 DEF FlowTypes
  <2> QED
    BY <1>1, <1>2, <1>6, <1>7, <2>1 DEF FlowTypes
<1>8. tested' => todo' # <<>>
  BY <1>1 DEF FlowInv, Told
<1>9. CASE Alive(s)
  <2>1. /\ wire' = Append(wire, x) /\ sender' = [sender EXCEPT ![s] = "test"]
        /\ UNCHANGED lost /\ s = session
    BY <1>9 DEF SenderWrite, Alive, x
  <2>2. /\ wire' \in Seq(Line) /\ LinesOf(wire') = LinesOf(wire) \cup {x}
        /\ Rising(wire')
    <3>1. Before(LinesOf(wire), {x})
      BY <1>2, <1>4, <2>1 DEF Order, Before
    <3> QED
      BY <1>2, <1>3, <2>1, <3>1, AppendLines DEF FlowTypes, Order
  <2>3. FlowTypes'
    BY <1>2, <1>7, <2>1, <2>2 DEF FlowTypes
  <2>4. Pending' = Pending
    BY <1>1, <1>4, <2>1, <2>2 DEF Pending
  <2>5. LastNumber' = LastNumber
    BY <1>1 DEF LastNumber
  <2>6. Order'
    <3>1. Before(LinesOf(wire), Current \cup LinesOf(queue) \cup LinesOf(todo))'
      BY <1>1, <1>2, <1>4, <2>1, <2>2 DEF Order, Before
    <3>2. Before(Current, LinesOf(queue) \cup LinesOf(todo))'
      BY <1>4, <2>1 DEF Before
    <3> QED
      BY <1>1, <1>2, <2>2, <2>4, <2>5, <3>1, <3>2 DEF Order
  <2>7. \A t \in Sessions : t < session => Gone(hand[t])
    <3>1. ASSUME NEW t \in Sessions, t < session PROVE Gone(hand[t])
      <4>1. t # s
        BY <1>2, <2>1, <3>1, InputAssumption DEF Sessions
      <4> QED
        BY <1>1, <1>5, <3>1, <4>1 DEF Gone
    <3> QED
      BY <3>1
  <2>8. Passes
    BY <1>1, <1>8, <2>1, <2>4, <2>7 DEF Passes
  <2> QED
    BY <2>3, <2>6, <2>8, PassesTold, PassesAim, PassesMirror DEF FlowInv
<1>10. CASE ~Alive(s)
  <2>1. /\ wire' = wire /\ sender' = [sender EXCEPT ![s] = "end"] /\ Lose({x})
    BY <1>10 DEF SenderWrite, x
  <2>2. lost \subseteq lost' /\ lost' \subseteq 1..LastEvent /\ Gone(x)
    <3>1. {x} \subseteq Line
      BY <1>3
    <3> QED
      BY <1>2, <2>1, <3>1, LoseFacts
  <2>3. FlowTypes'
    BY <1>2, <1>7, <2>1, <2>2 DEF FlowTypes
  <2>4. Shrinks
    BY <1>1, <1>2, <1>4, <2>1 DEF Shrinks, Order
  <2>5. Order' /\ Pending' \subseteq Pending
    BY <1>2, <2>4, ShrinksOrder
  <2>6. \A l \in Pending \ Pending' : Gone(l)
    <3>1. Pending \ Pending' \subseteq {x}
      BY <1>1, <1>4, <2>1 DEF Pending
    <3> QED
      BY <2>2, <3>1
  <2>7. \A t \in Sessions : t < session => Gone(hand[t])
    <3>1. ASSUME NEW t \in Sessions, t < session PROVE Gone(hand[t])
      <4>1. CASE t = s
        BY <2>2, <4>1 DEF x
      <4>2. CASE t # s
        BY <1>1, <1>5, <3>1, <4>2 DEF Gone
      <4> QED
        BY <4>1, <4>2
    <3> QED
      BY <3>1
  <2>8. Passes
    BY <1>1, <1>8, <2>2, <2>5, <2>6, <2>7 DEF Passes
  <2> QED
    BY <2>3, <2>5, <2>8, PassesTold, PassesAim, PassesMirror DEF FlowInv
<1> QED
  BY <1>9, <1>10

LEMMA SenderFlow ==
  ASSUME FlowInv, WaitInv, NEW s \in Sessions, Sender(s)
  PROVE  FlowInv'
<1>1. ASSUME UNCHANGED <<queue, hand>>, SenderTest(s) \/ SenderTake(s) PROVE FlowInv'
  <2>1. UNCHANGED <<events, touch, primary, held, injected, pointer, button, session,
                    todo, tested, wire, lost>>
    BY <1>1 DEF SenderTest, SenderTake, uiVars, workerVars, hostVars
  <2>2. PICK next \in {"take", "end", "wait", "write"} : sender' = [sender EXCEPT ![s] = next]
    BY <1>1 DEF SenderTest, SenderTake
  <2>3. sender[s] \in {"test", "take"}
    BY <1>1 DEF SenderTest, SenderTake
  <2>4. sender'[s] # "write"
    <3>1. hand[s] = NoLine /\ sender \in [Sessions -> SenderStates]
      BY <2>3 DEF FlowInv, FlowTypes, WaitInv, WorkerTypes
    <3>2. CASE SenderTest(s)
      BY <3>1, <3>2 DEF SenderTest
    <3>3. CASE SenderTake(s)
      <4>1. CASE queue = <<>> \/ ~open
        BY <3>1, <3>3, <4>1 DEF SenderTake
      <4>2. CASE queue # <<>> /\ open
        <5>1. queue' = Tail(queue) /\ queue' = queue
          BY <1>1, <3>3, <4>2 DEF SenderTake
        <5>2. Len(Tail(queue)) = Len(queue) - 1 /\ Len(queue) \in Nat
          BY <4>2 DEF FlowInv, FlowTypes
        <5> QED
          BY <5>1, <5>2
      <4> QED
        BY <4>1, <4>2
    <3> QED
      BY <1>1, <3>2, <3>3
  <2>5. \A t \in Sessions : sender'[t] = "write" <=> sender[t] = "write"
    BY <2>2, <2>3, <2>4 DEF WaitInv, WorkerTypes
  <2>6. events' \in events .. LastEvent /\ (tested' => todo # <<>>)
    BY <2>1, InputAssumption DEF FlowInv, FlowTypes, Told
  <2> QED
    BY <1>1, <2>1, <2>5, <2>6, IdleFlow
<1>2. CASE SenderTest(s)
  BY <1>1, <1>2 DEF SenderTest
<1>3. CASE SenderTake(s)
  <2>1. CASE UNCHANGED <<queue, hand>>
    BY <1>1, <1>3, <2>1
  <2>2. CASE ~UNCHANGED <<queue, hand>>
    <3>1. /\ sender[s] = "take" /\ queue # <<>>
          /\ sender' = [sender EXCEPT ![s] = "write"]
          /\ hand' = [hand EXCEPT ![s] = Head(queue)] /\ queue' = Tail(queue)
      BY <1>3, <2>2 DEF SenderTake
    <3>2. UNCHANGED <<events, touch, primary, held, injected, pointer, button, session,
                      todo, tested, wire, lost>>
      BY <1>3 DEF SenderTake, uiVars, workerVars, hostVars
    <3> QED
      BY <3>1, <3>2, TakeFlow
  <2> QED
    BY <2>1, <2>2
<1>4. CASE SenderWrite(s)
  BY <1>4, WriteFlow
<1> QED
  BY <1>2, <1>3, <1>4 DEF Sender

-----------------------------------------------------------------------------
(* The host *)

\* A line that the streamer reads and does not inject, or all of them, is lost.
LEMMA LoseFlow ==
  FlowInv /\ WaitInv /\ (InjectFails \/ InjectNothing \/ Dropped) => FlowInv'
<1> SUFFICES ASSUME FlowInv, WaitInv, InjectFails \/ InjectNothing \/ Dropped
             PROVE  FlowInv'
  OBVIOUS
<1>1. /\ UNCHANGED <<events, touch, primary, held, injected, pointer, button, hand,
                     session, todo, tested, queue, sender>>
      /\ \/ wire # <<>> /\ wire' = Tail(wire) /\ Lose({Head(wire)})
         \/ wire' = <<>> /\ Lose(LinesOf(wire))
  BY DEF InjectFails, InjectNothing, Dropped, ReadLine, uiVars, workerVars, senderVars
<1>2. /\ todo' \in Seq(Line) /\ queue' \in Seq(Line) /\ wire \in Seq(Line)
      /\ Len(queue') <= QueueCap /\ Order /\ (tested' => todo' # <<>>)
      /\ LinesOf(wire) \subseteq Line
  <2>1. LinesOf(wire) \subseteq Line
    BY DEF FlowInv, FlowTypes, LinesOf
  <2> QED
    BY <1>1, <2>1 DEF FlowInv, FlowTypes, Told
<1>3. Current' = Current
  BY <1>1 DEF Current
<1>4. ASSUME NEW S, Lose(S), wire' \in Seq(Line), Rising(wire'),
             LinesOf(wire) = LinesOf(wire') \cup S
      PROVE  FlowInv'
  <2>1. Shrinks
    BY <1>1, <1>2, <1>3, <1>4 DEF Shrinks, Order
  <2>2. Pending \ Pending' \subseteq S /\ S \subseteq Line
    BY <1>1, <1>2, <1>3, <1>4 DEF Pending
  <2> QED
    BY <1>1, <1>2, <1>4, <2>1, <2>2, DropsFlow DEF WaitInv, WorkerTypes
<1>5. CASE wire # <<>> /\ wire' = Tail(wire) /\ Lose({Head(wire)})
  <2>1. /\ wire' \in Seq(Line) /\ Rising(wire')
        /\ LinesOf(wire) = LinesOf(wire') \cup {Head(wire)}
    BY <1>2, <1>5, TailLines DEF Order
  <2> QED
    BY <1>4, <1>5, <2>1
<1>6. CASE wire' = <<>> /\ Lose(LinesOf(wire))
  <2>1. /\ wire' \in Seq(Line) /\ Rising(wire')
        /\ LinesOf(wire) = LinesOf(wire') \cup LinesOf(wire)
    BY <1>6, EmptyLines
  <2> QED
    BY <1>4, <1>6, <2>1
<1> QED
  BY <1>1, <1>5, <1>6

\* The oldest line is injected: a press finds the pointer where its touch began,
\* for its position came before it and no other move could come between.
LEMMA InjectFlow == FlowInv /\ WaitInv /\ Inject => FlowInv' /\ LastNumber < LastNumber'
<1> SUFFICES ASSUME FlowInv, WaitInv, Inject
             PROVE  FlowInv' /\ LastNumber < LastNumber'
  OBVIOUS
<1> DEFINE x == Head(wire)
<1>1. /\ wire # <<>> /\ wire' = Tail(wire)
      /\ injected' = x
      /\ pointer' = (IF x.kind = "move" THEN x.event ELSE pointer)
      /\ button' = (IF x.kind \in {"press", "release"} THEN x.kind = "press" ELSE button)
      /\ UNCHANGED <<events, touch, primary, held, hand, session, todo, tested, queue,
                     sender, lost>>
  BY DEF Inject, ReadLine, PointerAfter, ButtonAfter, uiVars, workerVars, senderVars
<1>2. FlowTypes /\ Told /\ Order /\ Aim /\ Mirror /\ wire \in Seq(Line)
  BY DEF FlowInv, FlowTypes
<1>3. /\ wire' \in Seq(Line) /\ x \in Line
      /\ LinesOf(wire) = {x} \cup LinesOf(wire')
      /\ Rising(wire') /\ Before({x}, LinesOf(wire'))
  BY <1>1, <1>2, TailLines DEF Order
<1> HIDE DEF x
<1>4. /\ x.event \in Nat /\ x.event > 0 /\ x # NoLine /\ Number(x) \in Nat
      /\ Number(x) <= 2 * x.event
      /\ x.kind = "move" => Number(x) = 2 * x.event - 1
      /\ x.kind \in Changes => Number(x) = 2 * x.event
  BY <1>3, NumberOf DEF Changes
<1>5. Current' = Current
  BY <1>1 DEF Current
<1>6. /\ Pending = Pending' \cup {x}
      /\ \A l \in Pending' : Number(x) < Number(l)
  <2>1. Pending = Pending' \cup {x}
    BY <1>1, <1>3, <1>5 DEF Pending
  <2>2. \A l \in Pending' : Number(x) < Number(l)
    BY <1>1, <1>2, <1>3, <1>5 DEF Pending, Order, Before
  <2> QED
    BY <2>1, <2>2
<1>7. \A l \in Pending' : l \in Line /\ l.event \in Nat /\ Number(l) \in Nat /\ l # x
  BY <1>2, <1>4, <1>6, LineTypes, NumberOf
<1>8. /\ LastNumber' = Number(x) /\ LastNumber < Number(x)
      /\ LastNumber \in Int
  <2>1. LastNumber' = Number(x)
    BY <1>1, <1>4 DEF LastNumber
  <2>2. LastNumber \in Int
    BY <1>2, NumberOf DEF FlowTypes, LastNumber
  <2> QED
    BY <1>2, <1>6, <2>1, <2>2 DEF Order
<1>9. /\ events \in Int /\ pointer \in Int /\ x.event \in 1..LastEvent /\ x.event <= events
      /\ 2 * pointer - 1 <= LastNumber
  BY <1>2, <1>3, <1>6, InputAssumption DEF FlowTypes, Told, Order, Line
<1>10. FlowTypes'
  <2>1. pointer' \in 0..LastEvent /\ injected' \in Line
    BY <1>1, <1>2, <1>3, <1>9, InputAssumption DEF FlowTypes
  <2> QED
    BY <1>1, <1>2, <1>3, <2>1 DEF FlowTypes
<1>11. Told'
  <2>1. LastNumber' <= 2 * events
    BY <1>4, <1>8, <1>9
  <2> QED
    BY <1>1, <1>2, <1>6, <2>1 DEF Told
<1>12. Order'
  <2>1. \A l \in Pending' : LastNumber' < Number(l)
    BY <1>6, <1>8
  <2>2. 2 * pointer' - 1 <= LastNumber'
    <3>1. CASE x.kind = "move"
      <4>1. pointer' = x.event /\ LastNumber' = 2 * x.event - 1
        BY <1>1, <1>4, <1>8, <3>1
      <4> QED
        BY <1>4, <4>1
    <3>2. CASE x.kind # "move"
      <4>1. pointer' = pointer
        BY <1>1, <3>2
      <4> QED
        BY <1>4, <1>8, <1>9, <4>1
    <3> QED
      BY <3>1, <3>2
  <2>3. /\ Before(LinesOf(wire), Current \cup LinesOf(queue) \cup LinesOf(todo))'
        /\ Before(Current, LinesOf(queue) \cup LinesOf(todo))'
        /\ Before(LinesOf(queue), LinesOf(todo))'
    BY <1>1, <1>2, <1>3, <1>5 DEF Order, Before
  <2> QED
    BY <1>1, <1>2, <1>3, <2>1, <2>2, <2>3 DEF Order
<1>13. Aim'
  <2>1. ASSUME NEW e, e = x.event, x.kind = "press" PROVE AimedAt(e)'
    <3>1. Move(x.event) \notin Pending'
      <4>1. ASSUME Move(x.event) \in Pending' PROVE FALSE
        <5>1. Move(x.event).kind = "move" /\ Move(x.event).event = x.event
          BY DEF Move
        <5>2. Number(Move(x.event)) = 2 * x.event - 1
          BY <1>7, <4>1, <5>1, NumberOf
        <5>3. Number(x) = 2 * x.event /\ Number(x) < Number(Move(x.event))
          BY <1>4, <1>6, <2>1, <4>1 DEF Changes
        <5> QED
          BY <1>4, <5>2, <5>3
      <4> QED
        BY <4>1
    <3>2. Move(x.event) # x
      BY <2>1 DEF Move
    <3>3. AimedAt(x.event)
      BY <1>2, <1>6, <2>1, <3>1, <3>2 DEF Aim
    <3>4. pointer' = pointer
      BY <1>1, <2>1
    <3>5. AimedAt(e)
      BY <2>1, <3>3
    <3> QED
      BY <1>1, <3>4, <3>5 DEF AimedAt
  <2>2. ASSUME NEW l \in Pending', l.kind = "press"
        PROVE  AimedAt(l.event)' \/ Move(l.event) \in Pending'
    <3>1. AimedAt(l.event) \/ Move(l.event) \in Pending
      BY <1>2, <1>6, <2>2 DEF Aim
    <3>2. CASE Move(l.event) = x
      <4>1. pointer' = l.event
        BY <1>1, <3>2 DEF Move
      <4> QED
        BY <4>1 DEF AimedAt
    <3>3. CASE pointer = l.event
      <4>1. x.kind # "move"
        <5>1. ASSUME x.kind = "move" PROVE FALSE
          <6>1. Number(l) = 2 * l.event /\ Number(x) < Number(l)
            BY <1>6, <1>7, <2>2, NumberOf
          <6>2. Number(x) = 2 * x.event - 1 /\ LastNumber < Number(x)
            BY <1>4, <1>8, <5>1
          <6> QED
            BY <1>4, <1>7, <1>8, <1>9, <3>3, <6>1, <6>2
        <5> QED
          BY <5>1
      <4>2. pointer' = l.event
        BY <1>1, <3>3, <4>1
      <4> QED
        BY <4>2 DEF AimedAt
    <3>4. CASE Move(l.event) \in Pending'
      BY <3>4
    <3>5. CASE AimedAt(l.event) /\ pointer # l.event
      BY <1>1, <3>5 DEF AimedAt
    <3> QED
      BY <1>6, <3>1, <3>2, <3>3, <3>4, <3>5
  <2>3. (injected.kind = "press" => AimedAt(injected.event))'
    <3>1. injected' = x
      BY <1>1
    <3>2. \A e : e = injected'.event /\ x.kind = "press" => AimedAt(e)'
      BY <2>1, <3>1
    <3> QED
      BY <3>1, <3>2 DEF AimedAt
  <2> QED
    BY <2>2, <2>3 DEF Aim
<1>14. Mirror'
  <2> SUFFICES ASSUME Intact'
               PROVE  /\ held' = touch'
                      /\ PendingChanges' = {} => button' = touch'
                      /\ PendingChanges' # {} =>
                           \E l \in PendingChanges' :
                             /\ \A m \in PendingChanges' : m.event <= l.event
                             /\ (l.kind = "press") = touch'
    BY DEF Mirror
  <2>1. Intact /\ held' = touch' /\ touch' = touch
    BY <1>1, <1>2 DEF Intact, Mirror
  <2>2. CASE x.kind \notin Changes
    <3>1. PendingChanges' = PendingChanges /\ button' = button
      BY <1>1, <1>6, <2>2 DEF PendingChanges, Changes
    <3> QED
      BY <1>2, <2>1, <3>1 DEF Mirror
  <2>3. CASE x.kind \in Changes
    <3>1. PendingChanges = PendingChanges' \cup {x}
      BY <1>6, <2>3 DEF PendingChanges
    <3>2. button' = (x.kind = "press")
      BY <1>1, <2>3 DEF Changes
    <3>3. PICK l \in PendingChanges :
            /\ \A m \in PendingChanges : m.event <= l.event
            /\ (l.kind = "press") = touch
      BY <1>2, <2>1, <3>1 DEF Mirror
    <3>4. ASSUME NEW m \in PendingChanges' PROVE x.event < m.event
      <4>1. m \in Pending' /\ m.kind \in Changes
        BY DEF PendingChanges
      <4>2. Number(m) = 2 * m.event
        BY <1>7, <4>1, NumberOf DEF Changes
      <4>3. Number(x) = 2 * x.event /\ Number(x) < Number(m)
        BY <1>4, <1>6, <2>3, <4>1
      <4> QED
        BY <1>4, <1>7, <4>1, <4>2, <4>3
    <3>5. \A m \in PendingChanges' : m.event \in Nat
      BY <1>7 DEF PendingChanges
    <3>6. CASE l = x
      <4>1. PendingChanges' = {}
        BY <1>4, <3>1, <3>3, <3>4, <3>5, <3>6
      <4> QED
        BY <2>1, <3>2, <3>3, <3>6, <4>1
    <3>7. CASE l # x
      <4>1. l \in PendingChanges'
        BY <3>1, <3>7
      <4> QED
        BY <2>1, <3>1, <3>3, <4>1
    <3> QED
      BY <3>6, <3>7
  <2> QED
    BY <2>2, <2>3
<1> QED
  BY <1>8, <1>10, <1>11, <1>12, <1>13, <1>14 DEF FlowInv

LEMMA InitFlow == Init => FlowInv
<1> SUFFICES ASSUME Init PROVE FlowInv
  OBVIOUS
<1>1. /\ events = 0 /\ touch = FALSE /\ primary = FALSE /\ held = FALSE
      /\ todo = <<>> /\ tested = FALSE /\ queue = <<>> /\ wire = <<>>
      /\ sender = [s \in Sessions |-> "none"] /\ hand = [s \in Sessions |-> NoLine]
      /\ injected = NoLine /\ pointer = 0 /\ button = FALSE /\ lost = {}
  BY DEF Init
<1>2. Current = {} /\ Pending = {} /\ LastNumber = 0
  <2>1. Current = {}
    BY <1>1 DEF Current
  <2> QED
    BY <1>1, <2>1, EmptyLines DEF Pending, LastNumber
<1>3. FlowTypes
  <2>1. /\ todo \in Seq(Line) /\ queue \in Seq(Line) /\ wire \in Seq(Line)
        /\ Len(queue) <= QueueCap
    BY <1>1, EmptyLines, InputAssumption
  <2> QED
    BY <1>1, <2>1, InputAssumption DEF FlowTypes
<1>4. Told
  <2>1. LastNumber <= 2 * events
    BY <1>1, <1>2
  <2>2. /\ \A l \in Pending : l.event <= events
        /\ \A l \in LinesOf(todo) : l.event = events
    BY <1>1, <1>2, EmptyLines
  <2>3. held \in BOOLEAN /\ primary = held /\ (tested => todo # <<>>)
    BY <1>1
  <2> QED
    BY <2>1, <2>2, <2>3 DEF Told
<1>5. Order
  BY <1>1, <1>2, EmptyLines DEF Order, Before
<1>6. Aim
  BY <1>1, <1>2 DEF Aim, NoLine
<1>7. Mirror
  BY <1>1, <1>2 DEF Mirror, PendingChanges
<1> QED
  BY <1>3, <1>4, <1>5, <1>6, <1>7 DEF FlowInv

\* And nothing but Inject changes what was injected last.
LEMMA FlowStep ==
  FlowInv /\ WaitInv /\ [Next]_vars =>
    /\ FlowInv'
    /\ events <= events'
    /\ \/ LastNumber' = LastNumber
       \/ LastNumber < LastNumber' /\ UNCHANGED events
<1> SUFFICES ASSUME FlowInv, WaitInv, [Next]_vars
             PROVE  /\ FlowInv'
                    /\ events <= events'
                    /\ \/ LastNumber' = LastNumber
                       \/ LastNumber < LastNumber' /\ UNCHANGED events
  OBVIOUS
<1> DEFINE Goal == /\ FlowInv'
                   /\ events <= events'
                   /\ \/ LastNumber' = LastNumber
                      \/ LastNumber < LastNumber' /\ UNCHANGED events
<1>a. events \in Nat /\ events \in 0..LastEvent
  BY InputAssumption DEF FlowInv, FlowTypes
<1>b. ASSUME FlowInv', UNCHANGED injected, events' = events \/ events' = events + 1 PROVE Goal
  BY <1>a, <1>b DEF LastNumber
<1>1. ASSUME NEW action \in Actions, Event(action) PROVE Goal
  <2>1. FlowInv'
    BY <1>1, CapturedFlow, IgnoredFlow
  <2>2. UNCHANGED injected /\ events' = events + 1
    BY <1>1 DEF Event, hostVars
  <2> QED
    BY <1>b, <2>1, <2>2
<1>2. CASE UI
  BY <1>b, <1>2, TestFlow, EnqueueFlow DEF UI, TestOpen, Enqueue, hostVars
<1>3. CASE SetPointerEnabled
  <2>1. /\ events' = events + 1 /\ events < LastEvent /\ todo = <<>>
        /\ UNCHANGED <<touch, primary, held, injected, pointer, button, hand, session,
                       todo, queue, wire, lost, tested, sender>>
    BY <1>3 DEF SetPointerEnabled, workerVars, senderVars, hostVars
  <2>2. events' \in events .. LastEvent /\ (tested' => todo # <<>>)
    BY <1>a, <2>1, InputAssumption DEF FlowInv, Told
  <2>3. FlowInv'
    BY <2>1, <2>2, IdleFlow
  <2> QED
    BY <1>b, <2>1, <2>3
<1>4. CASE Started \/ CloseInput \/ Worker
  <2>1. FlowInv'
    BY <1>4, StartFlow, ClearFlow, WorkerFlow DEF Worker
  <2>2. UNCHANGED <<injected, events>>
    BY <1>4 DEF Started, CloseInput, Worker, ClearOld, OpenInput, ClearQueue,
                CloseSocket, uiVars, hostVars
  <2> QED
    BY <1>b, <2>1, <2>2
<1>5. ASSUME NEW s \in Sessions, Sender(s) PROVE Goal
  <2>1. FlowInv'
    BY <1>5, SenderFlow
  <2>2. UNCHANGED <<injected, events>>
    BY <1>5 DEF Sender, SenderTest, SenderTake, SenderWrite, uiVars, hostVars
  <2> QED
    BY <1>b, <2>1, <2>2
<1>6. CASE Inject
  <2>1. UNCHANGED events
    BY <1>6 DEF Inject, ReadLine, uiVars
  <2> QED
    BY <1>a, <1>6, <2>1, InjectFlow
<1>7. CASE InjectFails \/ InjectNothing \/ Dropped
  <2>1. UNCHANGED <<injected, events>>
    BY <1>7 DEF InjectFails, InjectNothing, Dropped, ReadLine, uiVars
  <2> QED
    BY <1>b, <1>7, <2>1, LoseFlow
<1>8. CASE UNCHANGED vars
  <2>1. UNCHANGED <<touch, primary, held, injected, pointer, button, hand, session,
                    todo, queue, wire, lost, tested, sender, events>>
    BY <1>8 DEF vars, uiVars, workerVars, senderVars, hostVars
  <2>2. events' \in events .. LastEvent /\ (tested' => todo # <<>>)
    BY <1>a, <2>1, InputAssumption DEF FlowInv, Told
  <2>3. FlowInv'
    BY <2>1, <2>2, IdleFlow
  <2> QED
    BY <1>b, <2>1, <2>3
<1> QED
  BY <1>1, <1>2, <1>3, <1>4, <1>5, <1>6, <1>7, <1>8 DEF Next, Signaling

LEMMA Invariant == Spec => [](FlowInv /\ WaitInv)
BY InitFlow, InitWait, FlowStep, StepWait, PTL DEF Spec

-----------------------------------------------------------------------------
(* What follows *)

\* A click lands where its touch began, whatever moves were coalesced and
\* however sessions replaced each other, unless one of its lines was lost.
THEOREM PressesAlwaysAimed == Spec => []PressesAimed
<1>1. FlowInv => PressesAimed
  <2> SUFFICES ASSUME FlowInv, injected.kind = "press" PROVE PressesAimed
    BY DEF PressesAimed
  <2>1. AimedAt(injected.event)
    BY DEF FlowInv, Aim
  <2>2. Move(injected.event).event = injected.event
    BY DEF Move
  <2> QED
    BY <2>1, <2>2 DEF AimedAt, PressesAimed
<1> QED
  BY <1>1, Invariant, PTL

\* Once everything has arrived and nothing was lost, the button on the desktop
\* is where the finger left it.
THEOREM AlwaysMirrored == Spec => []Mirrored
<1>1. FlowInv => Mirrored
  <2> SUFFICES ASSUME FlowInv,
                      todo = <<>>, queue = <<>>, wire = <<>>, lost = {},
                      \A s \in Sessions : hand[s] = NoLine
               PROVE  button = touch
    BY DEF Mirrored
  <2>1. Current = {}
    BY DEF Current
  <2>2. LinesOf(todo) = {} /\ LinesOf(queue) = {} /\ LinesOf(wire) = {}
    BY EmptyLines
  <2>3. PendingChanges = {}
    BY <2>1, <2>2 DEF PendingChanges, Pending
  <2>4. Intact
    BY DEF Intact, NoLine, PointerKinds
  <2> QED
    BY <2>3, <2>4 DEF FlowInv, Mirror
<1> QED
  BY <1>1, Invariant, PTL

\* The path from the activity to the desktop is the one RemoteInput promises:
\* what is injected was emitted, in the order it was emitted, and only once.
THEOREM InputInOrder == Spec => InOrder
<1>1. Init => Promised!Init
  <2> SUFFICES ASSUME Init PROVE Promised!Init
    OBVIOUS
  <2>1. events = 0 /\ injected = NoLine
    BY DEF Init
  <2> QED
    BY <2>1 DEF Promised!Init
<1>2. FlowInv /\ WaitInv /\ [Next]_vars => [Promised!Next]_(Promised!vars)
  <2> SUFFICES ASSUME FlowInv, WaitInv, [Next]_vars
               PROVE  [Promised!Next]_(Promised!vars)
    OBVIOUS
  <2>1. /\ FlowInv' /\ events <= events'
        /\ \/ LastNumber' = LastNumber
           \/ LastNumber < LastNumber' /\ UNCHANGED events
    BY FlowStep
  <2>2. /\ events \in Nat /\ LastNumber \in Int /\ LastNumber' \in Int
        /\ events' \in Nat /\ LastNumber' <= 2 * (events')
    <3>1. events \in Nat /\ events' \in Nat
      BY <2>1, InputAssumption DEF FlowInv, FlowTypes
    <3>2. LastNumber \in Int
      BY NumberOf DEF FlowInv, FlowTypes, LastNumber
    <3>3. (LastNumber \in Int)'
      BY <2>1, NumberOf DEF FlowInv, FlowTypes, LastNumber
    <3>4. (LastNumber <= 2 * events)'
      BY <2>1 DEF FlowInv, Told
    <3> QED
      BY <3>1, <3>2, <3>3, <3>4
  <2>3. CASE LastNumber' = LastNumber
    <3>1. 2 * events <= 2 * (events')
      <4>1. events \in Int /\ events' \in Int /\ 2 * events \in Int /\ 2 * events <= 2 * events
        BY <2>2
      <4> QED
        BY <2>1, <4>1, Doubled
    <3> QED
      BY <2>3, <3>1 DEF LastNumber, Promised!Next, Promised!Emit
  <2>4. CASE LastNumber < LastNumber' /\ UNCHANGED events
    <3>1. LastNumber' \in LastNumber + 1 .. 2 * events
      BY <2>2, <2>4
    <3>2. 2 * (events') = 2 * events
      BY <2>4
    <3> QED
      BY <3>1, <3>2 DEF LastNumber, Promised!Next, Promised!Inject
  <2> QED
    BY <2>1, <2>3, <2>4
<1> QED
  BY <1>1, <1>2, Invariant, PTL DEF Spec, InOrder, Promised!Spec

-----------------------------------------------------------------------------
(* Types *)

\* The switches, the worker and the error count.
SwitchTypes ==
  /\ touch \in BOOLEAN /\ enabled \in BOOLEAN /\ tested \in BOOLEAN
  /\ serving \in BOOLEAN /\ ready \in BOOLEAN /\ button \in BOOLEAN
  /\ worker \in {"connecting", "clear", "open", "stream", "closing", "shut"}
  /\ worker # "connecting" => session \in Sessions
  /\ interrupted \subseteq Sessions
  /\ errors \in 0..ErrorLimit /\ (ready <=> errors < ErrorLimit)

LEMMA InitSwitches == Init => SwitchTypes
<1> SUFFICES ASSUME Init PROVE SwitchTypes
  OBVIOUS
<1>1. /\ touch = FALSE /\ enabled = TRUE /\ tested = FALSE /\ serving = FALSE
      /\ ready = TRUE /\ button = FALSE /\ worker = "connecting"
      /\ interrupted = {} /\ errors = 0
  BY DEF Init
<1>2. errors \in 0..ErrorLimit /\ (ready <=> errors < ErrorLimit)
  BY <1>1, InputAssumption
<1>3. /\ touch \in BOOLEAN /\ enabled \in BOOLEAN /\ tested \in BOOLEAN
      /\ serving \in BOOLEAN /\ ready \in BOOLEAN /\ button \in BOOLEAN
  BY <1>1
<1> QED
  BY <1>1, <1>2, <1>3 DEF SwitchTypes

\* Each thread keeps its own, and a session that is closed has been started.
LEMMA StepSwitches == WaitInv /\ SwitchTypes /\ [Next]_vars => SwitchTypes'
<1> SUFFICES ASSUME WaitInv, SwitchTypes, [Next]_vars PROVE SwitchTypes'
  OBVIOUS
<1> USE DEF SwitchTypes
<1>1. ASSUME NEW action \in Actions, Event(action) PROVE SwitchTypes'
  <2>1. UNCHANGED <<enabled, tested, serving, ready, button, worker, session, interrupted, errors>>
    BY <1>1 DEF Event, workerVars, senderVars, hostVars
  <2>2. touch' = (action = "DOWN" \/ (touch /\ action \notin {"UP", "CANCEL"}))
    BY <1>1 DEF Event
  <2>3. touch' \in BOOLEAN
    BY <2>2
  <2> QED
    BY <2>1, <2>3
<1>2. CASE TestOpen \/ Enqueue
  <2>1. UNCHANGED <<touch, enabled, serving, ready, button, worker, session, interrupted, errors>>
    BY <1>2 DEF TestOpen, Enqueue, workerVars, senderVars, hostVars
  <2>2. tested' \in BOOLEAN
    BY <1>2 DEF TestOpen, Enqueue
  <2> QED
    BY <2>1, <2>2
<1>3. CASE SetPointerEnabled
  <2>1. /\ UNCHANGED <<touch, tested, serving, ready, button, worker, session, interrupted, errors>>
        /\ enabled' \in BOOLEAN
    BY <1>3 DEF SetPointerEnabled, workerVars, senderVars, hostVars
  <2> QED
    BY <2>1
<1>4. CASE Started \/ CloseInput \/ ClearOld \/ OpenInput \/ CloseSocket
  <2>1. UNCHANGED <<touch, enabled, tested, ready, button, interrupted, errors>>
    BY <1>4 DEF Started, CloseInput, ClearOld, OpenInput, CloseSocket, uiVars,
                senderVars, hostVars
  <2>2. /\ serving' \in BOOLEAN
        /\ worker' \in {"connecting", "clear", "open", "stream", "closing", "shut"}
    BY <1>4 DEF Started, CloseInput, ClearOld, OpenInput, CloseSocket, hostVars
  <2>3. worker' # "connecting" => session' \in Sessions
    <3>1. CASE Started
      <4>1. session' = session + 1 /\ session < LastSession /\ session \in 0..LastSession
        BY <3>1 DEF Started, WaitInv, WorkerTypes
      <4> QED
        BY <4>1, InputAssumption DEF Sessions
    <3>2. CASE ~Started
      <4>1. session' = session /\ (worker' # "connecting" => worker # "connecting")
        BY <1>4, <3>2 DEF CloseInput, ClearOld, OpenInput, CloseSocket
      <4> QED
        BY <4>1
    <3> QED
      BY <3>1, <3>2
  <2> QED
    BY <2>1, <2>2, <2>3
<1>5. CASE ClearQueue
  <2>1. /\ UNCHANGED <<touch, enabled, tested, serving, ready, button, session, errors>>
        /\ worker' = "shut" /\ worker = "closing"
        /\ interrupted' = interrupted \cup {session}
    BY <1>5 DEF ClearQueue, uiVars, hostVars
  <2>2. session \in Sessions
    BY <2>1
  <2> QED
    BY <2>1, <2>2
<1>6. ASSUME NEW s \in Sessions, Sender(s) PROVE SwitchTypes'
  <2>1. UNCHANGED <<touch, enabled, tested, serving, ready, button, worker, session,
                    interrupted, errors>>
    BY <1>6 DEF Sender, SenderTest, SenderTake, SenderWrite, uiVars, workerVars, hostVars
  <2> QED
    BY <2>1
<1>7. CASE Inject \/ InjectNothing
  <2>1. UNCHANGED <<touch, enabled, tested, serving, ready, worker, session, interrupted, errors>>
    BY <1>7 DEF Inject, InjectNothing, ReadLine, uiVars, workerVars, senderVars
  <2>2. button' \in BOOLEAN
    BY <1>7 DEF Inject, InjectNothing, ButtonAfter
  <2> QED
    BY <2>1, <2>2
<1>8. CASE InjectFails
  <2>1. /\ UNCHANGED <<touch, enabled, tested, serving, button, worker, session, interrupted>>
        /\ ready /\ errors' = errors + 1 /\ ready' = (errors + 1 < ErrorLimit)
    BY <1>8 DEF InjectFails, ReadLine, uiVars, workerVars, senderVars
  <2>2. errors' \in 0..ErrorLimit /\ ready' \in BOOLEAN
    BY <2>1, InputAssumption
  <2> QED
    BY <2>1, <2>2
<1>9. CASE Dropped \/ UNCHANGED vars
  <2>1. /\ UNCHANGED <<touch, enabled, tested, ready, button, worker, session, interrupted, errors>>
        /\ serving' \in BOOLEAN
    BY <1>9 DEF Dropped, vars, uiVars, workerVars, senderVars, hostVars
  <2> QED
    BY <2>1
<1> QED
  BY <1>1, <1>2, <1>3, <1>4, <1>5, <1>6, <1>7, <1>8, <1>9 DEF Next, UI, Worker, Signaling

\* Every line is one the session accepts, the queue keeps its limit, and input
\* stays disabled exactly from the last error allowed.
THEOREM TypeCorrect == Spec => []TypeOK
<1>1. FlowInv /\ WaitInv /\ SwitchTypes => TypeOK
  <2> SUFFICES ASSUME FlowInv, WaitInv, SwitchTypes PROVE TypeOK
    OBVIOUS
  <2>1. {touch, primary, held, enabled, tested, open, serving, ready, button} \subseteq BOOLEAN
    BY DEF FlowInv, Told, WaitInv, WorkerTypes, SwitchTypes
  <2>2. LinesOf(todo) \cup LinesOf(queue) \cup LinesOf(wire)
          \subseteq [kind : Kinds, event : 1..LastEvent]
    BY LineTypes DEF FlowInv, Pending, Line
  <2>3. /\ events \in 0..LastEvent /\ pointer \in 0..LastEvent /\ lost \subseteq 1..LastEvent
        /\ Len(queue) <= QueueCap
    BY DEF FlowInv, FlowTypes
  <2>4. /\ session \in 0..LastSession
        /\ sender \in [Sessions -> {"none", "test", "take", "wait", "write", "end"}]
    BY DEF WaitInv, WorkerTypes, SenderStates
  <2> QED
    BY <2>1, <2>2, <2>3, <2>4 DEF SwitchTypes, TypeOK
<1> QED
  BY <1>1, InitSwitches, StepSwitches, Invariant, InitWait, StepWait, PTL DEF Spec

-----------------------------------------------------------------------------
(* The sessions these senders belong to *)

WorkerLife ==
  /\ running \in [StreamSessions -> BOOLEAN]
  /\ pc \in [StreamSessions -> Stages]
  /\ sock \in [StreamSessions -> {"none", "open", "shut"}]

MailLife ==
  /\ inbox \in [StreamSessions -> Seq(ServerLines)]
  /\ lines \in Seq(ClientLines)

ServerLife ==
  /\ link \in {"up", "down"} /\ main \in MainStates
  /\ srunning \in BOOLEAN /\ listening \in BOOLEAN /\ fd \in BOOLEAN
  /\ srv \in SrvStates

QueueLife ==
  /\ backlog \in Seq(Ends) /\ Len(backlog) <= Backlog
  /\ serve \in Ends \cup {None}

ReleaseLife == orphans \in [StreamSessions -> BOOLEAN]

LifeInv == WorkerLife /\ MailLife /\ ServerLife /\ QueueLife /\ ReleaseLife

\* What the two ends say to each other.
LEMMA MailOps ==
  ASSUME NEW L, NEW q \in Seq(L)
  PROVE  /\ Len(q) \in Nat
         /\ \A l \in L : Append(q, l) \in Seq(L) /\ Len(Append(q, l)) = Len(q) + 1
         /\ q # <<>> => Head(q) \in L /\ Tail(q) \in Seq(L) /\ Len(Tail(q)) <= Len(q)
         /\ <<>> \in Seq(L) /\ Len(<<>>) = 0
  OBVIOUS

\* A line sent to the session at the other end, if there is one.
LEMMA SendKeeps ==
  ASSUME MailLife, NEW line \in ServerLines,
         inbox' = IF serve \in StreamSessions
                  THEN [inbox EXCEPT ![serve] = Append(@, line)] ELSE inbox
  PROVE  inbox' \in [StreamSessions -> Seq(ServerLines)]
<1>1. CASE serve \in StreamSessions
  <2>1. inbox[serve] \in Seq(ServerLines)
    BY <1>1 DEF MailLife
  <2>2. Append(inbox[serve], line) \in Seq(ServerLines)
    BY <2>1, MailOps
  <2>3. inbox' = [inbox EXCEPT ![serve] = Append(inbox[serve], line)]
    BY <1>1 DEF StreamSessions
  <2> QED
    BY <2>2, <2>3 DEF MailLife
<1> QED
  BY <1>1 DEF MailLife, StreamSessions

\* Lines arrive, are read, or go with the connection.
LEMMA LinesKeep ==
  ASSUME MailLife,
         \/ lines' \in {lines, <<>>}
         \/ lines' = Append(lines, "READY")
         \/ lines # <<>> /\ lines' = Tail(lines)
  PROVE  lines' \in Seq(ClientLines)
<1>1. lines \in Seq(ClientLines)
  BY DEF MailLife
<1>2. "READY" \in ClientLines
  BY DEF ClientLines
<1> QED
  BY <1>1, <1>2, MailOps

\* Connections that are reset, or closed under the accept thread.
LEMMA ResetKeeps ==
  ASSUME QueueLife,
         backlog' \in {backlog, <<>>}, serve' \in {serve, None}
  PROVE  QueueLife'
<1>1. backlog \in Seq(Ends)
  BY DEF QueueLife
<1>2. <<>> \in Seq(Ends) /\ Len(<<>>) = 0
  OBVIOUS
<1>3. CASE backlog' = backlog
  BY <1>3 DEF QueueLife
<1>4. CASE backlog' = <<>>
  <2>1. backlog' \in Seq(Ends) /\ Len(backlog') <= Backlog
    BY <1>2, <1>4, SessionAssumption
  <2> QED
    BY <2>1 DEF QueueLife
<1> QED
  BY <1>3, <1>4

\* Who hangs up is replaced where the connection waits.
LEMMA HangUpKeeps ==
  ASSUME QueueLife, NEW s, HangUp(s)
  PROVE  QueueLife'
<1> DEFINE gone == IF link = "up" THEN Closed ELSE Silent
           Now(p) == IF p = s THEN gone ELSE p
<1>1. backlog' = [i \in DOMAIN backlog |-> Now(backlog[i])] /\ serve' = Now(serve)
  BY DEF HangUp
<1>2. gone \in Ends
  BY DEF Ends
<1>3. \A p : p \in Ends => Now(p) \in Ends
  BY <1>2
<1>4. Len(backlog) \in Nat /\ DOMAIN backlog = 1 .. Len(backlog)
      /\ \A i \in 1 .. Len(backlog) : backlog[i] \in Ends
  BY DEF QueueLife
<1>5. serve' \in Ends \cup {None}
  BY <1>1, <1>2 DEF QueueLife
<1> HIDE DEF Now
<1>6. backlog' \in Seq(Ends) /\ Len(backlog') = Len(backlog)
  BY <1>1, <1>3, <1>4
<1> QED
  BY <1>5, <1>6 DEF QueueLife

LEMMA LifeStep ==
  LifeInv /\ [SessionNext]_sessionVars => LifeInv'
<1> SUFFICES ASSUME LifeInv, [SessionNext]_sessionVars PROVE LifeInv'
  OBVIOUS
<1> USE DEF LifeInv, WorkerLife, ServerLife, ReleaseLife,
           clientVars, serverVars, Go, Step,
           Stages, MainStates, SrvStates
<1>1. ASSUME NEW s \in StreamSessions, Start(s) PROVE LifeInv'
  BY <1>1 DEF Start, MailLife, QueueLife
<1>2. ASSUME NEW s \in StreamSessions, Stop(s) PROVE LifeInv'
  <2>1. QueueLife'
    <3>1. HangUp(s) \/ UNCHANGED <<backlog, serve>>
      BY <1>2 DEF Stop
    <3> QED
      BY <3>1, HangUpKeeps DEF QueueLife
  <2>2. MailLife'
    BY <1>2, MailOps DEF Stop, MailLife
  <2> QED
    BY <1>2, <2>1, <2>2 DEF Stop
<1>3. ASSUME NEW s \in StreamSessions, Discover(s) PROVE LifeInv'
  BY <1>3 DEF Discover, MailLife, QueueLife
<1>4. ASSUME NEW s \in StreamSessions, NoOffer(s) PROVE LifeInv'
  BY <1>4 DEF NoOffer, MailLife, QueueLife
<1>5. ASSUME NEW s \in StreamSessions, OpenSocket(s) PROVE LifeInv'
  BY <1>5 DEF OpenSocket, MailLife, QueueLife
<1>6. ASSUME NEW s \in StreamSessions, Connect(s) PROVE LifeInv'
  <2>1. QueueLife'
    <3>1. backlog' = Append(backlog, s) /\ s \in Ends /\ Len(backlog) < Backlog
      BY <1>6 DEF Connect, CanConnect, Ends, StreamSessions
    <3>2. backlog' \in Seq(Ends) /\ Len(backlog') <= Backlog
      BY <3>1, MailOps, SessionAssumption DEF QueueLife
    <3> QED
      BY <1>6, <3>2 DEF Connect, QueueLife
  <2>2. MailLife'
    BY <1>6 DEF Connect, MailLife
  <2> QED
    BY <1>6, <2>1, <2>2 DEF Connect
<1>7. ASSUME NEW s \in StreamSessions, ConnectFails(s) PROVE LifeInv'
  BY <1>7 DEF ConnectFails, MailLife, QueueLife
<1>8. ASSUME NEW s \in StreamSessions, ReadHello(s) PROVE LifeInv'
  <2>1. MailLife'
    <3>1. /\ inbox[s] \in Seq(ServerLines) /\ inbox[s] # <<>>
          /\ inbox' = [inbox EXCEPT ![s] = Tail(inbox[s])]
      BY <1>8 DEF ReadHello, Receives, MailLife
    <3>2. Tail(inbox[s]) \in Seq(ServerLines)
      BY <3>1, MailOps
    <3> QED
      BY <1>8, <3>1, <3>2 DEF ReadHello, MailLife
  <2>2. QueueLife'
    BY <1>8 DEF ReadHello, QueueLife
  <2> QED
    BY <1>8, <2>1, <2>2 DEF ReadHello
<1>9. ASSUME NEW s \in StreamSessions, HelloFails(s) PROVE LifeInv'
  BY <1>9 DEF HelloFails, MailLife, QueueLife
<1>10. ASSUME NEW s \in StreamSessions, SendReady(s) PROVE LifeInv'
  <2>1. MailLife'
    <3>1. lines' \in {lines, Append(lines, "READY")}
      BY <1>10 DEF SendReady
    <3>2. lines' \in Seq(ClientLines)
      BY <3>1, LinesKeep
    <3> QED
      BY <1>10, <3>2 DEF SendReady, MailLife
  <2>2. QueueLife'
    BY <1>10 DEF SendReady, QueueLife
  <2> QED
    BY <1>10, <2>1, <2>2 DEF SendReady
<1>11. ASSUME NEW s \in StreamSessions, SetupFails(s) PROVE LifeInv'
  BY <1>11 DEF SetupFails, MailLife, QueueLife
<1>12. ASSUME NEW s \in StreamSessions, ReadStart(s) PROVE LifeInv'
  <2>1. MailLife'
    <3>1. /\ inbox[s] \in Seq(ServerLines) /\ inbox[s] # <<>>
          /\ inbox' = [inbox EXCEPT ![s] = Tail(inbox[s])]
      BY <1>12 DEF ReadStart, Receives, MailLife
    <3>2. Tail(inbox[s]) \in Seq(ServerLines)
      BY <3>1, MailOps
    <3> QED
      BY <1>12, <3>1, <3>2 DEF ReadStart, MailLife
  <2>2. QueueLife'
    BY <1>12 DEF ReadStart, QueueLife
  <2> QED
    BY <1>12, <2>1, <2>2 DEF ReadStart
<1>13. ASSUME NEW s \in StreamSessions, StartFails(s) PROVE LifeInv'
  BY <1>13 DEF StartFails, MailLife, QueueLife
<1>14. ASSUME NEW s \in StreamSessions, StreamEnds(s) PROVE LifeInv'
  BY <1>14 DEF StreamEnds, MailLife, QueueLife
<1>15. ASSUME NEW s \in StreamSessions, Retry(s) PROVE LifeInv'
  <2>1. QueueLife'
    <3>1. HangUp(s) \/ UNCHANGED <<backlog, serve>>
      BY <1>15 DEF Retry
    <3> QED
      BY <3>1, HangUpKeeps DEF QueueLife
  <2>2. MailLife'
    BY <1>15, MailOps DEF Retry, MailLife
  <2> QED
    BY <1>15, <2>1, <2>2 DEF Retry
<1>16. ASSUME NEW s \in StreamSessions, Ping(s) PROVE LifeInv'
  BY <1>16 DEF Ping, MailLife, QueueLife
<1>17. ASSUME NEW s \in StreamSessions, TcpGivesUp(s) PROVE LifeInv'
  BY <1>17 DEF TcpGivesUp, MailLife, QueueLife
<1>18. CASE Accept
  <2>1. QueueLife'
    <3>1. backlog # <<>> /\ serve' = Head(backlog) /\ backlog' = Tail(backlog)
      BY <1>18 DEF Accept
    <3>2. /\ Head(backlog) \in Ends /\ Tail(backlog) \in Seq(Ends)
          /\ Len(Tail(backlog)) <= Backlog
      BY <3>1, MailOps, SessionAssumption DEF QueueLife
    <3> QED
      BY <3>1, <3>2 DEF QueueLife
  <2>2. MailLife'
    BY <1>18, MailOps DEF Accept, MailLife
  <2> QED
    BY <1>18, <2>1, <2>2 DEF Accept
<1>19. CASE AcceptFails
  BY <1>19 DEF AcceptFails, MailLife, QueueLife
<1>20. CASE Greet
  <2>1. MailLife'
    <3>1. "HELLO" \in ServerLines
      BY DEF ServerLines
    <3>2. \/ inbox' = inbox
          \/ inbox' = IF serve \in StreamSessions
                      THEN [inbox EXCEPT ![serve] = Append(@, "HELLO")] ELSE inbox
      BY <1>20 DEF Greet, Send
    <3>3. inbox' \in [StreamSessions -> Seq(ServerLines)]
      BY <3>1, <3>2, SendKeeps DEF MailLife
    <3>4. lines' = lines \/ (lines # <<>> /\ lines' = Tail(lines))
      BY <1>20 DEF Greet
    <3>5. lines' \in Seq(ClientLines)
      BY <3>4, LinesKeep
    <3> QED
      BY <3>3, <3>5 DEF MailLife
  <2>2. QueueLife'
    BY <1>20 DEF Greet, QueueLife
  <2> QED
    BY <1>20, <2>1, <2>2 DEF Greet
<1>21. CASE LoopTest
  BY <1>21 DEF LoopTest, MailLife, QueueLife
<1>22. CASE AnswerLine
  <2>1. MailLife'
    <3>1. "START" \in ServerLines
      BY DEF ServerLines
    <3>2. \/ inbox' = inbox
          \/ inbox' = IF serve \in StreamSessions
                      THEN [inbox EXCEPT ![serve] = Append(@, "START")] ELSE inbox
      BY <1>22 DEF AnswerLine, Send
    <3>3. inbox' \in [StreamSessions -> Seq(ServerLines)]
      BY <3>1, <3>2, SendKeeps DEF MailLife
    <3>4. lines' = lines \/ (lines # <<>> /\ lines' = Tail(lines))
      BY <1>22 DEF AnswerLine
    <3>5. lines' \in Seq(ClientLines)
      BY <3>4, LinesKeep
    <3> QED
      BY <3>3, <3>5 DEF MailLife
  <2>2. QueueLife'
    BY <1>22 DEF AnswerLine, QueueLife
  <2> QED
    BY <1>22, <2>1, <2>2 DEF AnswerLine
<1>23. CASE ReadEnds
  BY <1>23 DEF ReadEnds, MailLife, QueueLife
<1>24. CASE ReadTimeout
  BY <1>24 DEF ReadTimeout, MailLife, QueueLife
<1>25. CASE Leave \/ StopListening \/ CloseClient \/ Crash
  <2>1. QueueLife'
    <3>1. backlog' \in {backlog, <<>>} /\ serve' \in {serve, None}
      BY <1>25 DEF Leave, StopListening, CloseClient, Crash
    <3> QED
      BY <3>1, ResetKeeps
  <2>2. MailLife'
    <3>1. inbox' = inbox /\ lines' \in {lines, <<>>}
      BY <1>25 DEF Leave, StopListening, CloseClient, Crash
    <3> QED
      BY <3>1, LinesKeep DEF MailLife
  <2> QED
    BY <1>25, <2>1, <2>2 DEF Leave, StopListening, CloseClient, Crash
<1>26. CASE StartServer
  BY <1>26 DEF StartServer, MailLife, QueueLife
<1>27. CASE Join
  BY <1>27 DEF Join, MailLife, QueueLife
<1>28. CASE LinkChanges
  BY <1>28 DEF LinkChanges, MailLife, QueueLife
<1>29. CASE FinArrives
  <2>1. QueueLife'
    <3>1. Closed \in Ends
      BY DEF Ends
    <3>2. CASE serve' = Closed /\ backlog' = backlog
      BY <3>1, <3>2 DEF QueueLife
    <3>3. ASSUME NEW i \in DOMAIN backlog,
                 backlog' = [backlog EXCEPT ![i] = Closed], serve' = serve
          PROVE  QueueLife'
      <4>1. backlog' \in Seq(Ends) /\ Len(backlog') = Len(backlog)
        BY <3>1, <3>3 DEF QueueLife
      <4> QED
        BY <3>3, <4>1 DEF QueueLife
    <3> QED
      BY <1>29, <3>2, <3>3 DEF FinArrives
  <2>2. MailLife'
    BY <1>29 DEF FinArrives, MailLife
  <2> QED
    BY <1>29, <2>1, <2>2 DEF FinArrives
<1>30. CASE UNCHANGED sessionVars
  BY <1>30 DEF sessionVars, MailLife, QueueLife
<1> QED
  BY <1>1, <1>2, <1>3, <1>4, <1>5, <1>6, <1>7, <1>8, <1>9, <1>10, <1>11, <1>12,
     <1>13, <1>14, <1>15, <1>16, <1>17, <1>18, <1>19, <1>20, <1>21, <1>22, <1>23,
     <1>24, <1>25, <1>26, <1>27, <1>28, <1>29, <1>30
     DEF SessionNext, SessionWorker, AcceptThread, StopServer, StreamSessions

LEMMA LifeInvariant == SessionSpec => []LifeInv
<1>1. SessionInit => LifeInv
  <2> SUFFICES ASSUME SessionInit PROVE LifeInv
    OBVIOUS
  <2>1. WorkerLife /\ ServerLife /\ ReleaseLife
    BY DEF SessionInit, WorkerLife, ServerLife, ReleaseLife, Stages,
           MainStates, SrvStates, StreamSessions
  <2>2. MailLife /\ QueueLife
    BY MailOps, SessionAssumption DEF SessionInit, MailLife, QueueLife, StreamSessions
  <2> QED
    BY <2>1, <2>2 DEF LifeInv
<1>2. LifeInv /\ [SessionNext]_sessionVars => LifeInv'
  BY LifeStep
<1> QED
  BY <1>1, <1>2, PTL DEF SessionSpec

\* Types of Session; a connection that nobody has accepted yet waits in the
\* backlog only while there is room, whoever connects, hangs up or comes back.
THEOREM SessionTypeCorrect == SessionSpec => []SessionTypeOK
<1>1. LifeInv => SessionTypeOK
  BY DEF LifeInv, WorkerLife, MailLife, ServerLife, QueueLife, ReleaseLife,
         SessionTypeOK, StreamSessions
<1> QED
  BY <1>1, LifeInvariant, PTL

-----------------------------------------------------------------------------
(* What the two ends say to each other *)

Talking == {"hello", "setup", "start", "stream", "failed"}

\* A connection of s that nobody has accepted yet.
Queued(s) == \E i \in DOMAIN backlog : backlog[i] = s
QueuedOnce(s) == \A i, j \in DOMAIN backlog : backlog[i] = s /\ backlog[j] = s => i = j

\* What is on its way between the worker of s and the thread that serves it.
Agreed(s) ==
  /\ pc[s] = "hello" => inbox[s] = <<"HELLO">>
  /\ pc[s] \in {"hello", "setup", "stream"} => lines = <<>>
  /\ pc[s] = "start" => \/ lines = <<>> /\ inbox[s] = <<"START">>
                        \/ lines = <<"READY">> /\ inbox[s] = <<>>

InStepOf(s) ==
  \/ pc[s] = "failed"
  \/ inbox[s] = <<>>
  \/ pc[s] = "hello" /\ inbox[s] = <<"HELLO">>
  \/ pc[s] = "start" /\ inbox[s] = <<"START">>

\* A worker with a connection has not closed it.  Until it is accepted nothing
\* has been said on it, and then only what the worker's stage tells.
Dialog(s) ==
  /\ Queued(s) \/ serve = s => sock[s] = "open" /\ pc[s] \in Talking
  /\ Queued(s) \/ (serve = s /\ srv = "accepted") =>
       inbox[s] = <<>> /\ pc[s] \in {"hello", "failed"}
  /\ Queued(s) => serve # s
  /\ serve = s /\ srv # "accepted" => Agreed(s)
  /\ InStepOf(s)

\* The accept thread has published the connection it serves, until stop() or it
\* closes that.
Serving ==
  /\ srv \in {"accept", "ended"} => ~fd /\ serve = None
  /\ srv = "accepted" => ~fd /\ serve # None /\ lines = <<>>
  /\ srv \in {"test", "recv", "leave"} => (fd <=> serve # None)

Stopping ==
  /\ (main = "up" <=> srunning) /\ (main = "up" <=> listening)
  /\ main = "down" => srv = "ended"
  /\ main # "up" => backlog = <<>>
  /\ main = "join" /\ srv = "recv" => ~fd

DialogInv ==
  /\ \A s \in StreamSessions : QueuedOnce(s) /\ Dialog(s)
  /\ Serving /\ Stopping

LEMMA SessionEnds ==
  ASSUME NEW s \in StreamSessions
  PROVE  s \in Nat /\ s # None /\ s # Closed /\ s # Silent /\ s \in Ends
BY SessionAssumption DEF StreamSessions, None, Closed, Silent, Ends

\* The lines as the two ends read and append them.
LEMMA Talk ==
  /\ Append(<<>>, "HELLO") = <<"HELLO">> /\ Append(<<>>, "READY") = <<"READY">>
  /\ Append(<<>>, "START") = <<"START">>
  /\ Tail(<<"HELLO">>) = <<>> /\ Tail(<<"START">>) = <<>> /\ Tail(<<"READY">>) = <<>>
  /\ Head(<<"HELLO">>) = "HELLO" /\ Head(<<"START">>) = "START"
  /\ <<"HELLO">> # <<>> /\ <<"START">> # <<>> /\ <<"READY">> # <<>>
OBVIOUS

\* Who hangs up is no longer at the other end of any connection.
LEMMA HangUpQueue ==
  ASSUME QueueLife, NEW s \in StreamSessions, HangUp(s)
  PROVE  /\ serve' = None <=> serve = None
         /\ \A t \in StreamSessions :
              /\ Queued(t)' => Queued(t) /\ t # s
              /\ serve' = t <=> serve = t /\ t # s
              /\ QueuedOnce(t) => QueuedOnce(t)'
<1> DEFINE gone == IF link = "up" THEN Closed ELSE Silent
           Now(p) == IF p = s THEN gone ELSE p
<1>1. backlog' = [i \in DOMAIN backlog |-> Now(backlog[i])] /\ serve' = Now(serve)
  BY DEF HangUp
<1>2. gone # None /\ s # None /\ \A t \in StreamSessions : gone # t
  BY SessionEnds DEF Closed, Silent, None
<1>3. /\ DOMAIN backlog' = DOMAIN backlog
      /\ \A i \in DOMAIN backlog : backlog'[i] = Now(backlog[i])
  BY <1>1
<1>4. \A t \in StreamSessions : \A p : Now(p) = t <=> p = t /\ t # s
  BY <1>2
<1>5. Now(serve) = None <=> serve = None
  BY <1>2
<1> HIDE DEF Now
<1>6. ASSUME NEW t \in StreamSessions
      PROVE  /\ Queued(t)' => Queued(t) /\ t # s
             /\ QueuedOnce(t) => QueuedOnce(t)'
  BY <1>3, <1>4 DEF Queued, QueuedOnce
<1> QED
  BY <1>1, <1>4, <1>5, <1>6

\* A new connection waits behind the others.
LEMMA ConnectQueue ==
  ASSUME QueueLife, NEW s \in StreamSessions, backlog' = Append(backlog, s)
  PROVE  \A t \in StreamSessions :
           /\ Queued(t)' => Queued(t) \/ t = s
           /\ QueuedOnce(t) /\ ~(t = s /\ Queued(t)) => QueuedOnce(t)'
<1>1. backlog \in Seq(Ends) /\ s \in Ends
  BY SessionEnds DEF QueueLife
<1>2. /\ Len(backlog) \in Nat /\ DOMAIN backlog = 1 .. Len(backlog)
      /\ DOMAIN backlog' = 1 .. Len(backlog) + 1
      /\ \A i \in 1 .. Len(backlog) : backlog'[i] = backlog[i]
      /\ backlog'[Len(backlog) + 1] = s
  BY <1>1
<1>3. \A i \in DOMAIN backlog' : i \in DOMAIN backlog \/ i = Len(backlog) + 1
  BY <1>2
<1> QED
  BY <1>2, <1>3 DEF Queued, QueuedOnce

\* accept() takes the first connection.
LEMMA AcceptQueue ==
  ASSUME QueueLife, backlog # <<>>, backlog' = Tail(backlog), serve' = Head(backlog)
  PROVE  /\ serve' # None
         /\ \A t \in StreamSessions :
              /\ Queued(t)' => Queued(t)
              /\ serve' = t => Queued(t)
              /\ QueuedOnce(t) => QueuedOnce(t)' /\ ~(serve' = t /\ Queued(t)')
<1>1. backlog \in Seq(Ends)
  BY DEF QueueLife
<1>2. /\ Len(backlog) \in Nat \ {0} /\ DOMAIN backlog = 1 .. Len(backlog)
      /\ serve' = backlog[1] /\ backlog[1] \in Ends
      /\ DOMAIN backlog' = 1 .. Len(backlog) - 1
      /\ \A i \in 1 .. Len(backlog) - 1 : backlog'[i] = backlog[i + 1]
  BY <1>1
<1>3. serve' # None
  BY <1>2, SessionEnds DEF Ends, None, Closed, Silent
<1>4. 1 \in DOMAIN backlog
  BY <1>2
<1>5. \A i \in DOMAIN backlog' :
         i + 1 \in DOMAIN backlog /\ i + 1 # 1 /\ backlog'[i] = backlog[i + 1]
  BY <1>2
<1>6. \A i, j \in DOMAIN backlog' : i + 1 = j + 1 => i = j
  BY <1>2
<1>7. ASSUME NEW t \in StreamSessions
      PROVE  /\ Queued(t)' => Queued(t)
             /\ serve' = t => Queued(t)
    BY <1>2, <1>4, <1>5 DEF Queued
<1>8. ASSUME NEW t \in StreamSessions, QueuedOnce(t)
      PROVE  QueuedOnce(t)' /\ ~(serve' = t /\ Queued(t)')
  <2>1. QueuedOnce(t)'
    BY <1>5, <1>6, <1>8 DEF QueuedOnce
  <2>2. ~(serve' = t /\ Queued(t)')
    BY <1>2, <1>4, <1>5, <1>8 DEF Queued, QueuedOnce
  <2> QED
    BY <2>1, <2>2
<1> QED
  BY <1>3, <1>7, <1>8

\* Connections that are reset, and those whose silence ends.
LEMMA OtherQueue ==
  ASSUME QueueLife,
         \/ backlog' \in {backlog, <<>>}
         \/ \E i \in DOMAIN backlog : backlog' = [backlog EXCEPT ![i] = Closed]
  PROVE  \A t \in StreamSessions :
           (Queued(t)' => Queued(t)) /\ (QueuedOnce(t) => QueuedOnce(t)')
<1>1. CASE backlog' = backlog
  BY <1>1 DEF Queued, QueuedOnce
<1>2. CASE backlog' = <<>>
  BY <1>2 DEF Queued, QueuedOnce
<1>3. ASSUME NEW i \in DOMAIN backlog, backlog' = [backlog EXCEPT ![i] = Closed]
      PROVE  \A t \in StreamSessions :
               (Queued(t)' => Queued(t)) /\ (QueuedOnce(t) => QueuedOnce(t)')
  <2>1. \A t \in StreamSessions : t # Closed
    BY SessionEnds
  <2>2. /\ DOMAIN backlog' = DOMAIN backlog
        /\ \A j \in DOMAIN backlog : backlog'[j] = IF j = i THEN Closed ELSE backlog[j]
    BY <1>3 DEF QueueLife
  <2> QED
    BY <2>1, <2>2 DEF Queued, QueuedOnce
<1> QED
  BY <1>1, <1>2, <1>3

\* A step that is not about the connection of t.
LEMMA DialogKeeps ==
  ASSUME NEW t \in StreamSessions, Dialog(t),
         pc'[t] = pc[t], sock'[t] = sock[t], inbox'[t] = inbox[t],
         Queued(t)' => Queued(t),
         serve' = t => /\ serve = t /\ lines' = lines
                       /\ srv' = "accepted" <=> srv = "accepted"
  PROVE  Dialog(t)'
<1>1. Agreed(t) /\ lines' = lines => Agreed(t)'
  BY DEF Agreed
<1>2. InStepOf(t)'
  BY DEF Dialog, InStepOf
<1> HIDE DEF Queued, Agreed, InStepOf
<1> QED
  BY <1>1, <1>2 DEF Dialog

\* A worker that goes on, or gives up, without a word.
LEMMA StageDialog ==
  ASSUME LifeInv, NEW t \in StreamSessions, Dialog(t), NEW s \in StreamSessions,
         \/ Start(s) \/ Discover(s) \/ NoOffer(s) \/ OpenSocket(s) \/ ConnectFails(s)
         \/ HelloFails(s) \/ SetupFails(s) \/ StartFails(s) \/ StreamEnds(s) \/ TcpGivesUp(s)
  PROVE  Dialog(t)'
<1>1. /\ UNCHANGED <<inbox, backlog, serve, lines, srv>>
      /\ \A p \in StreamSessions : p # s => pc'[p] = pc[p] /\ sock'[p] = sock[p]
      /\ \/ pc'[s] = "failed" /\ sock'[s] = sock[s]
            /\ (pc[s] \in Talking \/ pc[s] \in {"discover", "connect"})
         \/ pc[s] \in {"new", "discover", "offered"} /\ pc'[s] # "failed"
  BY DEF LifeInv, WorkerLife, Start, Discover, NoOffer, OpenSocket, ConnectFails, HelloFails,
         SetupFails, StartFails, StreamEnds, TcpGivesUp, Go, serverVars, Talking
<1>2. Queued(t)' <=> Queued(t)
  BY <1>1 DEF Queued
<1>3. CASE t = s
  BY <1>1, <1>2, <1>3 DEF Dialog, Agreed, InStepOf, Talking
<1>4. CASE t # s
  BY <1>1, <1>2, <1>4, DialogKeeps
<1> QED
  BY <1>3, <1>4

\* A worker that reads the answer it waits for.
LEMMA ReadDialog ==
  ASSUME LifeInv, NEW t \in StreamSessions, Dialog(t), NEW s \in StreamSessions,
         ReadHello(s) \/ ReadStart(s)
  PROVE  Dialog(t)'
<1>1. /\ UNCHANGED <<sock, backlog, serve, lines, srv>>
      /\ \A p \in StreamSessions : p # s => pc'[p] = pc[p] /\ inbox'[p] = inbox[p]
      /\ \/ pc[s] = "hello" /\ pc'[s] = "setup"
         \/ pc[s] = "start" /\ pc'[s] = "stream"
      /\ inbox[s] # <<>> /\ inbox'[s] = Tail(inbox[s])
  BY DEF LifeInv, WorkerLife, MailLife, ReadHello, ReadStart, Receives, Go, serverVars
<1>2. Queued(t)' <=> Queued(t)
  BY <1>1 DEF Queued
<1>3. CASE t = s
  <2>1. inbox'[s] = <<>>
    BY <1>1, <1>3, Talk DEF Dialog, InStepOf
  <2>2. ~Queued(s) /\ (serve = s => srv # "accepted" /\ lines = <<>>)
    BY <1>1, <1>3, Talk DEF Dialog, Agreed
  <2> QED
    BY <1>1, <1>2, <1>3, <2>1, <2>2 DEF Dialog, Agreed, InStepOf, Talking
<1>4. CASE t # s
  BY <1>1, <1>2, <1>4, DialogKeeps
<1> QED
  BY <1>3, <1>4

\* READY, on a connection that may be gone.
LEMMA ReadyDialog ==
  ASSUME LifeInv, NEW t \in StreamSessions, Dialog(t), NEW s \in StreamSessions,
         SendReady(s)
  PROVE  Dialog(t)'
<1>1. /\ UNCHANGED <<sock, inbox, backlog, serve, srv>>
      /\ \A p \in StreamSessions : p # s => pc'[p] = pc[p]
      /\ pc[s] = "setup" /\ pc'[s] \in {"start", "failed"}
      /\ pc'[s] = "start" => lines' = IF serve = s THEN Append(lines, "READY") ELSE lines
      /\ pc'[s] = "failed" => lines' = lines
      /\ serve # s => lines' = lines
  BY DEF LifeInv, WorkerLife, SendReady, Go
<1>2. Queued(t)' <=> Queued(t)
  BY <1>1 DEF Queued
<1>3. CASE t = s
  <2>1. inbox[s] = <<>> /\ ~Queued(s) /\ (serve = s => srv # "accepted" /\ lines = <<>>)
    BY <1>1, <1>3 DEF Dialog, Agreed, InStepOf
  <2>2. pc'[s] = "start" /\ serve = s => lines' = <<"READY">>
    BY <1>1, <2>1, Talk
  <2> QED
    BY <1>1, <1>2, <1>3, <2>1, <2>2 DEF Dialog, Agreed, InStepOf, Talking
<1>4. CASE t # s
  BY <1>1, <1>2, <1>4, DialogKeeps
<1> QED
  BY <1>3, <1>4

\* A new connection: nothing is left of the one before.
LEMMA ConnectDialog ==
  ASSUME LifeInv, NEW t \in StreamSessions, Dialog(t), NEW s \in StreamSessions,
         Connect(s)
  PROVE  Dialog(t)'
<1>1. /\ UNCHANGED <<sock, inbox, serve, lines, srv>> /\ sock[s] = "open"
      /\ \A p \in StreamSessions : p # s => pc'[p] = pc[p]
      /\ pc[s] = "connect" /\ pc'[s] = "hello"
  BY DEF LifeInv, WorkerLife, Connect, Go
<1>2. Queued(t)' => Queued(t) \/ t = s
  BY ConnectQueue DEF LifeInv, Connect
<1>3. CASE t = s
  BY <1>1, <1>3 DEF Dialog, Agreed, InStepOf, Talking
<1>4. CASE t # s
  BY <1>1, <1>2, <1>4, DialogKeeps
<1> QED
  BY <1>3, <1>4

\* Whoever closes its socket is unknown from then on.
LEMMA LeaveDialog ==
  ASSUME LifeInv, NEW t \in StreamSessions, Dialog(t), NEW s \in StreamSessions,
         Stop(s) \/ Retry(s)
  PROVE  Dialog(t)'
<1>1. /\ UNCHANGED <<lines, srv>>
      /\ \A p \in StreamSessions :
           p # s => pc'[p] = pc[p] /\ sock'[p] = sock[p] /\ inbox'[p] = inbox[p]
      /\ \/ pc'[s] = pc[s] /\ inbox'[s] = inbox[s]
         \/ inbox'[s] = <<>>
      /\ IF sock[s] = "open" THEN HangUp(s) ELSE UNCHANGED <<sock[s], backlog, serve>>
                                                 \/ UNCHANGED <<backlog, serve>>
  BY DEF LifeInv, WorkerLife, MailLife, Stop, Retry, Go
<1>2. /\ Queued(t)' => Queued(t) /\ (t = s => sock[s] # "open")
      /\ serve' = t => serve = t /\ (t = s => sock[s] # "open")
  <2>1. CASE sock[s] = "open"
    BY <1>1, <2>1, HangUpQueue DEF LifeInv
  <2>2. CASE sock[s] # "open"
    BY <1>1, <2>2 DEF Queued
  <2> QED
    BY <2>1, <2>2
<1>3. CASE t = s
  <2>1. ~Queued(s)' /\ serve' # s
    BY <1>2, <1>3 DEF Dialog
  <2> QED
    BY <1>1, <1>3, <2>1 DEF Dialog, InStepOf
<1>4. CASE t # s
  BY <1>1, <1>2, <1>4, DialogKeeps
<1> QED
  BY <1>3, <1>4

\* accept(), and HELLO once the connection is published.
LEMMA AcceptDialog ==
  ASSUME LifeInv, NEW t \in StreamSessions, QueuedOnce(t), Dialog(t), Serving,
         Accept \/ Greet
  PROVE  Dialog(t)'
<1>1. CASE Accept
  <2>1. UNCHANGED <<pc, sock, inbox>> /\ lines' = <<>> /\ srv' = "accepted"
    BY <1>1 DEF Accept, clientVars
  <2>2. /\ Queued(t)' => Queued(t)
        /\ serve' = t => Queued(t) /\ ~Queued(t)'
    BY <1>1, AcceptQueue DEF LifeInv, Accept
  <2> HIDE DEF Queued
  <2> QED
    BY <2>1, <2>2 DEF Dialog, InStepOf, Talking
<1>2. CASE Greet
  <2>1. /\ UNCHANGED <<pc, sock, backlog, serve, lines>>
        /\ srv = "accepted" /\ srv' = "test" /\ lines = <<>>
        /\ inbox'[t] = IF serve = t THEN Append(inbox[t], "HELLO") ELSE inbox[t]
    BY <1>2 DEF LifeInv, MailLife, Greet, Step, Serving
  <2>2. Queued(t)' <=> Queued(t)
    BY <2>1 DEF Queued
  <2>3. CASE serve = t
    <3>1. inbox[t] = <<>> /\ pc[t] \in {"hello", "failed"}
      BY <2>1, <2>3 DEF Dialog
    <3>2. inbox'[t] = <<"HELLO">>
      BY <2>1, <2>3, <3>1, Talk
    <3> QED
      BY <2>1, <2>2, <2>3, <3>1, <3>2 DEF Dialog, Agreed, InStepOf, Talking
  <2>4. CASE serve # t
    BY <2>1, <2>2, <2>4, DialogKeeps
  <2> QED
    BY <2>3, <2>4
<1> QED
  BY <1>1, <1>2

\* START answers READY, and nothing else does.
LEMMA AnswerDialog ==
  ASSUME LifeInv, NEW t \in StreamSessions, Dialog(t), Serving, AnswerLine
  PROVE  Dialog(t)'
<1>1. /\ UNCHANGED <<pc, sock, backlog, serve>>
      /\ srv = "recv" /\ srv' = "test" /\ lines # <<>> /\ lines' = Tail(lines)
      /\ inbox'[t] = IF serve = t THEN Append(inbox[t], "START") ELSE inbox[t]
  <2>1. serve \in StreamSessions => fd
    BY SessionEnds DEF Serving, AnswerLine
  <2> QED
    BY <2>1 DEF LifeInv, MailLife, AnswerLine, Send, Step
<1>2. Queued(t)' <=> Queued(t)
  BY <1>1 DEF Queued
<1>3. CASE serve = t
  <2>1. Agreed(t) /\ pc[t] \in {"start", "failed"} /\ ~Queued(t)
    BY <1>1, <1>3 DEF Dialog, Agreed, Talking
  <2>2. CASE pc[t] = "start"
    <3>1. lines = <<"READY">> /\ inbox[t] = <<>>
      BY <1>1, <2>1, <2>2 DEF Agreed
    <3>2. lines' = <<>> /\ inbox'[t] = <<"START">>
      BY <1>1, <1>3, <3>1, Talk
    <3> QED
      BY <1>1, <1>2, <1>3, <2>1, <2>2, <3>2 DEF Dialog, Agreed, InStepOf
  <2>3. CASE pc[t] = "failed"
    BY <1>1, <1>2, <1>3, <2>1, <2>3 DEF Dialog, Agreed, InStepOf
  <2> QED
    BY <2>1, <2>2, <2>3
<1>4. CASE serve # t
  BY <1>1, <1>2, <1>4, DialogKeeps
<1> QED
  BY <1>3, <1>4

\* The rest of the accept thread, the main thread and the network: connections
\* go on or are closed.
LEMMA OtherDialog ==
  ASSUME LifeInv, NEW t \in StreamSessions, Dialog(t), Serving, Stopping,
         \/ \E s \in StreamSessions : Ping(s)
         \/ AcceptFails \/ LoopTest \/ ReadEnds \/ ReadTimeout \/ Leave
         \/ StartServer \/ StopListening \/ StopServer \/ Crash
         \/ LinkChanges \/ FinArrives \/ UNCHANGED sessionVars
  PROVE  Dialog(t)'
<1>1. UNCHANGED <<pc, sock, inbox>>
  BY DEF Ping, AcceptFails, LoopTest, ReadEnds, ReadTimeout, Leave, StartServer,
         StopListening, StopServer, CloseClient, Join, Crash, LinkChanges, FinArrives,
         Step, clientVars, sessionVars
<1>2. \/ backlog' \in {backlog, <<>>}
      \/ \E i \in DOMAIN backlog : backlog' = [backlog EXCEPT ![i] = Closed]
  BY DEF Ping, AcceptFails, LoopTest, ReadEnds, ReadTimeout, Leave, StartServer,
         StopListening, StopServer, CloseClient, Join, Crash, LinkChanges, FinArrives,
         Step, serverVars, sessionVars
<1>3. Queued(t)' => Queued(t)
  BY <1>2, OtherQueue DEF LifeInv
<1>4. \/ serve' \in {None, Closed}
      \/ /\ UNCHANGED <<serve, lines>>
         /\ srv' = "accepted" <=> srv = "accepted"
      \/ serve = None
  BY DEF Ping, AcceptFails, LoopTest, ReadEnds, ReadTimeout, Leave, StartServer,
         StopListening, StopServer, CloseClient, Join, Crash, LinkChanges, FinArrives,
         Step, serverVars, sessionVars, Serving, Stopping
<1>5. serve = None => serve' = None
  BY DEF Ping, AcceptFails, LoopTest, ReadEnds, ReadTimeout, Leave, StartServer,
         StopListening, StopServer, CloseClient, Join, Crash, LinkChanges, FinArrives,
         Step, serverVars, sessionVars, Silent, None
<1>6. t # None /\ t # Closed
  BY SessionEnds
<1> QED
  BY <1>1, <1>3, <1>4, <1>5, <1>6, DialogKeeps

\* No connection waits twice.
LEMMA OnceStep ==
  ASSUME LifeInv, NEW t \in StreamSessions, QueuedOnce(t), Dialog(t),
         [SessionNext]_sessionVars
  PROVE  QueuedOnce(t)'
<1>1. ASSUME NEW s \in StreamSessions, Connect(s) PROVE QueuedOnce(t)'
  <2>1. t = s => ~Queued(t)
    BY <1>1 DEF Dialog, Connect, Talking
  <2> QED
    BY <1>1, <2>1, ConnectQueue DEF LifeInv, Connect
<1>2. CASE Accept
  BY <1>2, AcceptQueue DEF LifeInv, Accept
<1>3. ASSUME NEW s \in StreamSessions, HangUp(s) PROVE QueuedOnce(t)'
  BY <1>3, HangUpQueue DEF LifeInv
<1>4. \/ \E s \in StreamSessions : Connect(s) \/ HangUp(s)
      \/ Accept
      \/ backlog' \in {backlog, <<>>}
      \/ \E i \in DOMAIN backlog : backlog' = [backlog EXCEPT ![i] = Closed]
  BY DEF SessionNext, SessionWorker, AcceptThread, Start, Discover, NoOffer, OpenSocket,
         ConnectFails, ReadHello, HelloFails, SendReady, SetupFails, ReadStart, StartFails,
         StreamEnds, TcpGivesUp, Stop, Retry, Ping, AcceptFails, Greet, LoopTest, AnswerLine,
         ReadEnds, ReadTimeout, Leave, StartServer, StopListening, StopServer, CloseClient,
         Join, Crash, LinkChanges, FinArrives, Step, serverVars, sessionVars
<1> QED
  BY <1>1, <1>2, <1>3, <1>4, OtherQueue DEF LifeInv

\* The threads of the streamer.
LEMMA ServerStep ==
  ASSUME LifeInv, \A t \in StreamSessions : Dialog(t), Serving, Stopping,
         [SessionNext]_sessionVars
  PROVE  Serving' /\ Stopping'
<1> USE DEF Serving, Stopping
<1>1. ASSUME NEW s \in StreamSessions, Stop(s) \/ Retry(s) PROVE Serving' /\ Stopping'
  <2>1. /\ UNCHANGED <<main, srunning, listening, srv, fd, lines>>
        /\ HangUp(s) \/ UNCHANGED <<backlog, serve>>
    BY <1>1 DEF Stop, Retry
  <2>2. serve' = None <=> serve = None
    BY <2>1, HangUpQueue DEF LifeInv
  <2>3. backlog = <<>> => backlog' = <<>>
    <3>1. ASSUME HangUp(s), backlog = <<>> PROVE backlog' = <<>>
      <4>1. backlog' \in Seq(Ends) /\ DOMAIN backlog' = DOMAIN backlog
        BY <3>1, HangUpKeeps DEF HangUp, LifeInv, QueueLife
      <4> QED
        BY <3>1, <4>1
    <3> QED
      BY <2>1, <3>1
  <2> QED
    BY <2>1, <2>2, <2>3
<1>2. ASSUME NEW s \in StreamSessions, Connect(s) PROVE Serving' /\ Stopping'
  <2>1. UNCHANGED <<main, srunning, listening, srv, fd, lines, serve>> /\ main = "up"
    BY <1>2 DEF Connect, CanConnect
  <2> QED
    BY <2>1
<1>3. ASSUME NEW s \in StreamSessions,
             \/ Start(s) \/ Discover(s) \/ NoOffer(s) \/ OpenSocket(s) \/ ConnectFails(s)
             \/ HelloFails(s) \/ SetupFails(s) \/ StartFails(s) \/ StreamEnds(s)
             \/ TcpGivesUp(s) \/ ReadHello(s) \/ ReadStart(s)
      PROVE  Serving' /\ Stopping'
  <2>1. UNCHANGED serverVars
    BY <1>3 DEF Start, Discover, NoOffer, OpenSocket, ConnectFails, HelloFails, SetupFails,
                StartFails, StreamEnds, TcpGivesUp, ReadHello, ReadStart
  <2> QED
    BY <2>1 DEF serverVars
<1>4. ASSUME NEW s \in StreamSessions, SendReady(s) PROVE Serving' /\ Stopping'
  <2>1. UNCHANGED <<main, srunning, listening, backlog, srv, fd, serve>>
    BY <1>4 DEF SendReady
  <2>2. srv = "accepted" => lines' = lines
    BY <1>4 DEF SendReady, Dialog
  <2> QED
    BY <2>1, <2>2
<1>5. ASSUME NEW s \in StreamSessions, Ping(s) PROVE Serving' /\ Stopping'
  BY <1>5 DEF Ping
<1>6. CASE Accept
  <2>1. serve' # None
    BY <1>6, AcceptQueue DEF LifeInv, Accept
  <2> QED
    BY <1>6, <2>1 DEF Accept
<1>7. CASE AcceptFails \/ Greet
  BY <1>7 DEF AcceptFails, Greet, Step
<1>8. CASE LoopTest
  BY <1>8 DEF LoopTest, Step
<1>9. CASE AnswerLine
  BY <1>9 DEF AnswerLine, Step
<1>10. CASE ReadEnds \/ ReadTimeout
  BY <1>10 DEF ReadEnds, ReadTimeout, Step
<1>11. CASE Leave
  BY <1>11 DEF Leave
<1>12. CASE StartServer \/ StopListening
  BY <1>12 DEF StartServer, StopListening
<1>13. CASE StopServer
  BY <1>13 DEF StopServer, CloseClient, Join, LifeInv, ServerLife, SrvStates
<1>14. CASE Crash
  BY <1>14 DEF Crash
<1>15. CASE LinkChanges \/ UNCHANGED sessionVars
  BY <1>15 DEF LinkChanges, serverVars, sessionVars
<1>16. CASE FinArrives
  <2>1. /\ UNCHANGED <<main, srunning, listening, srv, fd, lines>>
        /\ serve' = None <=> serve = None
        /\ backlog = <<>> => backlog' = <<>>
    <3>1. backlog = <<>> => DOMAIN backlog = {}
      OBVIOUS
    <3>2. Silent # None /\ Closed # None
      BY DEF Silent, Closed, None
    <3> QED
      BY <1>16, <3>1, <3>2 DEF FinArrives
  <2> QED
    BY <2>1
<1> QED
  BY <1>1, <1>2, <1>3, <1>4, <1>5, <1>6, <1>7, <1>8, <1>9, <1>10, <1>11, <1>12, <1>13,
     <1>14, <1>15, <1>16
     DEF SessionNext, SessionWorker, AcceptThread

LEMMA InitDialog == SessionInit => DialogInv
<1> SUFFICES ASSUME SessionInit PROVE DialogInv
  OBVIOUS
<1>1. \A s \in StreamSessions : ~Queued(s) /\ QueuedOnce(s) /\ serve # s
  BY SessionEnds DEF SessionInit, Queued, QueuedOnce
<1>2. \A s \in StreamSessions : Dialog(s)
  BY <1>1 DEF SessionInit, Dialog, InStepOf
<1>3. Serving /\ Stopping
  BY DEF SessionInit, Serving, Stopping
<1> QED
  BY <1>1, <1>2, <1>3 DEF DialogInv

LEMMA DialogStep == LifeInv /\ DialogInv /\ [SessionNext]_sessionVars => DialogInv'
<1> SUFFICES ASSUME LifeInv, DialogInv, [SessionNext]_sessionVars PROVE DialogInv'
  OBVIOUS
<1>1. Serving' /\ Stopping'
  BY ServerStep DEF DialogInv
<1>2. ASSUME NEW t \in StreamSessions PROVE QueuedOnce(t)' /\ Dialog(t)'
  <2>1. QueuedOnce(t) /\ Dialog(t) /\ Serving /\ Stopping
    BY DEF DialogInv
  <2>2. QueuedOnce(t)'
    BY <2>1, OnceStep
  <2>3. ASSUME NEW s \in StreamSessions,
               Start(s) \/ Stop(s) \/ Discover(s) \/ SessionWorker(s) \/ TcpGivesUp(s)
        PROVE  Dialog(t)'
    BY <2>1, <2>3, StageDialog, ReadDialog, ReadyDialog, ConnectDialog, LeaveDialog
       DEF SessionWorker
  <2>4. CASE Accept \/ Greet
    BY <2>1, <2>2, <2>4, AcceptDialog
  <2>5. CASE AnswerLine
    BY <2>1, <2>2, <2>5, AnswerDialog
  <2>6. CASE \/ \E s \in StreamSessions : Ping(s)
             \/ AcceptFails \/ LoopTest \/ ReadEnds \/ ReadTimeout \/ Leave
             \/ StartServer \/ StopListening \/ StopServer \/ Crash
             \/ LinkChanges \/ FinArrives \/ UNCHANGED sessionVars
    BY <2>1, <2>2, <2>6, OtherDialog
  <2>7. \/ \E s \in StreamSessions :
             Start(s) \/ Stop(s) \/ Discover(s) \/ SessionWorker(s) \/ TcpGivesUp(s)
        \/ Accept \/ Greet \/ AnswerLine
        \/ \E s \in StreamSessions : Ping(s)
        \/ AcceptFails \/ LoopTest \/ ReadEnds \/ ReadTimeout \/ Leave
        \/ StartServer \/ StopListening \/ StopServer \/ Crash
        \/ LinkChanges \/ FinArrives \/ UNCHANGED sessionVars
    BY DEF SessionNext, AcceptThread
  <2> QED
    BY <2>2, <2>3, <2>4, <2>5, <2>6, <2>7
<1> QED
  BY <1>1, <1>2 DEF DialogInv

LEMMA DialogInvariant == SessionSpec => []DialogInv
BY InitDialog, DialogStep, LifeInvariant, PTL DEF SessionSpec

\* A worker reads the answer it waits for, once, and never one meant for an
\* earlier attempt or for another session, however connections wait, break off
\* and follow each other, and however often the streamer stops and comes back.
THEOREM AlwaysInStep == SessionSpec => []InStep
<1>1. DialogInv => InStep
  <2> SUFFICES ASSUME DialogInv, NEW s \in StreamSessions, pc[s] # "failed"
               PROVE  inbox[s] \in {<<>>} \cup {<<line>> : line \in Awaited(s)}
    BY DEF InStep
  <2>1. pc[s] = "hello" => Awaited(s) = {"HELLO"}
    BY DEF Awaited
  <2>2. pc[s] = "start" => Awaited(s) = {"START"}
    BY DEF Awaited
  <2> QED
    BY <2>1, <2>2 DEF DialogInv, Dialog, InStepOf
<1> QED
  BY <1>1, DialogInvariant, PTL

\* Server::stop() never joins a thread that reads an open connection, and leaves
\* no connection behind, whatever the accept thread was about to publish.
THEOREM AlwaysStopsClean == SessionSpec => []StopsClean
<1>1. DialogInv => StopsClean
  BY DEF DialogInv, Serving, Stopping, StopsClean
<1> QED
  BY <1>1, DialogInvariant, PTL

-----------------------------------------------------------------------------
(* Towards the end of Server::stop() *)

\* What the accept thread still has to do once the server is being stopped.
StepsLeft ==
  CASE srv = "accepted" -> 4
    [] srv = "recv" -> 4
    [] srv = "test" -> 3
    [] srv = "leave" -> 2
    [] srv = "accept" -> 1
    [] srv = "ended" -> 0

\* Once running_ is cleared every step of the accept thread brings it nearer to
\* its end, and nothing sends it back, whoever connects, sends or hangs up.
TowardsJoin ==
  [][(main \in {"client", "join"}) =>
       \/ main' = "down"
       \/ StepsLeft' < StepsLeft
       \/ ~AcceptThread /\ UNCHANGED srv]_sessionVars

\* While it is joined it never waits for anybody: its next step can be taken.
NeverWaits ==
  main = "join" =>
    \/ srv \in {"accepted", "test", "leave", "ended"}
    \/ srv = "accept" /\ ~listening
    \/ srv = "recv" /\ serve = None

LEMMA StopStep ==
  ASSUME LifeInv, Stopping, [SessionNext]_sessionVars, main \in {"client", "join"}
  PROVE  \/ main' = "down"
         \/ StepsLeft' < StepsLeft
         \/ ~AcceptThread /\ UNCHANGED srv
<1>1. ~srunning /\ ~listening
  BY DEF Stopping
<1>2. CASE AcceptThread
  <2>1. \/ srv = "accepted" /\ srv' = "test"
        \/ srv = "recv" /\ srv' \in {"test", "leave"}
        \/ srv = "test" /\ srv' = "leave"
        \/ srv = "leave" /\ srv' = "ended"
        \/ srv = "accept" /\ srv' = "ended"
    BY <1>1, <1>2 DEF AcceptThread, Accept, AcceptFails, Greet, LoopTest, AnswerLine, ReadEnds,
                      ReadTimeout, Leave, Step
  <2> QED
    BY <2>1 DEF StepsLeft
<1>3. ASSUME NEW s \in StreamSessions, Ping(s)
      PROVE  StepsLeft' < StepsLeft
  <2>1. srv = "recv" /\ srv' = "test"
    BY <1>3 DEF Ping
  <2> QED
    BY <2>1 DEF StepsLeft
<1>4. CASE ~AcceptThread /\ ~(\E s \in StreamSessions : Ping(s))
  <2>1. main' = "down" \/ UNCHANGED srv
    BY <1>4 DEF SessionNext, SessionWorker, Start, Discover, NoOffer, OpenSocket, Connect,
                ConnectFails, ReadHello, HelloFails, SendReady, SetupFails, ReadStart,
                StartFails, StreamEnds, TcpGivesUp, Stop, Retry, StartServer, StopListening,
                StopServer, CloseClient, Join, Crash, LinkChanges, FinArrives, serverVars,
                sessionVars
  <2> QED
    BY <1>4, <2>1
<1> QED
  BY <1>2, <1>3, <1>4

\* Server::stop() returns, what of it is a matter of safety: the accept thread
\* it joins has a few steps to its end, waits for nobody and is never sent back.
THEOREM AlwaysTowardsJoin == SessionSpec => []NeverWaits /\ TowardsJoin
<1>1. LifeInv /\ DialogInv => NeverWaits
  BY DEF LifeInv, ServerLife, SrvStates, DialogInv, Serving, Stopping, NeverWaits
<1>2. LifeInv /\ DialogInv /\ [SessionNext]_sessionVars =>
        [(main \in {"client", "join"}) =>
           \/ main' = "down"
           \/ StepsLeft' < StepsLeft
           \/ ~AcceptThread /\ UNCHANGED srv]_sessionVars
  BY StopStep DEF DialogInv
<1> QED
  BY <1>1, <1>2, LifeInvariant, DialogInvariant, PTL DEF SessionSpec, TowardsJoin

-----------------------------------------------------------------------------
(* Towards the end of a stopped worker *)

\* What the worker still has to go through when nothing is retried.
WorkLeft(s) ==
  CASE pc[s] = "offered"  -> 7
    [] pc[s] = "connect"  -> 6
    [] pc[s] = "hello"    -> 5
    [] pc[s] = "setup"    -> 4
    [] pc[s] = "start"    -> 3
    [] pc[s] = "stream"   -> 2
    [] pc[s] = "discover" -> 2
    [] pc[s] = "failed"   -> 1
    [] pc[s] = "ended"    -> 0

Dismissed(s) == ~running[s] /\ pc[s] # "new"

\* A session that has been stopped stays so, every step of its worker brings it
\* nearer to the end, and nothing sends it back, whether stop() found its socket
\* or came before that was published.
TowardsWorkerEnd ==
  [][\A s \in StreamSessions : Dismissed(s) =>
       /\ ~running'[s]
       /\ pc'[s] = pc[s] \/ WorkLeft(s)' < WorkLeft(s)
       /\ SessionWorker(s) => WorkLeft(s)' < WorkLeft(s)]_sessionVars

LEMMA DismissedStep ==
  ASSUME LifeInv, [SessionNext]_sessionVars, NEW s \in StreamSessions, Dismissed(s)
  PROVE  /\ ~running'[s]
         /\ pc'[s] = pc[s] \/ WorkLeft(s)' < WorkLeft(s)
         /\ SessionWorker(s) => WorkLeft(s)' < WorkLeft(s)
<1>1. /\ running \in [StreamSessions -> BOOLEAN] /\ pc \in [StreamSessions -> Stages]
      /\ ~running[s] /\ pc[s] # "new"
  BY DEF LifeInv, WorkerLife, Dismissed
<1>2. ~running'[s]
  <2>1. running' = running \/ \E t \in StreamSessions : Stop(t) \/ (Start(t) /\ t # s)
    BY <1>1 DEF SessionNext, SessionWorker, Start, Discover, NoOffer, OpenSocket, Connect,
                ConnectFails, ReadHello, HelloFails, SendReady, SetupFails, ReadStart,
                StartFails, StreamEnds, TcpGivesUp, Retry, Ping, AcceptThread, Accept,
                AcceptFails, Greet, LoopTest, AnswerLine, ReadEnds, ReadTimeout, Leave, Step,
                StartServer, StopListening, StopServer, CloseClient, Join, Crash, LinkChanges,
                FinArrives, clientVars, sessionVars
  <2> QED
    BY <1>1, <2>1 DEF Stop, Start
<1>3. SessionWorker(s) => WorkLeft(s)' < WorkLeft(s)
  <2> SUFFICES ASSUME SessionWorker(s) PROVE WorkLeft(s)' < WorkLeft(s)
    OBVIOUS
  <2>1. \/ pc[s] = "offered" /\ pc'[s] = "connect"
        \/ pc[s] = "connect" /\ pc'[s] \in {"hello", "failed"}
        \/ pc[s] = "hello" /\ pc'[s] \in {"setup", "failed"}
        \/ pc[s] = "setup" /\ pc'[s] \in {"start", "failed"}
        \/ pc[s] = "start" /\ pc'[s] \in {"stream", "failed"}
        \/ pc[s] \in {"stream", "discover"} /\ pc'[s] = "failed"
        \/ pc[s] = "failed" /\ pc'[s] = "ended"
    BY <1>1 DEF SessionWorker, NoOffer, OpenSocket, Connect, ConnectFails, ReadHello,
                HelloFails, SendReady, SetupFails, ReadStart, StartFails, StreamEnds, Retry, Go
  <2> QED
    BY <2>1 DEF WorkLeft
<1>4. ~SessionWorker(s) => pc'[s] = pc[s] \/ WorkLeft(s)' < WorkLeft(s)
  <2> SUFFICES ASSUME ~SessionWorker(s) PROVE pc'[s] = pc[s] \/ WorkLeft(s)' < WorkLeft(s)
    OBVIOUS
  <2>1. CASE TcpGivesUp(s)
    <3>1. pc[s] = "stream" /\ pc'[s] = "failed"
      BY <1>1, <2>1 DEF TcpGivesUp, Go
    <3> QED
      BY <3>1 DEF WorkLeft
  <2>2. ASSUME NEW t \in StreamSessions, t # s,
               Start(t) \/ Discover(t) \/ SessionWorker(t) \/ TcpGivesUp(t)
        PROVE  pc'[s] = pc[s]
    BY <1>1, <2>2 DEF Start, Discover, TcpGivesUp, SessionWorker, NoOffer, OpenSocket, Connect,
                      ConnectFails, ReadHello, HelloFails, SendReady, SetupFails, ReadStart,
                      StartFails, StreamEnds, Retry, Go
  <2>3. ~Start(s) /\ ~Discover(s)
    BY <1>1 DEF Start, Discover
  <2>4. CASE \/ \E t \in StreamSessions : Stop(t) \/ Ping(t)
             \/ AcceptThread \/ StartServer \/ StopListening \/ StopServer \/ Crash
             \/ LinkChanges \/ FinArrives \/ UNCHANGED sessionVars
    BY <2>4 DEF Stop, Ping, AcceptThread, Accept, AcceptFails, Greet, LoopTest, AnswerLine,
                ReadEnds, ReadTimeout, Leave, Step, StartServer, StopListening, StopServer,
                CloseClient, Join, Crash, LinkChanges, FinArrives, clientVars, sessionVars
  <2> QED
    BY <2>1, <2>2, <2>3, <2>4 DEF SessionNext
<1> QED
  BY <1>2, <1>3, <1>4

\* The worker of a stopped session ends, what of it is a matter of safety: it goes
\* through what is left of its attempt, each wait of which has a time-out, makes no
\* other attempt and is never started again.
THEOREM AlwaysTowardsWorkerEnd == SessionSpec => TowardsWorkerEnd
<1>1. LifeInv /\ [SessionNext]_sessionVars =>
        [\A s \in StreamSessions : Dismissed(s) =>
           /\ ~running'[s]
           /\ pc'[s] = pc[s] \/ WorkLeft(s)' < WorkLeft(s)
           /\ SessionWorker(s) => WorkLeft(s)' < WorkLeft(s)]_sessionVars
  BY DismissedStep
<1> QED
  BY <1>1, LifeInvariant, PTL DEF SessionSpec, TowardsWorkerEnd
=============================================================================
