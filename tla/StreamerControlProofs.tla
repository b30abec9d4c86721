----------------------- MODULE StreamerControlProofs ------------------------
(***************************************************************************)
(* Theorems about StreamerControl, for every number of children, timers    *)
(* and half buffers.  TypeOK and OwnChild are inductive together: the pid  *)
(* the window holds is that of the only child that is neither unborn nor   *)
(* reaped, so no signal and no report meets another one.                   *)
(***************************************************************************)
EXTENDS StreamerControl, TLAPS

Inv == TypeOK /\ OwnChild

\* kill() keeps the child among the living and the dead it was among.
LEMMA SignalKeeps ==
  ASSUME child \in [Children -> States], NEW c \in Children,
         NEW to \in {"term", "killed"}, Signalled(c, to)
  PROVE  /\ child' \in [Children -> States]
         /\ \A d \in Children :
              child'[d] \in Live \cup {"dead"} <=> child[d] \in Live \cup {"dead"}
  BY DEF Signalled, States, Live

LEMMA InitInv == Init => Inv
<1> SUFFICES ASSUME Init PROVE Inv
  OBVIOUS
<1>1. pid = 0 /\ running = FALSE /\ watched = FALSE
  BY DEF Init
<1>2. \A c \in Children : child[c] = "none" /\ pid # c
  BY DEF Init, Children
<1>3. running <=> pid > 0
  BY <1>1
<1>4. child \in [Children -> States]
  BY DEF Init, States
<1>5. /\ pid \in 0 .. MaxChildren /\ timers \in 0 .. MaxTimers
      /\ pipe \in 0 .. MaxPipe
  BY StreamerControlAssumption DEF Init
<1>6. TypeOK
  BY <1>1, <1>3, <1>4, <1>5 DEF Init, TypeOK
<1> QED
  BY <1>1, <1>2, <1>6 DEF Inv, OwnChild, OneChild, WatchesOwnPipe, Live

LEMMA NextInv == Inv /\ [Next]_vars => Inv'
<1> SUFFICES ASSUME Inv, [Next]_vars PROVE Inv'
  OBVIOUS
<1> USE StreamerControlAssumption DEF Inv, TypeOK, OwnChild, OneChild, WatchesOwnPipe
<1>p. pid > 0 => pid \in Children
  BY DEF Children
<1>1. CASE StartStreamer
  <2>1. PICK c \in Children : /\ child[c] = "none" /\ pid' = c
                              /\ child' = [child EXCEPT ![c] = "alive"]
    BY <1>1 DEF StartStreamer
  <2>2. \A d \in Children : child[d] \notin Live \cup {"dead"}
    BY <1>1 DEF StartStreamer
  <2> QED
    BY <1>1, <2>1, <2>2 DEF StartStreamer, Children, States, Live
<1>2. CASE StopStreamer
  <2>1. Signalled(pid, "term") /\ pid \in Children
    BY <1>2, <1>p DEF StopStreamer
  <2> QED
    BY <1>2, <2>1, SignalKeeps DEF StopStreamer
<1>3. CASE Escalate
  <2>1. CASE running /\ pid > 0
    <3>1. Signalled(pid, "killed") /\ pid \in Children
      BY <1>3, <1>p, <2>1 DEF Escalate
    <3> QED
      BY <1>3, <3>1, SignalKeeps DEF Escalate
  <2>2. CASE ~(running /\ pid > 0)
    <3>1. /\ timers' = timers - 1 /\ timers > 0
          /\ UNCHANGED <<pid, running, watched, gui, child, pipe>>
      BY <1>3, <2>2 DEF Escalate
    <3> QED
      BY <3>1
  <2> QED
    BY <2>1, <2>2
<1>4. CASE OnChildExited
  <2>1. pid \in Children /\ pid' = 0 /\ running' = FALSE /\ watched' = FALSE
    BY <1>4, <1>p DEF OnChildExited
  <2>2. child' = [child EXCEPT ![pid] = "reaped"]
    BY <1>4 DEF OnChildExited
  <2>3. TypeOK'
    <3>1. running' <=> pid' > 0
      BY <2>1
    <3>2. child' \in [Children -> States]
      BY <2>2 DEF States
    <3>3. /\ pid' \in 0 .. MaxChildren /\ timers' \in 0 .. MaxTimers
          /\ pipe' \in 0 .. MaxPipe /\ gui' \in {"loop", "read", "closed"}
      BY <1>4, <2>1 DEF OnChildExited
    <3> QED
      BY <2>1, <3>1, <3>2, <3>3
  <2>4. \A c \in Children : child'[c] \notin Live \cup {"dead"} /\ pid' # c
    BY <2>1, <2>2 DEF Children, Live
  <2> QED
    BY <2>1, <2>3, <2>4
<1>5. CASE ReadPipe
  <2>1. /\ watched /\ UNCHANGED <<pid, running, timers, child>>
        /\ \/ gui' = "read" /\ pipe >= 2 /\ pipe' = pipe - 2 /\ watched' = watched
           \/ gui' = "loop" /\ pipe' = 0 /\ watched' = (pipe > 0)
    BY <1>5, Zenon DEF ReadPipe
  <2>2. pipe' \in 0 .. MaxPipe
    <3>1. pipe' = 0 \/ (pipe >= 2 /\ pipe' = pipe - 2)
      BY <2>1, Zenon
    <3> QED
      BY <3>1
  <2>3. watched' \in BOOLEAN
    <3>1. watched \in BOOLEAN /\ (pipe > 0) \in BOOLEAN
      OBVIOUS
    <3> QED
      BY <2>1, <3>1, Zenon
  <2> QED
    BY <2>1, <2>2, <2>3
<1>6. CASE CloseWindow
  <2>1. CASE running /\ pid > 0
    <3>1. Signalled(pid, "term") /\ pid \in Children
      BY <1>6, <1>p, <2>1 DEF CloseWindow
    <3> QED
      BY <1>6, <3>1, SignalKeeps DEF CloseWindow
  <2>2. CASE ~(running /\ pid > 0)
    BY <1>6, <2>2 DEF CloseWindow
  <2> QED
    BY <2>1, <2>2
<1>7. CASE Output
  BY <1>7 DEF Output
<1>8. CASE \E c \in Children : Exit(c)
  BY <1>8 DEF Exit, Children, States, Live
<1>9. CASE UNCHANGED vars
  BY <1>9 DEF vars
<1> QED
  BY <1>1, <1>2, <1>3, <1>4, <1>5, <1>6, <1>7, <1>8, <1>9 DEF Next

\* Every variable keeps its type, and running_ and pid_ are set and cleared
\* together.
THEOREM TypeCorrect == Spec => []TypeOK
<1>1. Inv => TypeOK
  BY DEF Inv
<1> QED
  BY InitInv, NextInv, <1>1, PTL DEF Spec

\* Through every order of starts, stops, crashes and late timers there is at
\* most one streamer, the window knows its pid until it has been told of its
\* end, and it polls no other pipe.
THEOREM AlwaysOwnChild == Spec => []OwnChild
<1>1. Inv => OwnChild
  BY DEF Inv
<1> QED
  BY InitInv, NextInv, <1>1, PTL DEF Spec

LEMMA NextEscalates == Inv /\ StopEscalates /\ [Next]_vars => StopEscalates'
<1> SUFFICES ASSUME Inv, StopEscalates, [Next]_vars, gui' # "closed",
                    NEW c \in Children, child'[c] = "term"
             PROVE  timers' > 0
  BY DEF StopEscalates
<1> USE DEF Inv, TypeOK
<1>1. pid > 0 => pid \in Children
  BY DEF Children
<1>2. CASE StopStreamer
  BY <1>2 DEF StopStreamer
<1>3. CASE Escalate
  <2>1. c # pid \/ ~running
    BY <1>1, <1>3 DEF Escalate, Signalled, States
  <2>2. child[c] \notin Live
    BY <2>1 DEF OwnChild, OneChild
  <2>3. child[c] = "term"
    BY <1>1, <1>3, <2>1 DEF Escalate, Signalled
  <2> QED
    BY <2>2, <2>3 DEF Live
<1>4. CASE ~StopStreamer /\ ~Escalate
  <2>1. UNCHANGED timers /\ gui # "closed" /\ child[c] = "term"
    BY <1>4
       DEF Next, StartStreamer, OnChildExited, ReadPipe, CloseWindow, Output, Exit, vars
  <2> QED
    BY <2>1 DEF StopEscalates
<1> QED
  BY <1>2, <1>3, <1>4

\* The timer that fires finds the child it was armed for, or none that obeys late.
TimerKills ==
  [][Escalate => \A c \in Children : child[c] = "term" => child'[c] = "killed"]_vars

LEMMA EscalateKills ==
  ASSUME Inv, Escalate, NEW c \in Children, child[c] = "term" PROVE child'[c] = "killed"
<1>1. running /\ pid = c /\ pid > 0
  BY DEF Inv, OwnChild, OneChild, Live, Children
<1> QED
  BY <1>1 DEF Escalate, Signalled, Inv, TypeOK

\* A child that has not obeyed SIGTERM has a timer, and any timer that fires kills
\* it, however many children were started and stopped before.
THEOREM AlwaysEscalates == Spec => []StopEscalates /\ TimerKills
<1>1. Init => StopEscalates
  BY DEF Init, StopEscalates
<1>2. Inv /\ [Next]_vars =>
        [Escalate => \A c \in Children : child[c] = "term" => child'[c] = "killed"]_vars
  BY EscalateKills
<1> QED
  BY InitInv, NextInv, NextEscalates, <1>1, <1>2, PTL DEF Spec, TimerKills
=============================================================================
