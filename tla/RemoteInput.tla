---------------------------- MODULE RemoteInput ----------------------------
(***************************************************************************)
(* What the host is promised of the input of one monitor: the lines the    *)
(* activity has emitted are injected in the order they were emitted, each  *)
(* at most once.  Any of them may be lost.                                 *)
(***************************************************************************)
EXTENDS Naturals

VARIABLES
  emitted,    \* number of lines the activity has emitted
  injected    \* the number of the last line injected; 0: none

vars == <<emitted, injected>>

Init == emitted = 0 /\ injected = 0

\* A gesture is turned into lines.
Emit == emitted' >= emitted /\ injected' = injected

\* A later line reaches the desktop.
Inject == injected' \in injected + 1 .. emitted /\ emitted' = emitted

Next == Emit \/ Inject

Spec == Init /\ [][Next]_vars
=============================================================================
