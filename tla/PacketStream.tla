---------------------------- MODULE PacketStream ---------------------------
(***************************************************************************)
(* What a server promises to put on the wire, one connection after the     *)
(* other: access units queued for that very connection, in the order they  *)
(* were encoded, none of them twice, packet by packet.  A unit that is not *)
(* a keyframe only follows the unit it depends on, sent to its end; units  *)
(* may be skipped or broken off.                                           *)
(***************************************************************************)
EXTENDS Naturals, Sequences

VARIABLES
  session,   \* connections so far
  wire       \* the units sent on the last one, and how much of each

vars == <<session, wire>>

Init == session = 0 /\ wire = <<>>

\* A new connection starts with nothing.
Connect == session' = session + 1 /\ wire' = <<>>

Last == wire[Len(wire)]

\* The unit before u has been sent to its last packet.
Follows(u) == wire # <<>> /\ u.id = Last.id + 1 /\ Last.sent = Last.size

\* The first packet of a unit.
StartUnit ==
  /\ Len(wire') = Len(wire) + 1
  /\ \A i \in 1 .. Len(wire) : wire'[i] = wire[i]
  /\ LET u == wire'[Len(wire')]
     IN  /\ u.session = session /\ u.sent = 1
         /\ \A i \in 1 .. Len(wire) : wire[i].id < u.id
         /\ u.key \/ Follows(u)
  /\ UNCHANGED session

\* The next packet of the unit begun last.
ContinueUnit ==
  /\ wire # <<>> /\ Last.sent < Last.size
  /\ wire' = [wire EXCEPT ![Len(wire)].sent = @ + 1]
  /\ UNCHANGED session

Next == Connect \/ StartUnit \/ ContinueUnit

Spec == Init /\ [][Next]_vars

=============================================================================
