---------------------------- MODULE VideoStream ----------------------------
(***************************************************************************)
(* What a client's decoder is promised of one connection: whole access     *)
(* units, in the order they were encoded, each of them decodable because   *)
(* it is a keyframe or directly follows the unit shown before it.  Units   *)
(* may be skipped but are never repeated.                                  *)
(***************************************************************************)
EXTENDS Naturals, Sequences

VARIABLES
  units,     \* the access units of the connection: is it a keyframe?
  shown      \* the last one handed to the decoder; 0: none

vars == <<units, shown>>

Init == units = <<>> /\ shown = 0

\* More units are encoded.
Encode ==
  /\ Len(units) <= Len(units')
  /\ \A n \in 1 .. Len(units) : units'[n] = units[n]

\* A later unit is handed to the decoder.
Show ==
  /\ shown' \in shown + 1 .. Len(units')
  /\ units'[shown'] \/ (shown > 0 /\ shown' = shown + 1)

Next == Encode /\ (Show \/ shown' = shown)

Spec == Init /\ [][Next]_vars

=============================================================================
