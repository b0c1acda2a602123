---------------------------- MODULE MCSoftTimer -----------------------------
(* Instances of SoftTimer for TLC: three timers for a list of two places, as  *)
(* many as it takes to fill the list and to refuse one.                       *)
EXTENDS SoftTimer

MCTimeout == <<2, 1, 2>>

=============================================================================
