------------------------------ MODULE MCNotify ------------------------------
(* Notify for TLC: the ladder of the instance.                               *)
EXTENDS Notify

MCLadder == <<0, 1, 2>>
=============================================================================
