------------------------------ MODULE MC_Verify ------------------------------
(* One verify topology entry with an allowed (sep, dep) pair and one with *)
(* a denied pair; ping -c 2, UDP runs of 2 datagrams.                     *)
EXTENDS Verify

CONSTANTS a1, d1

MCAllowed == {a1}
MCDenied == {d1}
=============================================================================
