------------------------------ MODULE LastWord ------------------------------
(***************************************************************************)
(* What the Zigbee nodes promise one host of the other: commands may be    *)
(* skipped and repeated, but none is handed on after one that replaced it, *)
(* and none that was not written.  A command is its number in the order in *)
(* which the host wrote them.                                              *)
(***************************************************************************)
EXTENDS Naturals

CONSTANT Last   \* bound on the commands of the host

VARIABLES
  written,   \* the newest command the host wrote
  handed     \* the one handed on last

vars == <<written, handed>>

Init == written = 0 /\ handed = 0

Write ==
  /\ written < Last
  /\ written' = written + 1
  /\ UNCHANGED handed

Hand ==
  /\ handed' \in handed .. written
  /\ UNCHANGED written

Next == Write \/ Hand

Spec == Init /\ [][Next]_vars
=============================================================================
