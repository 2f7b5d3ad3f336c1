---------------------------- MODULE MCZigbeeApp ----------------------------
(* ZigbeeApp with the node of the panel and the node of the STM32, which is    *)
(* the coordinator.  The two commands differ in both bytes, so that a mixture  *)
(* of them is neither.                                                         *)
EXTENDS ZigbeeApp

MCFrames ==
  [n \in Nodes |-> IF n = "panel" THEN << <<"A", "1">>, <<"L", "0">> >> ELSE <<>>]
MCMaxChanges == [n \in Nodes |-> IF n = "panel" THEN 1 ELSE 2]
=============================================================================
