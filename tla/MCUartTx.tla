------------------------------ MODULE MCUartTx ------------------------------
(* UartTx with a report of two elements against the characters of a printf. *)
EXTENDS UartTx

MCSize == [c \in Callers |-> IF c = "task1" THEN 2 ELSE 1]
=============================================================================
