------------------------------ MODULE MCUartRx ------------------------------
(* UartRx on one port: frames of two bytes, two frames and a half. *)
EXTENDS UartRx
=============================================================================
