------------------------------ MODULE MCDht11 ------------------------------
(* Dht11 with two data bytes and a checksum of two bits each, at the times of  *)
(* the sensor in units of 10 us and a shorter period.                          *)
EXTENDS Dht11

MCWeight == [b \in 1 .. Bits |-> 2 ^ (Width - 1 - ((b - 1) % Width))]
MCGaps == {2, 9, 14}
MCCuts == {1, 15, 40, 1000}
=============================================================================
