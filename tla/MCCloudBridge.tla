--------------------------- MODULE MCCloudBridge ---------------------------
(* CloudBridge with a set of one device, one of three, and one of four, which *)
(* is one too many.                                                           *)
EXTENDS CloudBridge

MCSets ==
  <<[k \in {"air"} |-> TRUE],
    [k \in {"air", "led", "beep"} |-> k # "led"],
    [k \in Key |-> TRUE],
    [k \in {"window", "beep"} |-> FALSE]>>
=============================================================================
