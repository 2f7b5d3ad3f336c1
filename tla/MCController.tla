---------------------------- MODULE MCController ----------------------------
(* Controller on short streams.  The panel's Zigbee node writes frames of two  *)
(* bytes on USART1; the ESP32 prints lines, so its frames end with CR LF.      *)
EXTENDS Controller

Frame(l, d)  == <<l, d>>
LineOf(l, d) == <<l, d, "CR", "LF">>

\* Every way two sides can share the air conditioner and the window, and the
\* lamps against a store that clears led_flag.
RaceStreams ==
  [t \in {"task2", "task3"} |->
     IF t = "task2"
     THEN {LineOf(l, d) : l \in {"A", "W"}, d \in {"0", "1"}} \cup {LineOf("L", "1")}
     ELSE {Frame("A", "1") \o Frame("A", "0"), Frame("A", "1") \o Frame("W", "0"),
           Frame("W", "1") \o Frame("A", "0"), Frame("L", "1")}]

\* The alarm turned off from the cloud, the air conditioner commanded twice.
LiveStreams ==
  [t \in {"task2", "task3"} |->
     IF t = "task2" THEN {LineOf("B", "0")}
                    ELSE {Frame("A", "1") \o Frame("A", "0")}]

\* Both sides turn the lamps on, and nothing else.
LampStreams == [t \in {"task2", "task3"} |-> IF t = "task2" THEN {LineOf("L", "1")}
                                                            ELSE {Frame("L", "1")}]
=============================================================================
