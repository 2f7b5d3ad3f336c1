----------------------------- MODULE LossyLine -----------------------------
(***************************************************************************)
(* What a serial line promises the task that reads it: bytes leave in the  *)
(* order they were put on, each at most once, and any of them may be lost. *)
(* Bytes are named by their position, 1 for the first one sent.            *)
(***************************************************************************)
EXTENDS Naturals

CONSTANT MaxBytes   \* bound on the bytes the peer sends

VARIABLES
  sent,        \* number of bytes put on the line
  delivered,   \* the bytes handed to the reader
  lost         \* the bytes that never reach it

vars == <<sent, delivered, lost>>

InFlight == (1 .. sent) \ (delivered \cup lost)

Init == sent = 0 /\ delivered = {} /\ lost = {}

Send ==
  /\ sent < MaxBytes
  /\ sent' = sent + 1
  /\ UNCHANGED <<delivered, lost>>

\* Only the oldest byte in flight can be delivered.
Deliver ==
  \E i \in InFlight :
    /\ \A j \in InFlight : i <= j
    /\ delivered' = delivered \cup {i}
    /\ UNCHANGED <<sent, lost>>

Lose ==
  \E i \in InFlight :
    /\ lost' = lost \cup {i}
    /\ UNCHANGED <<sent, delivered>>

Next == Send \/ Deliver \/ Lose

Spec == Init /\ [][Next]_vars
=============================================================================
