--------------------------- MODULE MCDisplayPage ---------------------------
(* DisplayPage with three visits and descriptors for two connections: the    *)
(* third finds the database unopenable.                                      *)
EXTENDS DisplayPage
=============================================================================
