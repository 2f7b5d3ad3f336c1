---------------------------- MODULE MCPanelSound ---------------------------
(* PanelSound with two songs, two players, and recordings of two words, which  *)
(* the server may read together with the size of the next one.  To keep the    *)
(* instance small, the server fails only while nobody has opened the page.     *)
EXTENDS PanelSound

MCWords == {"yl"} \cup {Branches[n] : n \in DOMAIN Branches}

Unopened == page = <<FALSE, "play", FALSE, 0, 1, "idle">>
Trouble  == fails > 0 \/ server = "gone" \/ client = "off"

MCSpec ==
  /\ Init
  /\ [][Next /\ (Trouble' => Unopened')]_vars
  /\ WF_vars(Voice) /\ WF_vars(Serves /\ (Trouble' => Unopened'))
=============================================================================
