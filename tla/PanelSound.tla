---------------------------- MODULE PanelSound -----------------------------
(***************************************************************************)
(* The sound of the panel: the music page, in the LVGL thread, and what    *)
(* the voice thread of VoiceLink does with the words it hears.  Both start *)
(* madplay in the background and stop, continue and kill all that runs     *)
(* under that name; neither tells the other.                               *)
(*                                                                         *)
(* A shell command is a step.  One that ends in & takes effect later: a    *)
(* player is called madplay when its shell has become it, and a            *)
(* continuation can come after the stop that was given behind it.          *)
(***************************************************************************)
EXTENDS VoiceLink

CONSTANTS
  Songs,      \* number of the mp3 files
  MaxPlayers  \* bound on the players that are kept track of

ASSUME SoundAssumption == Songs \in Nat \ {0} /\ MaxPlayers \in Nat \ {0}

VARIABLES
  awake, i,    \* is_awake and i of the voice thread
  player,      \* the madplay processes
  cont,        \* a killall -CONT is on its way
  shown,       \* the music page is the active screen
  label,       \* what its middle button shows
  playing, count, cover,  \* is_playing, count, current_cover_index
  ui,          \* where the LVGL thread is in a click
  calm         \* history: the voice thread has made no sound, and every click
               \* came when what the clicks before it had started was there

voice == <<awake, i>>
sound == <<player, cont>>
page  == <<shown, label, playing, count, cover, ui>>
vars  == <<link, voice, sound, page, calm>>

Slot   == 1 .. MaxPlayers
Prompt == 0
Idle   == [of |-> Prompt, is |-> "none"]

TypeOK ==
  /\ LinkTypeOK
  /\ awake \in BOOLEAN /\ i \in 1 .. Songs
  /\ player \in [Slot -> [of : 0 .. Songs, is : {"none", "starting", "running", "stopped"}]]
  /\ cont \in BOOLEAN /\ shown \in BOOLEAN /\ label \in {"play", "stop"}
  /\ playing \in BOOLEAN /\ count \in 0 .. 2 /\ cover \in 1 .. Songs
  /\ ui \in {"idle", "start"} /\ calm \in BOOLEAN

Init ==
  /\ LinkInit
  /\ awake = FALSE /\ i = 1
  /\ player = [s \in Slot |-> Idle] /\ cont = FALSE
  /\ shown = FALSE /\ label = "play" /\ playing = FALSE /\ count = 0 /\ cover = 1
  /\ ui = "idle" /\ calm = TRUE

-----------------------------------------------------------------------------
(* The shell commands. *)

AnyIs(state) == \E s \in Slot : player[s].is = state

\* madplay song &
Start(song) ==
  IF AnyIs("none")
  THEN LET s == CHOOSE x \in Slot : player[x].is = "none" /\ \A y \in 1 .. x - 1 : player[y].is # "none"
       IN player' = [player EXCEPT ![s] = [of |-> song, is |-> "starting"]]
  ELSE UNCHANGED player

\* killall finds the processes that are called madplay.
Becomes(from, to) ==
  [s \in Slot |-> IF player[s].is \notin from THEN player[s]
                  ELSE IF to = "none" THEN Idle ELSE [player[s] EXCEPT !.is = to]]

KillAll == player' = Becomes({"running", "stopped"}, "none")
StopAll == player' = Becomes({"running"}, "stopped")

Exec ==
  /\ \E s \in Slot : player[s].is = "starting" /\ player' = [player EXCEPT ![s].is = "running"]
  /\ UNCHANGED <<link, voice, cont, page, calm>>

Continue ==
  /\ cont
  /\ cont' = FALSE
  /\ player' = Becomes({"stopped"}, "running")
  /\ UNCHANGED <<link, voice, page, calm>>

SongEnds ==
  /\ \E s \in Slot : player[s].is = "running" /\ player' = [player EXCEPT ![s] = Idle]
  /\ UNCHANGED <<link, voice, cont, page, calm>>

-----------------------------------------------------------------------------
(* The voice thread, with words in rbuf. *)

\* The branches in the order of their tests.
Branches == <<"command", "play", "next", "previous", "pause", "continue", "quit">>

Hears(w) == \E n \in DOMAIN heard : heard[n].said = w

\* The branch that is taken by a thread that is awake.
Takes(w) == \E n \in DOMAIN Branches :
              Branches[n] = w /\ Hears(w) /\ \A m \in 1 .. n - 1 : ~ Hears(Branches[m])

\* Fault: the songs are counted from zero.
StepToZero(n) == (i + n) % Songs

StepTo(n) == ((i - 1 + n) % Songs) + 1

\* The prompts of waking up, of a command that was written to the port, and of going.
Prompts ==
  /\ Record
  /\ \/ ~ awake /\ Hears("yl") /\ awake' = TRUE
     \/ awake /\ Takes("command") /\ UNCHANGED awake
     \/ awake /\ Takes("quit") /\ awake' = FALSE
  /\ Start(Prompt)
  /\ calm' = FALSE
  /\ UNCHANGED <<i, cont>>

PlaysSong ==
  /\ awake /\ Takes("play")
  /\ Record
  /\ Start(i)
  /\ calm' = FALSE
  /\ UNCHANGED <<voice, cont>>

Changes ==
  /\ awake
  /\ \/ Takes("next") /\ i' = StepTo(1)
     \/ Takes("previous") /\ i' = StepTo(Songs - 1)
  /\ KillAll
  /\ client' = "start"
  /\ calm' = FALSE
  /\ UNCHANGED <<rec, unsent, heard, up, down, server, left, file, fails, spoken, awake, cont>>

Pauses ==
  /\ awake
  /\ \/ Takes("pause") /\ StopAll /\ UNCHANGED cont
     \/ Takes("continue") /\ cont' = TRUE /\ UNCHANGED player
  /\ Record
  /\ calm' = FALSE
  /\ UNCHANGED voice

DoesNothing ==
  /\ IF awake THEN \A n \in DOMAIN Branches : ~ Hears(Branches[n]) ELSE ~ Hears("yl")
  /\ Record
  /\ UNCHANGED <<voice, sound, calm>>

VoiceActs ==
  /\ client = "act"
  /\ Prompts \/ PlaysSong \/ Changes \/ Pauses \/ DoesNothing
  /\ UNCHANGED page

\* The second command of a change.
VoiceStarts ==
  /\ client = "start"
  /\ Record
  /\ Start(i)
  /\ UNCHANGED <<voice, cont, page, calm>>

\* The panel dies with its voice thread.
Alive == client # "killed"

VoiceTalks == Client /\ UNCHANGED <<voice, sound, page, calm>>
Serves     == Server /\ UNCHANGED <<voice, sound, page, calm>>

-----------------------------------------------------------------------------
(* The music page. *)

\* Fault: the page begins to count anew.
VisitAnew ==
  /\ Alive /\ ~ shown /\ ui = "idle"
  /\ shown' = TRUE /\ label' = "play" /\ count' = 0
  /\ UNCHANGED <<link, voice, sound, playing, cover, ui, calm>>

\* MusicPageRun makes the buttons again; what the page remembers stays.
Visit ==
  /\ Alive /\ ~ shown /\ ui = "idle"
  /\ shown' = TRUE /\ label' = "play"
  /\ UNCHANGED <<link, voice, sound, playing, count, cover, ui, calm>>

Leave ==
  /\ Alive /\ shown /\ ui = "idle"
  /\ shown' = FALSE
  /\ UNCHANGED <<link, voice, sound, label, playing, count, cover, ui, calm>>

Clicked ==
  /\ Alive /\ shown /\ ui = "idle"
  /\ calm' = (calm /\ ~ cont /\ ~ AnyIs("starting"))

\* play_pause_event.  count is compared with 1 only.
PlayPause ==
  /\ Clicked
  /\ count' = IF count = 2 THEN 2 ELSE count + 1
  /\ playing' = ~ playing
  /\ IF playing THEN label' = "play" /\ StopAll /\ UNCHANGED cont
     ELSE /\ label' = "stop"
          /\ IF count' = 1 THEN Start(cover) /\ UNCHANGED cont
                           ELSE cont' = TRUE /\ UNCHANGED player
  /\ UNCHANGED <<link, voice, shown, cover, ui>>

\* next_cover_event and previous_cover_event: kill, then play_music.
ChangeCover ==
  /\ Clicked
  /\ label' = "stop"
  /\ KillAll
  /\ \E n \in {1, Songs - 1} : cover' = ((cover - 1 + n) % Songs) + 1
  /\ ui' = "start"
  /\ UNCHANGED <<link, voice, cont, shown, playing, count>>

PlayCover ==
  /\ Alive /\ ui = "start"
  /\ ui' = "idle"
  /\ playing' = TRUE
  /\ Start(cover)
  /\ UNCHANGED <<link, voice, cont, shown, label, count, cover, calm>>

-----------------------------------------------------------------------------
Voice == VoiceTalks \/ VoiceActs \/ VoiceStarts
Page  == Visit \/ Leave \/ PlayPause \/ ChangeCover \/ PlayCover
Shell == Exec \/ Continue \/ SongEnds

Next == Voice \/ Serves \/ Page \/ Shell

Spec == Init /\ [][Next]_vars

\* The threads and the server run; the user and the songs owe nothing.
FairSpec == Spec /\ WF_vars(Voice) /\ WF_vars(Serves)

-----------------------------------------------------------------------------
\* As long as the voice thread is silent and no click overtakes the one before it,
\* the page owns the sound through all its visits: one player at most, with the song
\* of the cover, stopped if and only if the page has paused it.
PageOwnsSound ==
  calm /\ ui = "idle" /\ ~ cont /\ ~ AnyIs("starting") =>
    \A s \in Slot : player[s].is # "none" =>
      /\ player[s].of = cover
      /\ player[s].is = IF playing THEN "running" ELSE "stopped"
      /\ \A u \in Slot \ {s} : player[u].is = "none"
=============================================================================
