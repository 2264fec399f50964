-------------------------------- MODULE MCStudio --------------------------------
(***************************************************************************)
(* Studio on a small instance.  A behaviour either switches workspaces,    *)
(* with several commands and reloads, while a run loads what it needs of   *)
(* the session; or it runs recipes, two of them, while one command at a    *)
(* time opens or closes.                                                   *)
(***************************************************************************)
EXTENDS Studio

CONSTANTS y, f1, c1, r1, r2

VARIABLE switching

MCInit == Init /\ switching \in BOOLEAN /\ ui.file = f1

(* In a behaviour of runs, r2 is the later one and c1 is the only command: *)
(* it opens one workspace, and closes it.  The second click or switch      *)
(* comes before r2, or not at all.                                         *)
OneWorkspace ==
  /\ disk' = disk
  /\ run'[r2].phase # "new" => run'[r1].phase # "new"
  /\ clicks' = 2 /\ clicks = 1 => run[r2].phase = "new"
  /\ \A c \in Commands : cmd[c] = None /\ cmd'[c] # None =>
       /\ c = c1 /\ cmd'[c].root # y
       /\ cmd'[c].op = IF rootOf = <<>> THEN "open" ELSE "close"
       /\ rootOf = <<>> \/ session # None

(* In a behaviour of switches, r1 is started first, and the behaviour ends *)
(* when it has its daemon.  Between its two loads commands go on, two at   *)
(* most, and none is asked for (a command that waits for the lock is).     *)
OneReader ==
  /\ run[r1].phase # "link"
  /\ Between(r1) => disk' = disk /\ \A c \in Commands : cmd[c] = None => cmd'[c] = None
  /\ clicks' = 0 /\ ~ui'.breakpoints /\ run'[r2] = run[r2]
  /\ run'[r1].phase \in {"new", "save"} => \A c \in Commands : cmd'[c] = None
  /\ run'[r1].phase \in {"new", "save", "workspace", "daemon", "link"}

MCNext ==
  /\ Next
  /\ UNCHANGED switching
  /\ IF switching THEN OneReader ELSE OneWorkspace

MCSpec == MCInit /\ [][MCNext]_<<vars, switching>> /\ Fairness
===============================================================================
