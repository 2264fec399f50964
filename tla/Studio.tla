--------------------------------- MODULE Studio ---------------------------------
(***************************************************************************)
(* Studio's backend and the part of its frontend that starts and stops     *)
(* things: the session slot (daemon and workspace), opening, closing and   *)
(* reloading workspaces, runs of the editor, and the debugger.             *)
(*                                                                         *)
(* Commands run on several threads.  The slots are atomic pointers; what a *)
(* command does between two of them is a step.                             *)
(***************************************************************************)
EXTENDS Integers, FiniteSets

CONSTANTS
  None,
  Roots,      \* workspace directories
  Commands,   \* open, close and reload commands
  Runs,       \* calls of run_recipe
  Files,      \* recipe files of the editor
  MaxSaves,   \* bound on saves
  MaxDaemons, \* bound on daemons opened
  MaxClicks   \* bound on resume clicks and on file switches

ASSUME StudioAssumption ==
  /\ MaxSaves \in Nat /\ MaxDaemons \in Nat /\ MaxClicks \in Nat
  /\ None \notin Runs \cup Roots \cup Commands

VARIABLES
  session,    \* the slot: [daemon, root, scan], or None
  rootOf,     \* the root of each daemon opened so far
  live,       \* the daemons whose scheduler runs
  disk,       \* how often each root's files changed
  lock,       \* who holds workspace_switch
  cmd,        \* what each command is doing
  run,        \* what each run_recipe is doing
  cancelSlot, \* run_cancel
  debugSlot,  \* debug_session
  resume,     \* the debug_resume under way, or None
  ui,         \* the frontend: [file, running, paused, breakpoints]
  clicks,     \* resume clicks and file switches so far
  displaced,  \* history: daemons whose session a reload replaced by an older one
  switched,   \* history: runs between whose loads another workspace's session was stored
  asked       \* history: runs that were told to stop

workspace == <<session, rootOf, live, disk, lock, cmd, displaced, switched>>
running == <<run, cancelSlot, debugSlot, resume, ui, clicks, asked>>
vars == <<session, rootOf, live, disk, lock, cmd, run, cancelSlot, debugSlot,
          resume, ui, clicks, displaced, switched, asked>>

Daemons == 1..MaxDaemons

Session == [daemon : Daemons, root : Roots, scan : Nat]

(* A command under way: its step, the session it took or read, and what it *)
(* scanned and opened.                                                     *)
Command(op, root) ==
  [op |-> op, phase |-> "lock", root |-> root, prior |-> None, scan |-> 0, daemon |-> None]

Call ==
  [op : {"open", "close", "reload"},
   phase : {"lock", "cancel", "debug", "session", "close", "load", "store", "scan", "swap"},
   root : Roots \cup {None}, prior : Session \cup {None}, scan : Nat, daemon : Daemons \cup {None}]

ASSUME NoneIsNoRecord == None \notin Session \cup Call

-------------------------------------------------------------------------------
(* Opening and closing: both take workspace_switch and close first.        *)

Idle(c) == cmd[c] = None
In(c, phase) == cmd[c] # None /\ cmd[c].phase = phase
To(c, record) == cmd' = [cmd EXCEPT ![c] = record]
Phase(c, phase) == To(c, [cmd[c] EXCEPT !.phase = phase])

Ask(c, op, root) ==
  /\ Idle(c) /\ To(c, Command(op, root))
  /\ UNCHANGED <<session, rootOf, live, disk, lock, displaced, switched, running>>

LockNothing(c) ==
  /\ In(c, "lock") /\ cmd[c].op # "reload"
  /\ Phase(c, "cancel")
  /\ UNCHANGED <<session, rootOf, live, disk, lock, displaced, switched, running>>

Lock(c) ==
  /\ In(c, "lock") /\ cmd[c].op # "reload" /\ lock = None
  /\ lock' = c /\ Phase(c, "cancel")
  /\ UNCHANGED <<session, rootOf, live, disk, displaced, switched, running>>

NotifyWaiting(r) == run' = [run EXCEPT ![r].permit = @ \/ run[r].phase \in {"engine", "paused"}]

(* Notify::notify_one: the permit stays until the run waits for it.        *)
Notify(r) == run' = [run EXCEPT ![r].permit = TRUE]

TellToStop == Notify(cancelSlot) /\ asked' = asked \cup {cancelSlot}

(* close_workspace_inner, slot by slot.                                    *)
CloseCancel(c) ==
  /\ In(c, "cancel")
  /\ IF cancelSlot # None THEN TellToStop ELSE UNCHANGED <<run, asked>>
  /\ cancelSlot' = None
  /\ Phase(c, "debug")
  /\ UNCHANGED <<session, rootOf, live, disk, lock, displaced, switched,
                 debugSlot, resume, ui, clicks>>

CloseDebug(c) ==
  /\ In(c, "debug")
  /\ debugSlot' = None
  /\ Phase(c, "session")
  /\ UNCHANGED <<session, rootOf, live, disk, lock, displaced, switched,
                 run, cancelSlot, resume, ui, clicks, asked>>

CloseSession(c) ==
  /\ In(c, "session")
  /\ session' = None
  /\ To(c, [cmd[c] EXCEPT !.phase = "close", !.prior = session])
  /\ UNCHANGED <<rootOf, live, disk, lock, displaced, switched, running>>

CloseDaemon(c) ==
  /\ In(c, "close")
  /\ live' = IF cmd[c].prior = None THEN live ELSE live \ {cmd[c].prior.daemon}
  /\ IF cmd[c].op = "close" THEN To(c, None) /\ lock' = IF lock = c THEN None ELSE lock
     ELSE Phase(c, "load") /\ UNCHANGED lock
  /\ UNCHANGED <<session, rootOf, disk, displaced, switched, running>>

(* The scan, Daemon::open and the start of its scheduler; or an error,     *)
(* with no workspace open any more.                                        *)
OpenDaemon(c) ==
  LET d == Cardinality(DOMAIN rootOf) + 1 IN
  /\ In(c, "load")
  /\ \/ /\ To(c, None) /\ lock' = IF lock = c THEN None ELSE lock
        /\ UNCHANGED <<rootOf, live>>
     \/ /\ d \in Daemons
        /\ rootOf' = [e \in 1..d |-> IF e = d THEN cmd[c].root ELSE rootOf[e]]
        /\ live' = live \cup {d}
        /\ To(c, [cmd[c] EXCEPT !.phase = "store", !.daemon = d, !.scan = disk[cmd[c].root]])
        /\ UNCHANGED lock
  /\ UNCHANGED <<session, disk, displaced, switched, running>>

(* A run that has loaded its workspace, and not its daemon yet.            *)
Between(r) == run[r].phase = "daemon"
Switch(root) == switched' = switched \cup {r \in Runs : Between(r) /\ run[r].root # root}

OpenStore(c) ==
  /\ In(c, "store")
  /\ session' = [daemon |-> cmd[c].daemon, root |-> cmd[c].root, scan |-> cmd[c].scan]
  /\ Switch(cmd[c].root)
  /\ To(c, None) /\ lock' = IF lock = c THEN None ELSE lock
  /\ UNCHANGED <<rootOf, live, disk, displaced, running>>

-------------------------------------------------------------------------------
(* A command that writes files, and reload_workspace_session after it.     *)

Save(root) ==
  /\ disk[root] < MaxSaves
  /\ disk' = [disk EXCEPT ![root] = @ + 1]
  /\ UNCHANGED <<session, rootOf, live, lock, cmd, displaced, switched, running>>

ReloadLoad(c) ==
  /\ In(c, "lock") /\ cmd[c].op = "reload"
  /\ To(c, IF session = None THEN None
           ELSE [cmd[c] EXCEPT !.phase = "scan", !.prior = session])
  /\ UNCHANGED <<session, rootOf, live, disk, lock, displaced, switched, running>>

ReloadScan(c) ==
  /\ In(c, "scan")
  /\ \/ To(c, [cmd[c] EXCEPT !.phase = "swap", !.scan = disk[cmd[c].prior.root]])
     \/ To(c, None)
  /\ UNCHANGED <<session, rootOf, live, disk, lock, displaced, switched, running>>

Displace(older) ==
  displaced' = IF session = None \/ session.daemon = older.daemon THEN displaced
               ELSE displaced \cup {session.daemon}

ReloadIntoCurrent(c) ==
  /\ In(c, "swap")
  /\ session' = [daemon |-> IF session = None THEN cmd[c].prior.daemon ELSE session.daemon,
                 root |-> cmd[c].prior.root, scan |-> cmd[c].scan]
  /\ Displace(cmd[c].prior) /\ Switch(cmd[c].prior.root)
  /\ To(c, None)
  /\ UNCHANGED <<rootOf, live, disk, lock, running>>

(* Whatever the slot holds by now is replaced by the session read before.  *)
ReloadStore(c) ==
  /\ In(c, "swap")
  /\ session' = [cmd[c].prior EXCEPT !.scan = cmd[c].scan]
  /\ Displace(cmd[c].prior) /\ Switch(cmd[c].prior.root)
  /\ To(c, None)
  /\ UNCHANGED <<rootOf, live, disk, lock, running>>

-------------------------------------------------------------------------------
(* run_recipe.                                                             *)

At(r, phase) == run[r].phase = phase
Go(r, phase) == run' = [run EXCEPT ![r].phase = phase]

(* runActive: the frontend's flag is looked at before the file is saved    *)
(* and raised after, so a second press while it saves gets through.        *)
Press(r) ==
  /\ At(r, "new") /\ ~ui.running
  /\ run' = [run EXCEPT ![r].phase = "save", ![r].file = ui.file]
  /\ UNCHANGED <<workspace, cancelSlot, debugSlot, resume, ui, clicks, asked>>

Begin(r) ==
  /\ At(r, "save")
  /\ IF ui.file = run[r].file
     THEN ui' = [ui EXCEPT !.running = TRUE, !.paused = FALSE] /\ Go(r, "workspace")
     ELSE Go(r, "over") /\ UNCHANGED ui
  /\ UNCHANGED <<workspace, cancelSlot, debugSlot, resume, clicks, asked>>

(* require_workspace and require_daemon each load the session, and keep a  *)
(* half of it.  deploy_recipe and list_recipe_statuses do the same.        *)
LoadWorkspace(r) ==
  /\ At(r, "workspace")
  /\ IF session = None THEN Go(r, "return")
     ELSE run' = [run EXCEPT ![r].phase = "daemon", ![r].root = session.root]
  /\ UNCHANGED <<workspace, cancelSlot, debugSlot, resume, ui, clicks, asked>>

LoadDaemon(r) ==
  /\ At(r, "daemon")
  /\ IF session = None THEN Go(r, "return")
     ELSE run' = [run EXCEPT ![r].phase = "link", ![r].daemon = session.daemon]
  /\ UNCHANGED <<workspace, cancelSlot, debugSlot, resume, ui, clicks, asked>>

(* The recipe is read and linked in the root of the one; its inputs are    *)
(* those that the daemon, the other, has under its name.  Each may fail.   *)
Link(r) ==
  /\ At(r, "link") /\ (Go(r, "install") \/ Go(r, "return"))
  /\ UNCHANGED <<workspace, cancelSlot, debugSlot, resume, ui, clicks, asked>>

InstallCancel(r) ==
  /\ At(r, "install") /\ Go(r, "debugger")
  /\ cancelSlot' = r
  /\ UNCHANGED <<workspace, debugSlot, resume, ui, clicks, asked>>

InstallDebugger(r) ==
  /\ At(r, "debugger") /\ Go(r, "engine")
  /\ debugSlot' = r
  /\ UNCHANGED <<workspace, cancelSlot, resume, ui, clicks, asked>>

(* should_pause: on a breakpoint, or after a step click, which is consumed. *)
(* A pause parks the engine on a fresh oneshot and tells the frontend.      *)
Site(r) ==
  LET stops == ui.breakpoints \/ run[r].step IN
  /\ At(r, "engine") /\ stops
  /\ run' = [run EXCEPT ![r].step = FALSE, ![r].phase = "paused",
                        ![r].pending = TRUE, ![r].answer = None]
  /\ ui' = [ui EXCEPT !.paused = TRUE]
  /\ UNCHANGED <<workspace, cancelSlot, debugSlot, resume, clicks, asked>>

(* The oneshot fires.                                                      *)
Wake(r) ==
  /\ At(r, "paused") /\ run[r].answer # None
  /\ Go(r, IF run[r].answer = "stop" THEN "ended" ELSE "engine")
  /\ UNCHANGED <<workspace, cancelSlot, debugSlot, resume, ui, clicks, asked>>

EngineEnds(r) ==
  /\ At(r, "engine") /\ Go(r, "ended")
  /\ UNCHANGED <<workspace, cancelSlot, debugSlot, resume, ui, clicks, asked>>

(* The select on cancel.notified(): the engine is dropped where it is.     *)
Cancelled(r) ==
  /\ At(r, "engine") \/ At(r, "paused")
  /\ run[r].permit /\ Go(r, "ended")
  /\ UNCHANGED <<workspace, cancelSlot, debugSlot, resume, ui, clicks, asked>>

ClearNothing(r) ==
  At(r, "ended") /\ Go(r, "clear")
  /\ UNCHANGED <<workspace, cancelSlot, debugSlot, resume, ui, clicks, asked>>

(* Both slots are cleared, whoever's they are by now.                      *)
ClearCancel(r) ==
  /\ At(r, "ended") /\ Go(r, "clear")
  /\ cancelSlot' = None
  /\ UNCHANGED <<workspace, debugSlot, resume, ui, clicks, asked>>

ClearDebugger(r) ==
  /\ At(r, "clear") /\ Go(r, "return")
  /\ debugSlot' = None
  /\ UNCHANGED <<workspace, cancelSlot, resume, ui, clicks, asked>>

(* The frontend's runFinish, if the file is still, or again, the active.   *)
Return(r) ==
  /\ At(r, "return") /\ Go(r, "over")
  /\ ui' = IF ui.file = run[r].file THEN [ui EXCEPT !.running = FALSE, !.paused = FALSE] ELSE ui
  /\ UNCHANGED <<workspace, cancelSlot, debugSlot, resume, clicks, asked>>

-------------------------------------------------------------------------------
(* cancel_run, debug_resume and the frontend.  debug_resume runs on the    *)
(* main thread: one at a time.                                             *)

CancelRun ==
  /\ ui.running /\ cancelSlot # None /\ ~run[cancelSlot].permit
  /\ TellToStop
  /\ UNCHANGED <<workspace, cancelSlot, debugSlot, resume, ui, clicks>>

Click(action) ==
  /\ ui.paused /\ resume = None /\ debugSlot # None /\ clicks < MaxClicks
  /\ clicks' = clicks + 1
  /\ resume' = [session |-> debugSlot, action |-> action, stored |-> FALSE]
  /\ UNCHANGED <<workspace, run, cancelSlot, debugSlot, ui, asked>>

StoreStep ==
  /\ resume # None /\ ~resume.stored
  /\ resume' = [resume EXCEPT !.stored = TRUE]
  /\ run' = [run EXCEPT ![resume.session].step = resume.action = "step"]
  /\ UNCHANGED <<workspace, cancelSlot, debugSlot, ui, clicks, asked>>

(* The pending sender is taken, if there is one, and the oneshot is sent.  *)
TakeAndSend ==
  /\ resume # None /\ resume.stored
  /\ run' = IF run[resume.session].pending
            THEN [run EXCEPT ![resume.session].pending = FALSE,
                             ![resume.session].answer = resume.action]
            ELSE run
  /\ resume' = None
  /\ \E cleared \in BOOLEAN : ui' = [ui EXCEPT !.paused = @ /\ ~cleared]
  /\ UNCHANGED <<workspace, cancelSlot, debugSlot, clicks, asked>>

(* setActiveFilePath: the flags of the old file's run are reset.           *)
SwitchFile(file) ==
  /\ file # ui.file /\ clicks < MaxClicks
  /\ clicks' = clicks + 1
  /\ ui' = [file |-> file, running |-> FALSE, paused |-> FALSE, breakpoints |-> FALSE]
  /\ UNCHANGED <<workspace, run, cancelSlot, debugSlot, resume, asked>>

SetBreakpoints ==
  /\ ~ui.breakpoints
  /\ ui' = [ui EXCEPT !.breakpoints = TRUE]
  /\ UNCHANGED <<workspace, run, cancelSlot, debugSlot, resume, clicks, asked>>
-------------------------------------------------------------------------------

NewRun == [phase |-> "new", file |-> None, root |-> None, daemon |-> None, permit |-> FALSE,
           step |-> FALSE, pending |-> FALSE, answer |-> None]

Init ==
  /\ session = None /\ rootOf = <<>> /\ live = {} /\ lock = None
  /\ displaced = {} /\ switched = {} /\ asked = {}
  /\ disk = [root \in Roots |-> 0]
  /\ cmd = [c \in Commands |-> None]
  /\ run = [r \in Runs |-> NewRun]
  /\ cancelSlot = None /\ debugSlot = None /\ resume = None /\ clicks = 0
  /\ \E file \in Files :
       ui = [file |-> file, running |-> FALSE, paused |-> FALSE, breakpoints |-> FALSE]

CommandStep(c) ==
  \/ Lock(c) \/ CloseCancel(c) \/ CloseDebug(c) \/ CloseSession(c) \/ CloseDaemon(c)
  \/ OpenDaemon(c) \/ OpenStore(c)
  \/ ReloadLoad(c) \/ ReloadScan(c) \/ ReloadStore(c)

RunStep(r) ==
  \/ LoadWorkspace(r) \/ LoadDaemon(r) \/ Link(r) \/ InstallCancel(r) \/ InstallDebugger(r)
  \/ Site(r) \/ Wake(r) \/ EngineEnds(r) \/ Cancelled(r)
  \/ ClearCancel(r) \/ ClearDebugger(r) \/ Return(r)

Next ==
  \/ \E c \in Commands :
       \/ \E root \in Roots : Ask(c, "open", root)
       \/ Ask(c, "close", None) \/ Ask(c, "reload", None)
       \/ CommandStep(c)
  \/ \E root \in Roots : Save(root)
  \/ \E r \in Runs : Press(r) \/ Begin(r) \/ RunStep(r)
  \/ CancelRun \/ StoreStep \/ TakeAndSend
  \/ \E action \in {"continue", "step", "stop"} : Click(action)
  \/ \E file \in Files : SwitchFile(file)
  \/ SetBreakpoints

(* The select is biased: a run that is notified is cancelled at once.      *)
Fairness ==
  \A r \in Runs :
    /\ WF_vars(InstallCancel(r) \/ InstallDebugger(r) \/ Cancelled(r))
    /\ WF_vars(ClearCancel(r) \/ ClearDebugger(r) \/ Return(r))

Spec == Init /\ [][Next]_vars /\ Fairness
-------------------------------------------------------------------------------

(* One load of the session gives a daemon and its own workspace, reloads   *)
(* that race with a switch included ("readers see them install or clear    *)
(* together").  Two loads, as run_recipe, deploy_recipe and the statuses   *)
(* make them, do so unless another workspace's session was stored between  *)
(* them: a close, or a reload of the same workspace, mixes nothing.        *)
PairMatches ==
  /\ session # None => rootOf[session.daemon] = session.root
  /\ \A r \in Runs \ switched :
       run[r].daemon # None => rootOf[run[r].daemon] = run[r].root

(* "Without this mutex two concurrent open_workspace calls could [...]     *)
(* leak a daemon scheduler": a scheduler that runs is the session's, or    *)
(* that of the command which holds the mutex.  Reloads, which do not take  *)
(* the mutex, can put an older session in a daemon's place.                *)
NoDaemonLeaks ==
  \A d \in live \ displaced :
    \/ session # None /\ session.daemon = d
    \/ /\ lock # None
       /\ \/ cmd[lock].daemon = d
          \/ cmd[lock].prior # None /\ cmd[lock].prior.daemon = d

(* "So a stale notify can't fire on the next run, and [...] the resume     *)
(* path can't wake into a finished engine": the slots never name a run     *)
(* that has returned, however runs and switches overlap.                   *)
SlotsOfLiveRuns ==
  \A r \in Runs : run[r].phase \in {"return", "over"} => r \notin {cancelSlot, debugSlot}

(* A run that is told to stop comes to its end, also one that was told     *)
(* before it listens, and one that is paused in the debugger.              *)
CancelIsNotLost == \A r \in Runs : r \in asked ~> At(r, "over")
===============================================================================
