------------------------------ MODULE StudioProofs ------------------------------
(***************************************************************************)
(* The safety of Studio's slots, for every number of workspaces, commands, *)
(* runs and daemons.                                                       *)
(*                                                                         *)
(* What the session slot holds, and which schedulers run, follows from how *)
(* far the command that has the mutex has come; so the invariant says, for *)
(* each of its steps, where the one daemon is that still runs.             *)
(***************************************************************************)
EXTENDS Studio, Documents, FiniteSetTheorems, TLAPS

-------------------------------------------------------------------------------
(* The inductive invariant.                                                *)

Phases == {"new", "save", "workspace", "daemon", "link", "install", "debugger", "engine",
           "paused", "ended", "clear", "return", "over"}

Opened == DOMAIN rootOf

CommandsTypeOK ==
  /\ session \in Session \cup {None}
  /\ \E n \in Nat : n <= MaxDaemons /\ rootOf \in [1..n -> Roots]
  /\ live \subseteq Opened
  /\ disk \in [Roots -> Nat]
  /\ lock \in Commands \cup {None}
  /\ cmd \in [Commands -> Call \cup {None}]

RunState ==
  [phase : Phases, file : Files \cup {None}, root : Roots \cup {None},
   daemon : Daemons \cup {None}, permit : BOOLEAN,
   step : BOOLEAN, pending : BOOLEAN, answer : {None, "continue", "step", "stop"}]

RunsTypeOK ==
  /\ run \in [Runs -> RunState]
  /\ cancelSlot \in Runs \cup {None}
  /\ debugSlot \in Runs \cup {None}
  /\ resume = None \/ resume \in [session : Runs, action : {"continue", "step", "stop"}, stored : BOOLEAN]
  /\ ui \in [file : Files, running : BOOLEAN, paused : BOOLEAN, breakpoints : BOOLEAN]

(* A daemon goes with the root it was opened for.                          *)
Matches(s) == s.daemon \in Opened /\ rootOf[s.daemon] = s.root

Switching(c) == In(c, "cancel") \/ In(c, "debug") \/ In(c, "session")

(* What a call carries is sound: its prior session, the daemon it opened;  *)
(* and it is in a step of its own kind.                                    *)
CallSound(c) ==
  LET call == cmd[c] IN
  /\ call.prior # None => Matches(call.prior)
  /\ call.phase = "store" => call.daemon \in Opened /\ rootOf[call.daemon] = call.root
  /\ call.op = "reload" => call.phase \in {"lock", "scan", "swap"}
  /\ call.phase \in {"scan", "swap"} => call.prior # None
  /\ call.op = "open" => call.root \in Roots
  /\ call.op = "close" => call.phase \notin {"load", "store"}
  /\ call.phase \in {"lock", "scan", "swap"} <=> lock # c

Sound ==
  /\ session # None => Matches(session)
  /\ \A c \in Commands : cmd[c] # None => CallSound(c)
  /\ lock # None => cmd[lock] # None

(* Where the scheduler that runs belongs, step by step of the command that *)
(* has the mutex: to the session, to the session it took, to nobody, to    *)
(* the session it is about to store.                                       *)
Owned ==
  \A d \in live \ displaced :
    /\ lock = None \/ Switching(lock) => session # None /\ session.daemon = d
    /\ lock # None /\ ~Switching(lock) =>
         \/ In(lock, "close") /\ cmd[lock].prior # None /\ cmd[lock].prior.daemon = d
         \/ In(lock, "store") /\ cmd[lock].daemon = d

(* A slot names a run from the step that fills it to the one that clears   *)
(* it, at the most.                                                        *)
Slots ==
  /\ cancelSlot # None => run[cancelSlot].phase \in {"debugger", "engine", "paused", "ended"}
  /\ debugSlot # None => run[debugSlot].phase \in {"engine", "paused", "ended", "clear"}

CommandInv == CommandsTypeOK /\ Sound /\ Owned

RunInv == RunsTypeOK /\ Slots

-------------------------------------------------------------------------------
(* Every step is one of these.                                             *)

(* The steps of the commands, and the saves: they may change the workspace. *)
WorkspaceStep ==
  \/ \E c \in Commands :
       \/ \E root \in Roots : Ask(c, "open", root)
       \/ Ask(c, "close", None) \/ Ask(c, "reload", None)
       \/ CommandStep(c)
  \/ \E root \in Roots : Save(root)

(* Those of the runs and of the frontend, which leave it alone.            *)
RunningStep ==
  \/ \E r \in Runs : Press(r) \/ Begin(r) \/ RunStep(r)
  \/ CancelRun \/ StoreStep \/ TakeAndSend
  \/ \E action \in {"continue", "step", "stop"} : Click(action)
  \/ \E file \in Files : SwitchFile(file)
  \/ SetBreakpoints

LEMMA StepKinds == Next => WorkspaceStep \/ RunningStep
BY DEF Next, WorkspaceStep, RunningStep

LEMMA RunningLeavesWorkspace == RunningStep => UNCHANGED workspace
BY DEF RunningStep, RunStep, Press, Begin, LoadWorkspace, LoadDaemon, Link, InstallCancel,
       InstallDebugger, Site, Wake, EngineEnds, Cancelled, ClearCancel, ClearDebugger, Return, CancelRun, StoreStep,
       TakeAndSend, Click, SwitchFile, SetBreakpoints

LEMMA CommandInvStutters == CommandInv /\ UNCHANGED workspace => CommandInv'
BY DEF workspace, CommandInv, CommandsTypeOK, Sound, CallSound, Matches, Opened, Owned, Switching, In

(* The daemon a command opens is the next in number.                       *)
LEMMA NextDaemon ==
  ASSUME CommandsTypeOK
  PROVE  \E n \in Nat : /\ n <= MaxDaemons /\ rootOf \in [1..n -> Roots]
                        /\ Opened = 1..n /\ Cardinality(Opened) + 1 = n + 1
<1>1. PICK n \in Nat : n <= MaxDaemons /\ rootOf \in [1..n -> Roots]
  BY DEF CommandsTypeOK
<1>2. Opened = 1..n
  BY <1>1 DEF Opened
<1>3. Cardinality(1..n) = n
  BY <1>1, FS_Interval
<1> QED BY <1>1, <1>2, <1>3

(* What a step does to its command.                                        *)
Becomes(c, phase, prior, scan, daemon) ==
  /\ cmd' \in [Commands -> Call \cup {None}]
  /\ cmd'[c] \in Call /\ cmd'[c] # None
  /\ cmd'[c].op = cmd[c].op /\ cmd'[c].root = cmd[c].root /\ cmd'[c].phase = phase
  /\ cmd'[c].prior = prior /\ cmd'[c].scan = scan /\ cmd'[c].daemon = daemon
  /\ \A e \in Commands \ {c} : cmd'[e] = cmd[e]

Ends(c) ==
  /\ cmd' \in [Commands -> Call \cup {None}]
  /\ cmd'[c] = None
  /\ \A e \in Commands \ {c} : cmd'[e] = cmd[e]

LEMMA MovesOn ==
  ASSUME CommandsTypeOK, NEW c \in Commands, NEW from, In(c, from),
         NEW to \in {"cancel", "debug", "session", "close", "load", "store", "scan", "swap"},
         NEW prior \in Session \cup {None}, NEW scan \in Nat, NEW daemon \in Daemons \cup {None},
         To(c, [cmd[c] EXCEPT !.phase = to, !.prior = prior, !.scan = scan, !.daemon = daemon])
  PROVE  Becomes(c, to, prior, scan, daemon)
<1> DEFINE call == [cmd[c] EXCEPT !.phase = to, !.prior = prior, !.scan = scan, !.daemon = daemon]
<1>1. cmd \in [Commands -> Call \cup {None}] /\ cmd[c] \in Call
  BY DEF CommandsTypeOK, In
<1>2. call \in Call
  BY <1>1 DEF Call
<1>3. /\ call.op = cmd[c].op /\ call.root = cmd[c].root /\ call.phase = to
      /\ call.prior = prior /\ call.scan = scan /\ call.daemon = daemon
  BY <1>1 DEF Call
<1>4. cmd' = [cmd EXCEPT ![c] = call]
  BY DEF To
<1>5. cmd'[c] = call /\ \A e \in Commands \ {c} : cmd'[e] = cmd[e]
  BY <1>1, <1>4
<1>6. cmd' \in [Commands -> Call \cup {None}]
  BY <1>1, <1>2, <1>4
<1>7. call # None
  BY <1>2, NoneIsNoRecord
<1> QED BY <1>2, <1>3, <1>5, <1>6, <1>7 DEF Becomes

LEMMA Stops ==
  ASSUME CommandsTypeOK, NEW c \in Commands, To(c, None)
  PROVE  Ends(c)
BY DEF CommandsTypeOK, To, Ends

LEMMA CallOf ==
  ASSUME CommandsTypeOK, NEW c \in Commands, cmd[c] # None
  PROVE  /\ cmd[c] \in Call /\ cmd[c].prior \in Session \cup {None} /\ cmd[c].scan \in Nat
         /\ cmd[c].daemon \in Daemons \cup {None}
         /\ cmd[c] = [cmd[c] EXCEPT !.prior = cmd[c].prior, !.scan = cmd[c].scan, !.daemon = cmd[c].daemon]
BY DEF CommandsTypeOK, Call

(* Phase is the case that changes nothing else.                            *)
LEMMA PhaseMovesOn ==
  ASSUME CommandsTypeOK, NEW c \in Commands, NEW from, In(c, from),
         NEW to \in {"cancel", "debug", "session", "close", "load", "store", "scan", "swap"},
         Phase(c, to)
  PROVE  Becomes(c, to, cmd[c].prior, cmd[c].scan, cmd[c].daemon)
<1>1. [cmd[c] EXCEPT !.phase = to] =
      [cmd[c] EXCEPT !.phase = to, !.prior = cmd[c].prior, !.scan = cmd[c].scan, !.daemon = cmd[c].daemon]
  BY CallOf DEF In, Call
<1> QED BY <1>1, MovesOn, CallOf DEF Phase, In

LEMMA LockKeeps ==
  ASSUME CommandInv, NEW c \in Commands, Lock(c)
  PROVE  CommandInv'
<1> USE StudioAssumption, NoneIsNoRecord DEF CommandInv
<1>1. Becomes(c, "cancel", cmd[c].prior, cmd[c].scan, cmd[c].daemon)
  BY PhaseMovesOn DEF Lock
<1>2. CommandsTypeOK'
  BY <1>1 DEF Lock, Becomes, Ends, CommandsTypeOK, Opened, In
<1>3. Sound'
  BY <1>1 DEF Lock, Becomes, Ends, Sound, CallSound, Matches, In, Opened, CommandsTypeOK
<1>4. Owned'
  BY <1>1 DEF Lock, Becomes, Ends, Owned, Switching, In, CommandsTypeOK, Sound, CallSound
<1> QED BY <1>2, <1>3, <1>4

LEMMA CloseCancelKeeps ==
  ASSUME CommandInv, NEW c \in Commands, CloseCancel(c)
  PROVE  CommandInv'
<1> USE StudioAssumption, NoneIsNoRecord DEF CommandInv
<1>1. Becomes(c, "debug", cmd[c].prior, cmd[c].scan, cmd[c].daemon)
  BY PhaseMovesOn DEF CloseCancel
<1>2. CommandsTypeOK'
  BY <1>1 DEF CloseCancel, Becomes, Ends, CommandsTypeOK, Opened, In
<1>3. Sound'
  BY <1>1 DEF CloseCancel, Becomes, Ends, Sound, CallSound, Matches, In, Opened, CommandsTypeOK
<1>4. Owned'
  BY <1>1 DEF CloseCancel, Becomes, Ends, Owned, Switching, In, CommandsTypeOK, Sound, CallSound
<1> QED BY <1>2, <1>3, <1>4

LEMMA CloseDebugKeeps ==
  ASSUME CommandInv, NEW c \in Commands, CloseDebug(c)
  PROVE  CommandInv'
<1> USE StudioAssumption, NoneIsNoRecord DEF CommandInv
<1>1. Becomes(c, "session", cmd[c].prior, cmd[c].scan, cmd[c].daemon)
  BY PhaseMovesOn DEF CloseDebug
<1>2. CommandsTypeOK'
  BY <1>1 DEF CloseDebug, Becomes, Ends, CommandsTypeOK, Opened, In
<1>3. Sound'
  BY <1>1, SMTT(60) DEF CloseDebug, Becomes, Ends, Sound, CallSound, Matches, In, Opened, CommandsTypeOK
<1>4. Owned'
  BY <1>1 DEF CloseDebug, Becomes, Ends, Owned, Switching, In, CommandsTypeOK, Sound, CallSound
<1> QED BY <1>2, <1>3, <1>4

LEMMA CloseSessionKeeps ==
  ASSUME CommandInv, NEW c \in Commands, CloseSession(c)
  PROVE  CommandInv'
<1> USE StudioAssumption, NoneIsNoRecord DEF CommandInv
<1>1. In(c, "session") /\ cmd[c] \in Call /\ cmd[c].scan \in Nat /\ cmd[c].daemon \in Daemons \cup {None}
  BY CallOf DEF CloseSession, In
<1>2. [cmd[c] EXCEPT !.phase = "close", !.prior = session] =
      [cmd[c] EXCEPT !.phase = "close", !.prior = session, !.scan = cmd[c].scan, !.daemon = cmd[c].daemon]
  BY <1>1 DEF Call
<1>3. Becomes(c, "close", session, cmd[c].scan, cmd[c].daemon)
  BY <1>1, <1>2, MovesOn DEF CloseSession, CommandsTypeOK
<1>4. session' = None /\ (session # None => Matches(session)) /\ lock = c /\ CallSound(c)
  BY <1>1 DEF CloseSession, Sound, CallSound, In
<1>5. CommandsTypeOK'
  BY <1>1, <1>2, <1>3, <1>4 DEF CloseSession, Becomes, Ends, CommandsTypeOK, Opened, In
<1>6. Sound'
  BY <1>1, <1>2, <1>3, <1>4 DEF CloseSession, Becomes, Ends, Sound, CallSound, Matches, In, Opened, CommandsTypeOK
<1>7. Owned'
  BY <1>1, <1>2, <1>3, <1>4 DEF CloseSession, Becomes, Ends, Owned, Switching, In, CommandsTypeOK, Sound, CallSound
<1> QED BY <1>5, <1>6, <1>7

LEMMA CloseDaemonKeeps ==
  ASSUME CommandInv, NEW c \in Commands, CloseDaemon(c)
  PROVE  CommandInv'
<1> USE StudioAssumption, NoneIsNoRecord DEF CommandInv
<1>1. cmd[c].op = "close" => Ends(c)
  BY Stops DEF CloseDaemon
<1>2. cmd[c].op # "close" => Becomes(c, "load", cmd[c].prior, cmd[c].scan, cmd[c].daemon)
  BY PhaseMovesOn DEF CloseDaemon
<1>3. CommandsTypeOK'
  BY <1>1, <1>2 DEF CloseDaemon, Becomes, Ends, CommandsTypeOK, Opened, In
<1>4. Sound'
  BY <1>1, <1>2 DEF CloseDaemon, Becomes, Ends, Sound, CallSound, Matches, In, Opened, CommandsTypeOK
<1>5. Owned'
  BY <1>1, <1>2 DEF CloseDaemon, Becomes, Ends, Owned, Switching, In, CommandsTypeOK, Sound, CallSound
<1> QED BY <1>3, <1>4, <1>5

LEMMA OpenStoreKeeps ==
  ASSUME CommandInv, NEW c \in Commands, OpenStore(c)
  PROVE  CommandInv'
<1> USE StudioAssumption, NoneIsNoRecord DEF CommandInv
<1>1. Ends(c)
  BY Stops DEF OpenStore
<1>2. cmd[c].scan \in Nat /\ cmd[c].root \in Roots /\ cmd[c].daemon \in Daemons
  <2>1. CallSound(c) /\ cmd[c] \in Call /\ cmd[c].phase = "store"
    BY CallOf DEF OpenStore, In, Sound
  <2>2. cmd[c].root \in Roots /\ cmd[c].scan \in Nat
    BY <2>1 DEF CallSound, Call
  <2>3. Opened \subseteq Daemons
    BY NextDaemon DEF Daemons
  <2> QED BY <2>1, <2>2, <2>3 DEF CallSound
<1>3. session' \in Session /\ session' # None /\ session'.daemon = cmd[c].daemon /\ session'.root = cmd[c].root
  BY <1>2 DEF OpenStore, Session
<1>4. CommandsTypeOK'
  BY <1>1, <1>2, <1>3 DEF OpenStore, Becomes, Ends, CommandsTypeOK, Opened, In
<1>5. Sound'
  BY <1>1, <1>2, <1>3 DEF OpenStore, Becomes, Ends, Sound, CallSound, Matches, In, Opened, CommandsTypeOK
<1>6. Owned'
  BY <1>1, <1>2, <1>3 DEF OpenStore, Becomes, Ends, Owned, Switching, In, CommandsTypeOK, Sound, CallSound
<1> QED BY <1>4, <1>5, <1>6

LEMMA ReloadLoadKeeps ==
  ASSUME CommandInv, NEW c \in Commands, ReloadLoad(c)
  PROVE  CommandInv'
<1> USE StudioAssumption, NoneIsNoRecord DEF CommandInv
<1>1. In(c, "lock") /\ cmd[c] \in Call /\ cmd[c].scan \in Nat /\ cmd[c].daemon \in Daemons \cup {None}
  BY CallOf DEF ReloadLoad, In
<1>2. [cmd[c] EXCEPT !.phase = "scan", !.prior = session] =
      [cmd[c] EXCEPT !.phase = "scan", !.prior = session, !.scan = cmd[c].scan, !.daemon = cmd[c].daemon]
  BY <1>1 DEF Call
<1>3. session = None => Ends(c)
  BY Stops DEF ReloadLoad
<1>4. session # None => Becomes(c, "scan", session, cmd[c].scan, cmd[c].daemon)
  BY <1>1, <1>2, MovesOn DEF ReloadLoad, CommandsTypeOK
<1>5. CommandsTypeOK'
  BY <1>1, <1>2, <1>3, <1>4 DEF ReloadLoad, Becomes, Ends, CommandsTypeOK, Opened, In
<1>6. Sound'
  BY <1>1, <1>2, <1>3, <1>4 DEF ReloadLoad, Becomes, Ends, Sound, CallSound, Matches, In, Opened, CommandsTypeOK
<1>7. Owned'
  BY <1>1, <1>2, <1>3, <1>4 DEF ReloadLoad, Becomes, Ends, Owned, Switching, In, CommandsTypeOK, Sound, CallSound
<1> QED BY <1>5, <1>6, <1>7

LEMMA ReloadScanKeeps ==
  ASSUME CommandInv, NEW c \in Commands, ReloadScan(c)
  PROVE  CommandInv'
<1> USE StudioAssumption, NoneIsNoRecord DEF CommandInv
<1>1. In(c, "scan") /\ cmd[c] \in Call /\ cmd[c].prior \in Session /\ cmd[c].daemon \in Daemons \cup {None}
  BY CallOf DEF ReloadScan, In, Sound, CallSound
<1>2. disk[cmd[c].prior.root] \in Nat
  BY <1>1 DEF Session, CommandsTypeOK
<1>3. [cmd[c] EXCEPT !.phase = "swap", !.scan = disk[cmd[c].prior.root]] =
      [cmd[c] EXCEPT !.phase = "swap", !.prior = cmd[c].prior, !.scan = disk[cmd[c].prior.root], !.daemon = cmd[c].daemon]
  BY <1>1 DEF Call
<1>4. Ends(c) \/ Becomes(c, "swap", cmd[c].prior, disk[cmd[c].prior.root], cmd[c].daemon)
  BY <1>1, <1>2, <1>3, MovesOn, Stops DEF ReloadScan
<1>5. CommandsTypeOK'
  BY <1>1, <1>2, <1>3, <1>4 DEF ReloadScan, Becomes, Ends, CommandsTypeOK, Opened, In
<1>6. Sound'
  BY <1>1, <1>2, <1>3, <1>4 DEF ReloadScan, Becomes, Ends, Sound, CallSound, Matches, In, Opened, CommandsTypeOK
<1>7. Owned'
  BY <1>1, <1>2, <1>3, <1>4 DEF ReloadScan, Becomes, Ends, Owned, Switching, In, CommandsTypeOK, Sound, CallSound
<1> QED BY <1>5, <1>6, <1>7

LEMMA ReloadStoreKeeps ==
  ASSUME CommandInv, NEW c \in Commands, ReloadStore(c)
  PROVE  CommandInv'
<1> USE StudioAssumption, NoneIsNoRecord DEF CommandInv
<1>1. Ends(c)
  BY Stops DEF ReloadStore
<1>2. cmd[c].prior \in Session /\ cmd[c].scan \in Nat
  BY CallOf DEF ReloadStore, In, Sound, CallSound
<1>3. session' \in Session /\ session' # None /\ session'.daemon = cmd[c].prior.daemon /\ session'.root = cmd[c].prior.root
  BY <1>2 DEF ReloadStore, Session
<1>4. CommandsTypeOK'
  BY <1>1, <1>2, <1>3 DEF ReloadStore, Becomes, Ends, CommandsTypeOK, Opened, In, Displace
<1>5. Sound'
  BY <1>1, <1>2, <1>3, SMTT(60) DEF ReloadStore, Becomes, Ends, Sound, CallSound, Matches, In, Opened, CommandsTypeOK
<1>6. Owned'
  BY <1>1, <1>2, <1>3 DEF ReloadStore, Becomes, Ends, Owned, Switching, In, CommandsTypeOK, Sound, CallSound, Displace
<1> QED BY <1>4, <1>5, <1>6

LEMMA OpenDaemonKeeps ==
  ASSUME CommandInv, NEW c \in Commands, OpenDaemon(c)
  PROVE  CommandInv'
<1> USE StudioAssumption, NoneIsNoRecord DEF CommandInv
<1> DEFINE d == Cardinality(Opened) + 1
<1>1. In(c, "load") /\ cmd[c] \in Call /\ cmd[c].root \in Roots /\ lock = c
  <2>1. In(c, "load") /\ cmd[c] \in Call /\ CallSound(c)
    BY CallOf DEF OpenDaemon, In, Sound
  <2> QED BY <2>1 DEF CallSound, In, Call
<1>2. CASE To(c, None) /\ lock' = (IF lock = c THEN None ELSE lock) /\ UNCHANGED <<rootOf, live>>
  <2>1. Ends(c)
    BY <1>2, Stops
  <2>2. UNCHANGED <<session, disk, displaced>>
    BY DEF OpenDaemon
  <2>3. CommandsTypeOK'
    BY <1>2, <2>1, <2>2 DEF Ends, CommandsTypeOK, Opened
  <2>4. Sound'
    BY <1>1, <1>2, <2>1, <2>2 DEF Ends, Sound, CallSound, Matches, In, Opened, CommandsTypeOK
  <2>5. Owned'
    BY <1>1, <1>2, <2>1, <2>2 DEF Ends, Owned, Switching, In, CommandsTypeOK
  <2> QED BY <2>3, <2>4, <2>5
<1>3. CASE /\ d \in Daemons
           /\ rootOf' = [e \in 1..d |-> IF e = d THEN cmd[c].root ELSE rootOf[e]]
           /\ live' = live \cup {d}
           /\ To(c, [cmd[c] EXCEPT !.phase = "store", !.daemon = d, !.scan = disk[cmd[c].root]])
           /\ UNCHANGED lock
  <2>1. PICK n \in Nat : /\ n <= MaxDaemons /\ rootOf \in [1..n -> Roots]
                         /\ Opened = 1..n /\ d = n + 1
    BY NextDaemon
  <2>2. Becomes(c, "store", cmd[c].prior, disk[cmd[c].root], d)
    <3>1. disk[cmd[c].root] \in Nat /\ cmd[c].prior \in Session \cup {None}
      BY <1>1, CallOf DEF CommandsTypeOK, In
    <3>2. [cmd[c] EXCEPT !.phase = "store", !.daemon = d, !.scan = disk[cmd[c].root]] =
          [cmd[c] EXCEPT !.phase = "store", !.prior = cmd[c].prior, !.scan = disk[cmd[c].root], !.daemon = d]
      BY <1>1 DEF Call
    <3> HIDE DEF d
    <3> QED BY <1>1, <1>3, <3>1, <3>2, MovesOn
  <2> HIDE DEF d
  <2>3. UNCHANGED <<session, disk, displaced>>
    BY DEF OpenDaemon
  <2>4. rootOf' \in [1..d -> Roots] /\ d \in Nat /\ d <= MaxDaemons /\ rootOf'[d] = cmd[c].root
    BY <1>1, <1>3, <2>1 DEF Daemons
  <2>5. Opened' = 1..d /\ Opened' = Opened \cup {d} /\ \A e \in Opened : rootOf'[e] = rootOf[e]
    BY <1>3, <2>1, <2>4 DEF Opened
  <2>6. CommandsTypeOK'
    BY <1>3, <2>2, <2>3, <2>4, <2>5 DEF Becomes, CommandsTypeOK
  <2>7. Sound'
    <3>1. \A s : Matches(s) => s.daemon \in Opened' /\ rootOf'[s.daemon] = s.root
      BY <2>5 DEF Matches
    <3>2. ASSUME NEW e \in Commands \ {c}, cmd[e] # None PROVE CallSound(e)'
      <4>1. CallSound(e) /\ cmd'[e] = cmd[e] /\ lock' = lock
        BY <1>3, <2>2, <3>2 DEF Sound, Becomes
      <4> QED BY <4>1, <3>1, <2>5 DEF CallSound, Matches
    <3>3. CallSound(c)'
      <4>1. CallSound(c) /\ cmd[c].phase = "load"
        BY <1>1 DEF Sound, In
      <4>2. cmd'[c].daemon = d /\ d \in Opened' /\ rootOf'[d] = cmd[c].root
        BY <2>2, <2>4, <2>5 DEF Becomes
      <4> QED BY <1>1, <1>3, <2>2, <3>1, <4>1, <4>2 DEF CallSound, Matches, Becomes
    <3>4. session' # None => Matches(session)'
      BY <2>3, <3>1 DEF Sound, Matches
    <3>5. \A e \in Commands : cmd'[e] # None => CallSound(e)'
      BY <2>2, <3>2, <3>3 DEF Becomes
    <3> QED BY <1>1, <1>3, <2>2, <3>4, <3>5 DEF Sound, Becomes
  <2>8. Owned'
    BY <1>1, <1>3, <2>2, <2>3 DEF Becomes, Owned, Switching, In, CommandsTypeOK
  <2> QED BY <2>6, <2>7, <2>8
<1> QED BY <1>2, <1>3 DEF OpenDaemon, Opened

LEMMA AskKeeps ==
  ASSUME CommandInv, NEW c \in Commands, NEW op \in {"open", "close", "reload"},
         NEW root \in Roots \cup {None}, op = "open" => root \in Roots, Ask(c, op, root)
  PROVE  CommandInv'
<1> USE StudioAssumption, NoneIsNoRecord DEF CommandInv
<1>1. Command(op, root) \in Call /\ Command(op, root) # None
  BY DEF Command, Call
<1>2. /\ cmd' \in [Commands -> Call \cup {None}] /\ cmd'[c] = Command(op, root)
      /\ \A e \in Commands \ {c} : cmd'[e] = cmd[e]
  BY <1>1 DEF Ask, To, CommandsTypeOK
<1>3. CommandsTypeOK'
  BY <1>2 DEF Ask, CommandsTypeOK, Opened
<1>4. Sound'
  BY <1>1, <1>2 DEF Ask, Idle, Command, Sound, CallSound, Matches, Opened, CommandsTypeOK
<1>5. Owned'
  BY <1>1, <1>2 DEF Ask, Idle, Owned, Sound, Switching, In, CommandsTypeOK
<1> QED BY <1>3, <1>4, <1>5

LEMMA SaveKeeps ==
  ASSUME CommandInv, NEW root \in Roots, Save(root)
  PROVE  CommandInv'
BY DEF Save, CommandInv, CommandsTypeOK, Sound, CallSound, Matches, Opened, Owned, Switching, In

LEMMA WorkspaceStepKeeps ==
  ASSUME CommandInv, WorkspaceStep
  PROVE  CommandInv'
BY AskKeeps, LockKeeps, CloseCancelKeeps, CloseDebugKeeps, CloseSessionKeeps, CloseDaemonKeeps,
   OpenDaemonKeeps, OpenStoreKeeps, ReloadLoadKeeps, ReloadScanKeeps, ReloadStoreKeeps, SaveKeeps
DEF WorkspaceStep, CommandStep

LEMMA CommandInvHolds == Spec => []CommandInv
<1>1. Init => CommandInv
  <2> SUFFICES ASSUME Init PROVE CommandInv
    OBVIOUS
  <2>1. rootOf \in [1..0 -> Roots] /\ DOMAIN rootOf = 1..0
    BY DEF Init
  <2>2. CommandsTypeOK
    BY <2>1, StudioAssumption DEF Init, CommandsTypeOK, Opened
  <2> QED BY <2>2 DEF Init, CommandInv, Sound, Owned
<1>2. CommandInv /\ [Next]_vars => CommandInv'
  BY StepKinds, WorkspaceStepKeeps, RunningLeavesWorkspace, CommandInvStutters DEF vars, workspace
<1> QED BY <1>1, <1>2, PTL DEF Spec

-------------------------------------------------------------------------------
(* The slots of the runs.                                                  *)

(* A run put in the place of r.                                            *)
LEMMA RunSet ==
  ASSUME RunsTypeOK, NEW r \in Runs, NEW state \in RunState, run' = [run EXCEPT ![r] = state]
  PROVE  /\ run' \in [Runs -> RunState] /\ run'[r] = state
         /\ \A q \in Runs \ {r} : run'[q] = run[q]
BY DEF RunsTypeOK

(* A notification changes the permit alone.                                *)
LEMMA NotifyKeepsPhase ==
  ASSUME RunsTypeOK, NEW r \in Runs, Notify(r)
  PROVE  run' \in [Runs -> RunState] /\ \A q \in Runs : run'[q].phase = run[q].phase
<1> DEFINE state == [run[r] EXCEPT !.permit = TRUE]
<1>1. run[r] \in RunState
  BY DEF RunsTypeOK
<1>2. state \in RunState /\ state.phase = run[r].phase
  BY <1>1 DEF RunState
<1>3. run' = [run EXCEPT ![r] = state]
  BY DEF Notify
<1> HIDE DEF state
<1> QED BY <1>2, <1>3, RunSet

(* The steps of the workspace touch the slots only to clear them.          *)
LEMMA SlotsOnlyCleared ==
  ASSUME RunInv, WorkspaceStep
  PROVE  RunInv'
<1>1. CASE UNCHANGED running
  BY <1>1 DEF running, RunInv, RunsTypeOK, Slots
<1>2. ASSUME NEW c \in Commands, CloseCancel(c) PROVE RunInv'
  <2>1. CASE cancelSlot # None
    <3>1. Notify(cancelSlot) /\ cancelSlot \in Runs
      BY <1>2, <2>1 DEF CloseCancel, TellToStop, RunInv, RunsTypeOK
    <3>2. run' \in [Runs -> RunState] /\ \A q \in Runs : run'[q].phase = run[q].phase
      BY <3>1, NotifyKeepsPhase DEF RunInv
    <3> QED BY <1>2, <3>2, StudioAssumption DEF CloseCancel, RunInv, RunsTypeOK, Slots
  <2>2. CASE cancelSlot = None
    BY <1>2, <2>2 DEF CloseCancel, RunInv, RunsTypeOK, Slots
  <2> QED BY <2>1, <2>2
<1>3. ASSUME NEW c \in Commands, CloseDebug(c) PROVE RunInv'
  BY <1>3 DEF CloseDebug, RunInv, RunsTypeOK, Slots
<1> QED
  BY <1>1, <1>2, <1>3 DEF WorkspaceStep, CommandStep, Ask, Lock, CloseSession, CloseDaemon,
     OpenDaemon, OpenStore, ReloadLoad, ReloadScan, ReloadStore, Save

LEMMA RunningStepKeeps ==
  ASSUME CommandInv, RunInv, RunningStep
  PROVE  RunInv'
<1> USE StudioAssumption DEF RunInv, RunsTypeOK, Slots, RunState, Phases
<1>1. ASSUME NEW r \in Runs, Press(r) PROVE RunInv'
  <2> DEFINE state == [run[r] EXCEPT !.phase = "save", !.file = ui.file]
  <2>1. state \in RunState /\ run[r].phase = "new" /\ state.phase = "save"
    <3>1. run[r] \in RunState /\ ui.file \in Files
      OBVIOUS
    <3>2. state \in RunState /\ state.phase = "save"
      BY <3>1
    <3> QED BY <1>1, <3>2 DEF Press, At
  <2>2. run' = [run EXCEPT ![r] = state]
    BY <1>1 DEF Press
  <2> HIDE DEF state
  <2>3. run' \in [Runs -> RunState] /\ run'[r] = state /\ \A q \in Runs \ {r} : run'[q] = run[q]
    BY <2>1, <2>2, RunSet
  <2> QED BY <1>1, <2>1, <2>3 DEF Press
<1>2. ASSUME NEW r \in Runs, Begin(r) PROVE RunInv'
  <2>1. ui' \in [file : Files, running : BOOLEAN, paused : BOOLEAN, breakpoints : BOOLEAN]
    BY <1>2 DEF Begin
  <2>2. run[r].phase = "save" /\ \E to \in {"workspace", "over"} : Go(r, to)
    BY <1>2 DEF Begin, At
  <2>3. /\ run' \in [Runs -> RunState] /\ run[r].phase = "save"
        /\ \A q \in Runs \ {r} : run'[q] = run[q]
    BY <2>2 DEF Go
  <2> QED BY <1>2, <2>1, <2>3 DEF Begin
<1>19. ASSUME NEW r \in Runs, LoadWorkspace(r) PROVE RunInv'
  <2>1. run[r] \in RunState /\ run[r].phase = "workspace"
    BY <1>19 DEF LoadWorkspace, At
  <2>2. session # None => session.root \in Roots
    BY DEF CommandInv, CommandsTypeOK, Session
  <2>3. \E state \in RunState : state.phase \in {"daemon", "return"} /\ run' = [run EXCEPT ![r] = state]
    BY <1>19, <2>1, <2>2 DEF LoadWorkspace, Go
  <2>4. /\ run' \in [Runs -> RunState]
        /\ \A q \in Runs \ {r} : run'[q] = run[q]
    BY <2>3, RunSet
  <2> QED BY <1>19, <2>1, <2>4 DEF LoadWorkspace
<1>20. ASSUME NEW r \in Runs, LoadDaemon(r) PROVE RunInv'
  <2>1. run[r] \in RunState /\ run[r].phase = "daemon"
    BY <1>20 DEF LoadDaemon, At
  <2>2. session # None => session.daemon \in Daemons
    BY DEF CommandInv, CommandsTypeOK, Session
  <2>3. \E state \in RunState : state.phase \in {"link", "return"} /\ run' = [run EXCEPT ![r] = state]
    BY <1>20, <2>1, <2>2 DEF LoadDaemon, Go
  <2>4. /\ run' \in [Runs -> RunState]
        /\ \A q \in Runs \ {r} : run'[q] = run[q]
    BY <2>3, RunSet
  <2> QED BY <1>20, <2>1, <2>4 DEF LoadDaemon
<1>3. ASSUME NEW r \in Runs, Link(r) PROVE RunInv'
  BY <1>3 DEF Link, At, Go
<1>4. ASSUME NEW r \in Runs, InstallCancel(r) PROVE RunInv'
  BY <1>4 DEF InstallCancel, At, Go
<1>5. ASSUME NEW r \in Runs, InstallDebugger(r) PROVE RunInv'
  BY <1>5 DEF InstallDebugger, At, Go
<1>6. ASSUME NEW r \in Runs, Site(r) PROVE RunInv'
  BY <1>6 DEF Site, At, Go
<1>7. ASSUME NEW r \in Runs, Wake(r) PROVE RunInv'
  BY <1>7 DEF Wake, At, Go
<1>8. ASSUME NEW r \in Runs, EngineEnds(r) PROVE RunInv'
  BY <1>8 DEF EngineEnds, At, Go
<1>9. ASSUME NEW r \in Runs, Cancelled(r) PROVE RunInv'
  BY <1>9 DEF Cancelled, At, Go
<1>10. ASSUME NEW r \in Runs, ClearCancel(r) PROVE RunInv'
  BY <1>10 DEF ClearCancel, At, Go
<1>11. ASSUME NEW r \in Runs, ClearDebugger(r) PROVE RunInv'
  BY <1>11 DEF ClearDebugger, At, Go
<1>12. ASSUME NEW r \in Runs, Return(r) PROVE RunInv'
  <2>1. run' \in [Runs -> RunState] /\ run[r].phase = "return" /\ run'[r].phase = "over"
        /\ \A q \in Runs \ {r} : run'[q] = run[q]
    BY <1>12 DEF Return, At, Go
  <2>2. ui' \in [file : Files, running : BOOLEAN, paused : BOOLEAN, breakpoints : BOOLEAN]
    BY <1>12 DEF Return
  <2> QED BY <1>12, <2>1, <2>2 DEF Return
<1>13. ASSUME CancelRun PROVE RunInv'
  <2>1. Notify(cancelSlot) /\ cancelSlot \in Runs
    BY <1>13 DEF CancelRun, TellToStop
  <2>2. run' \in [Runs -> RunState] /\ \A q \in Runs : run'[q].phase = run[q].phase
    BY <2>1, NotifyKeepsPhase
  <2> QED BY <1>13, <2>2 DEF CancelRun
<1>14. ASSUME StoreStep PROVE RunInv'
  <2> DEFINE r == resume.session
             state == [run[r] EXCEPT !.step = resume.action = "step"]
  <2>1. r \in Runs /\ state \in RunState /\ state.phase = run[r].phase
    <3>1. resume \in [session : Runs, action : {"continue", "step", "stop"}, stored : BOOLEAN]
      BY <1>14 DEF StoreStep
    <3>2. r \in Runs /\ run[r] \in RunState /\ resume.action \in {"continue", "step", "stop"}
      BY <3>1
    <3> HIDE DEF r
    <3>3. state \in RunState /\ state.phase = run[r].phase
      BY <3>2
    <3> QED BY <3>2, <3>3
  <2>2. run' = [run EXCEPT ![r] = state]
    BY <1>14 DEF StoreStep
  <2>3. UNCHANGED <<cancelSlot, debugSlot, ui>> /\ resume' = [resume EXCEPT !.stored = TRUE] /\ resume # None
    BY <1>14 DEF StoreStep
  <2> HIDE DEF r, state
  <2>4. run' \in [Runs -> RunState] /\ run'[r] = state /\ \A q \in Runs \ {r} : run'[q] = run[q]
    BY <2>1, <2>2, RunSet
  <2>5. \A q \in Runs : run'[q].phase = run[q].phase
    BY <2>1, <2>4
  <2> QED BY <2>3, <2>4, <2>5
<1>15. ASSUME TakeAndSend PROVE RunInv'
  <2> DEFINE r == resume.session
             state == [run[r] EXCEPT !.pending = FALSE, !.answer = resume.action]
  <2>1. r \in Runs /\ state \in RunState /\ state.phase = run[r].phase
    <3>1. resume \in [session : Runs, action : {"continue", "step", "stop"}, stored : BOOLEAN]
      BY <1>15 DEF TakeAndSend
    <3>2. r \in Runs /\ run[r] \in RunState /\ resume.action \in {"continue", "step", "stop"}
      BY <3>1
    <3> HIDE DEF r
    <3>3. state \in RunState /\ state.phase = run[r].phase
      BY <3>2
    <3> QED BY <3>2, <3>3
  <2>2. run' = [run EXCEPT ![r] = state] \/ run' = run
    BY <1>15 DEF TakeAndSend
  <2>3. UNCHANGED <<cancelSlot, debugSlot>> /\ resume' = None
    BY <1>15 DEF TakeAndSend
  <2>4. ui' \in [file : Files, running : BOOLEAN, paused : BOOLEAN, breakpoints : BOOLEAN]
    BY <1>15 DEF TakeAndSend
  <2> HIDE DEF r, state
  <2>5. run' \in [Runs -> RunState] /\ \A q \in Runs : run'[q].phase = run[q].phase
    BY <2>1, <2>2, RunSet
  <2> QED BY <2>3, <2>4, <2>5
<1>16. ASSUME NEW action \in {"continue", "step", "stop"}, Click(action) PROVE RunInv'
  BY <1>16 DEF Click
<1>17. ASSUME NEW file \in Files, SwitchFile(file) PROVE RunInv'
  BY <1>17 DEF SwitchFile
<1>18. ASSUME SetBreakpoints PROVE RunInv'
  BY <1>18 DEF SetBreakpoints
<1> HIDE DEF RunInv
<1> QED
  BY <1>1, <1>2, <1>3, <1>4, <1>5, <1>6, <1>7, <1>8, <1>9, <1>10, <1>11, <1>12, <1>13, <1>14, <1>15, <1>16, <1>17, <1>18,
     <1>19, <1>20
  DEF RunningStep, RunStep

LEMMA RunInvHolds == Spec => []RunInv
<1>1. Init => RunInv
  BY StudioAssumption DEF Init, NewRun, RunInv, RunsTypeOK, Slots, RunState, Phases
<1>2. CommandInv /\ RunInv /\ [Next]_vars => RunInv'
  <2>1. CASE UNCHANGED vars
    BY <2>1 DEF vars, RunInv, RunsTypeOK, Slots
  <2> QED BY <2>1, StepKinds, SlotsOnlyCleared, RunningStepKeeps
<1> QED BY <1>1, <1>2, CommandInvHolds, PTL DEF Spec

-------------------------------------------------------------------------------
(* The two loads of a run.                                                 *)

Early == {"new", "save", "workspace"}

(* Until the second load the session, if there is one, is still of the     *)
(* workspace that the first one found, or a switch was noted; after it the *)
(* daemon is.                                                              *)
ReadsMatch ==
  \A r \in Runs :
    /\ run[r].phase \in Early \cup {"daemon"} => run[r].daemon = None
    /\ run[r].phase = "daemon" /\ session # None => session.root = run[r].root \/ r \in switched
    /\ run[r].daemon # None =>
         run[r].daemon \in Opened /\ (rootOf[run[r].daemon] = run[r].root \/ r \in switched)

(* What a step of the commands may do to what the runs have read.          *)
LEMMA ReadsOutlastCommands ==
  ASSUME CommandInv, RunInv, WorkspaceStep
  PROVE  /\ \A d \in Opened : d \in Opened' /\ rootOf'[d] = rootOf[d]
         /\ switched \subseteq switched'
         /\ session' # None =>
              \/ session # None /\ session'.root = session.root
              \/ \A r \in Runs : Between(r) => session'.root = run[r].root \/ r \in switched'
         /\ \A r \in Runs : run'[r].phase = run[r].phase /\ run'[r].root = run[r].root
                            /\ run'[r].daemon = run[r].daemon
<1> DEFINE Kept ==
        /\ \A d \in Opened : d \in Opened' /\ rootOf'[d] = rootOf[d]
        /\ \A r \in Runs : run'[r].phase = run[r].phase /\ run'[r].root = run[r].root
                           /\ run'[r].daemon = run[r].daemon
      Noted ==
        /\ switched \subseteq switched'
        /\ session' # None =>
             \/ session # None /\ session'.root = session.root
             \/ \A r \in Runs : Between(r) => session'.root = run[r].root \/ r \in switched'
<1>1. Kept
  <2>1. CASE UNCHANGED rootOf /\ UNCHANGED run
    BY <2>1 DEF Opened
  <2>2. ASSUME NEW c \in Commands, CloseCancel(c), cancelSlot # None PROVE Kept
    <3>1. Notify(cancelSlot) /\ cancelSlot \in Runs
      BY <2>2 DEF CloseCancel, TellToStop, RunInv, RunsTypeOK
    <3>2. run \in [Runs -> RunState]
      BY DEF RunInv, RunsTypeOK
    <3>3. \A r \in Runs : run'[r].phase = run[r].phase /\ run'[r].root = run[r].root
                          /\ run'[r].daemon = run[r].daemon
      BY <3>1, <3>2 DEF Notify, RunState
    <3> QED BY <2>2, <3>3 DEF CloseCancel, Opened
  <2>3. ASSUME NEW c \in Commands, OpenDaemon(c) PROVE Kept
    <3>1. UNCHANGED run
      BY <2>3 DEF OpenDaemon, running
    <3>2. CASE UNCHANGED rootOf
      BY <3>1, <3>2 DEF Opened
    <3>3. CASE rootOf' = [e \in 1..(Cardinality(Opened) + 1) |->
                            IF e = Cardinality(Opened) + 1 THEN cmd[c].root ELSE rootOf[e]]
      <4>1. PICK n \in Nat : Opened = 1..n /\ Cardinality(Opened) + 1 = n + 1
        BY NextDaemon DEF CommandInv
      <4> QED BY <3>1, <3>3, <4>1 DEF Opened
    <3> QED BY <2>3, <3>2, <3>3 DEF OpenDaemon, Opened
  <2>4. ASSUME NEW c, CloseCancel(c), cancelSlot = None PROVE UNCHANGED <<rootOf, run>>
    BY <2>4 DEF CloseCancel
  <2>5. ASSUME NEW c, Lock(c) \/ CloseDebug(c) \/ CloseSession(c) \/ CloseDaemon(c) \/ OpenStore(c)
                      \/ ReloadLoad(c) \/ ReloadScan(c) \/ ReloadStore(c)
        PROVE  UNCHANGED <<rootOf, run>>
    BY <2>5 DEF Lock, CloseDebug, CloseSession, CloseDaemon, OpenStore, ReloadLoad, ReloadScan,
       ReloadStore, running
  <2>6. ASSUME NEW c, NEW op, NEW root, Ask(c, op, root) \/ Save(root)
        PROVE  UNCHANGED <<rootOf, run>>
    BY <2>6 DEF Ask, Save, running
  <2> HIDE DEF Kept
  <2> QED BY <2>1, <2>2, <2>3, <2>4, <2>5, <2>6 DEF WorkspaceStep, CommandStep
<1>2. Noted
  <2>1. CASE UNCHANGED <<session, switched>>
    BY <2>1
  <2>2. ASSUME NEW c \in Commands, CloseSession(c) PROVE Noted
    BY <2>2 DEF CloseSession
  <2>3. ASSUME NEW c \in Commands, OpenStore(c) PROVE Noted
    <3>1. session'.root = cmd[c].root /\ Switch(cmd[c].root)
      BY <2>3 DEF OpenStore
    <3> QED BY <3>1 DEF Switch
  <2>4. ASSUME NEW c \in Commands, ReloadStore(c) PROVE Noted
    <3>1. cmd[c].prior \in Session
      BY <2>4, CallOf DEF ReloadStore, In, CommandInv, Sound, CallSound
    <3>2. session'.root = cmd[c].prior.root /\ Switch(cmd[c].prior.root)
      BY <2>4, <3>1 DEF ReloadStore, Session
    <3> QED BY <3>2 DEF Switch
  <2>5. ASSUME NEW c, Lock(c) \/ CloseCancel(c) \/ CloseDebug(c) \/ CloseDaemon(c) \/ OpenDaemon(c)
                      \/ ReloadLoad(c) \/ ReloadScan(c)
        PROVE  UNCHANGED <<session, switched>>
    BY <2>5 DEF Lock, CloseCancel, CloseDebug, CloseDaemon, OpenDaemon, ReloadLoad, ReloadScan
  <2>6. ASSUME NEW c, NEW op, NEW root, Ask(c, op, root) \/ Save(root)
        PROVE  UNCHANGED <<session, switched>>
    BY <2>6 DEF Ask, Save
  <2> HIDE DEF Noted
  <2> QED BY <2>1, <2>2, <2>3, <2>4, <2>5, <2>6 DEF WorkspaceStep, CommandStep
<1> QED BY <1>1, <1>2

LEMMA CommandsKeepReads ==
  ASSUME CommandInv, RunInv, ReadsMatch, WorkspaceStep
  PROVE  ReadsMatch'
BY ReadsOutlastCommands DEF ReadsMatch, Between

(* A run that neither loads nor starts.                                    *)
LEMMA ReadsStay ==
  ASSUME ReadsMatch, UNCHANGED workspace,
         \A r \in Runs :
           /\ run'[r].root = run[r].root /\ run'[r].daemon = run[r].daemon
           /\ run'[r].phase = run[r].phase \/ run'[r].phase \notin Early \cup {"daemon"}
              \/ {run[r].phase, run'[r].phase} \subseteq Early
  PROVE  ReadsMatch'
BY DEF ReadsMatch, workspace, Opened, Early

LEMMA RunsKeepReads ==
  ASSUME CommandInv, RunInv, ReadsMatch, RunningStep
  PROVE  ReadsMatch'
<1>1. UNCHANGED workspace
  BY RunningLeavesWorkspace
<1>2. run \in [Runs -> RunState]
  BY DEF RunInv, RunsTypeOK
<1>3. ASSUME NEW r \in Runs, LoadWorkspace(r) PROVE ReadsMatch'
  <2>1. run[r] \in RunState /\ run[r].phase = "workspace" /\ run[r].daemon = None
    BY <1>2, <1>3 DEF LoadWorkspace, At, ReadsMatch, Early
  <2>2. CASE session = None
    <3>1. run' = [run EXCEPT ![r] = [run[r] EXCEPT !.phase = "return"]]
      BY <1>3, <2>2 DEF LoadWorkspace, Go
    <3>2. /\ run'[r].phase = "return" /\ run'[r].root = run[r].root /\ run'[r].daemon = run[r].daemon
          /\ \A q \in Runs \ {r} : run'[q] = run[q]
      BY <1>2, <2>1, <3>1 DEF RunState
    <3> QED BY <1>1, <3>2, ReadsStay DEF Early
  <2>3. CASE session # None
    <3>1. run' = [run EXCEPT ![r] = [run[r] EXCEPT !.phase = "daemon", !.root = session.root]]
      BY <1>3, <2>3 DEF LoadWorkspace
    <3>2. /\ run'[r].phase = "daemon" /\ run'[r].root = session.root /\ run'[r].daemon = None
          /\ \A q \in Runs \ {r} : run'[q] = run[q]
      BY <1>2, <2>1, <3>1 DEF RunState
    <3> QED BY <1>1, <3>2 DEF ReadsMatch, Early, workspace, Opened
  <2> QED BY <2>2, <2>3
<1>4. ASSUME NEW r \in Runs, LoadDaemon(r) PROVE ReadsMatch'
  <2>1. run[r] \in RunState /\ run[r].phase = "daemon" /\ run[r].daemon = None
    BY <1>2, <1>4 DEF LoadDaemon, At, ReadsMatch
  <2>2. CASE session = None
    <3>1. run' = [run EXCEPT ![r] = [run[r] EXCEPT !.phase = "return"]]
      BY <1>4, <2>2 DEF LoadDaemon, Go
    <3>2. /\ run'[r].phase = "return" /\ run'[r].root = run[r].root /\ run'[r].daemon = run[r].daemon
          /\ \A q \in Runs \ {r} : run'[q] = run[q]
      BY <1>2, <2>1, <3>1 DEF RunState
    <3> QED BY <1>1, <3>2, ReadsStay DEF Early
  <2>3. CASE session # None
    <3>1. run' = [run EXCEPT ![r] = [run[r] EXCEPT !.phase = "link", !.daemon = session.daemon]]
      BY <1>4, <2>3 DEF LoadDaemon
    <3>2. /\ run'[r].phase = "link" /\ run'[r].root = run[r].root /\ run'[r].daemon = session.daemon
          /\ \A q \in Runs \ {r} : run'[q] = run[q]
      BY <1>2, <2>1, <3>1 DEF RunState
    <3>3. session.daemon \in Opened /\ rootOf[session.daemon] = session.root
      BY <2>3 DEF CommandInv, Sound, Matches
    <3> QED BY <1>1, <2>1, <2>3, <3>2, <3>3 DEF ReadsMatch, Early, workspace, Opened
  <2> QED BY <2>2, <2>3
<1>5. ASSUME NEW r \in Runs,
             Press(r) \/ Begin(r) \/ Link(r) \/ InstallCancel(r) \/ InstallDebugger(r) \/ Site(r)
             \/ Wake(r) \/ EngineEnds(r) \/ Cancelled(r) \/ ClearCancel(r) \/ ClearDebugger(r)
             \/ Return(r)
      PROVE  ReadsMatch'
  <2>1. PICK state \in RunState :
          /\ run' = [run EXCEPT ![r] = state]
          /\ state.root = run[r].root /\ state.daemon = run[r].daemon
          /\ state.phase \notin Early \cup {"daemon"} \/ {run[r].phase, state.phase} \subseteq Early
    <3> DEFINE Fits(state) ==
          /\ state \in RunState /\ run' = [run EXCEPT ![r] = state]
          /\ state.root = run[r].root /\ state.daemon = run[r].daemon
          /\ state.phase \notin Early \cup {"daemon"} \/ {run[r].phase, state.phase} \subseteq Early
    <3>1. run[r] \in RunState
      BY <1>2
    <3>2. CASE Press(r)
      <4> DEFINE state == [run[r] EXCEPT !.phase = "save", !.file = ui.file]
      <4>1. ui.file \in Files
        BY DEF RunInv, RunsTypeOK
      <4>2. Fits(state)
        BY <3>1, <3>2, <4>1 DEF Press, At, RunState, Phases, Early
      <4> QED BY <4>2
    <3>3. CASE Site(r)
      <4> DEFINE state == [run[r] EXCEPT !.step = FALSE, !.phase = "paused",
                                         !.pending = TRUE, !.answer = None]
      <4>1. Fits(state)
        BY <3>1, <3>3 DEF Site, RunState, Phases, Early
      <4> QED BY <4>1
    <3>4. ASSUME NEW phase \in Phases, Go(r, phase),
                 phase \notin Early \cup {"daemon"} \/ {run[r].phase, phase} \subseteq Early
          PROVE  Fits([run[r] EXCEPT !.phase = phase])
      BY <3>1, <3>4 DEF Go, RunState
    <3>5. CASE ~Press(r) /\ ~Site(r)
      <4>1. PICK phase \in Phases :
              Go(r, phase) /\ (phase \notin Early \cup {"daemon"} \/ {run[r].phase, phase} \subseteq Early)
        BY <1>5, <3>5 DEF Begin, Link, InstallCancel, InstallDebugger, Wake, EngineEnds, Cancelled,
           ClearCancel, ClearDebugger, Return, At, Phases, Early
      <4> QED BY <3>4, <4>1
    <3> QED BY <3>2, <3>3, <3>5
  <2>2. run'[r] = state /\ \A q \in Runs \ {r} : run'[q] = run[q]
    BY <1>2, <2>1
  <2> QED BY <1>1, <2>1, <2>2, ReadsStay
<1>6. CASE CancelRun \/ StoreStep \/ TakeAndSend
  <2>1. PICK r \in Runs, state \in RunState :
          /\ run' = [run EXCEPT ![r] = state] \/ run' = run
          /\ state.root = run[r].root /\ state.daemon = run[r].daemon /\ state.phase = run[r].phase
    <3>1. CASE CancelRun
      <4>1. cancelSlot \in Runs /\ run' = [run EXCEPT ![cancelSlot].permit = TRUE]
        BY <3>1 DEF CancelRun, TellToStop, Notify, RunInv, RunsTypeOK
      <4> DEFINE state == [run[cancelSlot] EXCEPT !.permit = TRUE]
      <4>2. /\ state \in RunState /\ state.root = run[cancelSlot].root
            /\ state.daemon = run[cancelSlot].daemon /\ state.phase = run[cancelSlot].phase
        BY <1>2, <4>1 DEF RunState
      <4>3. run' = [run EXCEPT ![cancelSlot] = state]
        BY <4>1
      <4> HIDE DEF state
      <4> QED BY <4>1, <4>2, <4>3
    <3>2. CASE StoreStep \/ TakeAndSend
      <4>1. resume \in [session : Runs, action : {"continue", "step", "stop"}, stored : BOOLEAN]
        BY <3>2 DEF StoreStep, TakeAndSend, RunInv, RunsTypeOK
      <4>2. /\ resume.session \in Runs /\ run[resume.session] \in RunState
            /\ resume.action \in {"continue", "step", "stop"}
        BY <1>2, <4>1
      <4> DEFINE stored == [run[resume.session] EXCEPT !.step = resume.action = "step"]
                 sent == [run[resume.session] EXCEPT !.pending = FALSE, !.answer = resume.action]
                 Same(state) == /\ state \in RunState /\ state.root = run[resume.session].root
                                /\ state.daemon = run[resume.session].daemon
                                /\ state.phase = run[resume.session].phase
      <4>3. Same(stored) /\ Same(sent) /\ Same(run[resume.session])
        BY <4>2 DEF RunState
      <4>4. \/ run' = [run EXCEPT ![resume.session] = stored]
            \/ run' = [run EXCEPT ![resume.session] = sent]
            \/ run' = run
        BY <3>2 DEF StoreStep, TakeAndSend
      <4> HIDE DEF stored, sent
      <4> QED BY <4>2, <4>3, <4>4
    <3> QED BY <1>6, <3>1, <3>2
  <2>2. \A q \in Runs : /\ run'[q].root = run[q].root /\ run'[q].daemon = run[q].daemon
                        /\ run'[q].phase = run[q].phase
    BY <1>2, <2>1
  <2> QED BY <1>1, <2>2, ReadsStay
<1>7. CASE UNCHANGED run
  BY <1>1, <1>7, ReadsStay
<1> QED
  BY <1>3, <1>4, <1>5, <1>6, <1>7 DEF RunningStep, RunStep, Click, SwitchFile, SetBreakpoints

LEMMA ReadsMatchHolds == Spec => []ReadsMatch
<1>1. Init => ReadsMatch
  BY DEF Init, NewRun, ReadsMatch, Early
<1>2. CommandInv /\ RunInv /\ ReadsMatch /\ [Next]_vars => ReadsMatch'
  <2>1. CASE UNCHANGED vars
    BY <2>1 DEF vars, ReadsMatch, Opened
  <2> QED BY <2>1, StepKinds, CommandsKeepReads, RunsKeepReads
<1> QED BY <1>1, <1>2, CommandInvHolds, RunInvHolds, PTL DEF Spec

-------------------------------------------------------------------------------
(* The theorems.                                                           *)

(* Whatever commands, saves and runs interleave, what the slots hold is of *)
(* its type: a session, a daemon opened, a call, a run.                    *)
THEOREM StudioTypesHold == Spec => [](CommandsTypeOK /\ RunsTypeOK)
BY CommandInvHolds, RunInvHolds, PTL DEF CommandInv, RunInv

(* One load of the session slot never finds a daemon with a workspace it   *)
(* was not opened for (state.rs), reloads without the mutex included: they *)
(* put back a whole session.  Two loads, as a run makes them, do so only   *)
(* if the session of another workspace is stored between them.             *)
THEOREM PairAlwaysMatches == Spec => []PairMatches
<1>1. CommandInv /\ ReadsMatch => PairMatches
  BY DEF CommandInv, Sound, Matches, ReadsMatch, PairMatches
<1> QED BY <1>1, CommandInvHolds, ReadsMatchHolds, PTL

(* workspace_switch does what its comment says: only the session's         *)
(* scheduler runs, or that of the command which holds the mutex; but for   *)
(* daemons whose session a reload wrote over.                              *)
THEOREM NoDaemonEverLeaks == Spec => []NoDaemonLeaks
<1>1. CommandInv => NoDaemonLeaks
  BY DEF CommandInv, Owned, Switching, In, NoDaemonLeaks
<1> QED BY <1>1, CommandInvHolds, PTL

(* cancel_run and debug_resume never reach a run that has returned.        *)
THEOREM SlotsNameLiveRuns == Spec => []SlotsOfLiveRuns
<1>1. RunInv => SlotsOfLiveRuns
  BY StudioAssumption DEF RunInv, Slots, SlotsOfLiveRuns
<1> QED BY <1>1, RunInvHolds, PTL
-------------------------------------------------------------------------------
(* The editor's documents.                                                 *)

(* What the editor should show of a member.                                *)
Due(p) == Report(p, docs[p].source, saved, ReadLive(p))

Documented == [source : Sources, member : BOOLEAN]

EditorTypeOK ==
  /\ marker \in BOOLEAN
  /\ saved \in [Paths -> Sources \cup {NoFile}]
  /\ docs \in [Paths -> Documented \cup {NoFile}]
  /\ DOMAIN shown = Paths /\ DOMAIN tasks = Handlers
  /\ doubt \subseteq Paths

(* All that changed is known, and not every file is in doubt.              *)
Certain == marker /\ ~unseen /\ doubt # Paths

Busy(h) == ~Stage(h, "idle")
OneIsBusy == doubt # Paths => \A h, k \in Handlers : Busy(h) /\ Busy(k) => h = k

(* A member whose diagnostics are on their way.                            *)
Expected(h, p) ==
  \/ Stage(h, "refresh") /\ tasks[h].by # p
  \/ Stage(h, "publish") /\ p \in DOMAIN tasks[h].left

(* What is on its way is what is due, but for the files in doubt; who else *)
(* is not shown that is expected.                                          *)
OnTheWay ==
  \A h \in Handlers :
    /\ Stage(h, "refresh") => tasks[h].by \in Paths /\ IsMember(tasks[h].by)
    /\ Stage(h, "publish") =>
         \A p \in DOMAIN tasks[h].left :
           p \in Paths /\ IsMember(p) /\ (p \notin doubt => tasks[h].left[p] = Due(p))
ShownOrExpected ==
  \A p \in Paths \ doubt :
    IsMember(p) => shown[p] = Due(p) \/ \E h \in Handlers : Expected(h, p)

EditorInv ==
  /\ EditorTypeOK /\ OneIsBusy
  /\ Certain => OnTheWay /\ ShownOrExpected

LEMMA EditorStart == DocInit => EditorInv
<1> SUFFICES ASSUME DocInit PROVE EditorInv
  OBVIOUS
<1>1. EditorTypeOK
  BY DEF DocInit, EditorTypeOK
<1>2. \A h \in Handlers : ~Busy(h) /\ ~Stage(h, "refresh") /\ ~Stage(h, "publish")
  BY DEF DocInit, Busy, Stage, Resting, Task
<1>3. \A p \in Paths : ~IsMember(p)
  BY DEF DocInit, IsMember, IsOpen
<1> QED BY <1>1, <1>2, <1>3 DEF EditorInv, OneIsBusy, OnTheWay, ShownOrExpected

(* What is due changes only with the document, the files and the others'   *)
(* buffers.                                                                *)
LEMMA DueStays ==
  ASSUME NEW p, docs'[p] = docs[p], saved' = saved, ReadLive(p)' = ReadLive(p)
  PROVE  Due(p)' = Due(p)
BY DEF Due

LEMMA LiveStays ==
  ASSUME NEW p, saved' = saved, docs' = docs
  PROVE  ReadLive(p)' = ReadLive(p)
BY DEF ReadLive, IsMember, IsOpen

LEMMA OpenKeepsEditor ==
  ASSUME EditorInv, NEW p \in Paths, NEW src \in Sources, DidOpen(p, src)
  PROVE  EditorInv'
<1>1. /\ marker' = marker /\ saved' = saved /\ tasks' = tasks /\ unseen' = unseen
      /\ docs' = [docs EXCEPT ![p] = [source |-> src, member |-> marker]]
      /\ shown' = [shown EXCEPT ![p] =
                     IF marker THEN Report(p, src, saved, ReadLive(p)) ELSE Lonely(src)]
      /\ doubt' = (IF Alone THEN doubt \ {p} ELSE doubt) \cup SiblingsDoubt(p, src)
      /\ ~IsOpen(p)
  BY DEF DidOpen, Upsert, Discovered
<1>2. /\ DOMAIN docs = Paths /\ DOMAIN shown = Paths /\ DOMAIN tasks = Handlers
      /\ doubt \subseteq Paths
  BY DEF EditorInv, EditorTypeOK
<1>3. SiblingsDoubt(p, src) \subseteq Paths \ {p}
  BY DEF SiblingsDoubt
<1>4. EditorTypeOK'
  BY <1>1, <1>2, <1>3 DEF EditorInv, EditorTypeOK, Documented
<1>5. ~Alone /\ doubt' # Paths => doubt # Paths
  BY <1>1, <1>2, <1>3
<1>6. OneIsBusy'
  <2>1. CASE Alone
    BY <1>1, <2>1 DEF OneIsBusy, Busy, Stage, Alone
  <2>2. CASE ~Alone
    BY <1>1, <1>5, <2>2 DEF EditorInv, OneIsBusy, Busy, Stage
  <2> QED BY <2>1, <2>2
<1>7. ASSUME Certain'
      PROVE  OnTheWay' /\ ShownOrExpected'
  <2>1. marker /\ ~unseen /\ doubt' # Paths
    BY <1>1, <1>7 DEF Certain
  <2>2. ASSUME NEW q \in Paths, q = p \/ src = saved[p]
        PROVE  ReadLive(q)' = ReadLive(q)
    <3>1. \A r \in Paths : ReadLive(q)'[r] = ReadLive(q)[r]
      BY <1>1, <1>2, <2>2 DEF ReadLive, IsMember, IsOpen
    <3> QED BY <3>1 DEF ReadLive
  <2>3. shown'[p] = Due(p)'
    BY <1>1, <1>2, <2>1, <2>2 DEF Due
  <2>4. ASSUME NEW q \in Paths \ doubt', q # p
        PROVE  /\ q \notin doubt /\ Due(q)' = Due(q)
    <3>1. q \notin doubt /\ src = saved[p]
      BY <1>1, <2>4 DEF SiblingsDoubt
    <3>2. docs'[q] = docs[q]
      BY <1>1, <1>2, <2>4
    <3> QED BY <1>1, <2>2, <3>1, <3>2, DueStays
  <2>5. \A q \in Paths : q # p =>
          (IsMember(q)' <=> IsMember(q)) /\ shown'[q] = shown[q]
    BY <1>1, <1>2 DEF IsMember, IsOpen
  <2>6. OnTheWay'
    <3>1. CASE Alone
      BY <1>1, <3>1 DEF OnTheWay, Alone, Stage
    <3>2. CASE ~Alone
      <4>1. OnTheWay
        BY <1>5, <2>1, <3>2 DEF EditorInv, Certain
      <4>2. ~IsMember(p)
        BY <1>1 DEF IsMember
      <4> QED BY <1>1, <2>4, <2>5, <4>1, <4>2 DEF OnTheWay, Stage
    <3> QED BY <3>1, <3>2
  <2>7. ASSUME NEW q \in Paths \ doubt', IsMember(q)', q # p
        PROVE  shown'[q] = Due(q)' \/ \E h \in Handlers : Expected(h, q)'
    <3>1. doubt # Paths /\ q \notin doubt /\ IsMember(q)
      BY <2>4, <2>5, <2>7
    <3>2. shown[q] = Due(q) \/ \E h \in Handlers : Expected(h, q)
      BY <2>1, <3>1 DEF EditorInv, Certain, ShownOrExpected
    <3>3. \A h \in Handlers : Expected(h, q) => Expected(h, q)'
      BY <1>1 DEF Expected, Stage
    <3> QED BY <2>4, <2>5, <2>7, <3>2, <3>3
  <2> QED BY <2>3, <2>6, <2>7 DEF ShownOrExpected
<1> QED BY <1>4, <1>6, <1>7 DEF EditorInv

LEMMA CloseKeepsEditor ==
  ASSUME EditorInv, NEW p \in Paths, DidClose(p)
  PROVE  EditorInv'
<1>1. /\ marker' = marker /\ saved' = saved /\ tasks' = tasks /\ unseen' = unseen
      /\ shown' = shown /\ docs' = [docs EXCEPT ![p] = NoFile]
      /\ doubt' = IF Alone THEN doubt \cup SiblingsDoubt(p, docs[p].source) ELSE Paths
  BY DEF DidClose
<1>2. /\ DOMAIN docs = Paths /\ DOMAIN tasks = Handlers /\ doubt \subseteq Paths
  BY DEF EditorInv, EditorTypeOK
<1>3. doubt' \subseteq Paths
  BY <1>1, <1>2 DEF SiblingsDoubt
<1>4. EditorTypeOK'
  BY <1>1, <1>3 DEF EditorInv, EditorTypeOK
<1>5. doubt' # Paths => Alone /\ doubt # Paths
  BY <1>1, <1>2, <1>3
<1>6. OneIsBusy'
  BY <1>1, <1>5 DEF EditorInv, OneIsBusy, Busy, Stage
<1>7. ASSUME Certain'
      PROVE  OnTheWay' /\ ShownOrExpected'
  <2>1. Certain /\ Alone
    BY <1>1, <1>5, <1>7 DEF Certain
  <2>2. OnTheWay'
    BY <1>1, <2>1 DEF OnTheWay, Alone, Stage
  <2>3. ASSUME NEW q \in Paths \ doubt', IsMember(q)'
        PROVE  shown'[q] = Due(q)'
    <3>1. q # p /\ IsMember(q) /\ docs'[q] = docs[q]
      BY <1>1, <1>2, <2>3 DEF IsMember, IsOpen
    <3>2. q \notin doubt /\ docs[p].source = saved[p]
      BY <1>1, <2>1, <2>3, <3>1 DEF SiblingsDoubt
    <3>3. \A r \in Paths : ReadLive(q)'[r] = ReadLive(q)[r]
      BY <1>1, <1>2, <3>2 DEF ReadLive, IsMember, IsOpen
    <3>4. ReadLive(q)' = ReadLive(q)
      BY <3>3 DEF ReadLive
    <3>5. shown[q] = Due(q)
      BY <2>1, <3>1, <3>2 DEF EditorInv, ShownOrExpected, Expected, Alone, Stage
    <3> QED BY <1>1, <3>1, <3>4, <3>5, DueStays
  <2> QED BY <2>2, <2>3 DEF ShownOrExpected
<1> QED BY <1>4, <1>6, <1>7 DEF EditorInv

(* A change that is handled alone puts all doubts behind it: its fan-out   *)
(* is still to come.                                                       *)
LEMMA ChangeKeepsEditor ==
  ASSUME EditorInv, NEW h \in Handlers, NEW p \in Paths, NEW src \in Sources,
         DidChange(h, p, src)
  PROVE  EditorInv'
<1>1. /\ marker' = marker /\ saved' = saved /\ doubt' = FanOutDoubt
      /\ docs' = [docs EXCEPT ![p] = [source |-> src, member |-> marker]]
      /\ shown' = [shown EXCEPT ![p] =
                     IF marker THEN Report(p, src, saved, ReadLive(p)) ELSE Lonely(src)]
      /\ tasks' = [tasks EXCEPT ![h] = Task(p, "refresh", <<>>)]
  BY DEF DidChange, Upsert, Goes, Discovered
<1>2. /\ DOMAIN docs = Paths /\ DOMAIN shown = Paths /\ DOMAIN tasks = Handlers
      /\ marker \in BOOLEAN
  BY DEF EditorInv, EditorTypeOK
<1>3. EditorTypeOK'
  BY <1>1 DEF EditorInv, EditorTypeOK, Documented, FanOutDoubt
<1>4. /\ tasks'[h].stage = "refresh" /\ tasks'[h].by = p
      /\ \A k \in Handlers : k # h => tasks'[k] = tasks[k]
  BY <1>1, <1>2 DEF Task
<1>5. doubt' # Paths => doubt' = {} /\ \A k \in Handlers : k # h => Stage(k, "idle")'
  BY <1>1, <1>4 DEF FanOutDoubt, Alone, Stage
<1>6. OneIsBusy'
  BY <1>5 DEF OneIsBusy, Busy
<1>7. ASSUME Certain'
      PROVE  OnTheWay' /\ ShownOrExpected'
  <2>1. marker /\ doubt' # Paths
    BY <1>1, <1>7 DEF Certain
  <2>2. IsMember(p)'
    <3>1. PICK new \in Documented : new = [source |-> src, member |-> TRUE]
      BY DEF Documented
    <3>2. docs'[p] = new /\ new.member
      BY <1>1, <1>2, <2>1, <3>1
    <3>3. new # NoFile
      BY DocumentsAssumption DEF Documented
    <3> QED BY <3>2, <3>3 DEF IsMember, IsOpen
  <2>3. OnTheWay'
    BY <1>4, <1>5, <2>1, <2>2 DEF OnTheWay, Stage
  <2>4. ReadLive(p)' = ReadLive(p)
    <3>1. \A r \in Paths : ReadLive(p)'[r] = ReadLive(p)[r]
      BY <1>1, <1>2 DEF ReadLive, IsMember, IsOpen
    <3> QED BY <3>1 DEF ReadLive
  <2>5. shown'[p] = Due(p)'
    BY <1>1, <1>2, <2>1, <2>4 DEF Due
  <2>6. ASSUME NEW q \in Paths, q # p
        PROVE  Expected(h, q)'
    BY <1>4, <2>6 DEF Expected, Stage
  <2> QED BY <2>3, <2>5, <2>6 DEF ShownOrExpected
<1> QED BY <1>3, <1>6, <1>7 DEF EditorInv

LEMMA FanOutKeepsEditor ==
  ASSUME EditorInv, NEW h \in Handlers, FanOut(h)
  PROVE  EditorInv'
<1>1. /\ Stage(h, "refresh")
      /\ UNCHANGED <<saved, marker, docs, shown, unseen, doubt>>
  BY DEF FanOut
<1>2. DOMAIN tasks = Handlers
  BY DEF EditorInv, EditorTypeOK
<1>3. \A k \in Handlers : k # h => tasks'[k] = tasks[k]
  BY <1>2 DEF FanOut, Goes
<1>4. EditorTypeOK'
  BY <1>1 DEF EditorInv, EditorTypeOK, FanOut, Goes
<1>5. OneIsBusy'
  BY <1>1, <1>3 DEF EditorInv, OneIsBusy, Busy, Stage
<1>6. ASSUME Certain'
      PROVE  OnTheWay' /\ ShownOrExpected'
  <2>1. Certain /\ \A p \in Paths : (IsMember(p)' <=> IsMember(p))
    BY <1>1, <1>6 DEF Certain, IsMember, IsOpen
  <2>2. \A p : Due(p)' = Due(p)
    BY <1>1, DueStays, LiveStays
  <2>3. PICK by \in Paths : by = tasks[h].by /\ IsMember(by)
    BY <1>1, <2>1 DEF EditorInv, OnTheWay
  <2>4. PICK left : left = Refreshed({by})
    OBVIOUS
  <2>5. tasks'[h] = Task(by, "publish", left)
    BY <1>1, <1>2, <2>1, <2>3, <2>4 DEF FanOut, Goes, Certain, Discovered
  <2>6. /\ tasks'[h].stage = "publish" /\ tasks'[h].left = left
    BY <2>5 DEF Task
  <2>7. /\ DOMAIN left = {q \in Paths \ {by} : IsMember(q)}
        /\ \A q \in DOMAIN left : left[q] = Due(q)
    BY <2>4 DEF Refreshed, Due
  <2>8. \A k \in Handlers : k # h => Stage(k, "idle")'
    BY <1>1, <1>3, <2>1 DEF EditorInv, OneIsBusy, Busy, Stage, Certain
  <2>9. OnTheWay'
    BY <2>1, <2>2, <2>6, <2>7, <2>8 DEF OnTheWay, Stage
  <2>10. ASSUME NEW q \in Paths, IsMember(q), q # by
         PROVE  Expected(h, q)'
    BY <2>6, <2>7, <2>10 DEF Expected, Stage
  <2>11. by \notin doubt => shown[by] = Due(by)
    <3>1. \A k \in Handlers : ~Expected(k, by)
      BY <1>1, <1>3, <2>3, <2>8 DEF Expected, Stage
    <3> QED BY <2>1, <2>3, <3>1 DEF EditorInv, ShownOrExpected
  <2> QED BY <1>1, <2>1, <2>2, <2>9, <2>10, <2>11 DEF ShownOrExpected
<1> QED BY <1>4, <1>5, <1>6 DEF EditorInv

LEMMA PublishKeepsEditor ==
  ASSUME EditorInv, NEW h \in Handlers, Publish(h)
  PROVE  EditorInv'
<1>1. /\ Stage(h, "publish")
      /\ UNCHANGED <<saved, marker, docs, unseen, doubt>>
      /\ DOMAIN tasks = Handlers /\ DOMAIN shown = Paths
  BY DEF Publish, EditorInv, EditorTypeOK
<1>2. DOMAIN shown' = Paths /\ DOMAIN tasks' = Handlers
  BY <1>1 DEF Publish, Goes
<1>3. \A k \in Handlers : k # h => tasks'[k] = tasks[k]
  BY <1>1 DEF Publish, Goes
<1>4. EditorTypeOK'
  BY <1>1, <1>2 DEF EditorInv, EditorTypeOK
<1>5. OneIsBusy'
  BY <1>1, <1>3 DEF EditorInv, OneIsBusy, Busy, Stage
<1>6. ASSUME Certain'
      PROVE  OnTheWay' /\ ShownOrExpected'
  <2>1. Certain /\ \A p : (IsMember(p)' <=> IsMember(p))
    BY <1>1, <1>6 DEF Certain, IsMember, IsOpen
  <2>2. \A p : Due(p)' = Due(p)
    BY <1>1, DueStays, LiveStays
  <2>3. \A k \in Handlers : k # h => Stage(k, "idle") /\ Stage(k, "idle")'
    BY <1>1, <1>3, <2>1 DEF EditorInv, OneIsBusy, Busy, Stage, Certain
  <2>4. PICK left : left = tasks[h].left
    OBVIOUS
  <2>5. \A p \in DOMAIN left :
          p \in Paths /\ IsMember(p) /\ (p \notin doubt => left[p] = Due(p))
    BY <1>1, <2>1, <2>4 DEF EditorInv, OnTheWay
  <2>6. \A p \in Paths \ doubt : IsMember(p) => shown[p] = Due(p) \/ p \in DOMAIN left
    BY <1>1, <2>1, <2>3, <2>4 DEF EditorInv, ShownOrExpected, Expected, Stage
  <2>7. CASE DOMAIN left = {} /\ tasks' = [tasks EXCEPT ![h] = Resting] /\ shown' = shown
    <3>1. tasks'[h].stage = "idle"
      BY <1>1, <2>7 DEF Resting, Task
    <3>2. OnTheWay'
      BY <2>3, <3>1 DEF OnTheWay, Stage
    <3> QED BY <1>1, <2>1, <2>2, <2>6, <2>7, <3>2 DEF ShownOrExpected
  <2>8. ASSUME NEW p \in DOMAIN left,
               shown' = [shown EXCEPT ![p] = left[p]],
               Goes(h, Task(tasks[h].by, "publish", [q \in (DOMAIN left) \ {p} |-> left[q]]))
        PROVE  OnTheWay' /\ ShownOrExpected'
    <3>1. PICK rest : rest = [q \in (DOMAIN left) \ {p} |-> left[q]]
      OBVIOUS
    <3>2. tasks'[h].stage = "publish" /\ tasks'[h].left = rest
      BY <1>1, <2>8, <3>1 DEF Goes, Task
    <3>3. OnTheWay'
      BY <1>1, <2>1, <2>2, <2>3, <2>5, <3>1, <3>2 DEF OnTheWay, Stage
    <3>4. ASSUME NEW q \in Paths \ doubt, IsMember(q)
          PROVE  shown'[q] = Due(q) \/ Expected(h, q)'
      <4>1. p \notin doubt => shown'[p] = Due(p)
        BY <1>1, <2>5, <2>8
      <4>2. CASE q # p /\ q \in DOMAIN left
        BY <3>1, <3>2, <4>2 DEF Expected, Stage
      <4>3. CASE q # p /\ q \notin DOMAIN left
        BY <1>1, <2>6, <2>8, <3>4, <4>3
      <4> QED BY <3>4, <4>1, <4>2, <4>3
    <3> QED BY <1>1, <2>1, <2>2, <3>3, <3>4 DEF ShownOrExpected
  <2> QED BY <2>4, <2>7, <2>8 DEF Publish, Goes
<1> QED BY <1>4, <1>5, <1>6 DEF EditorInv

(* News of the files, taken up alone, has all members checked again.       *)
LEMMA WatchKeepsEditor ==
  ASSUME EditorInv, NEW h \in Handlers, DidChangeWatchedFiles(h)
  PROVE  EditorInv'
<1>1. /\ UNCHANGED <<saved, marker, docs, shown>> /\ marker \in BOOLEAN
      /\ DOMAIN tasks = Handlers /\ doubt \subseteq Paths
  BY DEF DidChangeWatchedFiles, EditorInv, EditorTypeOK
<1>2. \A k \in Handlers : k # h => tasks'[k] = tasks[k]
  BY <1>1 DEF DidChangeWatchedFiles, Goes
<1>3. EditorTypeOK'
  BY <1>1 DEF EditorInv, EditorTypeOK, DidChangeWatchedFiles, Goes, FanOutDoubt
<1>4. CASE ~marker
  <2>1. tasks' = tasks /\ doubt' = doubt /\ ~marker'
    BY <1>1, <1>4 DEF DidChangeWatchedFiles, Discovered
  <2> QED BY <1>3, <2>1 DEF EditorInv, OneIsBusy, Busy, Stage, Certain
<1>5. CASE marker
  <2>1. PICK left : left = Refreshed({})
    OBVIOUS
  <2>2. tasks'[h] = Task(NoFile, "publish", left) /\ doubt' = FanOutDoubt
    BY <1>1, <1>5, <2>1 DEF DidChangeWatchedFiles, Goes, Discovered
  <2>3. tasks'[h].stage = "publish" /\ tasks'[h].left = left
    BY <2>2 DEF Task
  <2>4. doubt' # Paths => \A k \in Handlers : k # h => Stage(k, "idle")'
    BY <1>2, <2>2 DEF FanOutDoubt, Alone, Stage
  <2>5. OneIsBusy'
    BY <2>4 DEF OneIsBusy, Busy
  <2>6. ASSUME Certain'
        PROVE  OnTheWay' /\ ShownOrExpected'
    <3>1. \A p : Due(p)' = Due(p)
      BY <1>1, DueStays, LiveStays
    <3>2. \A p : (IsMember(p)' <=> IsMember(p))
      BY <1>1 DEF IsMember, IsOpen
    <3>3. /\ DOMAIN left = {q \in Paths : IsMember(q)}
          /\ \A q \in DOMAIN left : left[q] = Due(q)
      BY <2>1 DEF Refreshed, Due
    <3>4. OnTheWay'
      BY <2>3, <2>4, <2>6, <3>1, <3>2, <3>3 DEF OnTheWay, Stage, Certain
    <3>5. \A p \in Paths : IsMember(p) => Expected(h, p)'
      BY <2>3, <3>3 DEF Expected, Stage
    <3> QED BY <3>2, <3>4, <3>5 DEF ShownOrExpected
  <2> QED BY <1>3, <2>5, <2>6 DEF EditorInv
<1> QED BY <1>1, <1>4, <1>5

LEMMA FilesKeepEditor ==
  ASSUME EditorInv,
         \/ \E p \in Paths, src \in Sources \cup {NoFile} : SaveFile(p, src)
         \/ EditManifest
  PROVE  EditorInv'
<1>1. unseen' /\ UNCHANGED <<docs, shown, tasks, doubt>>
  BY DEF SaveFile, EditManifest
<1>2. EditorTypeOK'
  BY <1>1 DEF EditorInv, EditorTypeOK, SaveFile, EditManifest
<1> QED BY <1>1, <1>2 DEF EditorInv, OneIsBusy, Busy, Stage, Certain

LEMMA EditorInvariance == DocSpec => []EditorInv
<1>1. EditorInv /\ [DocNext]_docVars => EditorInv'
  <2> SUFFICES ASSUME EditorInv, [DocNext]_docVars PROVE EditorInv'
    OBVIOUS
  <2>1. CASE UNCHANGED docVars
    BY <2>1 DEF docVars, EditorInv, EditorTypeOK, OneIsBusy, Busy, Stage, Certain, OnTheWay,
                ShownOrExpected, Expected, Due, ReadLive, IsMember, IsOpen
  <2>2. CASE \E h \in Handlers : HandlerStep(h)
    BY <2>2, FanOutKeepsEditor, PublishKeepsEditor, WatchKeepsEditor DEF HandlerStep
  <2>3. CASE \E p \in Paths, src \in Sources :
               DidOpen(p, src) \/ \E h \in Handlers : DidChange(h, p, src)
    BY <2>3, OpenKeepsEditor, ChangeKeepsEditor
  <2>4. CASE \E p \in Paths : DidClose(p)
    BY <2>4, CloseKeepsEditor
  <2> QED BY <2>1, <2>2, <2>3, <2>4, FilesKeepEditor DEF DocNext
<1> QED BY <1>1, EditorStart, PTL DEF DocSpec

(* However notifications, changes of files and handlers interleave: once   *)
(* the server has heard of the last change and answered, every member of   *)
(* the workspace is shown the errors it has beside the others' buffers;    *)
(* and when all is saved, those that save_file reports.  Excepted are, till*)
(* a change or news of files is handled alone, the siblings of a document  *)
(* opened or closed with text that was not the file's, and all members     *)
(* after a change, news or a close taken up during another handler.        *)
THEOREM EditorsShowTheTruth == DocSpec => []ShownIsCurrent
<1>1. EditorInv => ShownIsCurrent
  <2> SUFFICES ASSUME EditorInv, marker, ~unseen, Alone,
                      NEW p \in Paths \ doubt, IsMember(p)
               PROVE  /\ shown[p] = Due(p)
                      /\ (\A q \in Paths : IsMember(q) => docs[q].source = saved[q])
                           => shown[p] = SaveOutcome(p)
    BY DEF ShownIsCurrent, Due, Discovered
  <2>1. shown[p] = Due(p)
    BY DEF EditorInv, Certain, ShownOrExpected, Expected, Alone, Stage
  <2>2. ASSUME \A q \in Paths : IsMember(q) => docs[q].source = saved[q]
        PROVE  Due(p) = SaveOutcome(p)
    <3>1. saved \in [Paths -> Sources \cup {NoFile}]
      BY DEF EditorInv, EditorTypeOK
    <3>2. \A q \in Paths : ReadLive(p)[q] = saved[q]
      BY <2>2 DEF ReadLive
    <3>3. ReadLive(p) = saved
      BY <3>1, <3>2 DEF ReadLive
    <3>4. Due(p) = Report(p, saved[p], saved, saved)
      BY <2>2, <3>3 DEF Due
    <3>5. ~Unreadable(saved, saved)
      BY DEF Unreadable
    <3> QED BY <3>4, <3>5 DEF Report, SaveOutcome, ValidatedOnSave, SharedOnSave, Discovered
  <2> QED BY <2>1, <2>2
<1> QED BY <1>1, EditorInvariance, PTL
===============================================================================
