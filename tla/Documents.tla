-------------------------------- MODULE Documents -------------------------------
(***************************************************************************)
(* forage-lsp: the open documents of one workspace, what the editor shows  *)
(* of them, and the files that lie below; beside it, what Studio reports   *)
(* of a file that it saves.                                                *)
(*                                                                         *)
(* A handler runs up to an await without interruption; then another one    *)
(* may go on, or the next notification of the editor be taken up.          *)
(***************************************************************************)
EXTENDS Naturals

CONSTANTS
  NoFile,
  Paths,     \* of the workspace's files
  Sources,   \* [parses, recipe, shares, private, uses, stages]
  HubTypes,  \* the types pinned by the lockfile, in the cache
  Handlers,  \* tower-lsp's slots for handlers under way
  MaxEvents  \* bound on what the editor and others do

ASSUME DocumentsAssumption ==
  /\ NoFile \notin Sources \cup [source : Sources, member : BOOLEAN]
  /\ MaxEvents \in Nat
  /\ \A src \in Sources : src.parses \in BOOLEAN

VARIABLES
  saved,   \* the files
  marker,  \* forage.toml parses
  docs,    \* DocStore.docs: [source, member] of the open documents
  shown,   \* the diagnostics that the editor has of each file
  unseen,  \* a change of the files that the server was not told of yet
  tasks,   \* what each handler does after its await: [by, stage, left]
  doubt,   \* history: the files whose diagnostics may be of another time
  events   \* how much has happened

docVars == <<saved, marker, docs, shown, unseen, tasks, doubt, events>>

-------------------------------------------------------------------------------
(* The workspace: what a file contributes to the others.                   *)

(* A file that does not parse is kept among the workspace's, as broken.    *)
Parses(src) == src # NoFile /\ src.parses

(* workspace::discover: there is a workspace if its manifest parses.       *)
Discovered == marker

(* Workspace::catalog: what the other files share, what the hub has, what  *)
(* the file declares.  Which file is the one validated is not asked: what  *)
(* `read` has in its place counts too.                                     *)
Catalog(src, loaded, read) ==
  UNION {read[q].shares : q \in {p \in Paths : Parses(loaded[p])}}
    \cup HubTypes \cup src.shares \cup src.private

(* A file that parsed when it was loaded and does not now is an error.     *)
Unreadable(loaded, read) == \E p \in Paths : Parses(loaded[p]) /\ ~Parses(read[p])

RecipeSignatures(loaded) ==
  {loaded[p].recipe : p \in {q \in Paths : Parses(loaded[q])}}

(* validate, for what depends on other files.                              *)
Validated(src, catalog, signatures) ==
  {<<"UnknownType", t>> : t \in src.uses \ catalog}
    \cup {<<"UnknownComposeStage", s>> : s \in src.stages \ signatures}

Siblings(p, loaded, read) == {q \in Paths \ {p} : loaded[q] # NoFile /\ Parses(read[q])}

(* validate_workspace_shared, and of it what is reported of the file p.    *)
Collisions(p, src, loaded, read) ==
  LET siblings == Siblings(p, loaded, read) IN
  {<<"DuplicateSharedDeclaration", n>> : n \in {m \in src.shares : \E q \in siblings : m \in read[q].shares}}
    \cup {<<"DuplicateRecipeName", n>> :
            n \in {m \in {src.recipe} \ {NoFile} : \E q \in siblings : m = read[q].recipe}}

(* No forage.toml: the file on its own.                                    *)
Lonely(src) ==
  IF src.parses THEN Validated(src, src.shares \cup src.private, {})
  ELSE {<<"ParseError", NoFile>>}

(* build_diagnostics.                                                      *)
Report(p, src, loaded, read) ==
  IF ~src.parses THEN {<<"ParseError", NoFile>>}
  ELSE IF Unreadable(loaded, read) THEN {<<"WorkspaceError", NoFile>>}
  ELSE Validated(src, Catalog(src, loaded, read), RecipeSignatures(loaded))
         \cup Collisions(p, src, loaded, read)

(* Studio's save_file: the file for itself, the pass over all files, both  *)
(* over what is on disk; at last the session is loaded again, or the       *)
(* command fails with the file written.                                    *)
ValidatedOnSave(src) ==
  IF ~src.parses THEN {<<"ParseError", NoFile>>}
  ELSE IF Unreadable(saved, saved) THEN {<<"WorkspaceError", NoFile>>}
  ELSE Validated(src, Catalog(src, saved, saved), RecipeSignatures(saved))
SharedOnSave(p, src) == IF src.parses THEN Collisions(p, src, saved, saved) ELSE {}
SaveOutcome(p) ==
  IF Discovered THEN ValidatedOnSave(saved[p]) \cup SharedOnSave(p, saved[p])
  ELSE {<<"LoadError", NoFile>>}

-------------------------------------------------------------------------------
(* DocStore.                                                               *)

IsOpen(p) == docs[p] # NoFile
IsMember(p) == IsOpen(p) /\ docs[p].member

(* live_sources_excluding: the buffers of the other members go first.      *)
ReadLive(p) ==
  [q \in Paths |-> IF q # p /\ IsMember(q) THEN docs[q].source ELSE saved[q]]

(* upsert, and the diagnostics it returns published.  The workspace is     *)
(* discovered and loaded again, if its manifest parses: of DocStore's      *)
(* cached workspaces only one just loaded is ever used.                    *)
Upsert(p, src) ==
  /\ docs' = [docs EXCEPT ![p] = [source |-> src, member |-> Discovered]]
  /\ shown' = [shown EXCEPT ![p] =
                 IF Discovered THEN Report(p, src, saved, ReadLive(p)) ELSE Lonely(src)]

(* refresh_workspace: every member is validated again.                     *)
Refreshed(except) ==
  [p \in {q \in Paths \ except : IsMember(q)} |-> Report(p, docs[p].source, saved, ReadLive(p))]

-------------------------------------------------------------------------------
(* The handlers of notifications.                                          *)

Task(by, stage, left) == [by |-> by, stage |-> stage, left |-> left]
Resting == Task(NoFile, "idle", <<>>)

Stage(h, stage) == tasks[h].stage = stage
Alone == \A h \in Handlers : Stage(h, "idle")
Goes(h, task) == tasks' = [tasks EXCEPT ![h] = task]

Happens == events < MaxEvents /\ events' = events + 1
TakenUp == Happens /\ \E h \in Handlers : Stage(h, "idle")

(* The documents of the others do not hear of a document that is opened    *)
(* with other text than the file's, or that was and is closed.             *)
SiblingsDoubt(p, src) == IF src = saved[p] THEN {} ELSE Paths \ {p}

DidOpen(p, src) ==
  /\ TakenUp /\ ~IsOpen(p)
  /\ Upsert(p, src)
  /\ doubt' = (IF Alone THEN doubt \ {p} ELSE doubt) \cup SiblingsDoubt(p, src)
  /\ UNCHANGED <<saved, marker, unseen, tasks>>

(* A fan-out to all members that nothing overlapped settles all of them.   *)
FanOutDoubt == IF Alone THEN {} ELSE Paths

(* Full sync: the change is the whole text.  The fan-out comes after the   *)
(* first await.                                                            *)
DidChange(h, p, src) ==
  /\ Happens /\ IsOpen(p) /\ Stage(h, "idle")
  /\ Upsert(p, src)
  /\ Goes(h, Task(p, "refresh", <<>>))
  /\ doubt' = FanOutDoubt
  /\ UNCHANGED <<saved, marker, unseen>>

NoFanOut(h) ==
  /\ Stage(h, "refresh")
  /\ Goes(h, Resting)
  /\ UNCHANGED <<saved, marker, docs, shown, unseen, doubt, events>>

FanOut(h) ==
  LET by == tasks[h].by IN
  /\ Stage(h, "refresh")
  /\ Goes(h, IF Discovered /\ IsMember(by) THEN Task(by, "publish", Refreshed({by})) ELSE Resting)
  /\ UNCHANGED <<saved, marker, docs, shown, unseen, doubt, events>>

(* One await for each document, in the order of a hash map.                *)
Publish(h) ==
  LET left == tasks[h].left IN
  /\ Stage(h, "publish")
  /\ \/ DOMAIN left = {} /\ Goes(h, Resting) /\ UNCHANGED shown
     \/ \E p \in DOMAIN left :
          /\ shown' = [shown EXCEPT ![p] = left[p]]
          /\ Goes(h, Task(tasks[h].by, "publish", [q \in (DOMAIN left) \ {p} |-> left[q]]))
  /\ UNCHANGED <<saved, marker, docs, unseen, doubt, events>>

(* The buffer is gone, and with it what the others have read of it.        *)
DidClose(p) ==
  /\ TakenUp /\ IsOpen(p)
  /\ docs' = [docs EXCEPT ![p] = NoFile]
  /\ doubt' = IF Alone THEN doubt \cup SiblingsDoubt(p, docs[p].source) ELSE Paths
  /\ UNCHANGED <<saved, marker, shown, unseen, tasks>>

(* The editor's file watcher: of several changes, one notification.        *)
DidChangeWatchedFiles(h) ==
  /\ unseen /\ Stage(h, "idle")
  /\ unseen' = FALSE
  /\ IF Discovered
     THEN Goes(h, Task(NoFile, "publish", Refreshed({}))) /\ doubt' = FanOutDoubt
     ELSE UNCHANGED <<tasks, doubt>>
  /\ UNCHANGED <<saved, marker, docs, shown, events>>

-------------------------------------------------------------------------------
(* Files change: the editor saves, Studio saves, or somebody else.         *)

SaveFile(p, src) ==
  /\ Happens
  /\ saved[p] # src
  /\ saved' = [saved EXCEPT ![p] = src] /\ unseen' = TRUE
  /\ UNCHANGED <<marker, docs, shown, tasks, doubt>>

EditManifest ==
  /\ Happens
  /\ marker' = ~marker /\ unseen' = TRUE
  /\ UNCHANGED <<saved, docs, shown, tasks, doubt>>

DocInit ==
  /\ saved \in [Paths -> Sources \cup {NoFile}] /\ marker = TRUE
  /\ docs = [p \in Paths |-> NoFile]
  /\ shown = [p \in Paths |-> {}] /\ tasks = [h \in Handlers |-> Resting]
  /\ unseen = FALSE /\ doubt = {} /\ events = 0

HandlerStep(h) == FanOut(h) \/ Publish(h) \/ DidChangeWatchedFiles(h)

DocNext ==
  \/ \E h \in Handlers : HandlerStep(h)
  \/ \E p \in Paths, src \in Sources : DidOpen(p, src) \/ \E h \in Handlers : DidChange(h, p, src)
  \/ \E p \in Paths : DidClose(p)
  \/ \E p \in Paths, src \in Sources \cup {NoFile} : SaveFile(p, src)
  \/ EditManifest

DocSpec == DocInit /\ [][DocNext]_docVars

-------------------------------------------------------------------------------
(* Once the server has been told of all changes and has answered, each     *)
(* member of the workspace is shown with the errors it has beside the      *)
(* others' buffers and files as they are now; and, when all buffers are    *)
(* saved, with those that Studio reports of it (did_change: "any edit can  *)
(* shift cross-file state").  The exceptions: a document opened while      *)
(* forage.toml does not parse is no member; and, until a change or news of *)
(* files is handled alone (`doubt`), all members once a change, news or a  *)
(* close was taken up during another handler, and the siblings of a        *)
(* document that was opened or closed with text that was not the file's.   *)
ShownIsCurrent ==
  Discovered /\ ~unseen /\ Alone =>
    \A p \in Paths \ doubt : IsMember(p) =>
      /\ shown[p] = Report(p, docs[p].source, saved, ReadLive(p))
      /\ (\A q \in Paths : IsMember(q) => docs[q].source = saved[q])
           => shown[p] = SaveOutcome(p)
===============================================================================
