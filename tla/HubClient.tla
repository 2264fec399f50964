------------------------------- MODULE HubClient -------------------------------
(***************************************************************************)
(* forage-hub: publishing from a workspace, syncing into it and forking,   *)
(* over the hub.  Each client user has a workspace and a client process,   *)
(* which may die between any two of its steps and in the middle of a write *)
(* of a file; the hub is also used through its API by others.              *)
(*                                                                         *)
(* A workspace that holds a shared type cannot publish: the client's type  *)
(* request has no field `extends`, so the hub refuses the first one as     *)
(* invalid and the recipe is never sent.                                   *)
(***************************************************************************)
EXTENDS Hub

CONSTANTS
  Torn,       \* a file that was cut short and cannot be read
  Clients,    \* the users with a workspace and a client process
  MaxCalls    \* bound on the calls of clients

VARIABLES
  file,    \* <slug>.forage of each workspace, or None, or Torn
  side,    \* the sync sidecar .forage/sync/<slug>.json, or None, or Torn
  types,   \* the type files a sync wrote: <<name, whole>>
  client,  \* what each client process is doing, or None
  calls,   \* calls made so far
  crashed  \* history: users whose client died, or failed to write

local == <<file, side, types>>
hub == vars
allVars == <<vars, file, side, types, client, calls, crashed>>

(* `edited` : the file has changes that no version on the hub has.         *)
(* `from`, history: the version that it is, or was changed from.           *)
File == [body : Recipes, edited : BOOLEAN, from : (Packages \X Nat) \cup {None}]
Copy(body, edited, from) == [body |-> body, edited |-> edited, from |-> from]
Whole(x) == x \notin {None, Torn}
Sidecar == [author : Users, base : Versions,
            forkedFrom : (Packages \X Versions) \cup {None}]

PublishCall == [phase : {"publish"}, worker : Workers, key : Packages, body : Recipes]
ForkCall == [phase : {"fork"}, worker : Workers, key : Packages]
FetchCall == [phase : {"fetch"}, key : Packages, version : Versions]
SyncCall == [phase : {"types", "sidecar", "count"}, key : Packages,
             version : Versions, body : Recipes,
             pins : SUBSET (TypeKeys \X Versions)]

Call == PublishCall \cup ForkCall \cup FetchCall \cup SyncCall

ASSUME ClientAssumption ==
  /\ Clients \subseteq Users
  /\ \A r \in Recipes : r.pins \subseteq TypeKeys \X Versions
  /\ None \notin File \cup Sidecar \cup Call
  /\ Torn \notin File \cup Sidecar \cup {None}

SlugOf(p) == p[2]
Idle(u) == client[u] = None
Called(u) == Idle(u) /\ calls < MaxCalls /\ calls' = calls + 1
InPhase(u, phase) == client[u] # None /\ client[u].phase = phase
Become(u, call) == client' = [client EXCEPT ![u] = call]

-------------------------------------------------------------------------------

(* The user writes or changes a recipe.                                    *)
Edit(u, s, body) ==
  /\ body.name = s /\ body.pins = {}
  /\ Whole(file[u][s]) => ~file[u][s].edited
  /\ file' = [file EXCEPT ![u][s] = Copy(body, TRUE, IF Whole(@) THEN @.from ELSE None)]
  /\ UNCHANGED <<hub, side, types, client, crashed, calls>>

(* publish_from_workspace: the base is the sidecar's, whoever's package    *)
(* the sidecar is about; the pins are the workspace's shared types: none,  *)
(* also where the file was synced with types that are torn.                *)
PublishStart(w, u, s) ==
  LET p == <<u, s>>
      sent == [file[u][s].body EXCEPT !.pins = {}]
  IN
  /\ Called(u) /\ p \in Packages
  /\ Whole(file[u][s]) /\ side[u][s] # Torn /\ ~\E t \in types[u] : t[2]
  /\ sent \in Recipes
  /\ Publish(w, p, sent, IF side[u][s] = None THEN None ELSE side[u][s].base)
  /\ Become(u, [phase |-> "publish", worker |-> w, key |-> p, body |-> sent])
  /\ UNCHANGED <<local, crashed>>

(* The reply: write_meta on success, an error otherwise.                   *)
PublishEnd(u) ==
  LET c == client[u]
      r == req[c.worker]
      s == SlugOf(c.key)
  IN
  /\ InPhase(u, "publish") /\ Deliver(c.worker)
  /\ IF r.status = "created"
     THEN /\ side' = [side EXCEPT ![u][s] =
               [author |-> u, base |-> r.version,
                forkedFrom |-> IF @ = None THEN None ELSE @.forkedFrom]]
          /\ file' = [file EXCEPT ![u][s] = Copy(@.body, @.body # c.body, <<c.key, r.version>>)]
     ELSE UNCHANGED <<side, file>>
  /\ Become(u, None)
  /\ UNCHANGED <<types, crashed, calls>>

(* sync_from_hub: the artifact, and the refusals.  A recipe whose header   *)
(* is not the package's name, as in every renamed fork, is refused, and so *)
(* is a sidecar that cannot be read; one of another author's package, or   *)
(* of an older version, is not.                                            *)
Fetch(u, p, n) ==
  LET s == SlugOf(p)
      old == side[u][s]
      refused == \/ old = Torn
                 \/ old = None /\ file[u][s] # None
                 \/ Whole(old) /\ old.author = p[1] /\ old.base >= n
  IN
  IF pkg[p] = None \/ ver[p][n] = None \/ refused THEN Become(u, None)
  ELSE IF ver[p][n].name # s THEN Become(u, None)
  ELSE Become(u, [phase |-> "types", key |-> p, version |-> n,
                  body |-> ver[p][n], pins |-> ver[p][n].pins])

SyncStart(u, p, n) ==
  /\ Called(u) /\ Fetch(u, p, n) /\ client' # client
  /\ UNCHANGED <<hub, local, crashed>>

(* fork_from_hub: fork, then sync the new package's version 1.             *)
ForkStart(w, u, up, s) ==
  /\ Called(u) /\ <<u, s>> \in Packages
  /\ Fork(w, u, up, s)
  /\ Become(u, [phase |-> "fork", worker |-> w, key |-> <<u, s>>])
  /\ UNCHANGED <<local, crashed>>

ForkEnd(u) ==
  LET c == client[u] IN
  /\ InPhase(u, "fork") /\ Deliver(c.worker)
  /\ Become(u, IF req[c.worker].status = "created"
               THEN [phase |-> "fetch", key |-> c.key, version |-> 1] ELSE None)
  /\ UNCHANGED <<local, crashed, calls>>

ForkFetch(u) ==
  /\ InPhase(u, "fetch") /\ Fetch(u, client[u].key, client[u].version)
  /\ UNCHANGED <<hub, local, crashed, calls>>

TypeWritten(u, name, whole) ==
  types' = [types EXCEPT ![u] = (@ \ {<<name, ~whole>>}) \cup {<<name, whole>>}]

(* One pinned type: fetched and written; or it is missing, or what is left *)
(* of a torn file does not begin with `share type`, which ends the sync.   *)
SyncType(u) ==
  LET c == client[u] IN
  /\ InPhase(u, "types") /\ c.pins # {}
  /\ \E pin \in c.pins :
       LET name == pin[1][2]
           missing == tver[pin[1]][pin[2]] = None
       IN
       \/ (missing \/ <<name, FALSE>> \in types[u]) /\ Become(u, None) /\ UNCHANGED types
       \/ ~missing /\ TypeWritten(u, name, TRUE) /\ Become(u, [c EXCEPT !.pins = @ \ {pin}])
  /\ UNCHANGED <<hub, file, side, crashed, calls>>

SyncRecipe(u) ==
  LET c == client[u] IN
  /\ InPhase(u, "types") /\ c.pins = {}
  /\ file' = [file EXCEPT ![u][SlugOf(c.key)] = Copy(c.body, FALSE, <<c.key, c.version>>)]
  /\ Become(u, [c EXCEPT !.phase = "sidecar"])
  /\ UNCHANGED <<hub, side, types, crashed, calls>>

SidecarOf(u, author, base) ==
  /\ InPhase(u, "sidecar")
  /\ side' = [side EXCEPT ![u][SlugOf(client[u].key)] =
                [author |-> author, base |-> base, forkedFrom |-> None]]
  /\ Become(u, [client[u] EXCEPT !.phase = "count"])
  /\ UNCHANGED <<hub, file, types, crashed, calls>>

SidecarOfLatest(u) == SidecarOf(u, client[u].key[1], Latest(client[u].key))

(* get_package for the lineage, then write_meta.                           *)
SyncSidecar(u) ==
  LET c == client[u]
      meta == pkg[c.key]
  IN
  /\ InPhase(u, "sidecar")
  /\ side' = [side EXCEPT ![u][SlugOf(c.key)] =
       [author |-> c.key[1], base |-> c.version,
        forkedFrom |-> IF meta = None THEN None ELSE meta.forkedFrom]]
  /\ Become(u, [c EXCEPT !.phase = "count"])
  /\ UNCHANGED <<hub, file, types, crashed, calls>>

(* record_download; whether it succeeds makes no difference to the sync.   *)
SyncCount(w, u) ==
  /\ InPhase(u, "count")
  /\ Download(w, client[u].key)
  /\ Become(u, None)
  /\ UNCHANGED <<local, crashed, calls>>

(* fs::write is not atomic: a file is cut short where the process is killed*)
(* in the middle, or the write fails.                                      *)
TypeCut(u) ==
  LET c == client[u] IN
  /\ InPhase(u, "types")
  /\ \E pin \in c.pins : tver[pin[1]][pin[2]] # None /\ TypeWritten(u, pin[1][2], FALSE)
  /\ UNCHANGED <<hub, file, side>>

(* What is left of a recipe cannot be read, or is a shorter recipe.        *)
RecipeCut(u) ==
  LET c == client[u]
      s == SlugOf(c.key)
      shorter == {body \in Recipes : body.name = s /\ body.pins = {}}
  IN
  /\ InPhase(u, "types") /\ c.pins = {}
  /\ \E left \in {Torn} \cup {Copy(body, TRUE, <<c.key, c.version>>) : body \in shorter} :
       file' = [file EXCEPT ![u][s] = left]
  /\ UNCHANGED <<hub, side, types>>

(* The end of a JSON document is missed wherever it is cut.                *)
SidecarCut(u) ==
  LET c == client[u] IN
  /\ \/ InPhase(u, "sidecar") /\ UNCHANGED hub
     \/ InPhase(u, "publish") /\ req[c.worker].status = "created" /\ Deliver(c.worker)
  /\ side' = [side EXCEPT ![u][SlugOf(c.key)] = Torn]
  /\ UNCHANGED <<file, types>>

CutShort(u) ==
  /\ TypeCut(u) \/ RecipeCut(u) \/ SidecarCut(u)
  /\ Become(u, None)
  /\ crashed' = crashed \cup {u}
  /\ UNCHANGED calls

(* The process is killed or its connection breaks; the hub goes on.        *)
ClientDies(u) ==
  /\ ~Idle(u)
  /\ Become(u, None)
  /\ crashed' = crashed \cup {u}
  /\ UNCHANGED <<hub, local, calls>>

WaitsOn(u, w) == (InPhase(u, "publish") \/ InPhase(u, "fork")) /\ client[u].worker = w

(* The hub by itself, and those who publish types and recipes through its  *)
(* API.  A request that dies ends the call that waits for it.              *)
HubStep(w) ==
  /\ \/ Step(w) /\ UNCHANGED client
     \/ /\ \E t \in TypeKeys, body \in TypeBodies : PublishType(w, t, body, CurrentBase(t))
        /\ UNCHANGED client
     \/ /\ \E p \in Packages, body \in Recipes :
             Publish(w, p, body, CurrentBase(p))
        /\ UNCHANGED client
     \/ /\ Die(w)
        /\ client' = [u \in Clients |-> IF WaitsOn(u, w) THEN None ELSE client[u]]
     \/ /\ \A u \in Clients : ~WaitsOn(u, w)
        /\ Deliver(w) /\ UNCHANGED client
  /\ UNCHANGED <<local, crashed, calls>>

ClientInit ==
  /\ Init
  /\ file = [u \in Clients |-> [s \in Slugs |-> None]]
  /\ side = [u \in Clients |-> [s \in Slugs |-> None]]
  /\ types = [u \in Clients |-> {}]
  /\ client = [u \in Clients |-> None]
  /\ calls = 0 /\ crashed = {}

ClientStep(u) ==
  \/ \E s \in Slugs, body \in Recipes : Edit(u, s, body)
  \/ \E w \in Workers, s \in Slugs : PublishStart(w, u, s)
  \/ PublishEnd(u)
  \/ \E p \in Packages, n \in Versions : SyncStart(u, p, n)
  \/ \E w \in Workers, up \in Packages, s \in Slugs : ForkStart(w, u, up, s)
  \/ ForkEnd(u) \/ ForkFetch(u)
  \/ SyncType(u) \/ SyncRecipe(u) \/ SyncSidecar(u)
  \/ \E w \in Workers : SyncCount(w, u)
  \/ CutShort(u) \/ ClientDies(u)

ClientNext == (\E w \in Workers : HubStep(w)) \/ (\E u \in Clients : ClientStep(u))

ClientSpec == ClientInit /\ [][ClientNext]_allVars

-------------------------------------------------------------------------------

(* Whatever died on the way or was cut short: an unedited recipe is the    *)
(* version it came from, unless requests for that name raced or died; a    *)
(* sidecar that can be read names a version that the hub holds, and none   *)
(* later than the file beside it came from, so that no publish passes over *)
(* a version that its file has not seen (PublishRequest: base_version).    *)
(* Once a call is over, and none of the client's was killed, the sidecar   *)
(* names the very version that the file came from.                         *)
CleanCopyIsTheHubs ==
  \A u \in Clients, s \in Slugs :
    LET f == file[u][s]
        m == side[u][s]
        p == <<m.author, s>>
    IN  /\ Whole(f) /\ ~f.edited /\ f.from[1] \notin contended \cup died
             => f.body = ver[f.from[1]][f.from[2]]
        /\ Whole(m) =>
             /\ ver[p][m.base] # None
             /\ Whole(f) /\ f.from # None /\ f.from[1] = p => m.base <= f.from[2]
             /\ Idle(u) /\ u \notin crashed => Whole(f) /\ f.from = <<p, m.base>>

(* The versions of the packages, and the recipes fetched for them.         *)
HubLog ==
  {[name |-> q[1], version |-> q[2], module |-> ver[q[1]][q[2]]] :
     q \in {q \in Packages \X Versions : q[2] <= Latest(q[1])}}

(* One request at a time makes each package a log of versions.             *)
Log == INSTANCE VersionLog WITH Names <- Packages, Modules <- Recipes, log <- HubLog

HubIsALog == Log!Spec
===============================================================================
