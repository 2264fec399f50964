---------------------------- MODULE HubClientProofs ----------------------------
(***************************************************************************)
(* The clients of the hub: for any number of workspaces, workers and       *)
(* packages, whatever dies, what a workspace shows as a clean copy of a    *)
(* version is that version; and one request at a time makes the hub a log. *)
(***************************************************************************)
EXTENDS HubClient, HubProofs

-------------------------------------------------------------------------------
(* The clients use the hub as anybody may.                                 *)

ClientTypes ==
  /\ client \in [Clients -> Call \cup {None}]
  /\ file \in [Clients -> [Slugs -> File \cup {None, Torn}]]
  /\ \A u \in Clients : InPhase(u, "publish") => file[u][SlugOf(client[u].key)] \in File

LEMMA WholeFiles ==
  /\ \A f \in File \cup {None, Torn} : Whole(f) <=> f \in File
  /\ \A m \in Sidecar \cup {None, Torn} : Whole(m) <=> m \in Sidecar
  /\ None # Torn
BY ClientAssumption DEF Whole

LEMMA CopyTyped ==
  ASSUME NEW body \in Recipes, NEW edited \in BOOLEAN, NEW from \in (Packages \X Nat) \cup {None}
  PROVE  /\ Copy(body, edited, from) \in File
         /\ Copy(body, edited, from).body = body
         /\ Copy(body, edited, from).edited = edited
         /\ Copy(body, edited, from).from = from
BY DEF Copy, File

(* Any base that is not the current one is refused alike.                  *)
LEMMA PublishIsArrival ==
  ASSUME HubInv, NEW w \in Workers, NEW p \in Packages, NEW body \in Recipes, NEW base, Publish(w, p, body, base)
  PROVE  Arrival(w)
<1>1. CurrentBase(p) \in Versions \cup {None} /\ 1 \in Versions
  BY HubAssumption DEF HubInv, StoreInv, IsMeta, Meta, CurrentBase, Latest, Versions
<1>2. CASE base = CurrentBase(p)
  BY <1>1, <1>2 DEF Arrival
<1>3. CASE base # CurrentBase(p)
  <2>1. PICK other \in Versions \cup {None} : other # CurrentBase(p)
    BY <1>1, NoneIsNothingElse
  <2>2. Publish(w, p, body, other)
    BY <1>3, <2>1 DEF Publish
  <2> QED BY <2>2 DEF Arrival
<1> QED BY <1>2, <1>3

LEMMA PublishTypeIsArrival ==
  ASSUME HubInv, NEW w \in Workers, NEW t \in TypeKeys, NEW body \in TypeBodies, PublishType(w, t, body, CurrentBase(t))
  PROVE  Arrival(w)
<1>1. CurrentBase(t) \in Versions \cup {None}
  BY HubAssumption DEF HubInv, StoreInv, CurrentBase, Latest, Versions
<1> QED BY <1>1 DEF Arrival

(* The phase of a call says what it is.                                    *)
LEMMA CallPhases ==
  ASSUME NEW c \in Call
  PROVE  /\ c # None /\ c.key \in Packages
         /\ c.phase = "publish" => c.worker \in Workers /\ c.body \in Recipes
         /\ c.phase = "fork" => c.worker \in Workers
         /\ c.phase = "fetch" => c.version \in Versions
         /\ c.phase \in {"types", "sidecar", "count"} => c \in SyncCall
         /\ c.phase \in {"publish", "fork", "fetch", "types", "sidecar", "count"}
BY ClientAssumption DEF Call, PublishCall, ForkCall, FetchCall, SyncCall

LEMMA Owner ==
  ASSUME NEW u, NEW s, <<u, s>> \in Packages
  PROVE  <<u, s>>[1] = u /\ SlugOf(<<u, s>>) = s
BY DEF SlugOf

(* What the steps of a client ask of the hub.                              *)
LEMMA ClientAsks ==
  ASSUME HubInv, ClientTypes, NEW u \in Clients, ClientStep(u)
  PROVE  \/ UNCHANGED vars
         \/ \E w \in Workers : Arrival(w)
         \/ (InPhase(u, "publish") \/ InPhase(u, "fork")) /\ Deliver(client[u].worker)
<1>1. CASE \E w \in Workers, s \in Slugs : PublishStart(w, u, s)
  <2>1. PICK w \in Workers, s \in Slugs : PublishStart(w, u, s)
    BY <1>1
  <2>2. <<u, s>> \in Packages /\ \E sent \in Recipes : \E base : Publish(w, <<u, s>>, sent, base)
    BY <2>1 DEF PublishStart
  <2> QED BY <2>2, PublishIsArrival
<1>2. CASE \E w \in Workers, up \in Packages, s \in Slugs : ForkStart(w, u, up, s)
  BY <1>2, ClientAssumption DEF ForkStart, Arrival
<1>3. CASE \E w \in Workers : SyncCount(w, u)
  <2>1. PICK w \in Workers : SyncCount(w, u)
    BY <1>3
  <2>2. Download(w, client[u].key) /\ client[u].key \in Packages
    BY <2>1, CallPhases DEF SyncCount, InPhase, ClientTypes
  <2> QED BY <2>2 DEF Arrival
<1>4. CASE PublishEnd(u) \/ ForkEnd(u) \/ CutShort(u)
  BY <1>4 DEF PublishEnd, ForkEnd, CutShort, TypeCut, RecipeCut, SidecarCut, hub
<1>5. CASE \/ \E s \in Slugs, body \in Recipes : Edit(u, s, body)
           \/ \E p \in Packages, n \in Versions : SyncStart(u, p, n)
           \/ ForkFetch(u) \/ SyncType(u) \/ SyncRecipe(u) \/ SyncSidecar(u) \/ ClientDies(u)
  BY <1>5 DEF Edit, SyncStart, ForkFetch, SyncType, SyncRecipe, SyncSidecar, ClientDies, hub
<1> QED BY <1>1, <1>2, <1>3, <1>4, <1>5 DEF ClientStep

LEMMA ClientsOnHub ==
  HubInv /\ ClientTypes /\ [ClientNext]_allVars => [Next]_vars
<1> SUFFICES ASSUME HubInv, ClientTypes, [ClientNext]_allVars PROVE [Next]_vars
  OBVIOUS
<1>1. CASE UNCHANGED allVars
  BY <1>1 DEF allVars
<1>2. ASSUME NEW u \in Clients, ClientStep(u) PROVE [Next]_vars
  <2>1. InPhase(u, "publish") \/ InPhase(u, "fork") => client[u].worker \in Workers
    BY CallPhases DEF InPhase, ClientTypes
  <2> QED BY <1>2, <2>1, ClientAsks DEF Next
<1>3. ASSUME NEW w \in Workers, HubStep(w) PROVE [Next]_vars
  BY <1>3, PublishIsArrival, PublishTypeIsArrival DEF HubStep, Next
<1> QED BY <1>1, <1>2, <1>3 DEF ClientNext

(* The calls keep their types.                                             *)
LEMMA BecomeTyped ==
  ASSUME ClientTypes, NEW u \in Clients, NEW c \in Call \cup {None}, Become(u, c), UNCHANGED file,
         c # None /\ c.phase = "publish" => file[u][SlugOf(c.key)] \in File
  PROVE  ClientTypes'
<1>1. client' \in [Clients -> Call \cup {None}] /\ client'[u] = c /\ \A v \in Clients \ {u} : client'[v] = client[v]
  BY DEF Become, ClientTypes
<1> QED BY <1>1 DEF ClientTypes, InPhase

(* A file is written: by the user, or by a call that then goes on.         *)
LEMMA WrittenTyped ==
  ASSUME ClientTypes, NEW u \in Clients, NEW s \in Slugs, NEW f \in File \cup {Torn},
         file' = [file EXCEPT ![u][s] = f],
         \/ f \in File /\ client' = client
         \/ \E c \in Call \cup {None} : Become(u, c) /\ ~(c # None /\ c.phase = "publish")
  PROVE  ClientTypes'
<1>1. /\ file' \in [Clients -> [Slugs -> File \cup {None, Torn}]]
      /\ file'[u][s] = f
      /\ \A v \in Clients, t \in Slugs : v # u \/ t # s => file'[v][t] = file[v][t]
  BY DEF ClientTypes
<1>2. ASSUME NEW v \in Clients, InPhase(v, "publish") PROVE SlugOf(client[v].key) \in Slugs
  BY <1>2, CallPhases, HubAssumption DEF InPhase, ClientTypes, SlugOf
<1>3. CASE f \in File /\ client' = client
  BY <1>1, <1>2, <1>3 DEF ClientTypes, InPhase
<1>4. ASSUME NEW c \in Call \cup {None}, Become(u, c), ~(c # None /\ c.phase = "publish")
      PROVE  ClientTypes'
  <2>1. /\ client' \in [Clients -> Call \cup {None}] /\ client'[u] = c
        /\ \A v \in Clients \ {u} : client'[v] = client[v]
    BY <1>4 DEF Become, ClientTypes
  <2> QED BY <1>1, <1>2, <1>4, <2>1 DEF ClientTypes, InPhase
<1> QED BY <1>3, <1>4

LEMMA FetchTypes ==
  ASSUME HubInv, ClientTypes, NEW u \in Clients, NEW p \in Packages, NEW n \in Versions, Fetch(u, p, n), file' = file
  PROVE  ClientTypes'
<1>1. PICK c : c = [phase |-> "types", key |-> p, version |-> n, body |-> ver[p][n], pins |-> ver[p][n].pins]
  OBVIOUS
<1>2. Become(u, None) \/ (ver[p][n] # None /\ Become(u, c))
  BY <1>1 DEF Fetch
<1>3. ver[p][n] # None => ver[p][n] \in Recipes
  BY DEF HubInv, StoreInv
<1>4. ver[p][n] # None => c \in Call /\ c.phase # "publish"
  BY <1>1, <1>3, ClientAssumption DEF Call, SyncCall
<1> QED BY <1>2, <1>4, BecomeTyped

LEMMA PublishEndTypes ==
  ASSUME HubInv, TypeInv, ClientTypes, NEW u \in Clients, PublishEnd(u)
  PROVE  ClientTypes'
<1>1. PICK c, s, r : c = client[u] /\ s = SlugOf(c.key) /\ r = req[c.worker]
  OBVIOUS
<1>2. /\ c.worker \in Workers /\ c.key \in Packages /\ c.body \in Recipes
      /\ s \in Slugs /\ file[u][s] \in File
  BY <1>1, CallPhases, HubAssumption DEF PublishEnd, InPhase, ClientTypes, SlugOf
<1>3. Become(u, None)
  BY DEF PublishEnd
<1>4. CASE r.status # "created"
  BY <1>1, <1>3, <1>4, BecomeTyped DEF PublishEnd
<1>5. CASE r.status = "created"
  <2>1. r.version \in Nat
    <3>1. r # None
      BY <1>1 DEF PublishEnd, Deliver, At
    <3> QED BY <1>1, <1>2, <3>1 DEF TypeInv, Typed, Request
  <2>2. PICK f : f = Copy(file[u][s].body, file[u][s].body # c.body, <<c.key, r.version>>)
    OBVIOUS
  <2>3. f \in File
    <3>1. file[u][s].body \in Recipes
      BY <1>2 DEF File
    <3> QED BY <1>2, <2>1, <2>2, <3>1, CopyTyped
  <2>4. file' = [file EXCEPT ![u][s] = f]
    BY <1>1, <1>2, <1>5, <2>2 DEF PublishEnd, ClientTypes
  <2> QED BY <1>2, <1>3, <2>3, <2>4, WrittenTyped
<1> QED BY <1>4, <1>5

(* What sync leaves in the place of the recipe.                            *)
LEMMA RecipeCopyTyped ==
  ASSUME NEW c \in SyncCall, NEW body \in Recipes, NEW edited \in BOOLEAN
  PROVE  /\ Copy(body, edited, <<c.key, c.version>>) \in File
         /\ Copy(body, edited, <<c.key, c.version>>).body = body
         /\ Copy(body, edited, <<c.key, c.version>>).edited = edited
         /\ Copy(body, edited, <<c.key, c.version>>).from = <<c.key, c.version>>
<1>1. c.key \in Packages /\ c.version \in Nat
  BY HubAssumption DEF SyncCall, Versions
<1> QED BY <1>1, CopyTyped

LEMMA SyncTypes ==
  ASSUME HubInv, ClientTypes, NEW u \in Clients, SyncType(u) \/ SyncRecipe(u) \/ SyncSidecar(u)
  PROVE  ClientTypes'
<1>1. PICK c : c = client[u]
  OBVIOUS
<1>2. c \in SyncCall
  BY <1>1, CallPhases DEF SyncType, SyncRecipe, SyncSidecar, InPhase, ClientTypes
<1>3. /\ \A pin : [c EXCEPT !.pins = @ \ {pin}] \in SyncCall
      /\ [c EXCEPT !.phase = "sidecar"] \in SyncCall /\ [c EXCEPT !.phase = "count"] \in SyncCall
  BY <1>2 DEF SyncCall
<1>4. \A d \in SyncCall : d \in Call /\ d.phase # "publish"
  BY DEF SyncCall, Call
<1>5. CASE SyncType(u)
  BY BecomeTyped, <1>1, <1>3, <1>4, <1>5 DEF SyncType
<1>6. CASE SyncRecipe(u)
  <2>1. PICK s, f : s = SlugOf(c.key) /\ f = Copy(c.body, FALSE, <<c.key, c.version>>)
    OBVIOUS
  <2>2. s \in Slugs /\ f \in File
    BY <1>2, <2>1, RecipeCopyTyped, HubAssumption DEF SyncCall, SlugOf
  <2>3. file' = [file EXCEPT ![u][s] = f]
    BY <1>1, <1>6, <2>1 DEF SyncRecipe
  <2>4. PICK d : d = [c EXCEPT !.phase = "sidecar"]
    OBVIOUS
  <2>5. Become(u, d) /\ d \in Call /\ d.phase # "publish"
    BY <1>1, <1>3, <1>4, <1>6, <2>4 DEF SyncRecipe
  <2> QED BY <2>2, <2>3, <2>5, WrittenTyped
<1>7. CASE SyncSidecar(u)
  BY BecomeTyped, <1>1, <1>3, <1>4, <1>7 DEF SyncSidecar
<1> QED BY <1>5, <1>6, <1>7

LEMMA CutTypes ==
  ASSUME HubInv, ClientTypes, NEW u \in Clients, CutShort(u)
  PROVE  ClientTypes'
<1>1. Become(u, None)
  BY DEF CutShort
<1>2. CASE TypeCut(u) \/ SidecarCut(u)
  BY <1>1, <1>2, BecomeTyped DEF TypeCut, SidecarCut
<1>3. CASE RecipeCut(u)
  <2>1. PICK c, s : c = client[u] /\ s = SlugOf(c.key)
    OBVIOUS
  <2>2. c \in SyncCall /\ s \in Slugs
    BY <1>3, <2>1, CallPhases, HubAssumption DEF RecipeCut, InPhase, ClientTypes, SlugOf
  <2>3. PICK left : /\ left = Torn \/ \E body \in Recipes : left = Copy(body, TRUE, <<c.key, c.version>>)
                    /\ file' = [file EXCEPT ![u][s] = left]
    BY <1>3, <2>1 DEF RecipeCut
  <2>4. left \in File \cup {Torn}
    BY <2>2, <2>3, RecipeCopyTyped
  <2> QED BY <1>1, <2>2, <2>3, <2>4, WrittenTyped
<1> QED BY <1>2, <1>3 DEF CutShort

LEMMA ClientTypesStep ==
  HubInv /\ TypeInv /\ ClientTypes /\ [ClientNext]_allVars => ClientTypes'
<1> SUFFICES ASSUME HubInv, TypeInv, ClientTypes, [ClientNext]_allVars PROVE ClientTypes'
  OBVIOUS
<1>1. CASE UNCHANGED allVars
  BY <1>1 DEF allVars, ClientTypes, InPhase
<1>2. ASSUME NEW w \in Workers, HubStep(w) PROVE ClientTypes'
  <2>1. UNCHANGED file /\ \A u \in Clients : client'[u] \in {client[u], None}
    BY <1>2 DEF HubStep, local, ClientTypes
  <2>2. client' \in [Clients -> Call \cup {None}]
    BY <1>2 DEF HubStep, ClientTypes
  <2> QED BY <2>1, <2>2 DEF ClientTypes, InPhase
<1>3. ASSUME NEW u \in Clients, ClientStep(u) PROVE ClientTypes'
  <2>1. ASSUME NEW s \in Slugs, NEW body \in Recipes, Edit(u, s, body) PROVE ClientTypes'
    <3>1. PICK from : from = IF Whole(file[u][s]) THEN file[u][s].from ELSE None
      OBVIOUS
    <3>2. from \in (Packages \X Nat) \cup {None}
      BY <3>1, WholeFiles DEF ClientTypes, File
    <3>3. file' = [file EXCEPT ![u][s] = Copy(body, TRUE, from)]
      BY <2>1, <3>1 DEF Edit, ClientTypes
    <3>4. PICK f : f = Copy(body, TRUE, from)
      OBVIOUS
    <3>5. f \in File
      BY <3>2, <3>4, CopyTyped
    <3>6. file' = [file EXCEPT ![u][s] = f] /\ client' = client
      BY <2>1, <3>3, <3>4 DEF Edit
    <3> QED BY <3>5, <3>6, WrittenTyped
  <2>2. ASSUME NEW w \in Workers, NEW s \in Slugs, PublishStart(w, u, s) PROVE ClientTypes'
    <3>1. PICK sent \in Recipes : Become(u, [phase |-> "publish", worker |-> w, key |-> <<u, s>>, body |-> sent])
      BY <2>2 DEF PublishStart
    <3>2. <<u, s>> \in Packages /\ file[u][s] \in File /\ UNCHANGED file
      BY <2>2, WholeFiles DEF PublishStart, ClientTypes, local
    <3>3. PICK c : c = [phase |-> "publish", worker |-> w, key |-> <<u, s>>, body |-> sent]
      OBVIOUS
    <3>4. c \in Call /\ SlugOf(c.key) = s
      BY <3>2, <3>3, Owner DEF Call, PublishCall
    <3> QED BY BecomeTyped, <3>1, <3>2, <3>3, <3>4
  <2>3. CASE PublishEnd(u)
    BY <2>3, PublishEndTypes
  <2>4. ASSUME NEW p \in Packages, NEW n \in Versions, SyncStart(u, p, n) PROVE ClientTypes'
    BY <2>4, FetchTypes DEF SyncStart, local
  <2>5. ASSUME NEW w \in Workers, NEW up \in Packages, NEW s \in Slugs, ForkStart(w, u, up, s) PROVE ClientTypes'
    <3>1. [phase |-> "fork", worker |-> w, key |-> <<u, s>>] \in Call
      BY <2>5 DEF ForkStart, Call, ForkCall
    <3> QED BY BecomeTyped, <2>5, <3>1 DEF ForkStart, local
  <2>6. CASE ForkEnd(u)
    <3>1. [phase |-> "fetch", key |-> client[u].key, version |-> 1] \in Call
      BY <2>6, CallPhases, HubAssumption DEF ForkEnd, InPhase, ClientTypes, Call, FetchCall, Versions
    <3> QED BY BecomeTyped, <2>6, <3>1 DEF ForkEnd, local
  <2>7. CASE ForkFetch(u)
    <3>1. client[u].key \in Packages /\ client[u].version \in Versions
      BY <2>7, CallPhases DEF ForkFetch, InPhase, ClientTypes
    <3> QED BY <2>7, <3>1, FetchTypes DEF ForkFetch, local
  <2>8. CASE (\E w \in Workers : SyncCount(w, u)) \/ ClientDies(u)
    BY BecomeTyped, <2>8 DEF SyncCount, ClientDies, local
  <2> QED BY <1>3, <2>1, <2>2, <2>3, <2>4, <2>5, <2>6, <2>7, <2>8, SyncTypes, CutTypes DEF ClientStep
<1> QED BY <1>1, <1>2, <1>3 DEF ClientNext

(* Whatever the clients do and wherever they die, the hub sees requests    *)
(* that it may see anyway: what is proved of the hub holds beside clients. *)
THEOREM ClientsUseTheHub == ClientSpec => Spec
<1>1. ClientInit => Init /\ HubInv /\ TypeInv /\ ClientTypes
  <2>1. Init => HubInv
    BY HubAssumption DEF Init, HubInv, StoreInv, HasUpTo, Versions
  <2>2. Init => TypeInv
    BY DEF Init, TypeInv
  <2>3. ClientInit => ClientTypes
    BY DEF ClientInit, ClientTypes, InPhase
  <2> QED BY <2>1, <2>2, <2>3 DEF ClientInit
<1>2. HubInv /\ TypeInv /\ ClientTypes /\ [ClientNext]_allVars
        => [Next]_vars /\ HubInv' /\ TypeInv' /\ ClientTypes'
  BY ClientsOnHub, HubInvStep, TypeInvStep, ClientTypesStep
<1> QED BY <1>1, <1>2, PTL DEF ClientSpec, Spec

LEMMA ClientTypesHold == ClientSpec => []ClientTypes
<1>1. ClientInit => ClientTypes
  BY DEF ClientInit, ClientTypes, InPhase
<1>2. HubInv /\ TypeInv /\ ClientTypes /\ [ClientNext]_allVars => ClientTypes'
  BY ClientTypesStep
<1> QED BY <1>1, <1>2, ClientsUseTheHub, HubInvHolds, RequestsAreTyped, PTL DEF ClientSpec

-------------------------------------------------------------------------------
(* The request behind a call.                                              *)

(* The artifact of version n of p is there; b is it, unless requests for p *)
(* raced or died.                                                          *)
Held(p, n, b) ==
  /\ n \in Versions /\ ver[p][n] # None
  /\ p \notin contended \cup died => ver[p][n] = b

(* Request r is the publish of body under key p.                           *)
PublishOf(r, p, body) ==
  /\ r # None /\ r.op = "publish" /\ r.key = p
  /\ r.pc # "done" => r.body = body
  /\ r.pc \in {"meta", "index"} => r.version \in Versions /\ ver[p][r.version] # None
  /\ r.pc = "done" /\ r.status = "created" => Held(p, r.version, body)

ForkOf(r, p) == r # None /\ r.op = "fork" /\ r.key = p

LEMMA HeldStays ==
  ASSUME ArtifactsStand, NEW p \in Packages, NEW n, NEW b, Held(p, n, b)
  PROVE  Held(p, n, b)'
BY DEF Held, ArtifactsStand

LEMMA PublishStays ==
  ASSUME ArtifactsStand, NEW p \in Packages, NEW body, NEW w, PublishOf(req[w], p, body), req'[w] = req[w]
  PROVE  PublishOf(req[w], p, body)'
BY HeldStays DEF PublishOf, ArtifactsStand

LEMMA RequestSome ==
  ASSUME HubInv, TypeInv, NEW w \in Workers, Step(w)
  PROVE  req'[w] # None
BY StepTyped, NoneIsNothingElse DEF Typed

LEMMA ListMoves ==
  ASSUME HubInv, NEW w \in Workers, IsRequest(req[w]), IndexRead(w) \/ IndexWrite(w)
  PROVE  \E x : req' = [req EXCEPT ![w] = x] /\ Moved(x, req[w], req[w].pc)
<1>1. PICK r : r = req[w]
  OBVIOUS
<1>2. CASE IndexRead(w)
  BY <1>2, ListEdits DEF IndexRead
<1>3. CASE IndexWrite(w)
  <2>1. PICK x : x = [r EXCEPT !.todo = Tail(r.todo), !.list = None]
    OBVIOUS
  <2>2. req' = [req EXCEPT ![w] = x]
    BY <1>1, <1>3, <2>1 DEF IndexWrite, HubInv
  <2>3. Moved(x, r, r.pc)
    BY <1>1, <2>1, ListEdits
  <2> QED BY <1>1, <2>2, <2>3
<1> QED BY <1>2, <1>3

LEMMA PublishSteps ==
  ASSUME HubInv, TypeInv, AckInv, ArtifactsStand, NEW w \in Workers, Step(w),
         NEW p \in Packages, NEW body \in Recipes, PublishOf(req[w], p, body)
  PROVE  PublishOf(req[w], p, body)'
<1>1. PICK r : r = req[w]
  OBVIOUS
<1>2. req'[w] # None
  BY RequestSome
<1>3. r # None /\ r.op = "publish" /\ r.key = p /\ (r.pc # "done" => r.body = body)
  BY <1>1 DEF PublishOf
<1>4. r.pc # "done"
  BY <1>1 DEF Step, PublishPrior, PutVersion, PutMeta, IndexRead, IndexWrite, IndexDone, StarKey, StarPut,
     StarMeta, DownloadPut, ForkRead, ForkCheck, ForkBump, TypeHash, TypePrior, TypePut, TypePutHash,
     TypeMeta, TypeExtends, At
<1>5. /\ IsRequest(r) /\ r.body = body /\ PackageRequestSound(r, ver) /\ PackageOwn(r, contended, pkg, ver)
      /\ r.pc \in {"meta", "index"} => r.version \in Versions /\ ver[p][r.version] # None
  <2>1. Busy(w)
    BY <1>1, <1>3, <1>4 DEF Busy
  <2> QED BY <1>1, <1>3, <1>4, <2>1 DEF HubInv, RequestSound, AckInv, Own, PublishOf
<1>6. r.pc \in {"prior", "put", "meta", "index"}
  BY <1>3, <1>5 DEF PackageRequestSound
<1>7. ASSUME NEW x, Moved(x, r, x.pc), req'[w] = x, x.pc \in {"meta", "index"} => r.pc \in {"meta", "index"}, x.pc # "done"
      PROVE  PublishOf(req[w], p, body)'
  BY <1>2, <1>3, <1>5, <1>7 DEF PublishOf, Moved, Changed, ArtifactsStand
<1>8. PublishPrior(w) \/ PutVersion(w) \/ PutMeta(w) \/ IndexRead(w) \/ IndexWrite(w) \/ IndexDone(w)
  BY <1>1, <1>6 DEF Step, StarKey, StarPut,
     StarMeta, DownloadPut, ForkRead, ForkCheck, ForkBump, TypeHash, TypePrior, TypePut, TypePutHash,
     TypeMeta, TypeExtends, At
<1>9. CASE PublishPrior(w)
  <2>1. PICK val : Goto(w, [r EXCEPT !.prior = val], "put")
    BY <1>1, <1>9 DEF PublishPrior
  <2>2. PICK x : x = [[r EXCEPT !.prior = val] EXCEPT !.pc = "put"]
    OBVIOUS
  <2>3. Moved(x, r, "put")
    BY <1>5, <2>2, Edits DEF Pcs
  <2>4. req'[w] = x
    BY <2>1, <2>2 DEF Goto, HubInv
  <2> QED BY <1>7, <2>3, <2>4 DEF Moved, Changed
<1>10. CASE PutVersion(w)
  <2>1. PICK k : k = NextVersion(r)
    OBVIOUS
  <2>2. PICK x : x = [[r EXCEPT !.version = k] EXCEPT !.pc = "meta"]
    OBVIOUS
  <2>3. Changed(x, r, "meta", body, k)
    BY <1>5, <2>2, Edits DEF Pcs
  <2>4. req'[w] = x /\ ver' = [ver EXCEPT ![p][k] = body]
    BY <1>1, <1>3, <1>5, <1>10, <2>1, <2>2 DEF PutVersion, Goto, HubInv
  <2>5. k \in Versions
    BY <1>1, <1>3, <1>5, <1>10, <2>1 DEF PutVersion, At, PackageRequestSound
  <2>6. ver'[p][k] = body /\ body # None
    BY <2>4, <2>5, HubAssumption DEF HubInv, StoreInv
  <2> QED BY <1>2, <1>3, <2>3, <2>4, <2>5, <2>6 DEF PublishOf, Changed
<1>11. CASE PutMeta(w)
  <2>1. PICK val : Goto(w, [r EXCEPT !.todo = val], "index")
    BY <1>1, <1>11 DEF PutMeta
  <2>2. PICK x : x = [[r EXCEPT !.todo = val] EXCEPT !.pc = "index"]
    OBVIOUS
  <2>3. Moved(x, r, "index") /\ r.pc = "meta"
    BY <1>1, <1>5, <1>11, <2>2, Edits DEF Pcs, PutMeta, At
  <2>4. req'[w] = x
    BY <2>1, <2>2 DEF Goto, HubInv
  <2> QED BY <1>7, <2>3, <2>4 DEF Moved, Changed
<1>12. CASE IndexRead(w) \/ IndexWrite(w)
  <2>1. PICK x : req' = [req EXCEPT ![w] = x] /\ Moved(x, r, r.pc)
    BY <1>1, <1>5, <1>12, ListMoves
  <2>2. req'[w] = x
    BY <2>1 DEF HubInv
  <2> QED BY <1>4, <1>7, <2>1, <2>2 DEF Moved, Changed
<1>13. CASE IndexDone(w)
  <2>1. r.pc = "index" /\ Reply(w, r, "created")
    BY <1>1, <1>3, <1>6, <1>13 DEF IndexDone, At
  <2>2. req'[w].pc = "done" /\ req'[w].op = r.op /\ req'[w].key = r.key /\ req'[w].version = r.version
    BY <2>1, AfterReply
  <2>3. r.version \in Versions /\ ver[p][r.version] # None /\ (p \notin contended => ver[p][r.version] = body)
    BY <1>3, <1>5, <2>1 DEF PackageOwn
  <2>4. Held(p, r.version, body)'
    BY <2>3 DEF Held, ArtifactsStand
  <2> QED BY <1>2, <1>3, <2>2, <2>4 DEF PublishOf
<1> QED BY <1>8, <1>9, <1>10, <1>11, <1>12, <1>13

LEMMA ForkSteps ==
  ASSUME HubInv, TypeInv, NEW w \in Workers, Step(w), NEW p, ForkOf(req[w], p)
  PROVE  ForkOf(req[w], p)'
<1>1. PICK r : r = req[w]
  OBVIOUS
<1>2. req'[w] # None
  BY RequestSome
<1>3. r # None /\ r.op = "fork" /\ r.key = p /\ IsRequest(r)
  BY <1>1 DEF ForkOf, HubInv, RequestSound
<1>4. \A val : /\ IsRequest([r EXCEPT !.version = val]) /\ [r EXCEPT !.version = val].op = r.op /\ [r EXCEPT !.version = val].key = r.key
               /\ IsRequest([r EXCEPT !.prior = val]) /\ [r EXCEPT !.prior = val].op = r.op /\ [r EXCEPT !.prior = val].key = r.key
               /\ IsRequest([r EXCEPT !.todo = val]) /\ [r EXCEPT !.todo = val].op = r.op /\ [r EXCEPT !.todo = val].key = r.key
               /\ IsRequest([r EXCEPT !.body = val]) /\ [r EXCEPT !.body = val].op = r.op /\ [r EXCEPT !.body = val].key = r.key
  BY <1>3 DEF IsRequest
<1>5. PublishPrior(w) \/ PutVersion(w) \/ PutMeta(w) \/ IndexRead(w) \/ IndexWrite(w) \/ IndexDone(w)
      \/ ForkRead(w) \/ ForkCheck(w) \/ ForkBump(w)
  <2>1. r.pc # "done" => PackageRequestSound(r, ver)
    BY <1>1, <1>3 DEF HubInv, RequestSound
  <2> QED BY <1>1, <1>3, <2>1 DEF PackageRequestSound, Step, StarKey, StarPut, StarMeta, DownloadPut,
     TypeHash, TypePrior, TypePut, TypePutHash, TypeMeta, TypeExtends, At
<1>6. CASE IndexRead(w) \/ IndexWrite(w)
  <2>1. PICK x : req' = [req EXCEPT ![w] = x] /\ Moved(x, r, r.pc)
    BY <1>1, <1>3, <1>6, ListMoves
  <2>2. req'[w] = x
    BY <2>1 DEF HubInv
  <2> QED BY <1>2, <1>3, <2>1, <2>2 DEF ForkOf, Moved, Changed
<1>7. CASE PublishPrior(w) \/ PutVersion(w) \/ PutMeta(w) \/ IndexDone(w) \/ ForkRead(w) \/ ForkCheck(w) \/ ForkBump(w)
  <2>1. \E q : /\ IsRequest(q) /\ q.op = r.op /\ q.key = r.key
               /\ (\E pc : Goto(w, q, pc)) \/ (\E status : Reply(w, q, status))
    <3>1. CASE IndexDone(w) \/ ForkCheck(w) \/ ForkBump(w)
      BY <1>1, <1>3, <3>1 DEF IndexDone, ForkCheck, ForkBump
    <3>2. CASE PublishPrior(w) \/ PutVersion(w)
      BY <1>1, <1>4, <3>2 DEF PublishPrior, PutVersion
    <3>3. CASE PutMeta(w)
      BY <1>1, <1>4, <3>3 DEF PutMeta
    <3>4. CASE ForkRead(w)
      BY <1>1, <1>3, <1>4, <3>4 DEF ForkRead
    <3> QED BY <1>7, <3>1, <3>2, <3>3, <3>4
  <2>2. req'[w].op = r.op /\ req'[w].key = r.key
    BY <2>1, AfterGoto, AfterReply
  <2> QED BY <1>2, <1>3, <2>2 DEF ForkOf
<1> QED BY <1>5, <1>6, <1>7

-------------------------------------------------------------------------------
(* What a client knows at each step of its call.                           *)

PublishTie(u) ==
  InPhase(u, "publish") => /\ client[u].key[1] = u
                           /\ PublishOf(req[client[u].worker], client[u].key, client[u].body)
                           /\ side[u][SlugOf(client[u].key)] # Torn

ForkTie(u) ==
  InPhase(u, "fork") => client[u].key[1] = u /\ ForkOf(req[client[u].worker], client[u].key)

Syncs(u) == client[u] # None /\ client[u].phase \in {"types", "sidecar", "count"}

InSidecar(u, s) == InPhase(u, "sidecar") /\ SlugOf(client[u].key) = s

SyncTie(u) == Syncs(u) => Held(client[u].key, client[u].version, client[u].body)

(* The sidecar that sync found, and did not refuse.                        *)
TypesTie(u) ==
  InPhase(u, "types") =>
    LET c == client[u]
        m == side[u][SlugOf(c.key)]
    IN  m \in Sidecar /\ m.author = c.key[1] => m.base < c.version

(* The recipe was written, and may have been edited since.                 *)
FileTie(u, s) ==
  InSidecar(u, s) => /\ file[u][s] \in File
                     /\ file[u][s].from = <<client[u].key, client[u].version>>

(* An unedited file is the version it came from.                           *)
Genuine(u, s) ==
  file[u][s] \in File /\ ~file[u][s].edited =>
    /\ file[u][s].from \in Packages \X Nat
    /\ Held(file[u][s].from[1], file[u][s].from[2], file[u][s].body)

(* What a sidecar names is there, and not ahead of its file.               *)
Named(u, s) ==
  side[u][s] \in Sidecar =>
    LET f == file[u][s]
        m == side[u][s]
        p == <<m.author, s>>
    IN  /\ p \in Packages /\ ver[p][m.base] # None
        /\ f \in File /\ f.from # None /\ f.from[1] = p => m.base <= f.from[2]
        /\ u \notin crashed /\ ~InSidecar(u, s) => f \in File /\ f.from = <<p, m.base>>

Clean(u, s) == Genuine(u, s) /\ Named(u, s)

CallInv(u) ==
  /\ PublishTie(u) /\ ForkTie(u) /\ SyncTie(u) /\ TypesTie(u)
  /\ \A s \in Slugs : FileTie(u, s) /\ Clean(u, s)

ClientInv ==
  /\ side \in [Clients -> [Slugs -> Sidecar \cup {None, Torn}]]
  /\ \A u \in Clients : CallInv(u)

(* A version that is named stays.                                          *)
LEMMA NamedStays ==
  ASSUME NEW u, NEW s, Named(u, s), ArtifactsStand,
         file'[u][s] = file[u][s], side'[u][s] = side[u][s], crashed \subseteq crashed',
         InSidecar(u, s) => InSidecar(u, s)' \/ u \in crashed'
  PROVE  Named(u, s)'
<1>1. PICK f, m : f = file[u][s] /\ m = side[u][s]
  OBVIOUS
<1>2. PICK p : p = <<m.author, s>>
  OBVIOUS
<1>3. m \in Sidecar =>
        /\ p \in Packages /\ ver[p][m.base] # None
        /\ f \in File /\ f.from # None /\ f.from[1] = p => m.base <= f.from[2]
        /\ u \notin crashed /\ ~InSidecar(u, s) => f \in File /\ f.from = <<p, m.base>>
  BY <1>1, <1>2 DEF Named
<1>4. m \in Sidecar => m.base \in Versions
  BY DEF Sidecar
<1>5. m \in Sidecar => ver'[p][m.base] # None
  BY <1>3, <1>4 DEF ArtifactsStand
<1> QED BY <1>1, <1>2, <1>3, <1>5 DEF Named

LEMMA GenuineStays ==
  ASSUME NEW u, NEW s, Genuine(u, s), ArtifactsStand, file'[u][s] = file[u][s]
  PROVE  Genuine(u, s)'
<1>1. PICK f : f = file[u][s]
  OBVIOUS
<1>2. f \in File /\ ~f.edited => f.from \in Packages \X Nat /\ Held(f.from[1], f.from[2], f.body)
  BY <1>1 DEF Genuine
<1>3. f \in File /\ ~f.edited => f.from[1] \in Packages
  BY <1>2
<1>4. f \in File /\ ~f.edited => Held(f.from[1], f.from[2], f.body)'
  BY <1>2, <1>3, HeldStays
<1> QED BY <1>1, <1>2, <1>4 DEF Genuine

(* A file and a sidecar that nothing writes.                               *)
LEMMA CleanStays ==
  ASSUME NEW u \in Clients, CallInv(u), ArtifactsStand, NEW s \in Slugs,
         file'[u][s] = file[u][s], side'[u][s] = side[u][s], crashed \subseteq crashed',
         InSidecar(u, s) => InSidecar(u, s)' \/ u \in crashed'
  PROVE  Clean(u, s)'
BY NamedStays, GenuineStays DEF CallInv, Clean

(* A client that does nothing, while artifacts stand and the request it    *)
(* waits for goes on.                                                      *)
LEMMA CallStays ==
  ASSUME ClientTypes, NEW u \in Clients, CallInv(u), ArtifactsStand,
         client'[u] = client[u], file'[u] = file[u], side'[u] = side[u], crashed \subseteq crashed',
         InPhase(u, "publish") => PublishOf(req[client[u].worker], client[u].key, client[u].body)',
         InPhase(u, "fork") => ForkOf(req[client[u].worker], client[u].key)'
  PROVE  CallInv(u)'
<1>1. PublishTie(u)' /\ ForkTie(u)'
  BY DEF CallInv, PublishTie, ForkTie, InPhase
<1>2. SyncTie(u)'
  <2>1. Syncs(u) => client[u].key \in Packages
    BY CallPhases DEF Syncs, ClientTypes
  <2>2. PICK c : c = client[u]
    OBVIOUS
  <2>3. Syncs(u) => Held(c.key, c.version, c.body)'
    BY <2>1, <2>2, HeldStays DEF CallInv, SyncTie
  <2> QED BY <2>2, <2>3 DEF SyncTie, Syncs
<1>3. \A s \in Slugs : FileTie(u, s)'
  BY DEF CallInv, FileTie, InSidecar, InPhase
<1>4. \A s \in Slugs : Clean(u, s)'
  BY CleanStays DEF InSidecar, InPhase
<1>5. TypesTie(u)'
  BY DEF CallInv, TypesTie, InPhase
<1> QED BY <1>1, <1>2, <1>3, <1>4, <1>5 DEF CallInv

(* A client that goes on to another step and writes nothing; the step      *)
(* between a recipe and its sidecar is left alive only by writing.         *)
LEMMA CallTurns ==
  ASSUME NEW u \in Clients, CallInv(u), ArtifactsStand,
         file'[u] = file[u], side'[u] = side[u], crashed \subseteq crashed',
         InPhase(u, "sidecar") => u \in crashed', ~InPhase(u, "sidecar")',
         PublishTie(u)', ForkTie(u)', SyncTie(u)', TypesTie(u)'
  PROVE  CallInv(u)'
<1>1. \A s \in Slugs : FileTie(u, s)'
  BY DEF FileTie, InSidecar
<1>2. \A s \in Slugs : Clean(u, s)'
  BY CleanStays DEF InSidecar
<1> QED BY <1>1, <1>2 DEF CallInv

LEMMA CallEnds ==
  ASSUME NEW u \in Clients, CallInv(u), ArtifactsStand,
         client'[u] = None, file'[u] = file[u], side'[u] = side[u], crashed \subseteq crashed',
         InPhase(u, "sidecar") => u \in crashed'
  PROVE  CallInv(u)'
<1>1. PublishTie(u)' /\ ForkTie(u)' /\ SyncTie(u)' /\ TypesTie(u)' /\ ~InPhase(u, "sidecar")'
  BY DEF PublishTie, ForkTie, SyncTie, TypesTie, Syncs, InPhase
<1> QED BY <1>1, CallTurns

(* The other clients: the requests they wait for are not those of u.       *)
LEMMA OthersStay ==
  ASSUME ClientTypes, ClientInv, ArtifactsStand, NEW u, NEW v \in Clients, v # u,
         client'[v] = client[v], file'[v] = file[v], side'[v] = side[v], crashed \subseteq crashed',
         NEW w \in Workers, \A x \in Workers \ {w} : req'[x] = req[x],
         req[w] = None \/ req'[w] = req[w] \/ (req[w].key)[1] = u
  PROVE  CallInv(v)'
<1>1. PICK c : c = client[v]
  OBVIOUS
<1>2. CallInv(v)
  BY DEF ClientInv
<1>3. ASSUME InPhase(v, "publish") PROVE PublishOf(req[client[v].worker], client[v].key, client[v].body)'
  <2>1. c.worker \in Workers /\ c.key \in Packages /\ c.key[1] = v /\ PublishOf(req[c.worker], c.key, c.body)
    BY <1>1, <1>2, <1>3, CallPhases DEF CallInv, PublishTie, InPhase, ClientTypes
  <2>2. req'[c.worker] = req[c.worker]
    BY <2>1 DEF PublishOf
  <2>3. PublishOf(req[c.worker], c.key, c.body)'
    BY <2>1, <2>2, PublishStays
  <2> QED BY <1>1, <2>3
<1>4. ASSUME InPhase(v, "fork") PROVE ForkOf(req[client[v].worker], client[v].key)'
  <2>1. c.worker \in Workers /\ c.key[1] = v /\ ForkOf(req[c.worker], c.key)
    BY <1>1, <1>2, <1>4, CallPhases DEF CallInv, ForkTie, InPhase, ClientTypes
  <2>2. req'[c.worker] = req[c.worker]
    BY <2>1 DEF ForkOf
  <2> QED BY <1>1, <2>1, <2>2 DEF ForkOf
<1> QED BY <1>2, <1>3, <1>4, CallStays

(* The hub by itself.                                                      *)
LEMMA HubAsks ==
  ASSUME HubInv, NEW w \in Workers, HubStep(w)
  PROVE  /\ \/ Die(w) /\ client' = [u \in Clients |-> IF WaitsOn(u, w) THEN None ELSE client[u]]
            \/ (Step(w) \/ Arrival(w)) /\ client' = client
            \/ Deliver(w) /\ (\A u \in Clients : ~WaitsOn(u, w)) /\ client' = client
         /\ StepOf(w)
<1>1. \/ Die(w) /\ client' = [u \in Clients |-> IF WaitsOn(u, w) THEN None ELSE client[u]]
      \/ (Step(w) \/ Arrival(w)) /\ client' = client
      \/ Deliver(w) /\ (\A u \in Clients : ~WaitsOn(u, w)) /\ client' = client
  <2>1. (\E t \in TypeKeys, body \in TypeBodies : PublishType(w, t, body, CurrentBase(t))) => Arrival(w)
    BY PublishTypeIsArrival
  <2>2. (\E p \in Packages, body \in Recipes : Publish(w, p, body, CurrentBase(p))) => Arrival(w)
    BY PublishIsArrival
  <2> QED BY <2>1, <2>2 DEF HubStep
<1> QED BY <1>1, StepIsOf

LEMMA ArrivalAtFree ==
  ASSUME NEW w, Arrival(w) PROVE req[w] = None
<1>1. PICK x : Arrive(w, x)
  BY DEF Arrival, Publish, PublishType, Download, Star, Fork
<1> QED BY <1>1 DEF Arrive

(* A request that a client waits for goes on, unless it dies.              *)
LEMMA WaitGoesOn ==
  ASSUME HubInv, TypeInv, AckInv, ClientTypes, ArtifactsStand, NEW u \in Clients, CallInv(u),
         NEW w \in Workers, StepOf(w),
         Step(w) \/ Arrival(w) \/ ~WaitsOn(u, w)
  PROVE  /\ InPhase(u, "publish") => PublishOf(req[client[u].worker], client[u].key, client[u].body)'
                                     \/ client'[u] # client[u]
         /\ InPhase(u, "fork") => ForkOf(req[client[u].worker], client[u].key)'
                                  \/ client'[u] # client[u]
<1>1. PICK c : c = client[u]
  OBVIOUS
<1>2. ASSUME InPhase(u, "publish"), client'[u] = client[u]
      PROVE  PublishOf(req[client[u].worker], client[u].key, client[u].body)'
  <2>1. c.worker \in Workers /\ c.key \in Packages /\ c.body \in Recipes /\ PublishOf(req[c.worker], c.key, c.body)
    BY <1>1, <1>2, CallPhases DEF CallInv, PublishTie, InPhase, ClientTypes
  <2>2. CASE c.worker # w
    <3>1. req'[c.worker] = req[c.worker]
      BY <2>1, <2>2 DEF StepOf
    <3>2. PublishOf(req[c.worker], c.key, c.body)'
      BY <2>1, <3>1, PublishStays
    <3> QED BY <1>1, <1>2, <3>2
  <2>3. CASE c.worker = w
    <3>1. Step(w)
      BY <1>1, <1>2, <2>1, <2>3, ArrivalAtFree DEF WaitsOn, PublishOf
    <3>2. PublishOf(req[w], c.key, c.body)'
      BY <2>1, <2>3, <3>1, PublishSteps
    <3> QED BY <1>1, <1>2, <2>3, <3>2
  <2> QED BY <2>2, <2>3
<1>3. ASSUME InPhase(u, "fork"), client'[u] = client[u]
      PROVE  ForkOf(req[client[u].worker], client[u].key)'
  <2>1. c.worker \in Workers /\ ForkOf(req[c.worker], c.key)
    BY <1>1, <1>3, CallPhases DEF CallInv, ForkTie, InPhase, ClientTypes
  <2>2. CASE c.worker # w
    <3>1. req'[c.worker] = req[c.worker]
      BY <2>1, <2>2 DEF StepOf
    <3> QED BY <1>1, <1>3, <2>1, <3>1 DEF ForkOf
  <2>3. CASE c.worker = w
    <3>1. Step(w)
      BY <1>1, <1>3, <2>1, <2>3, ArrivalAtFree DEF WaitsOn, ForkOf
    <3>2. ForkOf(req[w], c.key)'
      BY <2>1, <2>3, <3>1, ForkSteps
    <3> QED BY <1>1, <1>3, <2>3, <3>2
  <2> QED BY <2>2, <2>3
<1> QED BY <1>2, <1>3

LEMMA HubStepKeepsCalls ==
  ASSUME HubInv, TypeInv, AckInv, ClientTypes, ClientInv, ArtifactsStand, NEW w \in Workers, HubStep(w)
  PROVE  ClientInv'
<1>1. UNCHANGED <<file, side, crashed>> /\ StepOf(w)
  BY HubAsks DEF HubStep, local
<1>2. ASSUME NEW u \in Clients PROVE CallInv(u)'
  <2>1. CallInv(u)
    BY DEF ClientInv
  <2>2. CASE Die(w) /\ WaitsOn(u, w) /\ client'[u] = None
    <3>1. ~InPhase(u, "sidecar")
      BY <2>2 DEF WaitsOn, InPhase
    <3> QED BY <1>1, <2>1, <2>2, <3>1, CallEnds
  <2>3. CASE client'[u] = client[u] /\ (Step(w) \/ Arrival(w) \/ ~WaitsOn(u, w))
    <3>1. /\ InPhase(u, "publish") => PublishOf(req[client[u].worker], client[u].key, client[u].body)'
          /\ InPhase(u, "fork") => ForkOf(req[client[u].worker], client[u].key)'
      BY <1>1, <2>1, <2>3, WaitGoesOn
    <3> QED BY <1>1, <2>1, <2>3, <3>1, CallStays
  <2> QED BY <2>2, <2>3, HubAsks
<1> QED BY <1>1, <1>2 DEF ClientInv

(* The steps of a client leave the other clients' calls alone.             *)
LEMMA OthersQuiet ==
  ASSUME ClientTypes, NEW v \in Clients, CallInv(v), UNCHANGED vars,
         client'[v] = client[v], file'[v] = file[v], side'[v] = side[v], crashed \subseteq crashed'
  PROVE  CallInv(v)'
<1>1. ArtifactsStand
  BY DEF vars, ArtifactsStand
<1>2. /\ InPhase(v, "publish") => PublishOf(req[client[v].worker], client[v].key, client[v].body)'
      /\ InPhase(v, "fork") => ForkOf(req[client[v].worker], client[v].key)'
  BY DEF CallInv, PublishTie, ForkTie, vars, PublishOf, ForkOf, Held
<1> QED BY <1>1, <1>2, CallStays

LEMMA LeavesOthers ==
  ASSUME ClientTypes, ClientInv, NEW u \in Clients, ClientStep(u), NEW v \in Clients, v # u
  PROVE  client'[v] = client[v] /\ file'[v] = file[v] /\ side'[v] = side[v] /\ crashed \subseteq crashed'
<1>1. client'[v] = client[v]
  BY DEF ClientStep, Edit, PublishStart, PublishEnd, SyncStart, ForkStart, ForkEnd, ForkFetch, SyncType,
     SyncRecipe, SyncSidecar, SyncCount, CutShort, ClientDies, Fetch, Become, ClientTypes
<1>2. file'[v] = file[v]
  BY DEF ClientStep, Edit, PublishStart, PublishEnd, SyncStart, ForkStart, ForkEnd, ForkFetch, SyncType,
     SyncRecipe, SyncSidecar, SyncCount, CutShort, TypeCut, RecipeCut, SidecarCut, ClientDies, local, ClientTypes
<1>3. side'[v] = side[v]
  BY DEF ClientStep, Edit, PublishStart, PublishEnd, SyncStart, ForkStart, ForkEnd, ForkFetch, SyncType,
     SyncRecipe, SyncSidecar, SyncCount, CutShort, TypeCut, RecipeCut, SidecarCut, ClientDies, local, ClientInv
<1>4. crashed \subseteq crashed'
  BY DEF ClientStep, Edit, PublishStart, PublishEnd, SyncStart, ForkStart, ForkEnd, ForkFetch, SyncType,
     SyncRecipe, SyncSidecar, SyncCount, CutShort, ClientDies
<1> QED BY <1>1, <1>2, <1>3, <1>4

LEMMA ClientKeepsOthers ==
  ASSUME HubInv, ClientTypes, ClientInv, ArtifactsStand, NEW u \in Clients, ClientStep(u), NEW v \in Clients, v # u
  PROVE  CallInv(v)'
<1>1. client'[v] = client[v] /\ file'[v] = file[v] /\ side'[v] = side[v] /\ crashed \subseteq crashed'
  BY LeavesOthers
<1>2. CASE UNCHANGED vars
  BY <1>1, <1>2, OthersQuiet DEF ClientInv
<1>3. ASSUME NEW w \in Workers, Arrival(w) PROVE CallInv(v)'
  <2>1. req[w] = None /\ \A x \in Workers \ {w} : req'[x] = req[x]
    BY <1>3, ArrivalAtFree, StepIsOf DEF StepOf
  <2> QED BY <1>1, <2>1, OthersStay
<1>4. CASE (InPhase(u, "publish") \/ InPhase(u, "fork")) /\ Deliver(client[u].worker)
  <2>1. PICK w : w = client[u].worker
    OBVIOUS
  <2>2. w \in Workers /\ (req[w].key)[1] = u
    BY <1>4, <2>1, CallPhases DEF InPhase, ClientTypes, ClientInv, CallInv, PublishTie, ForkTie, PublishOf, ForkOf
  <2>3. \A x \in Workers \ {w} : req'[x] = req[x]
    BY <1>4, <2>1, <2>2, StepIsOf DEF StepOf
  <2> QED BY <1>1, <2>2, <2>3, OthersStay
<1> QED BY <1>2, <1>3, <1>4, ClientAsks

(* The steps of a client in its own call.                                  *)
LEMMA Turned ==
  ASSUME ClientTypes, NEW u \in Clients, NEW c, Become(u, c)
  PROVE  client'[u] = c
BY DEF Become, ClientTypes

LEMMA EditOwn ==
  ASSUME ClientTypes, ClientInv, NEW u \in Clients, NEW s \in Slugs, NEW body \in Recipes, Edit(u, s, body)
  PROVE  CallInv(u)'
<1>1. UNCHANGED <<vars, side, client, crashed>> /\ CallInv(u) /\ ArtifactsStand
  BY DEF Edit, hub, vars, ArtifactsStand, ClientInv
<1>2. PICK old, from : old = file[u][s] /\ from = IF Whole(old) THEN old.from ELSE None
  OBVIOUS
<1>3. /\ old \in File \cup {None, Torn} /\ from \in (Packages \X Nat) \cup {None}
      /\ old \in File => from = old.from
      /\ old \notin File => from = None
  BY <1>2, WholeFiles DEF ClientTypes, File
<1>4. PICK f : f = Copy(body, TRUE, from)
  OBVIOUS
<1>5. f \in File /\ f.edited /\ f.from = from
  BY <1>3, <1>4 DEF Copy, File
<1>6. file'[u][s] = f /\ \A t \in Slugs : t # s => file'[u][t] = file[u][t]
  BY <1>2, <1>4 DEF Edit, ClientTypes
<1>7. PublishTie(u)' /\ ForkTie(u)' /\ SyncTie(u)' /\ TypesTie(u)'
  BY <1>1 DEF CallInv, PublishTie, ForkTie, SyncTie, TypesTie, Syncs, InPhase, vars, PublishOf, ForkOf, Held
<1>8. ASSUME NEW t \in Slugs PROVE FileTie(u, t)' /\ Clean(u, t)'
  <2>1. CASE t = s
    <3>1. FileTie(u, s)'
      <4>1. InSidecar(u, s) => old \in File /\ from = <<client[u].key, client[u].version>>
        BY <1>1, <1>2, <1>3 DEF CallInv, FileTie
      <4> QED BY <1>1, <1>5, <1>6, <4>1 DEF FileTie, InSidecar, InPhase
    <3>2. Genuine(u, s)'
      BY <1>5, <1>6 DEF Genuine
    <3>3. Named(u, s)'
      <4>1. PICK m, p : m = side[u][s] /\ p = <<m.author, s>>
        OBVIOUS
      <4>2. m \in Sidecar =>
              /\ p \in Packages /\ ver[p][m.base] # None
              /\ old \in File /\ old.from # None /\ old.from[1] = p => m.base <= old.from[2]
              /\ u \notin crashed /\ ~InSidecar(u, s) => old \in File /\ old.from = <<p, m.base>>
        BY <1>1, <1>2, <4>1 DEF CallInv, Clean, Named
      <4>3. /\ side'[u][s] = m /\ ver' = ver /\ file'[u][s] = f /\ crashed' = crashed
            /\ InSidecar(u, s)' <=> InSidecar(u, s)
        BY <1>1, <1>6, <4>1 DEF vars, InSidecar, InPhase
      <4> QED BY <1>3, <1>5, <4>1, <4>2, <4>3 DEF Named
    <3> QED BY <2>1, <3>1, <3>2, <3>3 DEF Clean
  <2>2. CASE t # s
    <3>1. FileTie(u, t)'
      BY <1>1, <1>6, <2>2 DEF FileTie, InSidecar, InPhase, CallInv
    <3>2. Clean(u, t)'
      BY <1>1, <1>6, <2>2, CleanStays DEF InSidecar, InPhase
    <3> QED BY <3>1, <3>2
  <2> QED BY <2>1, <2>2
<1> QED BY <1>7, <1>8 DEF CallInv

LEMMA PublishStartOwn ==
  ASSUME HubInv, TypeInv, ClientTypes, ClientInv, ArtifactsStand,
         NEW u \in Clients, NEW w \in Workers, NEW s \in Slugs, PublishStart(w, u, s)
  PROVE  CallInv(u)'
<1>1. PICK p, body, base : /\ p = <<u, s>> /\ p \in Packages /\ body \in Recipes
                           /\ Publish(w, p, body, base)
                           /\ Become(u, [phase |-> "publish", worker |-> w, key |-> p, body |-> body])
  BY DEF PublishStart
<1>2. UNCHANGED <<file, side, crashed>> /\ Idle(u) /\ body \in Recipes
  BY <1>1 DEF PublishStart, local, Called
<1>3. PICK c : c = [phase |-> "publish", worker |-> w, key |-> p, body |-> body]
  OBVIOUS
<1>4. client'[u] = c
  BY <1>1, <1>3, Turned
<1>5. PublishOf(req[w], p, body)'
  <2>1. Arrival(w)
    BY <1>1, <1>2, PublishIsArrival
  <2>2. req'[w] # None
    BY <2>1, StepTyped, NoneIsNothingElse DEF Typed
  <2>3. PICK r : r = Incoming("publish", p[1], p)
    OBVIOUS
  <2>4. PICK x, y : x = [r EXCEPT !.pc = "prior", !.body = body, !.seen = pkg[p]] /\ y = [r EXCEPT !.status = "stale_base"]
    OBVIOUS
  <2>5. /\ x.op = "publish" /\ x.key = p /\ x.pc = "prior" /\ x.body = body
        /\ y.op = "publish" /\ y.key = p /\ y.pc = "done" /\ y.status = "stale_base"
    BY <2>3, <2>4 DEF Incoming
  <2>6. req'[w] \in {x, y}
    BY <1>1, <2>3, <2>4 DEF Publish, Arrive, HubInv
  <2> QED BY <2>2, <2>5, <2>6 DEF PublishOf
<1>6. PublishTie(u)'
  <2>1. c.key[1] = u /\ c.worker = w /\ c.key = p /\ c.body = body /\ SlugOf(p) = s
    BY <1>1, <1>3, Owner
  <2>2. side'[u][s] # Torn
    BY <1>2 DEF PublishStart
  <2> QED BY <1>4, <1>5, <2>1, <2>2 DEF PublishTie
<1>7. ForkTie(u)' /\ SyncTie(u)' /\ TypesTie(u)' /\ ~InPhase(u, "sidecar")' /\ ~InPhase(u, "sidecar")
  BY <1>2, <1>3, <1>4 DEF ForkTie, SyncTie, TypesTie, Syncs, InPhase, Idle
<1> QED BY <1>2, <1>6, <1>7, CallTurns DEF ClientInv

LEMMA ForkStartOwn ==
  ASSUME HubInv, TypeInv, ClientTypes, ClientInv, ArtifactsStand,
         NEW u \in Clients, NEW w \in Workers, NEW up \in Packages, NEW s \in Slugs, ForkStart(w, u, up, s)
  PROVE  CallInv(u)'
<1>1. PICK p : p = <<u, s>> /\ p \in Packages
  BY DEF ForkStart
<1>2. UNCHANGED <<file, side, crashed>> /\ Idle(u) /\ Fork(w, u, up, s)
  BY DEF ForkStart, local, Called
<1>3. PICK c : c = [phase |-> "fork", worker |-> w, key |-> p]
  OBVIOUS
<1>4. client'[u] = c
  BY <1>1, <1>3, Turned DEF ForkStart
<1>5. ForkOf(req[w], p)'
  <2>1. Arrival(w)
    BY <1>1, <1>2, ClientAssumption DEF Arrival
  <2>2. req'[w] # None
    BY <2>1, StepTyped, NoneIsNothingElse DEF Typed
  <2>3. PICK r : r = [Incoming("fork", u, p) EXCEPT !.upstream = up, !.seen = pkg[up]]
    OBVIOUS
  <2>4. PICK x, y : x = [r EXCEPT !.status = "not_found"] /\ y = [r EXCEPT !.pc = "forkRead"]
    OBVIOUS
  <2>5. x.op = "fork" /\ x.key = p /\ y.op = "fork" /\ y.key = p
    BY <2>3, <2>4 DEF Incoming
  <2>6. req'[w] \in {x, y}
    BY <1>1, <1>2, <2>3, <2>4 DEF Fork, Arrive, HubInv
  <2> QED BY <2>2, <2>5, <2>6 DEF ForkOf
<1>6. ForkTie(u)'
  <2>1. c.key[1] = u /\ c.worker = w /\ c.key = p
    BY <1>1, <1>3
  <2> QED BY <1>4, <1>5, <2>1 DEF ForkTie
<1>7. PublishTie(u)' /\ SyncTie(u)' /\ TypesTie(u)' /\ ~InPhase(u, "sidecar")' /\ ~InPhase(u, "sidecar")
  BY <1>2, <1>3, <1>4 DEF PublishTie, SyncTie, TypesTie, Syncs, InPhase, Idle
<1> QED BY <1>2, <1>6, <1>7, CallTurns DEF ClientInv

LEMMA ForkEndOwn ==
  ASSUME ClientTypes, ClientInv, ArtifactsStand, NEW u \in Clients, ForkEnd(u)
  PROVE  CallInv(u)'
<1>1. PICK c : c = [phase |-> "fetch", key |-> client[u].key, version |-> 1]
  OBVIOUS
<1>2. UNCHANGED <<file, side, crashed>> /\ (client'[u] = None \/ client'[u] = c) /\ ~InPhase(u, "sidecar")
  BY <1>1, Turned DEF ForkEnd, local, InPhase
<1>3. PublishTie(u)' /\ ForkTie(u)' /\ SyncTie(u)' /\ TypesTie(u)' /\ ~InPhase(u, "sidecar")'
  BY <1>1, <1>2 DEF PublishTie, ForkTie, SyncTie, TypesTie, Syncs, InPhase
<1> QED BY <1>2, <1>3, CallTurns DEF ClientInv

(* What is fetched is the artifact, as it stands.                          *)
LEMMA FetchOwn ==
  ASSUME ClientTypes, ClientInv, NEW u \in Clients, NEW p \in Packages, NEW n \in Versions,
         Fetch(u, p, n), Idle(u) \/ InPhase(u, "fetch"), UNCHANGED <<vars, file, side, crashed>>
  PROVE  CallInv(u)'
<1>1. PICK c : c = [phase |-> "types", key |-> p, version |-> n, body |-> ver[p][n], pins |-> ver[p][n].pins]
  OBVIOUS
<1>2. client'[u] = None \/ (ver[p][n] # None /\ client'[u] = c)
  BY <1>1, Turned DEF Fetch
<1>3. ArtifactsStand /\ ~InPhase(u, "sidecar")
  BY DEF vars, ArtifactsStand, InPhase, Idle
<1>4. SyncTie(u)'
  BY <1>1, <1>2 DEF SyncTie, Syncs, Held, vars
<1>5. PublishTie(u)' /\ ForkTie(u)' /\ ~InPhase(u, "sidecar")'
  BY <1>1, <1>2 DEF PublishTie, ForkTie, InPhase
<1>6. TypesTie(u)'
  <2>1. PICK m : m = side[u][SlugOf(p)]
    OBVIOUS
  <2>2. client'[u] # None => ~(Whole(m) /\ m.author = p[1] /\ m.base >= n)
    BY <2>1, Turned DEF Fetch
  <2>3. m \in Sidecar => Whole(m) /\ m.base \in Versions
    BY WholeFiles DEF Sidecar
  <2>4. client'[u] # None /\ m \in Sidecar /\ m.author = p[1] => m.base < n
    BY <2>2, <2>3 DEF Versions
  <2> QED BY <1>1, <1>2, <2>1, <2>4 DEF TypesTie, InPhase
<1> QED BY <1>3, <1>4, <1>5, <1>6, CallTurns DEF ClientInv

LEMMA SyncTypeOwn ==
  ASSUME ClientTypes, ClientInv, NEW u \in Clients, SyncType(u)
  PROVE  CallInv(u)'
<1>1. PICK c : c = client[u]
  OBVIOUS
<1>2. UNCHANGED <<vars, file, side, crashed>> /\ ArtifactsStand
  BY DEF SyncType, hub, vars, ArtifactsStand
<1>3. c \in SyncCall /\ c.phase = "types" /\ Held(c.key, c.version, c.body) /\ ~InPhase(u, "sidecar")
  BY <1>1, CallPhases DEF SyncType, InPhase, ClientTypes, ClientInv, CallInv, SyncTie, Syncs
<1>4. client'[u] = None
      \/ \E d : client'[u] = d /\ d.phase = "types" /\ d.key = c.key /\ d.version = c.version /\ d.body = c.body
  <2>1. ASSUME NEW pin PROVE \E d : d = [c EXCEPT !.pins = @ \ {pin}] /\ d.phase = "types" /\ d.key = c.key
                                    /\ d.version = c.version /\ d.body = c.body
    <3>1. PICK d : d = [c EXCEPT !.pins = @ \ {pin}]
      OBVIOUS
    <3>2. d.phase = "types" /\ d.key = c.key /\ d.version = c.version /\ d.body = c.body
      BY <1>3, <3>1 DEF SyncCall
    <3> QED BY <3>1, <3>2
  <2>2. client'[u] = None \/ \E pin : client'[u] = [c EXCEPT !.pins = @ \ {pin}]
    BY <1>1, Turned DEF SyncType
  <2> QED BY <2>1, <2>2
<1>5. SyncTie(u)'
  BY <1>2, <1>3, <1>4 DEF SyncTie, Syncs, Held, vars
<1>6. PublishTie(u)' /\ ForkTie(u)' /\ ~InPhase(u, "sidecar")'
  BY <1>4 DEF PublishTie, ForkTie, InPhase
<1>7. TypesTie(u)'
  <2>1. TypesTie(u) /\ InPhase(u, "types")
    BY DEF ClientInv, CallInv, SyncType
  <2> QED BY <1>1, <1>2, <1>4, <2>1 DEF TypesTie, InPhase
<1> QED BY <1>2, <1>3, <1>5, <1>6, <1>7, CallTurns DEF ClientInv

(* The recipe fetched, or a shorter one, takes the place of what was there.*)
LEMMA RecipeStands ==
  ASSUME NEW u \in Clients, CallInv(u), NEW c \in SyncCall, c = client[u], InPhase(u, "types"),
         NEW s \in Slugs, s = SlugOf(c.key), Held(c.key, c.version, c.body),
         NEW f \in File, f.from = <<c.key, c.version>>, f.edited \/ f.body = c.body,
         file'[u][s] = f, side'[u][s] = side[u][s], UNCHANGED vars,
         crashed \subseteq crashed', InSidecar(u, s)' \/ u \in crashed'
  PROVE  Genuine(u, s)' /\ Named(u, s)'
<1>1. c.key \in Packages /\ c.version \in Nat
  BY HubAssumption DEF SyncCall, Versions
<1>2. PICK from : from = <<c.key, c.version>>
  OBVIOUS
<1>3. from \in Packages \X Nat /\ from[1] = c.key /\ from[2] = c.version /\ f.from = from
  BY <1>1, <1>2
<1>4. Genuine(u, s)'
  <2>1. Held(c.key, c.version, c.body)'
    BY DEF Held, vars
  <2> QED BY <1>3, <2>1 DEF Genuine
<1>5. Named(u, s)'
  <2>1. PICK m, p : m = side[u][s] /\ p = <<m.author, s>>
    OBVIOUS
  <2>2. m \in Sidecar => p \in Packages /\ ver[p][m.base] # None
    BY <2>1 DEF CallInv, Clean, Named
  <2>3. m \in Sidecar /\ m.author = c.key[1] => m.base < c.version
    BY <2>1 DEF CallInv, TypesTie
  <2>4. m \in Sidecar => m.base \in Nat
    BY DEF Sidecar, Versions
  <2>5. m \in Sidecar /\ from[1] = p => m.base <= from[2]
    <3>1. p[1] = m.author
      BY <2>1
    <3> QED BY <1>1, <1>3, <2>3, <2>4, <3>1
  <2>6. side'[u][s] = m /\ ver' = ver /\ (u \notin crashed' => InSidecar(u, s)')
    BY <2>1 DEF vars
  <2> QED BY <1>3, <2>1, <2>2, <2>5, <2>6 DEF Named
<1> QED BY <1>4, <1>5

LEMMA SyncRecipeOwn ==
  ASSUME ClientTypes, ClientInv, NEW u \in Clients, SyncRecipe(u)
  PROVE  CallInv(u)'
<1>1. PICK c, s : c = client[u] /\ s = SlugOf(c.key)
  OBVIOUS
<1>2. UNCHANGED <<vars, side, crashed>> /\ ArtifactsStand
  BY DEF SyncRecipe, hub, vars, ArtifactsStand
<1>3. c \in SyncCall /\ c.phase = "types" /\ Held(c.key, c.version, c.body) /\ ~InPhase(u, "sidecar") /\ s \in Slugs
  BY <1>1, CallPhases, HubAssumption
     DEF SyncRecipe, InPhase, ClientTypes, ClientInv, CallInv, SyncTie, Syncs, SlugOf
<1>4. PICK d : d = [c EXCEPT !.phase = "sidecar"]
  OBVIOUS
<1>5. d.phase = "sidecar" /\ d.key = c.key /\ d.version = c.version /\ d.body = c.body /\ d # None
  <2>1. d \in SyncCall
    BY <1>3, <1>4 DEF SyncCall
  <2>2. d \in Call
    BY <2>1 DEF Call
  <2> QED BY <1>3, <1>4, <2>2, ClientAssumption DEF SyncCall
<1>6. client'[u] = d
  BY <1>1, <1>4, Turned DEF SyncRecipe
<1>7. PICK f : f = Copy(c.body, FALSE, <<c.key, c.version>>)
  OBVIOUS
<1>8. f \in File /\ f.body = c.body /\ ~f.edited /\ f.from = <<c.key, c.version>>
  BY <1>3, <1>7, RecipeCopyTyped DEF SyncCall
<1>9. file'[u][s] = f /\ \A t \in Slugs : t # s => file'[u][t] = file[u][t]
  BY <1>1, <1>3, <1>7 DEF SyncRecipe, ClientTypes
<1>10. PublishTie(u)' /\ ForkTie(u)' /\ SyncTie(u)' /\ TypesTie(u)'
  <2>1. SyncTie(u)'
    BY <1>2, <1>3, <1>5, <1>6 DEF SyncTie, Held, vars
  <2>2. PublishTie(u)' /\ ForkTie(u)' /\ TypesTie(u)'
    BY <1>5, <1>6 DEF PublishTie, ForkTie, TypesTie, InPhase
  <2> QED BY <2>1, <2>2
<1>11. ASSUME NEW t \in Slugs PROVE FileTie(u, t)' /\ Clean(u, t)'
  <2>1. InSidecar(u, t)' <=> t = s
    BY <1>1, <1>5, <1>6 DEF InSidecar, InPhase, SlugOf
  <2>2. FileTie(u, t)'
    BY <1>5, <1>6, <1>8, <1>9, <2>1 DEF FileTie
  <2>3. CASE t = s
    <3>1. Genuine(u, s)' /\ Named(u, s)'
      <4>1. CallInv(u) /\ InPhase(u, "types") /\ crashed \subseteq crashed' /\ side'[u][s] = side[u][s] /\ InSidecar(u, s)'
        BY <1>2, <2>1, <2>3 DEF ClientInv, SyncRecipe
      <4> QED BY <1>1, <1>2, <1>3, <1>8, <1>9, <4>1, RecipeStands
    <3> QED BY <2>2, <2>3, <3>1 DEF Clean
  <2>4. CASE t # s
    <3>1. Clean(u, t)'
      BY <1>2, <1>3, <1>9, <2>4, CleanStays DEF ClientInv, InSidecar
    <3> QED BY <2>2, <3>1
  <2> QED BY <2>3, <2>4
<1> QED BY <1>10, <1>11 DEF CallInv

LEMMA SyncSidecarOwn ==
  ASSUME HubInv, ClientTypes, ClientInv, NEW u \in Clients, SyncSidecar(u)
  PROVE  CallInv(u)' /\ \E s \in Slugs, m \in Sidecar : side' = [side EXCEPT ![u][s] = m]
<1>1. PICK c, s : c = client[u] /\ s = SlugOf(c.key)
  OBVIOUS
<1>2. UNCHANGED <<vars, file, crashed>> /\ ArtifactsStand
  BY DEF SyncSidecar, hub, vars, ArtifactsStand
<1>3. /\ c \in SyncCall /\ c.phase = "sidecar" /\ Held(c.key, c.version, c.body)
      /\ s \in Slugs /\ c.key = <<c.key[1], s>> /\ c.key[1] \in Users
      /\ FileTie(u, s) /\ InSidecar(u, s)
  BY <1>1, CallPhases, HubAssumption
     DEF SyncSidecar, InPhase, ClientTypes, ClientInv, CallInv, SyncTie, Syncs, SlugOf, InSidecar
<1>4. PICK d : d = [c EXCEPT !.phase = "count"]
  OBVIOUS
<1>5. d.phase = "count" /\ d.key = c.key /\ d.version = c.version /\ d.body = c.body
  BY <1>3, <1>4 DEF SyncCall
<1>6. client'[u] = d
  BY <1>1, <1>4, Turned DEF SyncSidecar
<1>7. PICK m : m = [author |-> c.key[1], base |-> c.version,
                    forkedFrom |-> IF pkg[c.key] = None THEN None ELSE pkg[c.key].forkedFrom]
  OBVIOUS
<1>8. m \in Sidecar
  <2>1. pkg[c.key] # None => pkg[c.key].forkedFrom \in (Packages \X Versions) \cup {None}
    BY <1>3 DEF SyncCall, HubInv, StoreInv, IsMeta, Meta
  <2> QED BY <1>3, <1>7, <2>1 DEF Sidecar, SyncCall
<1>9. side' = [side EXCEPT ![u][s] = m]
  BY <1>1, <1>7 DEF SyncSidecar
<1>10. side'[u][s] = m /\ \A t \in Slugs : t # s => side'[u][t] = side[u][t]
  BY <1>3, <1>9 DEF ClientInv
<1>11. PublishTie(u)' /\ ForkTie(u)' /\ SyncTie(u)' /\ TypesTie(u)' /\ ~InPhase(u, "sidecar")'
  <2>1. SyncTie(u)'
    BY <1>2, <1>3, <1>5, <1>6 DEF SyncTie, Held, vars
  <2>2. PublishTie(u)' /\ ForkTie(u)' /\ TypesTie(u)' /\ ~InPhase(u, "sidecar")'
    BY <1>5, <1>6 DEF PublishTie, ForkTie, TypesTie, InPhase
  <2> QED BY <2>1, <2>2
<1>12. \A t \in Slugs : FileTie(u, t)'
  BY <1>11 DEF FileTie, InSidecar
<1>13. ASSUME NEW t \in Slugs PROVE Clean(u, t)'
  <2>1. CASE t # s
    <3>1. ~InSidecar(u, t)
      BY <1>3, <2>1 DEF InSidecar
    <3> QED BY <1>2, <1>10, <2>1, <3>1, CleanStays DEF ClientInv
  <2>2. CASE t = s
    <3>1. PICK f, from : f = file[u][s] /\ from = <<c.key, c.version>>
      OBVIOUS
    <3>2. f \in File /\ f.from = from /\ from[1] = c.key /\ from[2] = c.version
      BY <1>1, <1>3, <3>1 DEF FileTie
    <3>3. m.author = c.key[1] /\ m.base = c.version /\ <<m.author, s>> = c.key /\ c.version \in Nat
      BY <1>3, <1>7, HubAssumption DEF SyncCall, Versions
    <3>4. c.key \in Packages /\ ver'[c.key][c.version] # None /\ file'[u][s] = f
      BY <1>2, <1>3, <3>1 DEF SyncCall, Held, vars
    <3>5. Named(u, s)'
      BY <1>10, <3>1, <3>2, <3>3, <3>4 DEF Named
    <3>6. Genuine(u, s)'
      <4>1. Genuine(u, s)
        BY <1>3 DEF ClientInv, CallInv, Clean
      <4>2. file'[u][s] = file[u][s]
        BY <1>2
      <4> QED BY <1>2, <4>1, <4>2, GenuineStays
    <3> QED BY <2>2, <3>5, <3>6 DEF Clean
  <2> QED BY <2>1, <2>2
<1> QED BY <1>3, <1>8, <1>9, <1>11, <1>12, <1>13 DEF CallInv

LEMMA SyncCountOwn ==
  ASSUME ClientTypes, ClientInv, ArtifactsStand, NEW u \in Clients, NEW w \in Workers, SyncCount(w, u)
  PROVE  CallInv(u)'
<1>1. UNCHANGED <<file, side, crashed>> /\ client'[u] = None /\ ~InPhase(u, "sidecar")
  BY Turned DEF SyncCount, local, InPhase
<1> QED BY <1>1, CallEnds DEF ClientInv

LEMMA ClientDiesOwn ==
  ASSUME ClientTypes, ClientInv, ArtifactsStand, NEW u \in Clients, ClientDies(u)
  PROVE  CallInv(u)'
<1>1. UNCHANGED <<file, side>> /\ client'[u] = None /\ crashed \subseteq crashed' /\ u \in crashed'
  BY Turned DEF ClientDies, local
<1> QED BY <1>1, CallEnds DEF ClientInv

(* The reply to a publish names the version that is the recipe sent.       *)
LEMMA PublishEndOwn ==
  ASSUME ClientTypes, ClientInv, ArtifactsStand, NEW u \in Clients, PublishEnd(u)
  PROVE  CallInv(u)' /\ (side' = side \/ \E s \in Slugs, m \in Sidecar : side' = [side EXCEPT ![u][s] = m])
<1>1. PICK c, s, r : c = client[u] /\ s = SlugOf(c.key) /\ r = req[c.worker]
  OBVIOUS
<1>2. UNCHANGED <<ver, contended, died, crashed>> /\ r.pc = "done"
  BY <1>1 DEF PublishEnd, Deliver, store, aux, At
<1>3. /\ c.key \in Packages /\ s \in Slugs /\ c.key = <<u, s>> /\ c.body \in Recipes
      /\ PublishOf(r, c.key, c.body) /\ ~InPhase(u, "sidecar") /\ file[u][s] \in File /\ side[u][s] # Torn
  BY <1>1, CallPhases, HubAssumption DEF PublishEnd, InPhase, ClientTypes, ClientInv, CallInv, PublishTie, SlugOf
<1>4. client'[u] = None
  BY Turned DEF PublishEnd
<1>5. CASE r.status # "created"
  <2>1. UNCHANGED <<side, file>>
    BY <1>1, <1>5 DEF PublishEnd
  <2> QED BY <1>2, <1>3, <1>4, <2>1, CallEnds DEF ClientInv
<1>6. CASE r.status = "created"
  <2>1. Held(c.key, r.version, c.body)
    BY <1>2, <1>3, <1>6 DEF PublishOf
  <2>2. PICK old : old = side[u][s]
    OBVIOUS
  <2>3. PICK m : m = [author |-> u, base |-> r.version, forkedFrom |-> IF old = None THEN None ELSE old.forkedFrom]
    OBVIOUS
  <2>4. m \in Sidecar
    <3>1. old # None => old \in Sidecar
      BY <1>3, <2>2 DEF ClientInv
    <3> QED BY <2>1, <2>3, <3>1, ClientAssumption DEF Sidecar, Held
  <2>5. side' = [side EXCEPT ![u][s] = m]
    BY <1>1, <1>3, <1>6, <2>2, <2>3 DEF PublishEnd, ClientInv
  <2>6. side'[u][s] = m /\ \A t \in Slugs : t # s => side'[u][t] = side[u][t]
    BY <1>3, <2>5 DEF ClientInv
  <2>7. PICK f, from : f = file[u][s] /\ from = <<c.key, r.version>>
    OBVIOUS
  <2>8. PICK g : g = Copy(f.body, f.body # c.body, from)
    OBVIOUS
  <2>9. from \in Packages \X Nat /\ from[1] = c.key /\ from[2] = r.version
    BY <1>3, <2>1, <2>7, HubAssumption DEF Held, Versions
  <2>10. g \in File /\ (~g.edited => g.body = c.body) /\ g.from = from
    <3>1. f.body \in Recipes
      BY <1>3, <2>7 DEF File
    <3> QED BY <2>8, <2>9, <3>1 DEF Copy, File
  <2>11. file'[u][s] = g /\ \A t \in Slugs : t # s => file'[u][t] = file[u][t]
    <3>1. file' = [file EXCEPT ![u][s] = g]
      BY <1>1, <1>6, <2>7, <2>8 DEF PublishEnd
    <3> QED BY <1>3, <3>1 DEF ClientTypes
  <2>12. PublishTie(u)' /\ ForkTie(u)' /\ SyncTie(u)' /\ TypesTie(u)' /\ \A t \in Slugs : FileTie(u, t)'
    BY <1>4 DEF PublishTie, ForkTie, SyncTie, TypesTie, Syncs, FileTie, InSidecar, InPhase
  <2>13. ASSUME NEW t \in Slugs PROVE Clean(u, t)'
    <3>1. CASE t # s
      <4>1. ~InSidecar(u, t)
        BY <1>3 DEF InSidecar
      <4> QED BY <1>2, <2>6, <2>11, <3>1, <4>1, CleanStays DEF ClientInv
    <3>2. CASE t = s
      <4>1. m.author = u /\ m.base = r.version /\ <<m.author, s>> = c.key /\ r.version \in Nat
        BY <1>3, <2>3, <2>9
      <4>2. Held(c.key, r.version, c.body)'
        BY <1>2, <2>1 DEF Held
      <4>3. Genuine(u, s)'
        BY <2>9, <2>10, <2>11, <4>2 DEF Genuine
      <4>4. Named(u, s)'
        BY <1>3, <2>6, <2>7, <2>9, <2>10, <2>11, <4>1, <4>2 DEF Named, Held
      <4> QED BY <3>2, <4>3, <4>4 DEF Clean
    <3> QED BY <3>1, <3>2
  <2> QED BY <1>3, <2>4, <2>5, <2>12, <2>13 DEF CallInv
<1> QED BY <1>5, <1>6

(* What is cut short is the file that the call was about to write.         *)
LEMMA RecipeCutOwn ==
  ASSUME ClientTypes, ClientInv, NEW u \in Clients, RecipeCut(u), CutShort(u)
  PROVE  CallInv(u)'
<1>1. PICK c, s : c = client[u] /\ s = SlugOf(c.key)
  OBVIOUS
<1>2. /\ UNCHANGED <<vars, side>> /\ ArtifactsStand /\ CallInv(u)
      /\ crashed \subseteq crashed' /\ u \in crashed' /\ client'[u] = None
  BY Turned DEF RecipeCut, CutShort, hub, vars, ArtifactsStand, ClientInv
<1>3. c \in SyncCall /\ InPhase(u, "types") /\ Held(c.key, c.version, c.body) /\ ~InPhase(u, "sidecar") /\ s \in Slugs
  BY <1>1, CallPhases, HubAssumption
     DEF RecipeCut, InPhase, ClientTypes, ClientInv, CallInv, SyncTie, Syncs, SlugOf
<1>4. PICK left : /\ left = Torn \/ \E body \in Recipes : left = Copy(body, TRUE, <<c.key, c.version>>)
                  /\ file' = [file EXCEPT ![u][s] = left]
  BY <1>1 DEF RecipeCut
<1>5. file'[u][s] = left /\ \A t \in Slugs : t # s => file'[u][t] = file[u][t]
  BY <1>3, <1>4 DEF ClientTypes
<1>6. PublishTie(u)' /\ ForkTie(u)' /\ SyncTie(u)' /\ TypesTie(u)' /\ \A t \in Slugs : FileTie(u, t)'
  BY <1>2 DEF PublishTie, ForkTie, SyncTie, TypesTie, Syncs, FileTie, InSidecar, InPhase
<1>7. Genuine(u, s)' /\ Named(u, s)'
  <2>1. CASE left = Torn
    <3>1. left \notin File
      BY <2>1, ClientAssumption
    <3>2. Named(u, s)
      BY <1>2, <1>3 DEF CallInv, Clean
    <3> QED BY <1>2, <1>5, <3>1, <3>2 DEF Genuine, Named, vars
  <2>2. ASSUME NEW body \in Recipes, left = Copy(body, TRUE, <<c.key, c.version>>)
        PROVE  Genuine(u, s)' /\ Named(u, s)'
    <3>1. left \in File /\ left.edited /\ left.from = <<c.key, c.version>>
      BY <1>3, <2>2, RecipeCopyTyped
    <3> QED BY <1>1, <1>2, <1>3, <1>5, <3>1, RecipeStands
  <2> QED BY <1>4, <2>1, <2>2
<1>8. ASSUME NEW t \in Slugs PROVE Clean(u, t)'
  <2>1. CASE t # s
    BY <1>2, <1>3, <1>5, <2>1, CleanStays DEF InSidecar
  <2> QED BY <1>7, <2>1 DEF Clean
<1> QED BY <1>6, <1>8 DEF CallInv

LEMMA SidecarCutOwn ==
  ASSUME ClientTypes, ClientInv, ArtifactsStand, NEW u \in Clients, SidecarCut(u), CutShort(u)
  PROVE  CallInv(u)' /\ \E s \in Slugs : side' = [side EXCEPT ![u][s] = Torn]
<1>1. PICK c, s : c = client[u] /\ s = SlugOf(c.key)
  OBVIOUS
<1>2. s \in Slugs /\ side' = [side EXCEPT ![u][s] = Torn]
  BY <1>1, CallPhases, HubAssumption DEF SidecarCut, InPhase, ClientTypes, SlugOf
<1>3. /\ UNCHANGED file /\ CallInv(u)
      /\ crashed \subseteq crashed' /\ u \in crashed' /\ client'[u] = None
  BY Turned DEF SidecarCut, CutShort, ClientInv
<1>4. side'[u][s] = Torn /\ \A t \in Slugs : t # s => side'[u][t] = side[u][t]
  BY <1>2 DEF ClientInv
<1>5. PublishTie(u)' /\ ForkTie(u)' /\ SyncTie(u)' /\ TypesTie(u)' /\ \A t \in Slugs : FileTie(u, t)'
  BY <1>3 DEF PublishTie, ForkTie, SyncTie, TypesTie, Syncs, FileTie, InSidecar, InPhase
<1>6. ASSUME NEW t \in Slugs PROVE Clean(u, t)'
  <2>1. CASE t # s
    BY <1>3, <1>4, <2>1, CleanStays
  <2>2. CASE t = s
    <3>1. Genuine(u, s)'
      BY <1>2, <1>3, GenuineStays DEF CallInv, Clean
    <3>2. Named(u, s)'
      BY <1>4, ClientAssumption DEF Named
    <3> QED BY <2>2, <3>1, <3>2 DEF Clean
  <2> QED BY <2>1, <2>2
<1> QED BY <1>2, <1>5, <1>6 DEF CallInv

LEMMA CutShortOwn ==
  ASSUME ClientTypes, ClientInv, ArtifactsStand, NEW u \in Clients, CutShort(u)
  PROVE  CallInv(u)' /\ (side' = side \/ \E s \in Slugs : side' = [side EXCEPT ![u][s] = Torn])
<1>1. CASE TypeCut(u)
  <2>1. UNCHANGED <<file, side>> /\ client'[u] = None /\ crashed \subseteq crashed' /\ u \in crashed'
    BY <1>1, Turned DEF TypeCut, CutShort
  <2> QED BY <2>1, CallEnds DEF ClientInv
<1>2. CASE RecipeCut(u)
  BY <1>2, RecipeCutOwn DEF RecipeCut
<1>3. CASE SidecarCut(u)
  BY <1>3, SidecarCutOwn
<1> QED BY <1>1, <1>2, <1>3 DEF CutShort

LEMMA ClientKeepsItsCall ==
  ASSUME HubInv, TypeInv, ClientTypes, ClientInv, ArtifactsStand, NEW u \in Clients, ClientStep(u)
  PROVE  CallInv(u)' /\ (side' = side \/ \E s \in Slugs, m \in Sidecar \cup {Torn} : side' = [side EXCEPT ![u][s] = m])
<1>1. CASE \E s \in Slugs, body \in Recipes : Edit(u, s, body)
  BY <1>1, EditOwn DEF Edit
<1>2. CASE \E w \in Workers, s \in Slugs : PublishStart(w, u, s)
  BY <1>2, PublishStartOwn DEF PublishStart, local
<1>3. CASE PublishEnd(u)
  BY <1>3, PublishEndOwn
<1>4. CASE \E p \in Packages, n \in Versions : SyncStart(u, p, n)
  BY <1>4, FetchOwn DEF SyncStart, local, hub, Called
<1>5. CASE \E w \in Workers, up \in Packages, s \in Slugs : ForkStart(w, u, up, s)
  BY <1>5, ForkStartOwn DEF ForkStart, local
<1>6. CASE ForkEnd(u)
  BY <1>6, ForkEndOwn DEF ForkEnd, local
<1>7. CASE ForkFetch(u)
  <2>1. client[u].key \in Packages /\ client[u].version \in Versions
    BY <1>7, CallPhases DEF ForkFetch, InPhase, ClientTypes
  <2> QED BY <1>7, <2>1, FetchOwn DEF ForkFetch, local, hub
<1>8. CASE SyncType(u) \/ SyncRecipe(u)
  BY <1>8, SyncTypeOwn, SyncRecipeOwn DEF SyncType, SyncRecipe
<1>9. CASE SyncSidecar(u)
  BY <1>9, SyncSidecarOwn
<1>10. CASE \E w \in Workers : SyncCount(w, u)
  BY <1>10, SyncCountOwn DEF SyncCount, local
<1>11. CASE ClientDies(u)
  BY <1>11, ClientDiesOwn DEF ClientDies, local
<1>12. CASE CutShort(u)
  BY <1>12, CutShortOwn
<1> QED BY <1>1, <1>2, <1>3, <1>4, <1>5, <1>6, <1>7, <1>8, <1>9, <1>10, <1>11, <1>12 DEF ClientStep

LEMMA ClientInvHolds == ClientSpec => []ClientInv
<1>1. ClientInit => ClientInv
  BY ClientAssumption DEF ClientInit, ClientInv, CallInv, PublishTie, ForkTie, SyncTie, TypesTie, Syncs, FileTie,
     InSidecar, Clean, Genuine, Named, InPhase
<1>2. HubInv /\ TypeInv /\ AckInv /\ NoOrphans /\ ClientTypes /\ ClientInv /\ [ClientNext]_allVars => ClientInv'
  <2> SUFFICES ASSUME HubInv, TypeInv, AckInv, NoOrphans, ClientTypes, ClientInv, [ClientNext]_allVars
               PROVE  ClientInv'
    OBVIOUS
  <2>1. ArtifactsStand
    BY ArtifactsStandStep, ClientsOnHub
  <2>2. CASE UNCHANGED allVars
    <3>1. \A u \in Clients : CallInv(u)'
      BY <2>2, OthersQuiet DEF allVars, vars, ClientInv
    <3> QED BY <2>2, <3>1 DEF allVars, ClientInv
  <2>3. ASSUME NEW w \in Workers, HubStep(w) PROVE ClientInv'
    BY <2>1, <2>3, HubStepKeepsCalls
  <2>4. ASSUME NEW u \in Clients, ClientStep(u) PROVE ClientInv'
    <3>1. \A v \in Clients : CallInv(v)'
      BY <2>1, <2>4, ClientKeepsOthers, ClientKeepsItsCall
    <3>2. side' = side \/ \E s \in Slugs, m \in Sidecar \cup {Torn} : side' = [side EXCEPT ![u][s] = m]
      BY <2>1, <2>4, ClientKeepsItsCall
    <3>3. side' \in [Clients -> [Slugs -> Sidecar \cup {None, Torn}]]
      BY <3>2 DEF ClientInv
    <3> QED BY <3>1, <3>3 DEF ClientInv
  <2> QED BY <2>2, <2>3, <2>4 DEF ClientNext
<1> QED BY <1>1, <1>2, ClientsUseTheHub, HubInvHolds, RequestsAreTyped, AckInvHolds, NoOrphansHolds,
           ClientTypesHold, PTL DEF ClientSpec

(* However clients and the hub interleave, and whatever dies or is cut     *)
(* short on the way: an unedited recipe is the version it came from, unless*)
(* requests for that name raced or died; a sidecar that can be read names  *)
(* a version that the hub holds, and never one later than the file beside  *)
(* it came from; and where no call of the client was killed or failed to   *)
(* write, it names the very version that the file came from.               *)
THEOREM CleanCopiesAreTheHubs == ClientSpec => []CleanCopyIsTheHubs
<1>1. ClientInv /\ ClientTypes => CleanCopyIsTheHubs
  <2> SUFFICES ASSUME ClientInv, ClientTypes, NEW u \in Clients, NEW s \in Slugs
               PROVE  LET f == file[u][s]
                          m == side[u][s]
                          p == <<m.author, s>>
                      IN  /\ Whole(f) /\ ~f.edited /\ f.from[1] \notin contended \cup died
                               => f.body = ver[f.from[1]][f.from[2]]
                          /\ Whole(m) =>
                               /\ ver[p][m.base] # None
                               /\ Whole(f) /\ f.from # None /\ f.from[1] = p => m.base <= f.from[2]
                               /\ Idle(u) /\ u \notin crashed => Whole(f) /\ f.from = <<p, m.base>>
    BY DEF CleanCopyIsTheHubs
  <2>1. PICK f, m, p : f = file[u][s] /\ m = side[u][s] /\ p = <<m.author, s>>
    OBVIOUS
  <2>2. (Whole(f) <=> f \in File) /\ (Whole(m) <=> m \in Sidecar)
    BY <2>1, WholeFiles DEF ClientTypes, ClientInv
  <2>3. Genuine(u, s) /\ Named(u, s)
    BY DEF ClientInv, CallInv, Clean
  <2>4. Idle(u) => ~InSidecar(u, s)
    BY DEF Idle, InSidecar, InPhase
  <2>5. f \in File /\ ~f.edited /\ f.from[1] \notin contended \cup died => f.body = ver[f.from[1]][f.from[2]]
    BY <2>1, <2>3 DEF Genuine, Held
  <2>6. m \in Sidecar =>
          /\ ver[p][m.base] # None
          /\ f \in File /\ f.from # None /\ f.from[1] = p => m.base <= f.from[2]
          /\ Idle(u) /\ u \notin crashed => f \in File /\ f.from = <<p, m.base>>
    BY <2>1, <2>3, <2>4 DEF Named
  <2> QED BY <2>1, <2>2, <2>5, <2>6
<1> QED BY <1>1, ClientInvHolds, ClientTypesHold, PTL

-------------------------------------------------------------------------------
(* One request at a time on a name makes the hub a log of versions.        *)

LatestOf(p) == IF pkg[p] = None THEN 0 ELSE pkg[p].latest

LEMMA LatestIsOf ==
  ASSUME NEW p \in Packages
  PROVE  Latest(p) = LatestOf(p) /\ Latest(p)' = LatestOf(p)'
BY HubAssumption DEF Latest, LatestOf

LEMMA InLog ==
  ASSUME NEW e
  PROVE  /\ e \in HubLog <=>
              \E p \in Packages, n \in Versions :
                n <= LatestOf(p) /\ e = [name |-> p, version |-> n, module |-> ver[p][n]]
         /\ e \in HubLog' <=>
              \E p \in Packages, n \in Versions :
                n <= LatestOf(p)' /\ e = [name |-> p, version |-> n, module |-> ver'[p][n]]
<1>1. e \in HubLog <=> \E q \in Packages \X Versions :
        q[2] <= Latest(q[1]) /\ e = [name |-> q[1], version |-> q[2], module |-> ver[q[1]][q[2]]]
  BY DEF HubLog
<1>2. e \in HubLog' <=> \E q \in Packages \X Versions :
        q[2] <= Latest(q[1])' /\ e = [name |-> q[1], version |-> q[2], module |-> ver'[q[1]][q[2]]]
  BY DEF HubLog
<1>3. ASSUME NEW p \in Packages, NEW n \in Versions
      PROVE  \E q \in Packages \X Versions : q[1] = p /\ q[2] = n
  <2>1. PICK q : q = <<p, n>>
    OBVIOUS
  <2> QED BY <2>1
<1>4. \A q \in Packages \X Versions : q[1] \in Packages /\ q[2] \in Versions
  OBVIOUS
<1>5. e \in HubLog <=> \E p \in Packages, n \in Versions :
        n <= LatestOf(p) /\ e = [name |-> p, version |-> n, module |-> ver[p][n]]
  BY <1>1, <1>3, <1>4, LatestIsOf
<1>6. e \in HubLog' <=> \E p \in Packages, n \in Versions :
        n <= LatestOf(p)' /\ e = [name |-> p, version |-> n, module |-> ver'[p][n]]
  BY <1>2, <1>3, <1>4, LatestIsOf
<1> QED BY <1>5, <1>6

LEMMA LogKept ==
  ASSUME \A p \in Packages : LatestOf(p)' = LatestOf(p),
         \A p \in Packages, n \in Versions : n <= LatestOf(p) => ver'[p][n] = ver[p][n]
  PROVE  HubLog' = HubLog
<1>1. \A e : e \in HubLog' <=> e \in HubLog
  BY InLog
<1> QED BY <1>1

(* The number a publish or a fork takes is the next one.                   *)
LEMMA NextIsNext ==
  ASSUME HubInv, TypeInv, AckInv, contended = {}, NEW w \in Workers, At(w, "put") \/ At(w, "meta")
  PROVE  /\ req[w].key \in Packages /\ NextVersion(req[w]) \in Versions /\ req[w].body \in Recipes
         /\ NextVersion(req[w]) = LatestOf(req[w].key) + 1 /\ LatestOf(req[w].key) \in Nat
<1>1. PICK r : r = req[w]
  OBVIOUS
<1>2. /\ Busy(w) /\ r.pc \in {"put", "meta"} /\ r.op \in {"publish", "fork"} /\ r.key \in Packages
      /\ r.body \in Recipes /\ PackageRequestSound(r, ver) /\ PackageOwn(r, contended, pkg, ver)
  BY <1>1, InFlight, OwnOfBusy DEF At, PackageRequestSound, TypeRequestSound, Own
<1>3. LatestOf(r.key) \in Nat
  BY <1>2 DEF LatestOf, HubInv, StoreInv, IsMeta, Meta, Versions
<1>4. CASE r.op = "fork"
  <2>1. pkg[r.key] = None
    BY <1>2, <1>4 DEF PackageOwn
  <2> QED BY <1>1, <1>2, <1>4, <2>1, HubAssumption DEF NextVersion, LatestOf, Versions
<1>5. CASE r.op # "fork"
  <2>1. r.seen = pkg[r.key] /\ NextVersion(r) \in Versions
    BY <1>2, <1>5 DEF PackageOwn, PackageRequestSound
  <2> QED BY <1>1, <1>2, <1>3, <1>5, <2>1 DEF NextVersion, LatestOf
<1> QED BY <1>4, <1>5

LEMMA PutVersionLog ==
  ASSUME HubInv, TypeInv, AckInv, contended = {}, NEW w \in Workers, PutVersion(w)
  PROVE  HubLog' = HubLog
<1>1. PICK r, k : r = req[w] /\ k = NextVersion(r)
  OBVIOUS
<1>2. r.key \in Packages /\ k \in Versions /\ k = LatestOf(r.key) + 1 /\ LatestOf(r.key) \in Nat
  BY <1>1, NextIsNext DEF PutVersion
<1>3. ver' = [ver EXCEPT ![r.key][k] = r.body] /\ pkg' = pkg
  BY <1>1 DEF PutVersion
<1>4. \A p \in Packages, i \in Versions : p # r.key \/ i # k => ver'[p][i] = ver[p][i]
  BY <1>2, <1>3 DEF HubInv, StoreInv
<1>5. \A p \in Packages, i \in Versions : i <= LatestOf(p) => ver'[p][i] = ver[p][i]
  BY <1>2, <1>4 DEF Versions
<1> QED BY <1>3, <1>5, LogKept DEF LatestOf

LEMMA PutMetaLog ==
  ASSUME HubInv, TypeInv, AckInv, contended = {}, NEW w \in Workers, PutMeta(w)
  PROVE  Log!Next
<1>1. PICK r : r = req[w]
  OBVIOUS
<1>2. PICK m : m = IF r.op = "fork" THEN NewMeta(r.seen.category, <<r.upstream, r.seen.latest>>)
                   ELSE IF r.seen = None THEN NewMeta(r.body.category, None)
                   ELSE [r.seen EXCEPT !.latest = r.version, !.category = r.body.category]
  OBVIOUS
<1>3. /\ IsRequest(r) /\ r.pc = "meta" /\ r.key \in Packages
      /\ PackageRequestSound(r, ver) /\ PackageOwn(r, contended, pkg, ver)
  BY <1>1, AtPut DEF PutMeta
<1>4. pkg' = [pkg EXCEPT ![r.key] = m] /\ ver' = ver
  BY <1>1, <1>2 DEF PutMeta
<1>5. m # None /\ m.latest = r.version /\ r.version = NextVersion(r)
  <2>1. IsMeta(m) /\ m.latest = r.version
    BY <1>2, <1>3, MetaWritten
  <2> QED BY <1>3, <2>1, MetaIsSome DEF PackageRequestSound
<1>6. PICK p, k : p = r.key /\ k = r.version
  OBVIOUS
<1>7. p \in Packages /\ k \in Versions /\ k = LatestOf(p) + 1 /\ LatestOf(p) \in Nat /\ r.body \in Recipes
  BY <1>1, <1>5, <1>6, NextIsNext DEF PutMeta
<1>8. LatestOf(p)' = k /\ \A q \in Packages : q # p => LatestOf(q)' = LatestOf(q)
  BY <1>4, <1>5, <1>6, <1>7 DEF LatestOf, HubInv, StoreInv
<1>9. ver[p][k] = r.body
  BY <1>3, <1>6 DEF PackageOwn
<1>10. PICK entry : entry = [name |-> p, version |-> k, module |-> ver[p][k]]
  OBVIOUS
<1>11. entry \in HubLog' \ HubLog
  <2>1. entry \in HubLog'
    BY <1>4, <1>7, <1>8, <1>10, InLog DEF Versions
  <2>2. entry \notin HubLog
    <3> SUFFICES ASSUME entry \in HubLog PROVE FALSE
      OBVIOUS
    <3>1. PICK q \in Packages, n \in Versions :
            n <= LatestOf(q) /\ entry = [name |-> q, version |-> n, module |-> ver[q][n]]
      BY InLog
    <3>2. q = p /\ n = k
      BY <1>10, <3>1
    <3> QED BY <1>7, <3>1, <3>2
  <2> QED BY <2>1, <2>2
<1>12. HubLog' = HubLog \cup {entry}
  <2>1. ASSUME NEW q \in Packages, NEW n \in Versions
        PROVE  n <= LatestOf(q)' <=> n <= LatestOf(q) \/ (q = p /\ n = k)
    BY <1>7, <1>8 DEF Versions
  <2>2. \A e : e \in HubLog' <=> e \in HubLog \/ e = entry
    BY <1>4, <1>7, <1>10, <2>1, InLog
  <2> QED BY <2>2
<1>13. entry \in Log!Entry
  BY <1>7, <1>9, <1>10 DEF Log!Entry, Versions
<1>14. ASSUME NEW e \in HubLog, e.name = entry.name PROVE e.version < entry.version
  <2>1. PICK q \in Packages, n \in Versions :
          n <= LatestOf(q) /\ e = [name |-> q, version |-> n, module |-> ver[q][n]]
    BY InLog
  <2>2. q = p /\ e.version = n /\ entry.version = k
    BY <1>10, <1>14, <2>1
  <2> QED BY <1>7, <2>1, <2>2 DEF Versions
<1> QED BY <1>11, <1>12, <1>13, <1>14 DEF Log!Next, Log!Publish

LEMMA LogStep ==
  HubInv /\ TypeInv /\ AckInv /\ contended = {} /\ [Next]_vars => [Log!Next]_HubLog
<1> SUFFICES ASSUME HubInv, TypeInv, AckInv, contended = {}, [Next]_vars PROVE [Log!Next]_HubLog
  OBVIOUS
<1>1. ASSUME UNCHANGED <<pkg, ver>> PROVE HubLog' = HubLog
  BY <1>1, LogKept DEF LatestOf
<1>2. CASE UNCHANGED vars
  BY <1>1, <1>2 DEF vars
<1>3. ASSUME NEW w \in Workers, Arrival(w) \/ Die(w) \/ Deliver(w) PROVE UNCHANGED <<pkg, ver>>
  <2>1. ASSUME Arrival(w) PROVE UNCHANGED <<pkg, ver>>
    <3>1. PICK x : Arrive(w, x)
      BY <2>1 DEF Arrival, Publish, PublishType, Download, Star, Fork
    <3> QED BY <3>1 DEF Arrive, store
  <2> QED BY <1>3, <2>1 DEF Die, Deliver, store
<1>4. ASSUME NEW w \in Workers, Step(w) PROVE Log!Next \/ HubLog' = HubLog
  <2>1. CASE StarMeta(w) \/ DownloadPut(w) \/ ForkBump(w)
    <3>1. LatestStays /\ ver' = ver
      BY <2>1, CounterLatest
    <3> QED BY <3>1, LogKept DEF LatestStays, LatestOf
  <2>2. CASE PutVersion(w) \/ PutMeta(w)
    BY <2>2, PutVersionLog, PutMetaLog
  <2>3. CASE ~(PutVersion(w) \/ PutMeta(w) \/ StarMeta(w) \/ DownloadPut(w) \/ ForkBump(w))
    <3>1. UNCHANGED <<pkg, ver>>
      BY <1>4, <2>3 DEF Step, PublishPrior, IndexRead, IndexWrite, IndexDone, StarKey, StarPut, ForkRead, ForkCheck,
         TypeHash, TypePrior, TypePut, TypePutHash, TypeMeta, TypeExtends, store
    <3> QED BY <1>1, <3>1
  <2> QED BY <2>1, <2>2, <2>3
<1> QED BY <1>1, <1>2, <1>3, <1>4 DEF Next

(* As long as no two requests work on one name at once, whatever dies, the *)
(* versions of the packages are a log: a publish or a fork adds the next   *)
(* version of its name, whole, and nothing is changed or taken back.       *)
THEOREM UncontendedHubIsALog == ClientSpec /\ [](contended = {}) => HubIsALog
<1>1. ClientInit => Log!Init
  <2> SUFFICES ASSUME ClientInit PROVE HubLog = {}
    BY DEF Log!Init
  <2>1. \A p \in Packages : LatestOf(p) = 0
    BY DEF ClientInit, Init, LatestOf
  <2>2. \A n \in Versions : ~(n <= 0)
    BY DEF Versions
  <2> QED BY <2>1, <2>2, InLog
<1> QED BY <1>1, LogStep, ClientsUseTheHub, HubInvHolds, RequestsAreTyped, AckInvHolds, PTL
        DEF ClientSpec, Spec, HubIsALog, Log!Spec

(* A hub with one worker isolate is such a hub.                            *)
THEOREM OneWorkerHubIsALog ==
  ASSUME \A w1, w2 \in Workers : w1 = w2
  PROVE  ClientSpec => HubIsALog
<1>1. Init => contended = {}
  BY DEF Init
<1>2. contended = {} /\ [Next]_vars => (contended = {})'
  <2> SUFFICES ASSUME contended = {}, NEW w \in Workers, Arrival(w) \/ Step(w) \/ Die(w) \/ Deliver(w)
               PROVE  contended' = {}
    BY DEF Next, vars
  <2>1. CASE Arrival(w)
    <3>1. PICK x : Arrive(w, x)
      BY <2>1 DEF Arrival, Publish, PublishType, Download, Star, Fork
    <3>2. {v \in Workers : Busy(v)} = {}
      BY <3>1 DEF Arrive, Busy
    <3> QED BY <3>1, <3>2 DEF Arrive
  <2>2. CASE Step(w) \/ Die(w) \/ Deliver(w)
    BY <2>2 DEF Step, PublishPrior, PutVersion, PutMeta, IndexRead, IndexWrite, IndexDone, StarKey, StarPut,
       StarMeta, DownloadPut, ForkRead, ForkCheck, ForkBump, TypeHash, TypePrior, TypePut, TypePutHash,
       TypeMeta, TypeExtends, Die, Deliver, aux
  <2> QED BY <2>1, <2>2
<1> QED BY <1>1, <1>2, UncontendedHubIsALog, ClientsUseTheHub, PTL DEF Spec
===============================================================================
