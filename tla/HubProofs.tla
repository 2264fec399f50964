------------------------------- MODULE HubProofs -------------------------------
(***************************************************************************)
(* The hub never names a version it does not have: for any number of       *)
(* workers, packages, types and requests, however their puts interleave    *)
(* and wherever they die.                                                  *)
(*                                                                         *)
(* A request writes metadata from what it read some puts ago.  The proof   *)
(* rests on two facts: artifacts are never taken back, so what a request   *)
(* has seen stored is stored when it writes; and the artifact of the       *)
(* version it announces is its own earlier put.                            *)
(***************************************************************************)
EXTENDS Hub, FiniteSetTheorems, TLAPS

-------------------------------------------------------------------------------
(* The inductive invariant.                                                *)

IsMeta(m) == m \in Meta

(* Key k has, in the artifacts a, all versions up to n.                    *)
HasUpTo(a, k, n) == \A i \in 1..n : a[k][i] # None

StoreInv ==
  /\ DOMAIN pkg = Packages
  /\ \A p \in Packages : pkg[p] # None => IsMeta(pkg[p]) /\ HasUpTo(ver, p, pkg[p].latest)
  /\ ver \in [Packages -> [Versions -> Recipes \cup {None}]]
  /\ typ \in [TypeKeys -> 0..MaxVersion]
  /\ \A t \in TypeKeys : HasUpTo(tver, t, typ[t])
  /\ tver \in [TypeKeys -> [Versions -> TypeBodies \cup {None}]]
  /\ thash \in [TypeKeys -> [Sources -> 0..MaxVersion]]
  /\ \A t \in TypeKeys, s \in Sources : thash[t][s] # 0 => tver[t][thash[t][s]] # None

IsRequest(r) ==
  r \in [op : Ops, pc : Pcs, user : {r.user}, key : {r.key}, upstream : {r.upstream},
         body : {r.body}, seen : {r.seen}, latest : {r.latest}, prior : {r.prior},
         todo : {r.todo}, list : {r.list}, status : {r.status}, version : {r.version}]

(* What a request in flight knows of the artifacts v of packages and tv of *)
(* types: the versions it saw, and its own put.                            *)
PackageRequestSound(r, v) ==
  /\ r.key \in Packages
  /\ r.seen # None =>
       /\ IsMeta(r.seen)
       /\ r.op # "fork" => HasUpTo(v, r.key, r.seen.latest)
       /\ r.op = "fork" => HasUpTo(v, r.upstream, r.seen.latest)
  /\ r.op = "fork" => r.upstream \in Packages
  /\ r.op \in {"fork", "star", "unstar", "download"} => r.seen # None
  /\ r.pc \in {"put", "meta", "index", "upstream", "forkCheck"} => r.body \in Recipes
  /\ r.op = "publish" /\ r.pc \in {"prior", "put"} => NextVersion(r) \in Versions /\ r.body \in Recipes
  /\ r.pc = "meta" => r.version = NextVersion(r) /\ r.version \in Versions /\ v[r.key][r.version] # None
  /\ r.pc \in {"prior", "put", "meta", "index", "starKey", "starPut", "starMeta", "bump",
               "forkRead", "forkCheck", "upstream"}
  /\ r.pc = "prior" => r.op = "publish"
  /\ r.pc \in {"put", "meta", "index"} => r.op \in {"publish", "fork"}
  /\ r.pc \in {"starKey", "starPut", "starMeta"} => r.op \in {"star", "unstar"}
  /\ r.pc = "bump" => r.op = "download"
  /\ r.pc \in {"forkRead", "forkCheck", "upstream"} => r.op = "fork"
  /\ r.pc = "starMeta" /\ r.op = "unstar" => r.seen.stars > 0

TypeRequestSound(r, tv) ==
  /\ r.key \in TypeKeys /\ r.body \in TypeBodies
  /\ r.latest \in Nat /\ r.latest + 1 \in Versions /\ HasUpTo(tv, r.key, r.latest)
  /\ r.pc \in {"typeHash", "typeMeta"} =>
       r.version = r.latest + 1 /\ tv[r.key][r.version] # None
  /\ r.pc \in {"hash", "typePrior", "typePut", "typeHash", "typeMeta", "typeExtends", "index", "links"}

RequestSound(r, v, tv) ==
  /\ IsRequest(r)
  /\ r.status # "corrupt"
  /\ r.pc # "done" /\ r.op # "type" => PackageRequestSound(r, v)
  /\ r.pc # "done" /\ r.op = "type" => TypeRequestSound(r, tv)

HubInv ==
  /\ StoreInv
  /\ DOMAIN req = Workers
  /\ \A w \in Workers : req[w] # None => RequestSound(req[w], ver, tver)

-------------------------------------------------------------------------------
(* What a request knows stays true while artifacts are only added.         *)

Grows(v, v2, K) == \A k \in K, n \in Versions : v[k][n] # None => v2[k][n] # None

LEMMA HasUpToGrows ==
  ASSUME NEW K, NEW v, NEW v2, Grows(v, v2, K), NEW k \in K, NEW n \in 0..MaxVersion, HasUpTo(v, k, n)
  PROVE  HasUpTo(v2, k, n)
BY HubAssumption DEF Grows, HasUpTo, Versions

LEMMA RequestSoundGrows ==
  ASSUME NEW r, NEW v, NEW v2, Grows(v, v2, Packages), NEW tv, NEW tv2, Grows(tv, tv2, TypeKeys),
         RequestSound(r, v, tv)
  PROVE  RequestSound(r, v2, tv2)
<1> USE HubAssumption
<1>1. ASSUME PackageRequestSound(r, v) PROVE PackageRequestSound(r, v2)
  <2>1. r.key \in Packages /\ (r.op = "fork" => r.upstream \in Packages)
    BY <1>1 DEF PackageRequestSound
  <2>2. ASSUME r.seen # None
        PROVE  /\ r.op # "fork" => HasUpTo(v2, r.key, r.seen.latest)
               /\ r.op = "fork" => HasUpTo(v2, r.upstream, r.seen.latest)
    <3>1. r.seen.latest \in 0..MaxVersion
      BY <1>1, <2>2 DEF PackageRequestSound, IsMeta, Meta, Versions
    <3> QED BY <1>1, <2>1, <2>2, <3>1, HasUpToGrows DEF PackageRequestSound
  <2>3. r.pc = "meta" => v2[r.key][r.version] # None
    BY <1>1, <2>1 DEF PackageRequestSound, Grows
  <2> QED BY <1>1, <2>2, <2>3 DEF PackageRequestSound
<1>2. ASSUME TypeRequestSound(r, tv) PROVE TypeRequestSound(r, tv2)
  <2>1. HasUpTo(tv2, r.key, r.latest)
    <3>1. r.key \in TypeKeys /\ r.latest \in 0..MaxVersion /\ HasUpTo(tv, r.key, r.latest)
      BY <1>2 DEF TypeRequestSound, Versions
    <3> QED BY <3>1, HasUpToGrows
  <2>2. r.pc \in {"typeHash", "typeMeta"} => tv2[r.key][r.version] # None
    BY <1>2 DEF TypeRequestSound, Grows
  <2> QED BY <1>2, <2>1, <2>2 DEF TypeRequestSound
<1> QED BY <1>1, <1>2 DEF RequestSound

(* A step of one worker keeps the invariant if what it stores and what its *)
(* request becomes are sound.                                              *)
LEMMA StepKeeps ==
  ASSUME HubInv, NEW w \in Workers, NEW x, req' = [req EXCEPT ![w] = x],
         StoreInv', Grows(ver, ver', Packages), Grows(tver, tver', TypeKeys),
         x # None => RequestSound(x, ver', tver')
  PROVE  HubInv'
<1>1. DOMAIN req' = Workers /\ req'[w] = x /\ \A v \in Workers \ {w} : req'[v] = req[v]
  BY DEF HubInv
<1>2. ASSUME NEW v \in Workers, req'[v] # None PROVE RequestSound(req'[v], ver', tver')
  <2>1. CASE v = w
    BY <1>1, <1>2, <2>1
  <2>2. CASE v # w
    <3>1. req'[v] = req[v] /\ RequestSound(req[v], ver, tver)
      BY <1>1, <1>2, <2>2 DEF HubInv
    <3> QED BY <3>1, RequestSoundGrows
  <2> QED BY <2>1, <2>2
<1> QED BY <1>1, <1>2 DEF HubInv

LEMMA SameStore ==
  ASSUME HubInv, UNCHANGED <<pkg, ver, typ, tver, thash>>
  PROVE  StoreInv' /\ Grows(ver, ver', Packages) /\ Grows(tver, tver', TypeKeys)
BY DEF HubInv, StoreInv, Grows, HasUpTo, IsMeta, Meta

(* The step that changes the request, and stars or lists at the most.      *)
LEMMA ReadingKeeps ==
  ASSUME HubInv, UNCHANGED <<pkg, ver, typ, tver, thash>>, NEW w \in Workers, NEW x, req' = [req EXCEPT ![w] = x],
         x # None => RequestSound(x, ver, tver)
  PROVE  HubInv'
<1>1. ver' = ver /\ tver' = tver
  OBVIOUS
<1> QED BY <1>1, SameStore, StepKeeps

(* A reply is sound unless it says "corrupt".                              *)
LEMMA ReplySound ==
  ASSUME NEW r, IsRequest(r), NEW status \in Statuses \ {"corrupt"}, NEW v, NEW tv
  PROVE  RequestSound([Incoming(r.op, r.user, r.key) EXCEPT !.status = status, !.version = r.version], v, tv)
BY DEF Incoming, RequestSound, IsRequest, Pcs, Ops

(* A document whose counters change keeps its version.                     *)
LEMMA MetaEdits ==
  ASSUME NEW m, IsMeta(m), NEW a \in Nat
  PROVE  /\ IsMeta([m EXCEPT !.stars = a]) /\ [m EXCEPT !.stars = a].latest = m.latest
         /\ IsMeta([m EXCEPT !.downloads = a]) /\ [m EXCEPT !.downloads = a].latest = m.latest
BY DEF IsMeta, Meta

LEMMA ForkEdits ==
  ASSUME NEW m, IsMeta(m), NEW a \in Nat, NEW b \in Nat
  PROVE  /\ IsMeta([m EXCEPT !.forks = a, !.downloads = b])
         /\ [m EXCEPT !.forks = a, !.downloads = b].latest = m.latest
BY DEF IsMeta, Meta

(* pkg with a sound document put in for p.                                 *)
LEMMA MetaPutKeeps ==
  ASSUME HubInv, NEW p \in Packages, NEW m, IsMeta(m), HasUpTo(ver, p, m.latest),
         pkg' = [pkg EXCEPT ![p] = m], UNCHANGED <<ver, typ, tver, thash>>
  PROVE  StoreInv' /\ Grows(ver, ver', Packages) /\ Grows(tver, tver', TypeKeys)
BY DEF HubInv, StoreInv, Grows, HasUpTo, IsMeta, Meta

-------------------------------------------------------------------------------
(* Arrivals.                                                               *)

LEMMA ArriveKeeps ==
  ASSUME HubInv, NEW w \in Workers, NEW r, Arrive(w, r), RequestSound(r, ver, tver)
  PROVE  HubInv'
BY ReadingKeeps DEF Arrive, store

LEMMA IncomingSound ==
  ASSUME NEW op \in Ops, NEW user, NEW key, NEW v, NEW tv
  PROVE  /\ IsRequest(Incoming(op, user, key))
         /\ \A status \in Statuses \ {"corrupt"} :
              RequestSound([Incoming(op, user, key) EXCEPT !.status = status], v, tv)
BY DEF Incoming, IsRequest, RequestSound, Ops, Pcs, Statuses

LEMMA PublishKeeps ==
  ASSUME HubInv, NEW w \in Workers, NEW p \in Packages, NEW body \in Recipes, NEW base, Publish(w, p, body, base)
  PROVE  HubInv'
<1> DEFINE r == Incoming("publish", p[1], p)
           x == [r EXCEPT !.pc = "prior", !.body = body, !.seen = pkg[p]]
<1>1. Arrive(w, x) \/ Arrive(w, [r EXCEPT !.status = "stale_base"])
  BY DEF Publish
<1>2. RequestSound([r EXCEPT !.status = "stale_base"], ver, tver)
  BY IncomingSound DEF Ops, Statuses
<1>3. RequestSound(x, ver, tver)
  <2>1. /\ IsRequest(x) /\ x.op = "publish" /\ x.pc = "prior" /\ x.key = p /\ x.body = body
        /\ x.seen = pkg[p] /\ x.status = None
    BY DEF Incoming, IsRequest, Ops, Pcs
  <2>2. pkg[p] # None => IsMeta(pkg[p]) /\ HasUpTo(ver, p, pkg[p].latest)
    BY DEF HubInv, StoreInv
  <2>3. NextVersion(x) \in Versions
    <3>1. Latest(p) < MaxVersion /\ p \notin TypeKeys
      BY HubAssumption DEF Publish
    <3>2. pkg[p] # None => pkg[p].latest \in Versions /\ pkg[p].latest < MaxVersion
      BY <2>2, <3>1 DEF Latest, IsMeta, Meta
    <3> QED BY <2>1, <3>2, HubAssumption DEF NextVersion, Versions
  <2>4. None # "corrupt"
    BY NoneIsNothingElse DEF Statuses
  <2> HIDE DEF x
  <2> QED BY <2>1, <2>2, <2>3, <2>4 DEF RequestSound, PackageRequestSound
<1> QED BY <1>1, <1>2, <1>3, ArriveKeeps

LEMMA PublishTypeKeeps ==
  ASSUME HubInv, NEW w \in Workers, NEW t \in TypeKeys, NEW body \in TypeBodies, NEW base, PublishType(w, t, body, base)
  PROVE  HubInv'
<1> DEFINE r == Incoming("type", t[1], t)
           x == [r EXCEPT !.pc = "hash", !.body = body, !.latest = typ[t]]
<1>1. \/ Arrive(w, x) \/ Arrive(w, [r EXCEPT !.status = "stale_base"])
      \/ Arrive(w, [r EXCEPT !.status = "invalid"])
  BY DEF PublishType
<1>2. /\ RequestSound([r EXCEPT !.status = "stale_base"], ver, tver)
      /\ RequestSound([r EXCEPT !.status = "invalid"], ver, tver)
  BY IncomingSound DEF Ops, Statuses
<1>3. RequestSound(x, ver, tver)
  <2>1. /\ IsRequest(x) /\ x.op = "type" /\ x.pc = "hash" /\ x.key = t /\ x.body = body
        /\ x.latest = typ[t] /\ x.status = None
    BY DEF Incoming, IsRequest, Ops, Pcs
  <2>2. typ[t] \in 0..MaxVersion /\ HasUpTo(tver, t, typ[t]) /\ typ[t] < MaxVersion
    BY DEF HubInv, StoreInv, PublishType, Latest
  <2>3. None # "corrupt"
    BY NoneIsNothingElse DEF Statuses
  <2> HIDE DEF x
  <2> QED BY <2>1, <2>2, <2>3, HubAssumption DEF RequestSound, TypeRequestSound, Versions
<1> QED BY <1>1, <1>2, <1>3, ArriveKeeps

(* r with another pc, body or version and otherwise what it was, but for   *)
(* the work on lists.                                                      *)
Changed(x, r, pc, body, version) ==
  /\ IsRequest(x) /\ x.pc = pc /\ x.op = r.op /\ x.key = r.key /\ x.upstream = r.upstream
  /\ x.body = body /\ x.seen = r.seen /\ x.latest = r.latest
  /\ x.status = r.status /\ x.version = version

Moved(x, r, pc) == Changed(x, r, pc, r.body, r.version)

LEMMA PcEdit ==
  ASSUME NEW r, IsRequest(r), NEW pc \in Pcs
  PROVE  Moved([r EXCEPT !.pc = pc], r, pc)
BY DEF IsRequest, Moved, Changed

(* Stars, downloads and forks: the request has seen the document of p.     *)
LEMMA SeenKeeps ==
  ASSUME HubInv, NEW w \in Workers, NEW p \in Packages, NEW pc \in {"starKey", "bump", "forkRead"},
         NEW r, IsRequest(r), r.pc = "done", r.status = None, r.seen = pkg[p], r.key \in Packages,
         r.op = "fork" => r.upstream = p, r.op # "fork" => r.key = p,
         \/ pc = "starKey" /\ r.op \in {"star", "unstar"}
         \/ pc = "bump" /\ r.op = "download"
         \/ pc = "forkRead" /\ r.op = "fork",
         Arrive(w, IF pkg[p] = None THEN [r EXCEPT !.status = "not_found"] ELSE [r EXCEPT !.pc = pc])
  PROVE  HubInv'
<1>1. CASE pkg[p] = None
  <2>1. RequestSound([r EXCEPT !.status = "not_found"], ver, tver)
    BY DEF RequestSound, IsRequest
  <2> QED BY <1>1, <2>1, ArriveKeeps
<1>2. CASE pkg[p] # None
  <2> DEFINE x == [r EXCEPT !.pc = pc]
  <2>1. Moved(x, r, pc)
    BY PcEdit DEF Pcs
  <2>2. IsMeta(pkg[p]) /\ HasUpTo(ver, p, pkg[p].latest)
    BY <1>2 DEF HubInv, StoreInv
  <2>3. None # "corrupt"
    BY NoneIsNothingElse DEF Statuses
  <2>4. Arrive(w, x)
    BY <1>2
  <2> HIDE DEF x
  <2>5. RequestSound(x, ver, tver)
    BY <1>2, <2>1, <2>2, <2>3 DEF RequestSound, PackageRequestSound, Moved, Changed
  <2> QED BY <2>4, <2>5, ArriveKeeps
<1> QED BY <1>1, <1>2

LEMMA ArrivalKeeps ==
  ASSUME HubInv, NEW w \in Workers, Arrival(w)
  PROVE  HubInv'
<1>1. ASSUME NEW p \in Packages, NEW u, NEW op, Star(w, op, u, p) PROVE HubInv'
  <2> DEFINE r == [Incoming(op, u, p) EXCEPT !.seen = pkg[p]]
  <2>1. op \in {"star", "unstar"} /\ op \in Ops
    BY <1>1 DEF Star, Ops
  <2>2. Arrive(w, IF pkg[p] = None THEN [r EXCEPT !.status = "not_found"] ELSE [r EXCEPT !.pc = "starKey"])
    BY <1>1 DEF Star
  <2>3. IsRequest(r) /\ r.pc = "done" /\ r.status = None /\ r.seen = pkg[p] /\ r.key = p /\ r.op = op
    BY <2>1 DEF Incoming, IsRequest, Pcs
  <2> HIDE DEF r
  <2> QED BY <2>1, <2>2, <2>3, SeenKeeps
<1>2. ASSUME NEW p \in Packages, Download(w, p) PROVE HubInv'
  <2> DEFINE r == [Incoming("download", p[1], p) EXCEPT !.seen = pkg[p]]
  <2>1. Arrive(w, IF pkg[p] = None THEN [r EXCEPT !.status = "not_found"] ELSE [r EXCEPT !.pc = "bump"])
    BY <1>2 DEF Download
  <2>2. IsRequest(r) /\ r.pc = "done" /\ r.status = None /\ r.seen = pkg[p] /\ r.key = p /\ r.op = "download"
    BY DEF Incoming, IsRequest, Pcs, Ops
  <2> HIDE DEF r
  <2> QED BY <2>1, <2>2, SeenKeeps
<1>3. ASSUME NEW u, NEW p \in Packages, NEW slug, <<u, slug>> \in Packages, Fork(w, u, p, slug)
      PROVE  HubInv'
  <2> DEFINE r == [Incoming("fork", u, <<u, slug>>) EXCEPT !.upstream = p, !.seen = pkg[p]]
  <2>1. Arrive(w, IF pkg[p] = None THEN [r EXCEPT !.status = "not_found"] ELSE [r EXCEPT !.pc = "forkRead"])
    BY <1>3 DEF Fork
  <2>2. /\ IsRequest(r) /\ r.pc = "done" /\ r.status = None /\ r.seen = pkg[p]
        /\ r.key = <<u, slug>> /\ r.op = "fork" /\ r.upstream = p
    BY DEF Incoming, IsRequest, Pcs, Ops
  <2> HIDE DEF r
  <2> QED BY <1>3, <2>1, <2>2, SeenKeeps
<1> QED BY <1>1, <1>2, <1>3, PublishKeeps, PublishTypeKeeps DEF Arrival

-------------------------------------------------------------------------------
(* The steps of a request in flight.                                       *)

LEMMA Edits ==
  ASSUME NEW r, IsRequest(r), NEW pc \in Pcs, NEW val
  PROVE  /\ Moved([[r EXCEPT !.prior = val] EXCEPT !.pc = pc], r, pc)
         /\ Moved([[r EXCEPT !.todo = val] EXCEPT !.pc = pc], r, pc)
         /\ Changed([[r EXCEPT !.version = val] EXCEPT !.pc = pc], r, pc, r.body, val)
         /\ Changed([[r EXCEPT !.body = val] EXCEPT !.pc = pc], r, pc, val, r.version)
BY DEF IsRequest, Moved, Changed

LEMMA ListEdits ==
  ASSUME NEW r, IsRequest(r), NEW val, NEW other
  PROVE  /\ Moved([r EXCEPT !.todo = val], r, r.pc)
         /\ Moved([[r EXCEPT !.todo = other] EXCEPT !.todo = val], r, r.pc)
         /\ Moved([r EXCEPT !.list = val], r, r.pc)
         /\ Moved([r EXCEPT !.todo = val, !.list = other], r, r.pc)
BY DEF IsRequest, Moved, Changed

LEMMA InFlight ==
  ASSUME HubInv, NEW w \in Workers, NEW pc, pc # "done", At(w, pc)
  PROVE  /\ IsRequest(req[w]) /\ req[w].pc = pc /\ req[w].status # "corrupt"
         /\ req[w].op # "type" => PackageRequestSound(req[w], ver)
         /\ req[w].op = "type" => TypeRequestSound(req[w], tver)
BY DEF HubInv, At, RequestSound

(* The steps that read and go on, or answer.                               *)
LEMMA PublishPriorKeeps ==
  ASSUME HubInv, NEW w \in Workers, PublishPrior(w)
  PROVE  HubInv'
<1> DEFINE r == req[w]
           val == IF r.seen = None THEN None ELSE ver[r.key][r.seen.latest]
           x == [[r EXCEPT !.prior = val] EXCEPT !.pc = "put"]
<1>1. IsRequest(r) /\ r.pc = "prior" /\ r.status # "corrupt" /\ r.op = "publish" /\ PackageRequestSound(r, ver)
  BY InFlight DEF PublishPrior, PackageRequestSound, TypeRequestSound
<1>2. req' = [req EXCEPT ![w] = x] /\ UNCHANGED <<pkg, ver, typ, tver, thash>>
  BY DEF PublishPrior, Goto, store
<1> HIDE DEF val
<1>3. Moved(x, r, "put")
  BY <1>1, Edits DEF Pcs
<1> HIDE DEF x, r
<1>4. RequestSound(x, ver, tver)
  BY <1>1, <1>3 DEF RequestSound, PackageRequestSound, Moved, Changed, NextVersion
<1> QED BY <1>2, <1>4, ReadingKeeps

LEMMA IndexReadKeeps ==
  ASSUME HubInv, NEW w \in Workers, IndexRead(w)
  PROVE  HubInv'
<1> DEFINE r == req[w]
<1>1. IsRequest(r) /\ r.pc \in {"index", "links"} /\ RequestSound(r, ver, tver)
  BY DEF IndexRead, At, HubInv, RequestSound
<1>2. PICK x : req' = [req EXCEPT ![w] = x] /\ Moved(x, r, r.pc)
  BY <1>1, ListEdits DEF IndexRead
<1>3. RequestSound(x, ver, tver)
  BY <1>1, <1>2 DEF RequestSound, PackageRequestSound, TypeRequestSound, Moved, Changed, NextVersion
<1> QED BY <1>2, <1>3, ReadingKeeps DEF IndexRead, store

LEMMA IndexWriteKeeps ==
  ASSUME HubInv, NEW w \in Workers, IndexWrite(w)
  PROVE  HubInv'
<1> DEFINE r == req[w]
           x == [r EXCEPT !.todo = Tail(r.todo), !.list = None]
<1>1. IsRequest(r) /\ r.pc \in {"index", "links"} /\ RequestSound(r, ver, tver)
  BY DEF IndexWrite, At, HubInv, RequestSound
<1>2. req' = [req EXCEPT ![w] = x] /\ UNCHANGED <<pkg, ver, typ, tver, thash>>
  BY DEF IndexWrite, HubInv
<1>3. Moved(x, r, r.pc)
  BY <1>1, ListEdits
<1> HIDE DEF x, r
<1>4. RequestSound(x, ver, tver)
  BY <1>1, <1>3 DEF RequestSound, PackageRequestSound, TypeRequestSound, Moved, Changed, NextVersion
<1> QED BY <1>2, <1>4, ReadingKeeps

(* Any step that replies and leaves the packages and types alone.          *)
LEMMA ReplyKeeps ==
  ASSUME HubInv, NEW w \in Workers, NEW r, IsRequest(r), NEW status \in Statuses \ {"corrupt"},
         Reply(w, r, status), UNCHANGED <<pkg, ver, typ, tver, thash>>
  PROVE  HubInv'
BY ReplySound, ReadingKeeps DEF Reply

(* Any step that only goes on to pc.                                       *)
LEMMA GotoKeeps ==
  ASSUME HubInv, NEW w \in Workers, NEW pc \in Pcs, Goto(w, req[w], pc), UNCHANGED <<pkg, ver, typ, tver, thash>>,
         req[w] # None,
         \A x : Moved(x, req[w], pc) => RequestSound(x, ver, tver)
  PROVE  HubInv'
<1>1. IsRequest(req[w])
  BY DEF HubInv, RequestSound
<1> QED BY <1>1, PcEdit, ReadingKeeps DEF Goto

LEMMA IndexDoneKeeps ==
  ASSUME HubInv, NEW w \in Workers, IndexDone(w)
  PROVE  HubInv'
<1> USE DEF store
<1>1. RequestSound(req[w], ver, tver) /\ req[w] # None /\ req[w].pc \in {"index", "links"} /\ IsRequest(req[w])
  BY DEF IndexDone, At, HubInv, RequestSound
<1>2. CASE req[w].op = "fork" /\ Goto(w, req[w], "upstream")
  <2>1. ASSUME NEW x, Moved(x, req[w], "upstream") PROVE RequestSound(x, ver, tver)
    BY <1>1, <1>2, <2>1 DEF RequestSound, PackageRequestSound, Moved, Changed, NextVersion
  <2> QED BY <1>1, <1>2, <2>1, GotoKeeps DEF IndexDone, Pcs
<1>3. CASE req[w].op = "type" /\ Goto(w, req[w], "typeExtends")
  <2>1. ASSUME NEW x, Moved(x, req[w], "typeExtends") PROVE RequestSound(x, ver, tver)
    BY <1>1, <1>3, <2>1 DEF RequestSound, TypeRequestSound, Moved, Changed
  <2> QED BY <1>1, <1>3, <2>1, GotoKeeps DEF IndexDone, Pcs
<1>4. CASE Reply(w, req[w], "created")
  BY <1>1, <1>4, ReplyKeeps DEF IndexDone, Statuses
<1> QED BY <1>2, <1>3, <1>4 DEF IndexDone

LEMMA StarKeyKeeps ==
  ASSUME HubInv, NEW w \in Workers, StarKey(w)
  PROVE  HubInv'
<1> USE DEF store
<1>1. /\ IsRequest(req[w]) /\ req[w].pc = "starKey" /\ req[w] # None /\ req[w].status # "corrupt"
      /\ req[w].op \in {"star", "unstar"} /\ PackageRequestSound(req[w], ver)
  BY InFlight DEF StarKey, At, PackageRequestSound, TypeRequestSound
<1>2. CASE Reply(w, req[w], "ok")
  BY <1>1, <1>2, ReplyKeeps DEF StarKey, Statuses
<1>3. CASE Goto(w, req[w], "starPut")
  <2>1. ASSUME NEW x, Moved(x, req[w], "starPut") PROVE RequestSound(x, ver, tver)
    BY <1>1, <2>1 DEF RequestSound, PackageRequestSound, Moved, Changed, NextVersion
  <2> QED BY <1>1, <1>3, <2>1, GotoKeeps DEF StarKey, Pcs
<1> QED BY <1>2, <1>3 DEF StarKey

LEMMA StarPutKeeps ==
  ASSUME HubInv, NEW w \in Workers, StarPut(w)
  PROVE  HubInv'
<1>1. /\ IsRequest(req[w]) /\ req[w].pc = "starPut" /\ req[w] # None /\ req[w].status # "corrupt"
      /\ req[w].op \in {"star", "unstar"} /\ PackageRequestSound(req[w], ver)
  BY InFlight DEF StarPut, At, PackageRequestSound, TypeRequestSound
<1>2. CASE Reply(w, req[w], "ok")
  BY <1>1, <1>2, ReplyKeeps DEF StarPut, Statuses
<1>3. CASE Goto(w, req[w], "starMeta") /\ (req[w].op = "star" \/ req[w].seen.stars > 0)
  <2>1. ASSUME NEW x, Moved(x, req[w], "starMeta") PROVE RequestSound(x, ver, tver)
    BY <1>1, <1>3, <2>1 DEF RequestSound, PackageRequestSound, Moved, Changed, NextVersion
  <2> QED BY <1>1, <1>3, <2>1, GotoKeeps DEF StarPut, Pcs
<1> QED BY <1>2, <1>3 DEF StarPut

(* A counter is put back with the document the request saw: no later than  *)
(* the versions that are there.                                            *)
LEMMA CounterPutKeeps ==
  ASSUME HubInv, NEW w \in Workers, NEW p \in Packages, NEW m, NEW status \in Statuses \ {"corrupt"},
         IsRequest(req[w]), Reply(w, req[w], status),
         IsMeta(m), HasUpTo(ver, p, m.latest),
         pkg' = [pkg EXCEPT ![p] = m], UNCHANGED <<ver, typ, tver, thash>>
  PROVE  HubInv'
<1>1. StoreInv' /\ Grows(ver, ver', Packages) /\ Grows(tver, tver', TypeKeys)
  BY MetaPutKeeps
<1> QED BY <1>1, ReplySound, StepKeeps DEF Reply

LEMMA StarMetaKeeps ==
  ASSUME HubInv, NEW w \in Workers, StarMeta(w)
  PROVE  HubInv'
<1> DEFINE r == req[w]
           count == IF r.op = "star" THEN r.seen.stars + 1 ELSE r.seen.stars - 1
           m == [r.seen EXCEPT !.stars = count]
<1>1. /\ IsRequest(r) /\ r.pc = "starMeta" /\ r.op \in {"star", "unstar"} /\ PackageRequestSound(r, ver)
  BY InFlight DEF StarMeta, PackageRequestSound, TypeRequestSound
<1>2. IsMeta(r.seen) /\ r.key \in Packages /\ HasUpTo(ver, r.key, r.seen.latest) /\ count \in Nat
  <2>1. IsMeta(r.seen) /\ r.key \in Packages /\ HasUpTo(ver, r.key, r.seen.latest)
    BY <1>1 DEF PackageRequestSound
  <2>2. r.seen.stars \in Nat /\ (r.op = "unstar" => r.seen.stars > 0)
    BY <1>1, <2>1 DEF PackageRequestSound, IsMeta, Meta
  <2> QED BY <1>1, <2>1, <2>2
<1>3. pkg' = [pkg EXCEPT ![r.key] = m] /\ Reply(w, r, "ok") /\ UNCHANGED <<ver, typ, tver, thash>>
  BY DEF StarMeta
<1> HIDE DEF count, r
<1>4. IsMeta(m) /\ m.latest = r.seen.latest
  BY <1>2, MetaEdits
<1> HIDE DEF m
<1> USE DEF r
<1> QED BY <1>1, <1>2, <1>3, <1>4, CounterPutKeeps DEF Statuses

LEMMA DownloadPutKeeps ==
  ASSUME HubInv, NEW w \in Workers, DownloadPut(w)
  PROVE  HubInv'
<1> DEFINE r == req[w]
           m == [r.seen EXCEPT !.downloads = r.seen.downloads + 1]
<1>1. /\ IsRequest(r) /\ r.pc = "bump" /\ r.op = "download" /\ PackageRequestSound(r, ver)
  BY InFlight DEF DownloadPut, PackageRequestSound, TypeRequestSound
<1>2. IsMeta(r.seen) /\ r.key \in Packages /\ HasUpTo(ver, r.key, r.seen.latest)
      /\ r.seen.downloads + 1 \in Nat
  BY <1>1 DEF PackageRequestSound, IsMeta, Meta
<1>3. IsMeta(m) /\ m.latest = r.seen.latest
  BY <1>2, MetaEdits
<1>4. pkg' = [pkg EXCEPT ![r.key] = m] /\ Reply(w, r, "ok") /\ UNCHANGED <<ver, typ, tver, thash>>
  BY DEF DownloadPut
<1> HIDE DEF m
<1> QED BY <1>1, <1>2, <1>3, <1>4, CounterPutKeeps DEF Statuses

LEMMA ForkBumpKeeps ==
  ASSUME HubInv, NEW w \in Workers, ForkBump(w)
  PROVE  HubInv'
<1> DEFINE r == req[w]
           forks == r.seen.forks + 1
           downloads == r.seen.downloads + 1
           m == [r.seen EXCEPT !.forks = forks, !.downloads = downloads]
<1>1. /\ IsRequest(r) /\ r.pc = "upstream" /\ r.op = "fork" /\ PackageRequestSound(r, ver)
  BY InFlight DEF ForkBump, PackageRequestSound, TypeRequestSound
<1>2. IsMeta(r.seen) /\ r.upstream \in Packages /\ HasUpTo(ver, r.upstream, r.seen.latest)
      /\ forks \in Nat /\ downloads \in Nat
  BY <1>1 DEF PackageRequestSound, IsMeta, Meta
<1>3. pkg' = [pkg EXCEPT ![r.upstream] = m] /\ Reply(w, r, "created") /\ UNCHANGED <<ver, typ, tver, thash>>
  BY DEF ForkBump
<1> HIDE DEF r, forks, downloads
<1>4. IsMeta(m) /\ m.latest = r.seen.latest
  BY <1>2, ForkEdits
<1> HIDE DEF m
<1> USE DEF r
<1> QED BY <1>1, <1>2, <1>3, <1>4, CounterPutKeeps DEF Statuses

(* A fork finds the artifact of the version it saw: never "corrupt".       *)
LEMMA ForkReadKeeps ==
  ASSUME HubInv, NEW w \in Workers, ForkRead(w)
  PROVE  HubInv'
<1> USE DEF store
<1> DEFINE r == req[w]
           artifact == ver[r.upstream][r.seen.latest]
           x == [[r EXCEPT !.body = artifact] EXCEPT !.pc = "forkCheck"]
<1>1. IsRequest(r) /\ r.pc = "forkRead" /\ r.status # "corrupt" /\ r.op = "fork" /\ PackageRequestSound(r, ver)
  BY InFlight DEF ForkRead, PackageRequestSound, TypeRequestSound
<1>2. artifact \in Recipes /\ artifact # None
  <2>1. r.upstream \in Packages /\ r.seen.latest \in Versions /\ HasUpTo(ver, r.upstream, r.seen.latest)
    BY <1>1 DEF PackageRequestSound, IsMeta, Meta
  <2>2. artifact # None
    BY <2>1 DEF HasUpTo, Versions
  <2> QED BY <2>1, <2>2 DEF HubInv, StoreInv
<1>3. CASE Reply(w, r, "self_fork")
  BY <1>1, <1>3, ReplyKeeps DEF ForkRead, Statuses
<1>4. CASE req' = [req EXCEPT ![w] = x]
  <2> HIDE DEF artifact
  <2>1. Changed(x, r, "forkCheck", artifact, r.version)
    BY <1>1, Edits DEF Pcs
  <2> HIDE DEF x, r
  <2>2. RequestSound(x, ver, tver)
    BY <1>1, <1>2, <2>1 DEF RequestSound, PackageRequestSound, Changed, NextVersion
  <2> QED BY <1>4, <2>2, ReadingKeeps DEF ForkRead
<1> QED BY <1>2, <1>3, <1>4 DEF ForkRead, Goto

LEMMA ForkCheckKeeps ==
  ASSUME HubInv, NEW w \in Workers, ForkCheck(w)
  PROVE  HubInv'
<1> USE DEF store
<1>1. /\ IsRequest(req[w]) /\ req[w].pc = "forkCheck" /\ req[w] # None /\ req[w].status # "corrupt"
      /\ req[w].op = "fork" /\ PackageRequestSound(req[w], ver)
  BY InFlight DEF ForkCheck, At, PackageRequestSound, TypeRequestSound
<1>2. CASE Reply(w, req[w], "already_exists")
  BY <1>1, <1>2, ReplyKeeps DEF ForkCheck, Statuses
<1>3. CASE Goto(w, req[w], "put")
  <2>1. ASSUME NEW x, Moved(x, req[w], "put") PROVE RequestSound(x, ver, tver)
    BY <1>1, <2>1 DEF RequestSound, PackageRequestSound, Moved, Changed, NextVersion
  <2> QED BY <1>1, <1>3, <2>1, GotoKeeps DEF ForkCheck, Pcs
<1> QED BY <1>2, <1>3 DEF ForkCheck

(* The dedup shortcut finds the version the hash names: never "corrupt".   *)
LEMMA TypeHashKeeps ==
  ASSUME HubInv, NEW w \in Workers, TypeHash(w)
  PROVE  HubInv'
<1> USE DEF store
<1> DEFINE r == req[w]
           dedup == thash[r.key][r.body.source]
<1>1. /\ IsRequest(r) /\ r.pc = "hash" /\ r # None /\ r.status # "corrupt" /\ r.op = "type"
      /\ TypeRequestSound(r, tver)
  BY InFlight DEF TypeHash, At, PackageRequestSound, TypeRequestSound
<1>2. dedup = 0 \/ tver[r.key][dedup] # None
  BY <1>1 DEF TypeRequestSound, HubInv, StoreInv, Sources
<1>3. CASE Goto(w, r, "typePrior")
  <2>1. ASSUME NEW x, Moved(x, r, "typePrior") PROVE RequestSound(x, ver, tver)
    BY <1>1, <2>1 DEF RequestSound, TypeRequestSound, Moved, Changed
  <2> QED BY <1>1, <1>3, <2>1, GotoKeeps DEF TypeHash, Pcs
<1>4. CASE Reply(w, [r EXCEPT !.version = dedup], "deduped")
  <2>1. IsRequest([r EXCEPT !.version = dedup])
    <3> HIDE DEF dedup
    <3> QED BY <1>1 DEF IsRequest
  <2> QED BY <1>4, <2>1, ReplyKeeps DEF TypeHash, Statuses
<1> QED BY <1>2, <1>3, <1>4 DEF TypeHash

LEMMA TypePriorKeeps ==
  ASSUME HubInv, NEW w \in Workers, TypePrior(w)
  PROVE  HubInv'
<1> DEFINE r == req[w]
           val == TypeArtifact(r)
           x == [[r EXCEPT !.prior = val] EXCEPT !.pc = "typePut"]
<1>1. IsRequest(r) /\ r.pc = "typePrior" /\ r.status # "corrupt" /\ r.op = "type" /\ TypeRequestSound(r, tver)
  BY InFlight DEF TypePrior, PackageRequestSound, TypeRequestSound
<1>2. req' = [req EXCEPT ![w] = x] /\ UNCHANGED <<pkg, ver, typ, tver, thash>>
  BY DEF TypePrior, Goto, store
<1> HIDE DEF val
<1>3. Moved(x, r, "typePut")
  BY <1>1, Edits DEF Pcs
<1> HIDE DEF x, r
<1>4. RequestSound(x, ver, tver)
  BY <1>1, <1>3 DEF RequestSound, TypeRequestSound, Moved, Changed
<1> QED BY <1>2, <1>4, ReadingKeeps

LEMMA TypeExtendsKeeps ==
  ASSUME HubInv, NEW w \in Workers, TypeExtends(w)
  PROVE  HubInv'
<1> DEFINE r == req[w]
           val == ExtendsOps(r.key, TypeArtifact(r), r.body)
           x == [[r EXCEPT !.todo = val] EXCEPT !.pc = "links"]
<1>1. IsRequest(r) /\ r.pc = "typeExtends" /\ r.status # "corrupt" /\ r.op = "type" /\ TypeRequestSound(r, tver)
  BY InFlight DEF TypeExtends, PackageRequestSound, TypeRequestSound
<1>2. req' = [req EXCEPT ![w] = x] /\ UNCHANGED <<pkg, ver, typ, tver, thash>>
  BY DEF TypeExtends, Goto, store
<1> HIDE DEF val
<1>3. Moved(x, r, "links")
  BY <1>1, Edits DEF Pcs
<1> HIDE DEF x, r
<1>4. RequestSound(x, ver, tver)
  BY <1>1, <1>3 DEF RequestSound, TypeRequestSound, Moved, Changed
<1> QED BY <1>2, <1>4, ReadingKeeps

-------------------------------------------------------------------------------
(* The puts of artifacts, and of the metadata that names them.             *)

LEMMA PutVersionKeeps ==
  ASSUME HubInv, NEW w \in Workers, PutVersion(w)
  PROVE  HubInv'
<1> DEFINE r == req[w]
           n == NextVersion(r)
           x == [[r EXCEPT !.version = n] EXCEPT !.pc = "meta"]
<1>1. IsRequest(r) /\ r.pc = "put" /\ r.status # "corrupt" /\ r.op \in {"publish", "fork"} /\ PackageRequestSound(r, ver)
  BY InFlight DEF PutVersion, PackageRequestSound, TypeRequestSound
<1>2. r.key \in Packages /\ r.body \in Recipes /\ n \in Versions
  BY <1>1, HubAssumption DEF PackageRequestSound, NextVersion, Versions
<1>3. ver' = [ver EXCEPT ![r.key][n] = r.body] /\ req' = [req EXCEPT ![w] = x] /\ UNCHANGED <<pkg, typ, tver, thash>>
  BY DEF PutVersion, Goto
<1>4. ver' \in [Packages -> [Versions -> Recipes \cup {None}]] /\ ver'[r.key][n] = r.body /\ Grows(ver, ver', Packages)
  <2>1. ver \in [Packages -> [Versions -> Recipes \cup {None}]] /\ None \notin Recipes
    BY HubAssumption DEF HubInv, StoreInv
  <2> HIDE DEF n, r
  <2> QED BY <1>2, <1>3, <2>1 DEF Grows
<1>5. StoreInv' /\ Grows(tver, tver', TypeKeys)
  <2>1. \A p \in Packages : pkg[p] # None => IsMeta(pkg[p]) /\ HasUpTo(ver', p, pkg[p].latest)
    BY <1>4, HasUpToGrows DEF HubInv, StoreInv, IsMeta, Meta, Versions
  <2> QED BY <1>3, <1>4, <2>1 DEF HubInv, StoreInv, Grows, HasUpTo, IsMeta, Meta
<1>6. Changed(x, r, "meta", r.body, n)
  <2> HIDE DEF n
  <2> QED BY <1>1, Edits DEF Pcs
<1>7. RequestSound(r, ver', tver') /\ PackageRequestSound(r, ver')
  <2>1. RequestSound(r, ver, tver)
    BY <1>1 DEF RequestSound
  <2>2. RequestSound(r, ver', tver')
    BY <1>4, <1>5, <2>1, RequestSoundGrows
  <2> QED BY <1>1, <2>2 DEF RequestSound
<1> HIDE DEF x
<1>8. RequestSound(x, ver', tver')
  <2>1. NextVersion(x) = n
    BY <1>6 DEF Changed, NextVersion
  <2>2. ver'[x.key][x.version] # None
    BY <1>2, <1>4, <1>6, HubAssumption DEF Changed
  <2> HIDE DEF n, r
  <2> QED BY <1>1, <1>2, <1>6, <1>7, <2>1, <2>2 DEF RequestSound, PackageRequestSound, Changed
<1> QED BY <1>3, <1>4, <1>5, <1>8, StepKeeps

(* What PutMeta writes is a document of the version it announces.          *)
LEMMA NewMetaIsMeta ==
  ASSUME NEW category \in Categories, NEW from \in (Packages \X Versions) \cup {None}
  PROVE  IsMeta(NewMeta(category, from)) /\ NewMeta(category, from).latest = 1
BY HubAssumption DEF NewMeta, IsMeta, Meta, Versions

LEMMA MetaWritten ==
  ASSUME NEW r, PackageRequestSound(r, ver), r.pc = "meta",
         NEW m, m = IF r.op = "fork" THEN NewMeta(r.seen.category, <<r.upstream, r.seen.latest>>)
                    ELSE IF r.seen = None THEN NewMeta(r.body.category, None)
                    ELSE [r.seen EXCEPT !.latest = r.version, !.category = r.body.category]
  PROVE  IsMeta(m) /\ m.latest = r.version
<1>1. /\ r.version \in Versions /\ r.version = NextVersion(r)
      /\ r.body.category \in Categories
      /\ r.op = "fork" \/ r.seen # None => IsMeta(r.seen)
      /\ r.op = "fork" => r.upstream \in Packages
  BY DEF PackageRequestSound, Categories
<1>2. CASE r.op = "fork"
  <2>1. r.seen.category \in Categories /\ <<r.upstream, r.seen.latest>> \in Packages \X Versions
    BY <1>1, <1>2 DEF IsMeta, Meta
  <2> QED BY <1>1, <1>2, <2>1, NewMetaIsMeta DEF NextVersion
<1>3. CASE r.op # "fork" /\ r.seen = None
  BY <1>1, <1>3, NewMetaIsMeta DEF NextVersion
<1>4. CASE r.op # "fork" /\ r.seen # None
  <2> DEFINE seen == r.seen
             version == r.version
             category == r.body.category
  <2>1. /\ m = [seen EXCEPT !.latest = version, !.category = category]
        /\ IsMeta(seen) /\ version \in Versions /\ category \in Categories
    BY <1>1, <1>4
  <2> HIDE DEF seen, version, category
  <2>2. IsMeta(m) /\ m.latest = version
    BY <2>1 DEF IsMeta, Meta
  <2> QED BY <2>2 DEF version
<1> QED BY <1>2, <1>3, <1>4

(* The metadata names the request's own artifact and what it saw below it. *)
LEMMA PutMetaKeeps ==
  ASSUME HubInv, NEW w \in Workers, PutMeta(w)
  PROVE  HubInv'
<1> DEFINE r == req[w]
           old == IF r.op = "fork" THEN None ELSE r.seen
           m == IF r.op = "fork" THEN NewMeta(r.seen.category, <<r.upstream, r.seen.latest>>)
                ELSE IF old = None THEN NewMeta(r.body.category, None)
                ELSE [old EXCEPT !.latest = r.version, !.category = r.body.category]
           val == PackageIndexOps(r.key, old, r.prior, m.category, r.body)
           x == [[r EXCEPT !.todo = val] EXCEPT !.pc = "index"]
<1>1. IsRequest(r) /\ r.pc = "meta" /\ r.status # "corrupt" /\ r.op \in {"publish", "fork"} /\ PackageRequestSound(r, ver)
  BY InFlight DEF PutMeta, PackageRequestSound, TypeRequestSound
<1>2. pkg' = [pkg EXCEPT ![r.key] = m] /\ req' = [req EXCEPT ![w] = x] /\ UNCHANGED <<ver, typ, tver, thash>>
  BY DEF PutMeta, Goto
<1>3. /\ r.key \in Packages /\ r.version \in Versions /\ r.version = NextVersion(r) /\ ver[r.key][r.version] # None
      /\ r.op # "fork" /\ r.seen # None => IsMeta(r.seen) /\ HasUpTo(ver, r.key, r.seen.latest)
  BY <1>1 DEF PackageRequestSound
<1>4. IsMeta(m) /\ m.latest = r.version
  BY <1>1, MetaWritten
<1> HIDE DEF m, val
<1>5. HasUpTo(ver, r.key, m.latest)
  <2>1. CASE r.op = "fork" \/ r.seen = None
    BY <1>3, <1>4, <2>1 DEF NextVersion, HasUpTo
  <2>2. CASE r.op # "fork" /\ r.seen # None
    <3>1. r.version = r.seen.latest + 1 /\ r.seen.latest \in Nat /\ HasUpTo(ver, r.key, r.seen.latest)
      BY <1>3, <2>2 DEF NextVersion, IsMeta, Meta, Versions
    <3>2. ASSUME NEW i \in 1..r.version PROVE ver[r.key][i] # None
      <4>1. i \in 1..r.seen.latest \/ i = r.version
        BY <3>1, <3>2
      <4> QED BY <1>3, <3>1, <4>1 DEF HasUpTo
    <3> QED BY <1>4, <3>2 DEF HasUpTo
  <2> QED BY <2>1, <2>2
<1>6. StoreInv' /\ Grows(ver, ver', Packages) /\ Grows(tver, tver', TypeKeys)
  BY <1>2, <1>3, <1>4, <1>5, MetaPutKeeps
<1>7. Moved(x, r, "index")
  BY <1>1, Edits DEF Pcs
<1> HIDE DEF x
<1>8. RequestSound(x, ver, tver)
  <2> HIDE DEF r
  <2> QED BY <1>1, <1>7 DEF RequestSound, PackageRequestSound, Moved, Changed, NextVersion
<1> QED BY <1>2, <1>6, <1>8, StepKeeps

LEMMA TypePutKeeps ==
  ASSUME HubInv, NEW w \in Workers, TypePut(w)
  PROVE  HubInv'
<1> DEFINE r == req[w]
           n == r.latest + 1
           x == [[r EXCEPT !.version = n] EXCEPT !.pc = "typeHash"]
<1>1. IsRequest(r) /\ r.pc = "typePut" /\ r.status # "corrupt" /\ r.op = "type" /\ TypeRequestSound(r, tver)
  BY InFlight DEF TypePut, PackageRequestSound, TypeRequestSound
<1>2. r.key \in TypeKeys /\ r.body \in TypeBodies /\ n \in Versions
  BY <1>1 DEF TypeRequestSound
<1>3. tver' = [tver EXCEPT ![r.key][n] = r.body] /\ req' = [req EXCEPT ![w] = x] /\ UNCHANGED <<pkg, ver, typ, thash>>
  BY DEF TypePut, Goto
<1>4. tver' \in [TypeKeys -> [Versions -> TypeBodies \cup {None}]] /\ tver'[r.key][n] = r.body /\ Grows(tver, tver', TypeKeys)
  <2>1. tver \in [TypeKeys -> [Versions -> TypeBodies \cup {None}]] /\ None \notin TypeBodies
    BY HubAssumption DEF HubInv, StoreInv
  <2> HIDE DEF n, r
  <2> QED BY <1>2, <1>3, <2>1 DEF Grows
<1>5. StoreInv' /\ Grows(ver, ver', Packages)
  <2>1. \A t \in TypeKeys : HasUpTo(tver', t, typ[t])
    BY <1>4, HasUpToGrows DEF HubInv, StoreInv
  <2>2. \A t \in TypeKeys, s \in Sources : thash[t][s] # 0 => tver'[t][thash[t][s]] # None
    BY <1>4 DEF HubInv, StoreInv, Grows, Versions
  <2> QED BY <1>3, <1>4, <2>1, <2>2 DEF HubInv, StoreInv, Grows, HasUpTo, IsMeta, Meta
<1>6. Changed(x, r, "typeHash", r.body, n)
  <2> HIDE DEF n
  <2> QED BY <1>1, Edits DEF Pcs
<1>7. TypeRequestSound(r, tver')
  <2>1. RequestSound(r, ver, tver)
    BY <1>1 DEF RequestSound
  <2>2. RequestSound(r, ver', tver')
    BY <1>4, <1>5, <2>1, RequestSoundGrows
  <2> QED BY <1>1, <2>2 DEF RequestSound
<1> HIDE DEF x
<1>8. RequestSound(x, ver', tver')
  <2>1. tver'[x.key][x.version] # None
    BY <1>2, <1>4, <1>6, HubAssumption DEF Changed
  <2> HIDE DEF r
  <2> QED BY <1>1, <1>2, <1>6, <1>7, <2>1 DEF RequestSound, TypeRequestSound, Changed
<1> QED BY <1>3, <1>4, <1>5, <1>8, StepKeeps

LEMMA TypePutHashKeeps ==
  ASSUME HubInv, NEW w \in Workers, TypePutHash(w)
  PROVE  HubInv'
<1> DEFINE r == req[w]
           x == [r EXCEPT !.pc = "typeMeta"]
<1>1. IsRequest(r) /\ r.pc = "typeHash" /\ r.status # "corrupt" /\ r.op = "type" /\ TypeRequestSound(r, tver)
  BY InFlight DEF TypePutHash, PackageRequestSound, TypeRequestSound
<1>2. thash' = [thash EXCEPT ![r.key][r.body.source] = r.version] /\ req' = [req EXCEPT ![w] = x]
      /\ UNCHANGED <<pkg, ver, typ, tver>>
  BY DEF TypePutHash, Goto
<1>3. Moved(x, r, "typeMeta")
  BY <1>1, PcEdit DEF Pcs
<1> HIDE DEF x
<1>4. /\ r.key \in TypeKeys /\ r.body.source \in Sources /\ r.version \in 0..MaxVersion
      /\ tver[r.key][r.version] # None
  BY <1>1 DEF TypeRequestSound, Sources, Versions
<1>5. StoreInv'
  <2> DEFINE source == r.body.source
             key == r.key
             version == r.version
  <2>1. /\ key \in TypeKeys /\ source \in Sources /\ version \in 0..MaxVersion /\ tver[key][version] # None
        /\ thash' = [thash EXCEPT ![key][source] = version] /\ UNCHANGED <<pkg, ver, typ, tver>>
    BY <1>2, <1>4
  <2> HIDE DEF source, key, version
  <2>2. thash \in [TypeKeys -> [Sources -> 0..MaxVersion]]
    BY DEF HubInv, StoreInv
  <2>3. thash' \in [TypeKeys -> [Sources -> 0..MaxVersion]]
    BY <2>1, <2>2
  <2>4. \A t \in TypeKeys, s \in Sources :
          thash'[t][s] = thash[t][s] \/ (t = key /\ thash'[t][s] = version)
    BY <2>1, <2>2
  <2>5. \A t \in TypeKeys, s \in Sources : thash'[t][s] # 0 => tver'[t][thash'[t][s]] # None
    BY <2>1, <2>4 DEF HubInv, StoreInv
  <2> QED BY <2>1, <2>3, <2>5 DEF HubInv, StoreInv, HasUpTo, IsMeta, Meta
<1>6. RequestSound(x, ver, tver)
  <2> HIDE DEF r
  <2> QED BY <1>1, <1>3 DEF RequestSound, TypeRequestSound, Moved, Changed
<1>7. Grows(ver, ver', Packages) /\ Grows(tver, tver', TypeKeys)
  BY <1>2 DEF Grows
<1> QED BY <1>2, <1>5, <1>6, <1>7, StepKeeps

LEMMA TypeMetaKeeps ==
  ASSUME HubInv, NEW w \in Workers, TypeMeta(w)
  PROVE  HubInv'
<1> DEFINE r == req[w]
           val == TypeIndexOps(r.key, r.latest, r.prior, r.body)
           x == [[r EXCEPT !.todo = val] EXCEPT !.pc = "index"]
<1>1. IsRequest(r) /\ r.pc = "typeMeta" /\ r.status # "corrupt" /\ r.op = "type" /\ TypeRequestSound(r, tver)
  BY InFlight DEF TypeMeta, PackageRequestSound, TypeRequestSound
<1>2. typ' = [typ EXCEPT ![r.key] = r.version] /\ req' = [req EXCEPT ![w] = x] /\ UNCHANGED <<pkg, ver, tver, thash>>
  BY DEF TypeMeta, Goto
<1> HIDE DEF val
<1>3. Moved(x, r, "index")
  BY <1>1, Edits DEF Pcs
<1> HIDE DEF x
<1>4. /\ r.key \in TypeKeys /\ r.version = r.latest + 1 /\ r.version \in Versions /\ r.latest \in Nat
      /\ tver[r.key][r.version] # None /\ HasUpTo(tver, r.key, r.latest)
  BY <1>1 DEF TypeRequestSound
<1>5. HasUpTo(tver, r.key, r.version)
  <2>1. ASSUME NEW i \in 1..r.version PROVE tver[r.key][i] # None
    <3>1. i \in 1..r.latest \/ i = r.version
      BY <1>4, <2>1 DEF Versions
    <3> QED BY <1>4, <3>1 DEF HasUpTo
  <2> QED BY <2>1 DEF HasUpTo
<1>6. StoreInv'
  <2>1. typ' \in [TypeKeys -> 0..MaxVersion]
    BY <1>2, <1>4 DEF HubInv, StoreInv, Versions
  <2>2. \A t \in TypeKeys : HasUpTo(tver, t, typ'[t])
    BY <1>2, <1>4, <1>5 DEF HubInv, StoreInv
  <2> QED BY <1>2, <2>1, <2>2 DEF HubInv, StoreInv, HasUpTo, IsMeta, Meta
<1>7. RequestSound(x, ver, tver)
  <2> HIDE DEF r
  <2> QED BY <1>1, <1>3 DEF RequestSound, TypeRequestSound, Moved, Changed
<1>8. Grows(ver, ver', Packages) /\ Grows(tver, tver', TypeKeys)
  BY <1>2 DEF Grows
<1> QED BY <1>2, <1>6, <1>7, <1>8, StepKeeps

LEMMA EndKeeps ==
  ASSUME HubInv, NEW w \in Workers, Die(w) \/ Deliver(w)
  PROVE  HubInv'
<1>1. req' = [req EXCEPT ![w] = None] /\ UNCHANGED <<pkg, ver, typ, tver, thash>>
  BY DEF Die, Deliver, store
<1> QED BY <1>1, ReadingKeeps

-------------------------------------------------------------------------------

LEMMA HubInvStep ==
  HubInv /\ [Next]_vars => HubInv'
<1> SUFFICES ASSUME HubInv, [Next]_vars PROVE HubInv'
  OBVIOUS
<1>1. CASE UNCHANGED vars
  BY <1>1 DEF vars, HubInv, StoreInv, HasUpTo, IsMeta, Meta
<1>2. CASE Next
  BY <1>2, ArrivalKeeps, PublishPriorKeeps, PutVersionKeeps, PutMetaKeeps, IndexReadKeeps,
     IndexWriteKeeps, IndexDoneKeeps, StarKeyKeeps, StarPutKeeps, StarMetaKeeps,
     DownloadPutKeeps, ForkReadKeeps, ForkCheckKeeps, ForkBumpKeeps, TypeHashKeeps,
     TypePriorKeeps, TypePutKeeps, TypePutHashKeeps, TypeMetaKeeps, TypeExtendsKeeps, EndKeeps
  DEF Next, Step
<1> QED BY <1>1, <1>2

LEMMA HubInvHolds == Spec => []HubInv
<1>1. Init => HubInv
  BY HubAssumption DEF Init, HubInv, StoreInv, HasUpTo, Versions
<1> QED BY <1>1, HubInvStep, PTL DEF Spec

(* Every version up to the latest that a package's or a type's metadata    *)
(* names can be fetched, and no fork or dedup ever answers "corrupt",      *)
(* whatever requests race and wherever they die.                           *)
THEOREM VersionsAreAlwaysStored == Spec => []VersionsAreStored
<1>1. HubInv => VersionsAreStored
  <2> SUFFICES ASSUME HubInv PROVE VersionsAreStored
    OBVIOUS
  <2>1. ASSUME NEW k \in Keys, NEW n \in 1..Latest(k) PROVE Stored(k, n) # None
    <3>1. CASE k \in TypeKeys
      BY <2>1, <3>1 DEF HubInv, StoreInv, HasUpTo, Latest, Stored
    <3>2. CASE k \notin TypeKeys
      BY <2>1, <3>2 DEF HubInv, StoreInv, HasUpTo, Latest, Stored, Keys, IsMeta, Meta
    <3> QED BY <3>1, <3>2
  <2>2. \A w \in Workers : req[w] # None => req[w].status # "corrupt"
    BY DEF HubInv, RequestSound
  <2> QED BY <2>1, <2>2 DEF VersionsAreStored
<1> QED BY <1>1, HubInvHolds, PTL

-------------------------------------------------------------------------------
(* The types of requests, with the work on lists they have left.           *)

Typed(r) ==
  /\ r \in Request
  /\ r.pc \notin {"index", "links"} \/ r.todo = <<>> => r.list = None
  /\ r.pc # "done" =>
       IF r.op = "type" THEN r.prior \in TypeBodies \cup {None} /\ r.body.extends # Missing
       ELSE r.prior \in Recipes \cup {None}

TypeInv ==
  /\ idx \in [Lists -> SUBSET Entries]
  /\ \A t \in TypeKeys, n \in Versions : tver[t][n] # None => tver[t][n].extends # Missing
  /\ \A w \in Workers : req[w] # None => Typed(req[w])

LEMMA SetToSeqType ==
  ASSUME NEW S, IsFiniteSet(S)
  PROVE  SetToSeq(S) \in Seq(S)
<1> DEFINE n == Cardinality(S)
<1>1. n \in Nat /\ ExistsBijection(1..n, S)
  BY FS_CardinalityType
<1>2. PICK f : f \in Bijection(1..n, S)
  BY <1>1 DEF ExistsBijection
<1>3. f \in [1..n -> S] /\ IsInjective(f)
  BY <1>2 DEF Bijection, Injection, IsInjective
<1>4. SetToSeq(S) \in [1..n -> S]
  BY <1>3 DEF SetToSeq
<1> HIDE DEF n
<1> QED BY <1>1, <1>4

LEMMA ImageFinite ==
  ASSUME NEW S, IsFiniteSet(S), NEW f, DOMAIN f = S
  PROVE  IsFiniteSet({f[x] : x \in S})
<1> DEFINE T == {f[x] : x \in S}
           g == [x \in S |-> f[x]]
<1>1. g \in Surjection(S, T)
  BY DEF Surjection
<1> HIDE DEF T, g
<1> QED BY <1>1, FS_Surjection DEF T

LEMMA AllType ==
  ASSUME NEW kind, NEW of, IsFiniteSet(of), NEW entry \in Entries, \A k \in of : <<kind, k>> \in Lists
  PROVE  AddAll(kind, of, entry) \in Seq(ListOp) /\ RemoveAll(kind, of, entry) \in Seq(ListOp)
<1>1. IsFiniteSet({AddTo(<<kind, k>>, entry) : k \in of})
  <2>1. PICK f : f = [k \in of |-> AddTo(<<kind, k>>, entry)]
    OBVIOUS
  <2>2. DOMAIN f = of /\ {f[x] : x \in of} = {AddTo(<<kind, k>>, entry) : k \in of}
    BY <2>1
  <2>3. IsFiniteSet({f[x] : x \in of})
    BY <2>2, ImageFinite
  <2> QED BY <2>2, <2>3
<1>2. IsFiniteSet({RemoveFrom(<<kind, k>>, entry) : k \in of})
  <2>1. PICK f : f = [k \in of |-> RemoveFrom(<<kind, k>>, entry)]
    OBVIOUS
  <2>2. DOMAIN f = of /\ {f[x] : x \in of} = {RemoveFrom(<<kind, k>>, entry) : k \in of}
    BY <2>1
  <2>3. IsFiniteSet({f[x] : x \in of})
    BY <2>2, ImageFinite
  <2> QED BY <2>2, <2>3
<1>3. {AddTo(<<kind, k>>, entry) : k \in of} \subseteq ListOp
  BY DEF AddTo, ListOp
<1>4. {RemoveFrom(<<kind, k>>, entry) : k \in of} \subseteq ListOp
  BY DEF RemoveFrom, ListOp
<1>5. AddAll(kind, of, entry) \in Seq(ListOp)
  BY <1>1, <1>3, SetToSeqType DEF AddAll
<1>6. RemoveAll(kind, of, entry) \in Seq(ListOp)
  BY <1>2, <1>4, SetToSeqType DEF RemoveAll
<1> QED BY <1>5, <1>6

LEMMA DiffIndexType ==
  ASSUME NEW kind, NEW from, NEW to, IsFiniteSet(from), IsFiniteSet(to), NEW entry \in Entries,
         \A k \in from \cup to : <<kind, k>> \in Lists
  PROVE  DiffIndex(kind, from, to, entry) \in Seq(ListOp)
<1>1. IsFiniteSet(to \ from) /\ IsFiniteSet(from \ to)
  BY FS_Subset
<1>2. AddAll(kind, to \ from, entry) \in Seq(ListOp) /\ RemoveAll(kind, from \ to, entry) \in Seq(ListOp)
  BY <1>1, AllType
<1> QED BY <1>2 DEF DiffIndex

LEMMA PackageIndexOpsType ==
  ASSUME NEW p \in Packages, NEW old, old # None => old \in Meta,
         NEW prior \in Recipes \cup {None}, NEW category \in Categories, NEW body \in Recipes
  PROVE  PackageIndexOps(p, old, prior, category, body) \in Seq(ListOp)
<1>1. p \in Entries /\ category \in Entries /\ p[1] \in Users
  BY HubAssumption DEF Entries, Keys
<1>2. /\ <<"packages">> \in Lists /\ <<"categories">> \in Lists /\ <<"user_packages", p[1]>> \in Lists
      /\ \A c \in Categories : <<"cat", c>> \in Lists
      /\ \A t \in TypeKeys : <<"consumers", t>> \in Lists /\ <<"producers", t>> \in Lists
  BY <1>1 DEF Lists
<1>3. IndexNew("packages", "user_packages", p) \in Seq(ListOp)
  BY <1>1, <1>2 DEF IndexNew, AddTo, ListOp
<1>4. IndexAddCategory(category, p) \in Seq(ListOp)
  BY <1>1, <1>2 DEF IndexAddCategory, AddTo, ListOp
<1>5. old # None => IndexRemoveCategory(old.category, p) \in Seq(ListOp)
  <2>1. old # None => old.category \in Categories /\ old.category \in Entries
    BY DEF Meta, Entries
  <2> QED BY <1>1, <1>2, <2>1 DEF IndexRemoveCategory, RemoveFrom, ListOp
<1>6. \A r \in Recipes : /\ IsFiniteSet(r.inputs) /\ r.inputs \subseteq TypeKeys
                         /\ IsFiniteSet(r.outputs) /\ r.outputs \subseteq TypeKeys
  BY HubAssumption
<1>7. IsFiniteSet({})
  BY FS_EmptySet
<1>8. /\ DiffIndex("consumers", IF prior = None THEN {} ELSE prior.inputs, body.inputs, p) \in Seq(ListOp)
      /\ DiffIndex("producers", IF prior = None THEN {} ELSE prior.outputs, body.outputs, p) \in Seq(ListOp)
  <2> DEFINE ins == IF prior = None THEN {} ELSE prior.inputs
             outs == IF prior = None THEN {} ELSE prior.outputs
  <2>1. IsFiniteSet(ins) /\ ins \subseteq TypeKeys /\ IsFiniteSet(outs) /\ outs \subseteq TypeKeys
    BY <1>6, <1>7
  <2> HIDE DEF ins, outs
  <2>2. DiffIndex("consumers", ins, body.inputs, p) \in Seq(ListOp)
    BY <1>1, <1>2, <1>6, <2>1, DiffIndexType
  <2>3. DiffIndex("producers", outs, body.outputs, p) \in Seq(ListOp)
    BY <1>1, <1>2, <1>6, <2>1, DiffIndexType
  <2> QED BY <2>2, <2>3 DEF ins, outs
<1> DEFINE a == IF old = None THEN IndexNew("packages", "user_packages", p) ELSE <<>>
           b == IF old # None /\ old.category # category THEN IndexRemoveCategory(old.category, p) ELSE <<>>
<1>9. a \in Seq(ListOp) /\ b \in Seq(ListOp)
  BY <1>3, <1>5
<1> HIDE DEF a, b
<1>10. \A s, t \in Seq(ListOp) : s \o t \in Seq(ListOp)
  OBVIOUS
<1> QED BY <1>4, <1>8, <1>9, <1>10 DEF PackageIndexOps, a, b

LEMMA TypeIndexOpsType ==
  ASSUME NEW t \in TypeKeys, NEW seen, NEW prior \in TypeBodies \cup {None}, NEW body \in TypeBodies
  PROVE  TypeIndexOps(t, seen, prior, body) \in Seq(ListOp)
<1>1. t \in Entries /\ t[1] \in Users /\ <<"types">> \in Lists /\ <<"user_types", t[1]>> \in Lists
  BY HubAssumption DEF Entries, Keys, Lists
<1>2. \A b \in TypeBodies : IsFiniteSet(b.aligned) /\ \A u \in b.aligned : <<"aligned", u>> \in Lists
  BY HubAssumption DEF Lists, AlignmentUris
<1> DEFINE from == IF prior = None THEN {} ELSE prior.aligned
           a == IF seen = 0 THEN IndexNew("types", "user_types", t) ELSE <<>>
<1>3. IsFiniteSet(from) /\ \A u \in from : <<"aligned", u>> \in Lists
  BY <1>2, FS_EmptySet
<1>4. a \in Seq(ListOp)
  <2>1. AddTo(<<"types">>, t) \in ListOp /\ AddTo(<<"user_types", t[1]>>, t) \in ListOp
    BY <1>1 DEF AddTo, ListOp
  <2> QED BY <2>1 DEF IndexNew
<1> HIDE DEF from, a
<1>5. DiffIndex("aligned", from, body.aligned, t) \in Seq(ListOp)
  BY <1>1, <1>2, <1>3, DiffIndexType
<1>6. TypeIndexOps(t, seen, prior, body) = a \o DiffIndex("aligned", from, body.aligned, t)
  BY DEF TypeIndexOps, from, a
<1>7. \A s, u \in Seq(ListOp) : s \o u \in Seq(ListOp)
  OBVIOUS
<1> QED BY <1>4, <1>5, <1>6, <1>7

LEMMA ExtendsOpsType ==
  ASSUME NEW t \in TypeKeys, NEW prior, prior # None => prior \in TypeBodies /\ prior.extends # Missing,
         NEW body \in TypeBodies, body.extends # Missing
  PROVE  ExtendsOps(t, prior, body) \in Seq(ListOp)
<1>1. t \in Entries
  BY DEF Entries, Keys
<1>2. \A b \in TypeBodies : b.extends # None /\ b.extends # Missing => <<"extends", b.extends>> \in Lists
  BY DEF Lists, Pins
<1> DEFINE a == IF prior # None /\ prior.extends # None /\ prior.extends # body.extends
                THEN <<RemoveFrom(<<"extends", prior.extends>>, t)>> ELSE <<>>
           b == IF body.extends # None THEN <<AddTo(<<"extends", body.extends>>, t)>> ELSE <<>>
<1>3. a \in Seq(ListOp) /\ b \in Seq(ListOp)
  <2>1. \A e : <<"extends", e>> \in Lists =>
               AddTo(<<"extends", e>>, t) \in ListOp /\ RemoveFrom(<<"extends", e>>, t) \in ListOp
    BY <1>1 DEF AddTo, RemoveFrom, ListOp
  <2>2. a \in Seq(ListOp)
    BY <1>2, <2>1
  <2>3. b \in Seq(ListOp)
    BY <1>2, <2>1
  <2> QED BY <2>2, <2>3
<1>4. ExtendsOps(t, prior, body) = a \o b
  BY DEF ExtendsOps
<1> HIDE DEF a, b
<1> QED BY <1>3, <1>4

LEMMA TypedStep ==
  ASSUME HubInv, TypeInv, NEW w \in Workers, NEW x, req' = [req EXCEPT ![w] = x], Typed(x),
         UNCHANGED <<idx, tver>>
  PROVE  TypeInv' /\ Typed(req'[w])
<1>1. DOMAIN req' = Workers /\ req'[w] = x /\ \A v \in Workers \ {w} : req'[v] = req[v]
  BY DEF HubInv
<1> QED BY <1>1 DEF TypeInv, Typed

LEMMA GotoTyped ==
  ASSUME HubInv, TypeInv, NEW w \in Workers, NEW r, Typed(r), r.pc # "done", r.list = None, NEW pc \in Pcs, Goto(w, r, pc),
         UNCHANGED <<idx, tver>>
  PROVE  TypeInv' /\ Typed(req'[w])
<1>1. Typed([r EXCEPT !.pc = pc])
  BY DEF Typed, Request
<1> QED BY <1>1, TypedStep DEF Goto

LEMMA InRequest ==
  ASSUME NEW x, IsRequest(x), x.user \in Users, x.key \in Keys, x.upstream \in Packages \cup {None},
         x.body \in Recipes \cup TypeBodies \cup {None}, x.seen \in Meta \cup {None}, x.latest \in Nat,
         x.prior \in Recipes \cup TypeBodies \cup {None}, x.todo \in Seq(ListOp),
         x.list \in (SUBSET Entries) \cup {None}, x.status \in Statuses \cup {None}, x.version \in Nat
  PROVE  x \in Request
<1> HIDE DEF Ops, Pcs, Statuses, ListOp, Meta, Entries
<1> QED BY DEF IsRequest, Request

LEMMA FieldsOfRequest ==
  ASSUME NEW x \in Request
  PROVE  /\ IsRequest(x) /\ x.user \in Users /\ x.key \in Keys /\ x.upstream \in Packages \cup {None}
         /\ x.body \in Recipes \cup TypeBodies \cup {None} /\ x.seen \in Meta \cup {None} /\ x.latest \in Nat
         /\ x.prior \in Recipes \cup TypeBodies \cup {None} /\ x.todo \in Seq(ListOp)
         /\ x.list \in (SUBSET Entries) \cup {None} /\ x.status \in Statuses \cup {None} /\ x.version \in Nat
<1> HIDE DEF Ops, Pcs, Statuses, ListOp, Meta, Entries
<1> QED BY DEF IsRequest, Request

LEMMA ReplyTyped ==
  ASSUME HubInv, TypeInv, NEW w \in Workers, NEW r \in Request, NEW status \in Statuses, Reply(w, r, status),
         UNCHANGED <<idx, tver>>
  PROVE  TypeInv' /\ Typed(req'[w])
<1> DEFINE x == [Incoming(r.op, r.user, r.key) EXCEPT !.status = status, !.version = r.version]
<1>1. r.op \in Ops /\ r.user \in Users /\ r.key \in Keys /\ r.version \in Nat
  BY DEF Request
<1>2. x \in Request /\ x.pc = "done" /\ x.list = None
  <2>1. PICK q : q = Incoming(r.op, r.user, r.key)
    OBVIOUS
  <2>2. q \in Request /\ q.pc = "done" /\ q.list = None
    <3> HIDE DEF Ops
    <3> QED BY <1>1, <2>1 DEF Incoming, Request, Pcs
  <2>3. PICK y : y = [q EXCEPT !.status = status, !.version = r.version]
    OBVIOUS
  <2>4. IsRequest(q)
    BY <2>2, FieldsOfRequest
  <2>5. /\ IsRequest(y) /\ y.pc = "done" /\ y.user = q.user /\ y.key = q.key /\ y.upstream = q.upstream
        /\ y.body = q.body /\ y.seen = q.seen /\ y.latest = q.latest /\ y.prior = q.prior
        /\ y.todo = q.todo /\ y.list = q.list /\ y.status = status /\ y.version = r.version
    BY <2>2, <2>3, <2>4 DEF IsRequest
  <2>6. y \in Request
    BY <1>1, <2>2, <2>5, FieldsOfRequest, InRequest
  <2> QED BY <2>1, <2>2, <2>3, <2>5, <2>6
<1> HIDE DEF x
<1>3. req' = [req EXCEPT ![w] = x]
  BY DEF Reply, x
<1> QED BY <1>2, <1>3, TypedStep DEF Typed

(* What a request in flight may write down about itself.                   *)
LEMMA TypedEdits ==
  ASSUME NEW r, Typed(r), r.pc # "done"
  PROVE  /\ \A n \in Nat : Typed([r EXCEPT !.version = n])
         /\ r.list = None => \A ops \in Seq(ListOp) : Typed([r EXCEPT !.todo = ops])
         /\ \A body \in Recipes : r.op # "type" => Typed([r EXCEPT !.body = body])
         /\ \A prior \in (IF r.op = "type" THEN TypeBodies ELSE Recipes) \cup {None} :
              Typed([r EXCEPT !.prior = prior])
BY DEF Typed, Request

LEMMA InFlightTyped ==
  ASSUME TypeInv, NEW w \in Workers, NEW pc, pc # "done", At(w, pc)
  PROVE  Typed(req[w]) /\ req[w] \in Request /\ req[w].pc = pc /\ req[w] # None
BY DEF TypeInv, At, Typed

LEMMA ArrivalTyped ==
  ASSUME HubInv, TypeInv, NEW w \in Workers, Arrival(w)
  PROVE  TypeInv' /\ Typed(req'[w])
<1>1. ASSUME NEW x, Arrive(w, x), Typed(x) PROVE TypeInv' /\ Typed(req'[w])
  BY <1>1, TypedStep DEF Arrive, store
<1>2. ASSUME NEW op \in Ops, NEW user \in Users, NEW key \in Keys
      PROVE  /\ Incoming(op, user, key) \in Request /\ Incoming(op, user, key).pc = "done"
             /\ Incoming(op, user, key).list = None
             /\ Incoming(op, user, key).prior = None /\ Incoming(op, user, key).op = op
  <2> HIDE DEF Ops
  <2> QED BY DEF Incoming, Request, Pcs
<1>3. ASSUME NEW r \in Request, r.pc = "done", r.list = None PROVE \A status \in Statuses : Typed([r EXCEPT !.status = status])
  BY <1>3 DEF Request, Typed
<1>4. \A p \in Packages : pkg[p] \in Meta \cup {None} /\ p[1] \in Users /\ p \in Keys
  BY HubAssumption DEF HubInv, StoreInv, IsMeta, Keys
<1>5. ASSUME NEW p \in Packages, NEW body \in Recipes, NEW base, Publish(w, p, body, base) PROVE TypeInv' /\ Typed(req'[w])
  <2>1. PICK r : r = Incoming("publish", p[1], p)
    OBVIOUS
  <2>2. r \in Request /\ r.pc = "done" /\ r.prior = None /\ r.list = None /\ r.op = "publish"
    BY <1>2, <1>4, <2>1 DEF Ops
  <2>3. Typed([r EXCEPT !.pc = "prior", !.body = body, !.seen = pkg[p]])
    <3>1. PICK y : y = [r EXCEPT !.pc = "prior", !.body = body, !.seen = pkg[p]]
      OBVIOUS
    <3>2. IsRequest(r)
      BY <2>2, FieldsOfRequest
    <3>3. /\ IsRequest(y) /\ y.op = r.op /\ y.user = r.user /\ y.key = r.key /\ y.upstream = r.upstream
          /\ y.body = body /\ y.seen = pkg[p] /\ y.latest = r.latest /\ y.prior = r.prior
          /\ y.todo = r.todo /\ y.list = r.list /\ y.status = r.status /\ y.version = r.version
      BY <3>1, <3>2 DEF IsRequest, Pcs
    <3>4. y \in Request
      BY <1>4, <2>2, <3>3, FieldsOfRequest, InRequest
    <3> QED BY <2>2, <3>1, <3>3, <3>4 DEF Typed
  <2>4. Typed([r EXCEPT !.status = "stale_base"])
    BY <1>3, <2>2 DEF Statuses
  <2> QED BY <1>1, <1>5, <2>1, <2>3, <2>4 DEF Publish
<1>6. ASSUME NEW t \in TypeKeys, NEW body \in TypeBodies, NEW base, PublishType(w, t, body, base) PROVE TypeInv' /\ Typed(req'[w])
  <2>1. PICK r : r = Incoming("type", t[1], t)
    OBVIOUS
  <2>2. r \in Request /\ r.pc = "done" /\ r.prior = None /\ r.list = None /\ r.op = "type" /\ typ[t] \in Nat
    BY <1>2, <2>1, HubAssumption DEF Ops, Keys, HubInv, StoreInv
  <2>3. body.extends # Missing => Typed([r EXCEPT !.pc = "hash", !.body = body, !.latest = typ[t]])
    <3>1. PICK y : y = [r EXCEPT !.pc = "hash", !.body = body, !.latest = typ[t]]
      OBVIOUS
    <3>2. IsRequest(r)
      BY <2>2, FieldsOfRequest
    <3>3. /\ IsRequest(y) /\ y.op = r.op /\ y.user = r.user /\ y.key = r.key /\ y.upstream = r.upstream
          /\ y.body = body /\ y.seen = r.seen /\ y.latest = typ[t] /\ y.prior = r.prior
          /\ y.todo = r.todo /\ y.list = r.list /\ y.status = r.status /\ y.version = r.version
      BY <3>1, <3>2 DEF IsRequest, Pcs
    <3>4. y \in Request
      BY <2>2, <3>3, FieldsOfRequest, InRequest
    <3> QED BY <2>2, <3>1, <3>3, <3>4 DEF Typed
  <2>4. Typed([r EXCEPT !.status = "stale_base"]) /\ Typed([r EXCEPT !.status = "invalid"])
    BY <1>3, <2>2 DEF Statuses
  <2> QED BY <1>1, <1>6, <2>1, <2>3, <2>4 DEF PublishType
<1>7. ASSUME NEW r \in Request, r.pc = "done", r.prior = None, r.list = None, r.op # "type", NEW pc \in Pcs, NEW p,
             Arrive(w, IF pkg[p] = None THEN [r EXCEPT !.status = "not_found"] ELSE [r EXCEPT !.pc = pc])
      PROVE  TypeInv' /\ Typed(req'[w])
  <2>1. Typed([r EXCEPT !.status = "not_found"])
    BY <1>3, <1>7 DEF Statuses
  <2>2. Typed([r EXCEPT !.pc = pc])
    BY <1>7 DEF Request, Typed
  <2> QED BY <1>1, <1>7, <2>1, <2>2
<1>8. ASSUME NEW op \in {"star", "unstar"}, NEW u \in Users, NEW p \in Packages, Star(w, op, u, p) PROVE TypeInv' /\ Typed(req'[w])
  <2>1. PICK q : q = Incoming(op, u, p)
    OBVIOUS
  <2>2. q \in Request /\ q.pc = "done" /\ q.prior = None /\ q.list = None /\ q.op = op
    BY <1>2, <1>4, <2>1 DEF Ops
  <2>3. PICK r : r = [q EXCEPT !.seen = pkg[p]]
    OBVIOUS
  <2>4. r \in Request /\ r.pc = "done" /\ r.prior = None /\ r.list = None /\ r.op # "type"
    BY <1>4, <2>2, <2>3 DEF Request
  <2> QED BY <1>7, <1>8, <2>1, <2>3, <2>4 DEF Star, Pcs
<1>9. ASSUME NEW p \in Packages, Download(w, p) PROVE TypeInv' /\ Typed(req'[w])
  <2>1. PICK q : q = Incoming("download", p[1], p)
    OBVIOUS
  <2>2. q \in Request /\ q.pc = "done" /\ q.prior = None /\ q.list = None /\ q.op = "download"
    BY <1>2, <1>4, <2>1 DEF Ops
  <2>3. PICK r : r = [q EXCEPT !.seen = pkg[p]]
    OBVIOUS
  <2>4. r \in Request /\ r.pc = "done" /\ r.prior = None /\ r.list = None /\ r.op # "type"
    BY <1>4, <2>2, <2>3 DEF Request
  <2> QED BY <1>7, <1>9, <2>1, <2>3, <2>4 DEF Download, Pcs
<1>10. ASSUME NEW u \in Users, NEW p \in Packages, NEW slug, <<u, slug>> \in Packages, Fork(w, u, p, slug)
       PROVE  TypeInv' /\ Typed(req'[w])
  <2>1. PICK q : q = Incoming("fork", u, <<u, slug>>)
    OBVIOUS
  <2>2. q \in Request /\ q.pc = "done" /\ q.prior = None /\ q.list = None /\ q.op = "fork"
    BY <1>2, <1>4, <1>10, <2>1 DEF Ops
  <2>3. PICK r : r = [q EXCEPT !.upstream = p, !.seen = pkg[p]]
    OBVIOUS
  <2>4. r \in Request /\ r.pc = "done" /\ r.prior = None /\ r.list = None /\ r.op # "type"
    BY <1>4, <2>2, <2>3 DEF Request
  <2> QED BY <1>7, <1>10, <2>1, <2>3, <2>4 DEF Fork, Pcs
<1> QED BY <1>4, <1>5, <1>6, <1>8, <1>9, <1>10 DEF Arrival

LEMMA ReadsTyped ==
  ASSUME HubInv, TypeInv, NEW w \in Workers,
         \/ PublishPrior(w) \/ PutVersion(w) \/ ForkRead(w) \/ ForkCheck(w)
         \/ StarKey(w) \/ StarPut(w) \/ StarMeta(w) \/ DownloadPut(w) \/ ForkBump(w)
  PROVE  TypeInv' /\ Typed(req'[w])
<1> DEFINE r == req[w]
<1>1. /\ Typed(r) /\ r \in Request /\ r.pc # "done" /\ r.list = None /\ UNCHANGED <<idx, tver>>
      /\ PackageRequestSound(r, ver)
  <2>1. Typed(r) /\ r \in Request /\ r.pc # "done" /\ r # None /\ r.list = None
    <3>1. \E pc \in Pcs \ {"done", "index", "links"} : At(w, pc)
      BY DEF PublishPrior, PutVersion, ForkRead, ForkCheck, StarKey, StarPut, StarMeta,
         DownloadPut, ForkBump, Pcs
    <3> QED BY <3>1, InFlightTyped DEF Typed
  <2>2. UNCHANGED <<idx, tver>>
    BY DEF PublishPrior, PutVersion, ForkRead, ForkCheck, StarKey, StarPut, StarMeta,
       DownloadPut, ForkBump, store
  <2>3. PackageRequestSound(r, ver)
    <3>1. r.pc \in {"prior", "put", "meta", "starKey", "starPut", "starMeta", "bump", "forkRead",
                    "forkCheck", "upstream"}
      BY DEF PublishPrior, PutVersion, ForkRead, ForkCheck, StarKey, StarPut, StarMeta,
         DownloadPut, ForkBump, At
    <3>2. RequestSound(r, ver, tver)
      BY <2>1 DEF HubInv
    <3> QED BY <3>1, <3>2 DEF RequestSound, TypeRequestSound
  <2> QED BY <2>1, <2>2, <2>3
<1>2. CASE StarKey(w) \/ StarPut(w) \/ StarMeta(w) \/ DownloadPut(w) \/ ForkBump(w) \/ ForkCheck(w)
  <2>1. \/ \E pc \in {"starPut", "starMeta", "put"} : Goto(w, r, pc)
        \/ \E status \in {"ok", "created", "already_exists"} : Reply(w, r, status)
    BY <1>2 DEF StarKey, StarPut, StarMeta, DownloadPut, ForkBump, ForkCheck
  <2> QED BY <1>1, <2>1, GotoTyped, ReplyTyped DEF Pcs, Statuses
<1>3. CASE PutVersion(w)
  <2>1. NextVersion(r) \in Nat
    BY <1>1, <1>3 DEF PackageRequestSound, NextVersion, IsMeta, Meta, Versions
  <2>2. PICK q : q = [r EXCEPT !.version = NextVersion(r)]
    OBVIOUS
  <2>3. Typed(q) /\ q.pc # "done" /\ q.list = None
    BY <1>1, <2>1, <2>2, TypedEdits DEF Request
  <2>4. Goto(w, q, "meta")
    BY <1>3, <2>2 DEF PutVersion
  <2> QED BY <1>1, <2>3, <2>4, GotoTyped DEF Pcs
<1>4. CASE PublishPrior(w)
  <2>1. PICK val : val = IF r.seen = None THEN None ELSE ver[r.key][r.seen.latest]
    OBVIOUS
  <2>2. val \in Recipes \cup {None} /\ r.op # "type"
    BY <1>1, <1>4, <2>1 DEF PackageRequestSound, IsMeta, Meta, HubInv, StoreInv, PublishPrior, At
  <2>3. PICK q : q = [r EXCEPT !.prior = val]
    OBVIOUS
  <2>4. Typed(q) /\ q.pc # "done" /\ q.list = None
    BY <1>1, <2>2, <2>3, TypedEdits DEF Request
  <2>5. Goto(w, q, "put")
    BY <1>4, <2>1, <2>3 DEF PublishPrior
  <2> QED BY <1>1, <2>4, <2>5, GotoTyped DEF Pcs
<1>5. CASE ForkRead(w)
  <2>1. PICK artifact : artifact = ver[r.upstream][r.seen.latest]
    OBVIOUS
  <2>2. CASE artifact # None /\ Goto(w, [r EXCEPT !.body = artifact], "forkCheck")
    <3>1. artifact \in Recipes /\ r.op # "type"
      BY <1>1, <1>5, <2>1, <2>2 DEF PackageRequestSound, IsMeta, Meta, HubInv, StoreInv, ForkRead, At
    <3>2. PICK q : q = [r EXCEPT !.body = artifact]
      OBVIOUS
    <3>3. Typed(q) /\ q.pc # "done" /\ q.list = None
      BY <1>1, <3>1, <3>2, TypedEdits DEF Request
    <3> QED BY <1>1, <2>2, <3>2, <3>3, GotoTyped DEF Pcs
  <2>3. CASE Reply(w, r, "corrupt") \/ Reply(w, r, "self_fork")
    BY <1>1, <2>3, ReplyTyped DEF Statuses
  <2> QED BY <1>5, <2>1, <2>2, <2>3 DEF ForkRead
<1> QED BY <1>2, <1>3, <1>4, <1>5

LEMMA PutMetaTyped ==
  ASSUME HubInv, TypeInv, NEW w \in Workers, PutMeta(w)
  PROVE  TypeInv' /\ Typed(req'[w])
<1> DEFINE r == req[w]
<1>1. Typed(r) /\ r \in Request /\ r.pc = "meta" /\ r.list = None /\ r # None /\ UNCHANGED <<idx, tver>>
  BY InFlightTyped DEF PutMeta, Typed
<1>2. PackageRequestSound(r, ver)
  <2>1. RequestSound(r, ver, tver)
    BY <1>1 DEF HubInv
  <2> QED BY <1>1, <2>1 DEF RequestSound, TypeRequestSound
<1>3. r.body \in Recipes /\ r.key \in Packages /\ r.prior \in Recipes \cup {None} /\ r.op # "type"
      /\ r.op \in {"publish", "fork"}
  BY <1>1, <1>2 DEF PackageRequestSound, Typed
<1>4. PICK old : old = IF r.op = "fork" THEN None ELSE r.seen
  OBVIOUS
<1>5. old # None => old \in Meta
  BY <1>2, <1>4 DEF PackageRequestSound, IsMeta
<1>6. PICK category : category = IF r.op = "fork" THEN r.seen.category ELSE r.body.category
  OBVIOUS
<1>7. category \in Categories
  BY <1>2, <1>3, <1>6 DEF PackageRequestSound, IsMeta, Meta, Categories
<1>8. PICK ops : ops = PackageIndexOps(r.key, old, r.prior, category, r.body)
  OBVIOUS
<1>9. ops \in Seq(ListOp)
  BY <1>3, <1>5, <1>7, <1>8, PackageIndexOpsType
<1>10. Typed([r EXCEPT !.todo = ops]) /\ [r EXCEPT !.todo = ops].pc = "meta" /\ [r EXCEPT !.todo = ops].list = None
  BY <1>1, <1>9, TypedEdits DEF Request
<1>11. Goto(w, [r EXCEPT !.todo = ops], "index")
  <2>1. CASE r.op = "fork"
    BY <2>1, <1>4, <1>6, <1>8 DEF PutMeta, NewMeta
  <2>2. CASE r.op # "fork" /\ r.seen = None
    BY <2>2, <1>4, <1>6, <1>8 DEF PutMeta, NewMeta
  <2>3. CASE r.op # "fork" /\ r.seen # None
    <3>1. [r.seen EXCEPT !.latest = r.version, !.category = r.body.category].category = r.body.category
      BY <1>2, <2>3 DEF PackageRequestSound, IsMeta, Meta
    <3> QED BY <2>3, <3>1, <1>4, <1>6, <1>8 DEF PutMeta
  <2> QED BY <2>1, <2>2, <2>3
<1> QED BY <1>1, <1>10, <1>11, GotoTyped DEF Pcs

LEMMA IndexReadTyped ==
  ASSUME HubInv, TypeInv, NEW w \in Workers, IndexRead(w)
  PROVE  TypeInv' /\ Typed(req'[w])
<1> DEFINE r == req[w]
<1>1. Typed(r) /\ r \in Request /\ r.pc # "done" /\ r.todo # <<>> /\ r.list = None /\ r.pc \in {"index", "links"}
      /\ UNCHANGED <<idx, tver>>
  BY InFlightTyped DEF IndexRead, store
<1>2. PICK h : h = Head(r.todo)
  OBVIOUS
<1>3. r.todo \in Seq(ListOp) /\ h \in ListOp /\ Tail(r.todo) \in Seq(ListOp)
  <2>1. r.todo \in Seq(ListOp)
    BY <1>1, FieldsOfRequest
  <2> HIDE DEF ListOp
  <2> QED BY <1>1, <1>2, <2>1
<1>4. h.list \in Lists /\ h.entry \in Entries /\ idx[h.list] \in SUBSET Entries
  BY <1>3 DEF ListOp, TypeInv
<1>5. PICK rest : rest = [r EXCEPT !.todo = Tail(@)]
  OBVIOUS
<1>6. Typed(rest) /\ rest.todo = Tail(r.todo) /\ rest.pc # "done" /\ rest.list = None
  BY <1>1, <1>3, <1>5, TypedEdits DEF Request
<1>7. h.do = "prune" => RemoveFrom(<<"categories">>, h.entry) \in ListOp
  BY <1>4 DEF RemoveFrom, ListOp, Lists
<1>8. h.do = "prune" => Typed([rest EXCEPT !.todo = <<RemoveFrom(<<"categories">>, h.entry)>> \o @])
  <2>1. \A o \in ListOp, s \in Seq(ListOp) : <<o>> \o s \in Seq(ListOp)
    <3> HIDE DEF ListOp
    <3> QED OBVIOUS
  <2>2. h.do = "prune" => <<RemoveFrom(<<"categories">>, h.entry)>> \o rest.todo \in Seq(ListOp)
    BY <1>3, <1>6, <1>7, <2>1
  <2>3. \A ops \in Seq(ListOp) : Typed([rest EXCEPT !.todo = ops])
    BY <1>6, TypedEdits
  <2>4. PICK ops : ops = <<RemoveFrom(<<"categories">>, h.entry)>> \o rest.todo
    OBVIOUS
  <2> QED BY <2>2, <2>3, <2>4
<1>9. \A l \in SUBSET Entries : Typed([r EXCEPT !.list = l])
  <2> HIDE DEF Entries, ListOp
  <2> QED BY <1>1 DEF Typed, Request
<1>10. PICK rewritten : rewritten = IF h.do = "add" THEN idx[h.list] \cup {h.entry} ELSE idx[h.list] \ {h.entry}
  OBVIOUS
<1>11. rewritten \in SUBSET Entries
  BY <1>4, <1>10
<1>12. PICK x : x = IF h.do = "prune"
                    THEN IF idx[h.list] = {}
                         THEN [rest EXCEPT !.todo = <<RemoveFrom(<<"categories">>, h.entry)>> \o @]
                         ELSE rest
                    ELSE IF rewritten = idx[h.list] THEN rest ELSE [r EXCEPT !.list = rewritten]
  OBVIOUS
<1>13. req' = [req EXCEPT ![w] = x]
  BY <1>2, <1>5, <1>10, <1>12 DEF IndexRead
<1>14. Typed(x)
  BY <1>6, <1>8, <1>9, <1>11, <1>12
<1> QED BY <1>1, <1>13, <1>14, TypedStep

LEMMA IndexWriteTyped ==
  ASSUME HubInv, TypeInv, NEW w \in Workers, IndexWrite(w)
  PROVE  TypeInv' /\ Typed(req'[w])
<1> DEFINE r == req[w]
<1>1. Typed(r) /\ r \in Request /\ r.pc \in {"index", "links"} /\ r.list # None /\ r.todo # <<>>
  BY InFlightTyped DEF IndexWrite, Typed
<1>2. r.todo \in Seq(ListOp) /\ r.list \in SUBSET Entries
  BY <1>1, FieldsOfRequest
<1>3. Head(r.todo) \in ListOp /\ Tail(r.todo) \in Seq(ListOp)
  <2> HIDE DEF ListOp, r
  <2> QED BY <1>1, <1>2
<1>4. Head(r.todo).list \in Lists
  BY <1>3 DEF ListOp
<1>5. PICK x : x = [r EXCEPT !.todo = Tail(r.todo), !.list = None]
  OBVIOUS
<1>6. req' = [req EXCEPT ![w] = x] /\ tver' = tver
  BY <1>5 DEF IndexWrite, HubInv
<1>7. /\ IsRequest(x) /\ x.pc = r.pc /\ x.op = r.op /\ x.user = r.user /\ x.key = r.key /\ x.upstream = r.upstream
      /\ x.body = r.body /\ x.seen = r.seen /\ x.latest = r.latest /\ x.prior = r.prior
      /\ x.todo = Tail(r.todo) /\ x.list = None /\ x.status = r.status /\ x.version = r.version
  <2>1. IsRequest(r)
    BY <1>1, FieldsOfRequest
  <2> QED BY <1>5, <2>1 DEF IsRequest
<1>8. x \in Request
  BY <1>1, <1>3, <1>7, FieldsOfRequest, InRequest
<1>9. Typed(x)
  BY <1>1, <1>7, <1>8 DEF Typed
<1>10. idx' \in [Lists -> SUBSET Entries]
  BY <1>2, <1>4 DEF IndexWrite, TypeInv
<1>11. DOMAIN req' = Workers /\ req'[w] = x /\ \A v \in Workers \ {w} : req'[v] = req[v]
  BY <1>6 DEF HubInv
<1> QED BY <1>6, <1>9, <1>10, <1>11 DEF TypeInv, Typed

LEMMA IndexDoneTyped ==
  ASSUME HubInv, TypeInv, NEW w \in Workers, IndexDone(w)
  PROVE  TypeInv' /\ Typed(req'[w])
<1> DEFINE r == req[w]
<1>1. Typed(r) /\ r \in Request /\ r.pc # "done" /\ r.list = None /\ UNCHANGED <<idx, tver>>
  BY InFlightTyped DEF IndexDone, Typed, store
<1>2. \/ \E pc \in {"upstream", "typeExtends"} : Goto(w, r, pc)
      \/ Reply(w, r, "created")
  BY DEF IndexDone
<1> QED BY <1>1, <1>2, GotoTyped, ReplyTyped DEF Pcs, Statuses

LEMMA TypeStepsTyped ==
  ASSUME HubInv, TypeInv, NEW w \in Workers,
         TypeHash(w) \/ TypePrior(w) \/ TypePut(w) \/ TypePutHash(w) \/ TypeMeta(w) \/ TypeExtends(w)
  PROVE  TypeInv' /\ Typed(req'[w])
<1> DEFINE r == req[w]
<1>1. /\ Typed(r) /\ r \in Request /\ r.pc # "done" /\ r.list = None /\ r # None /\ idx' = idx
      /\ r.op = "type" /\ TypeRequestSound(r, tver)
  <2>1. \E pc \in {"hash", "typePrior", "typePut", "typeHash", "typeMeta", "typeExtends"} : At(w, pc)
    BY DEF TypeHash, TypePrior, TypePut, TypePutHash, TypeMeta, TypeExtends
  <2>2. Typed(r) /\ r \in Request /\ r.pc # "done" /\ r.list = None /\ r # None
    BY <2>1, InFlightTyped DEF Typed
  <2>3. RequestSound(r, ver, tver)
    BY <2>2 DEF HubInv
  <2>4. r.op = "type" /\ TypeRequestSound(r, tver)
    BY <2>1, <2>2, <2>3 DEF At, RequestSound, PackageRequestSound
  <2>5. idx' = idx
    BY DEF TypeHash, TypePrior, TypePut, TypePutHash, TypeMeta, TypeExtends, store
  <2> QED BY <2>2, <2>4, <2>5
<1>2. r.key \in TypeKeys /\ r.body \in TypeBodies /\ r.body.extends # Missing /\ r.latest \in Nat
      /\ r.latest + 1 \in Versions /\ r.prior \in TypeBodies \cup {None} /\ r.latest \in Versions \cup {0}
  BY <1>1, HubAssumption DEF TypeRequestSound, Typed, Versions
<1>3. TypeArtifact(r) \in TypeBodies \cup {None} /\ (TypeArtifact(r) # None => TypeArtifact(r).extends # Missing)
  BY <1>2 DEF TypeArtifact, HubInv, StoreInv, TypeInv
<1>4. CASE TypePutHash(w)
  BY <1>1, <1>4, GotoTyped DEF TypePutHash, Pcs
<1>5. CASE TypeHash(w)
  <2>1. PICK n : n = thash[r.key][r.body.source]
    OBVIOUS
  <2>2. n \in Nat
    <3>1. r.body.source \in Sources
      BY <1>2 DEF Sources
    <3>2. thash[r.key][r.body.source] \in 0..MaxVersion
      BY <1>2, <3>1 DEF HubInv, StoreInv
    <3> QED BY <2>1, <3>2, HubAssumption
  <2>3. PICK q : q = [r EXCEPT !.version = n]
    OBVIOUS
  <2>4. q \in Request
    BY <1>1, <2>2, <2>3, TypedEdits DEF Typed
  <2>5. \/ Goto(w, r, "typePrior") \/ Reply(w, r, "corrupt") \/ Reply(w, q, "deduped")
    BY <1>5, <2>1, <2>3 DEF TypeHash
  <2>6. tver' = tver
    BY <1>5 DEF TypeHash, store
  <2> QED BY <1>1, <2>4, <2>5, <2>6, GotoTyped, ReplyTyped DEF Pcs, Statuses
<1>6. CASE TypePrior(w)
  <2>1. PICK q : q = [r EXCEPT !.prior = TypeArtifact(r)]
    OBVIOUS
  <2>2. Typed(q) /\ q.pc # "done" /\ q.list = None
    BY <1>1, <1>3, <2>1, TypedEdits DEF Request
  <2>3. Goto(w, q, "typePut") /\ tver' = tver
    BY <1>6, <2>1 DEF TypePrior, store
  <2> QED BY <1>1, <2>2, <2>3, GotoTyped DEF Pcs
<1>7. CASE TypeMeta(w)
  <2>1. PICK ops : ops = TypeIndexOps(r.key, r.latest, r.prior, r.body)
    OBVIOUS
  <2>2. ops \in Seq(ListOp)
    BY <1>2, <2>1, TypeIndexOpsType
  <2>3. PICK q : q = [r EXCEPT !.todo = ops]
    OBVIOUS
  <2>4. Typed(q) /\ q.pc # "done" /\ q.list = None
    BY <1>1, <2>2, <2>3, TypedEdits DEF Request
  <2>5. Goto(w, q, "index") /\ tver' = tver
    BY <1>7, <2>1, <2>3 DEF TypeMeta
  <2> QED BY <1>1, <2>4, <2>5, GotoTyped DEF Pcs
<1>8. CASE TypeExtends(w)
  <2>1. PICK ops : ops = ExtendsOps(r.key, TypeArtifact(r), r.body)
    OBVIOUS
  <2>2. ops \in Seq(ListOp)
    BY <1>2, <1>3, <2>1, ExtendsOpsType
  <2>3. PICK q : q = [r EXCEPT !.todo = ops]
    OBVIOUS
  <2>4. Typed(q) /\ q.pc # "done" /\ q.list = None
    BY <1>1, <2>2, <2>3, TypedEdits DEF Request
  <2>5. Goto(w, q, "links") /\ tver' = tver
    BY <1>8, <2>1, <2>3 DEF TypeExtends, store
  <2> QED BY <1>1, <2>4, <2>5, GotoTyped DEF Pcs
<1>9. CASE TypePut(w)
  <2>1. PICK q : q = [r EXCEPT !.version = r.latest + 1]
    OBVIOUS
  <2>2. Typed(q) /\ q.pc # "done" /\ q.list = None
    <3>1. r.latest + 1 \in Nat
      BY <1>2
    <3>2. PICK n : n = r.latest + 1
      OBVIOUS
    <3> QED BY <1>1, <3>1, <3>2, <2>1, TypedEdits DEF Request
  <2>3. PICK x : x = [q EXCEPT !.pc = "typeHash"]
    OBVIOUS
  <2>4. Typed(x)
    BY <2>2, <2>3 DEF Typed, Request, Pcs
  <2>5. req' = [req EXCEPT ![w] = x]
    BY <1>9, <2>1, <2>3 DEF TypePut, Goto
  <2>6. tver' = [tver EXCEPT ![r.key][r.latest + 1] = r.body]
    BY <1>9 DEF TypePut
  <2>7. \A t \in TypeKeys, n \in Versions : tver'[t][n] # None => tver'[t][n].extends # Missing
    BY <1>2, <2>6 DEF HubInv, StoreInv, TypeInv
  <2>8. DOMAIN req' = Workers /\ req'[w] = x /\ \A v \in Workers \ {w} : req'[v] = req[v]
    BY <2>5 DEF HubInv
  <2> QED BY <1>1, <2>4, <2>7, <2>8 DEF TypeInv, Typed
<1> QED BY <1>4, <1>5, <1>6, <1>7, <1>8, <1>9

LEMMA StepTyped ==
  ASSUME HubInv, TypeInv, NEW w \in Workers, Arrival(w) \/ Step(w)
  PROVE  Typed(req'[w])
BY ArrivalTyped, ReadsTyped, PutMetaTyped, IndexReadTyped, IndexWriteTyped, IndexDoneTyped, TypeStepsTyped
   DEF Step

LEMMA OthersKeep ==
  ASSUME HubInv, NEW w \in Workers, Arrival(w) \/ Step(w) \/ Die(w) \/ Deliver(w)
  PROVE  DOMAIN req' = Workers /\ \A v \in Workers \ {w} : req'[v] = req[v]
<1>1. DOMAIN req = Workers
  BY DEF HubInv
<1>2. CASE Arrival(w)
  <2>1. PICK x : Arrive(w, x)
    BY <1>2 DEF Arrival, Publish, PublishType, Download, Star, Fork
  <2> QED BY <1>1, <2>1 DEF Arrive
<1>3. CASE Step(w)
  BY <1>1, <1>3 DEF Step, PublishPrior, PutVersion, PutMeta, IndexRead, IndexWrite, IndexDone, StarKey, StarPut,
     StarMeta, DownloadPut, ForkRead, ForkCheck, ForkBump, TypeHash, TypePrior, TypePut, TypePutHash,
     TypeMeta, TypeExtends, Goto, Reply
<1>4. CASE Die(w) \/ Deliver(w)
  BY <1>1, <1>4 DEF Die, Deliver
<1> QED BY <1>2, <1>3, <1>4

LEMMA TypeInvStep ==
  HubInv /\ TypeInv /\ [Next]_vars => TypeInv'
<1>1. ASSUME HubInv, TypeInv, NEW w \in Workers, Arrival(w) \/ Step(w) \/ Die(w) \/ Deliver(w) PROVE TypeInv'
  <2>1. CASE Arrival(w)
    BY <1>1, <2>1, ArrivalTyped
  <2>2. CASE Step(w)
    BY <1>1, <2>2, ReadsTyped, PutMetaTyped, IndexReadTyped, IndexWriteTyped, IndexDoneTyped, TypeStepsTyped
       DEF Step
  <2>3. CASE Die(w) \/ Deliver(w)
    <3>1. req' = [req EXCEPT ![w] = None] /\ UNCHANGED <<idx, tver>>
      BY <2>3 DEF Die, Deliver, store
    <3>2. DOMAIN req' = Workers /\ req'[w] = None /\ \A v \in Workers \ {w} : req'[v] = req[v]
      BY <1>1, <3>1 DEF HubInv
    <3> QED BY <1>1, <3>1, <3>2 DEF TypeInv, Typed
  <2> QED BY <1>1, <2>1, <2>2, <2>3
<1>2. ASSUME TypeInv, UNCHANGED vars PROVE TypeInv'
  BY <1>2 DEF TypeInv, vars, Typed
<1> QED BY <1>1, <1>2 DEF Next

(* What is stored and what a request holds have their types at every step: *)
(* an index only ever lists entries, a request read from the store what    *)
(* the code decodes it as, and between its list puts it holds no list.     *)
THEOREM RequestsAreTyped == Spec => []TypeInv
<1>1. Init => TypeInv
  BY DEF Init, TypeInv
<1> QED BY <1>1, TypeInvStep, HubInvHolds, PTL DEF Spec

-------------------------------------------------------------------------------
(***************************************************************************)
(* What the hub promises about names that no two requests work on at once: *)
(* what it acknowledged stands, a publish of a type that it takes for a    *)
(* repeat has the source of the version it names, its counters agree with  *)
(* what they count, and no artifact is replaced.                           *)
(*                                                                         *)
(* A request alone on its name writes from what is still there: what it    *)
(* read some puts ago is what the store says now.                          *)
(***************************************************************************)

(* What was acknowledged stands.                                           *)
(*                                                                         *)
(* A version is taken back only by a request that read the metadata before *)
(* another wrote it.  `contended` collects the names that two requests     *)
(* work on at once, so for any other name the only request in flight knows *)
(* the metadata as it is.                                                  *)

(* What a request in flight knows of the names it works on, as long as no  *)
(* other request has worked on them at the same time: that their metadata  *)
(* is what it saw, until it writes it; that a fork's new name is free; and *)
(* that its artifact is there as it was put.                               *)
PackageOwn(r, c, p, v) ==
  /\ r.key \notin c =>
       /\ r.op # "fork" /\ r.pc # "index" => r.seen = p[r.key]
       /\ r.op = "fork" /\ r.pc \in {"put", "meta"} => p[r.key] = None
       /\ r.pc \in {"meta", "index", "upstream"} => v[r.key][r.version] = r.body
       /\ r.pc \in {"index", "upstream"} => p[r.key] # None /\ r.version \in 1..p[r.key].latest
  /\ r.op = "fork" =>
       /\ r.upstream \notin c => r.seen = p[r.upstream]
       /\ r.pc # "forkRead" => r.upstream # r.key
       /\ r.pc \in {"meta", "index", "upstream"} => r.version = 1

TypeOwn(r, c, t, tv) ==
  r.key \notin c =>
    /\ r.pc \in {"hash", "typePrior", "typePut", "typeHash", "typeMeta"} => t[r.key] = r.latest
    /\ r.pc \in {"typeHash", "typeMeta", "index", "typeExtends", "links"} =>
         tv[r.key][r.version] = r.body
    /\ r.pc \in {"index", "typeExtends", "links"} => r.version \in 1..t[r.key]

Own(r, c, p, v, t, tv) == IF r.op = "type" THEN TypeOwn(r, c, t, tv) ELSE PackageOwn(r, c, p, v)

(* Two requests for one name leave it contended.                           *)
Alone ==
  \A w1, w2 \in Workers : w1 # w2 /\ Busy(w1) /\ Busy(w2) =>
    Touches(req[w1]) \cap Touches(req[w2]) \subseteq contended

(* An acknowledged version is in the history of its name, as it was sent.  *)
Stands(a, p, v, t, tv) ==
  IF a.key \in TypeKeys
  THEN a.version \in 1..t[a.key] /\ tv[a.key][a.version] = a.body
  ELSE /\ a.key \in Packages /\ p[a.key] # None
       /\ a.version \in 1..p[a.key].latest /\ v[a.key][a.version] = a.body

AckInv ==
  /\ Alone
  /\ \A w \in Workers : Busy(w) => Own(req[w], contended, pkg, ver, typ, tver)
  /\ \A a \in acked : a.fresh /\ a.key \notin contended => Stands(a, pkg, ver, typ, tver)

(* What a request knows only turns on the names it touches, and less is    *)
(* claimed when more names are contended.                                  *)
SameAt(k, p, v, t, tv, p2, v2, t2, tv2) ==
  /\ k \in Packages => p2[k] = p[k] /\ v2[k] = v[k]
  /\ k \in TypeKeys => t2[k] = t[k] /\ tv2[k] = tv[k]

LEMMA OwnElsewhere ==
  ASSUME NEW r, NEW c, NEW c2, c \subseteq c2, NEW p, NEW v, NEW t, NEW tv, NEW p2, NEW v2, NEW t2, NEW tv2,
         IF r.op = "type" THEN r.key \in TypeKeys ELSE r.key \in Packages,
         r.op = "fork" => r.upstream \in Packages,
         \A k \in Touches(r) \ c : SameAt(k, p, v, t, tv, p2, v2, t2, tv2),
         Own(r, c, p, v, t, tv)
  PROVE  Own(r, c2, p2, v2, t2, tv2)
<1>1. r.key \in Touches(r)
  BY DEF Touches
<1>2. r.op = "fork" => r.upstream \in Touches(r)
  BY HubAssumption DEF Touches, Keys
<1>3. CASE r.op = "type"
  BY <1>1, <1>3 DEF Own, TypeOwn, SameAt
<1>4. CASE r.op # "type"
  BY <1>1, <1>2, <1>4 DEF Own, PackageOwn, SameAt
<1> QED BY <1>3, <1>4

LEMMA StandsElsewhere ==
  ASSUME NEW a, NEW p, NEW v, NEW t, NEW tv, NEW p2, NEW v2, NEW t2, NEW tv2,
         SameAt(a.key, p, v, t, tv, p2, v2, t2, tv2), Stands(a, p, v, t, tv)
  PROVE  Stands(a, p2, v2, t2, tv2)
BY DEF Stands, SameAt

(* A request in flight is about names the hub may have.                    *)
LEMMA BusyNames ==
  ASSUME HubInv, NEW w \in Workers, Busy(w)
  PROVE  /\ IF req[w].op = "type" THEN req[w].key \in TypeKeys ELSE req[w].key \in Packages
         /\ req[w].op = "fork" => req[w].upstream \in Packages
BY DEF HubInv, Busy, RequestSound, PackageRequestSound, TypeRequestSound

LEMMA OwnOfBusy ==
  ASSUME HubInv, AckInv, NEW w \in Workers, NEW pc, pc # "done", At(w, pc)
  PROVE  Busy(w) /\ req[w] # None /\ Own(req[w], contended, pkg, ver, typ, tver)
BY DEF AckInv, At, Busy

(* A step of the request of w keeps AckInv if it writes only at names that *)
(* it touches, knows what it must afterwards, and takes nothing back that  *)
(* was acknowledged for a name it has for itself.                          *)
LEMMA WorkKeeps ==
  ASSUME HubInv, AckInv, NEW w \in Workers, Busy(w), NEW x, req' = [req EXCEPT ![w] = x],
         contended' = contended,
         \A k \in Keys \ Touches(req[w]) : SameAt(k, pkg, ver, typ, tver, pkg', ver', typ', tver'),
         x # None /\ x.pc # "done" =>
           Touches(x) = Touches(req[w]) /\ Own(x, contended, pkg', ver', typ', tver'),
         \A a : a.key \in Touches(req[w]) \ contended /\ Stands(a, pkg, ver, typ, tver) =>
           Stands(a, pkg', ver', typ', tver'),
         \A a \in acked' \ acked : a.fresh /\ a.key \notin contended => Stands(a, pkg', ver', typ', tver')
  PROVE  AckInv'
<1>1. DOMAIN req = Workers /\ req'[w] = x /\ \A v \in Workers \ {w} : req'[v] = req[v]
  BY DEF HubInv
<1>2. \A v \in Workers : Busy(v)' <=> req'[v] # None /\ req'[v].pc # "done"
  BY DEF Busy
<1>3. \A v \in Workers : Busy(v)' => Busy(v) /\ Touches(req'[v]) = Touches(req[v])
  BY <1>1, <1>2 DEF Busy
<1>4. Alone'
  BY <1>3 DEF Alone, AckInv, Touches
<1>5. ASSUME NEW v \in Workers, Busy(v)' PROVE Own(req'[v], contended', pkg', ver', typ', tver')
  <2>1. CASE v = w
    BY <1>1, <1>2, <1>5, <2>1
  <2>2. CASE v # w
    <3>1. req'[v] = req[v] /\ Busy(v) /\ Own(req[v], contended, pkg, ver, typ, tver)
      BY <1>1, <1>3, <1>5, <2>2 DEF AckInv
    <3>2. \A k \in Touches(req[v]) \ contended : k \notin Touches(req[w])
      BY <2>2, <3>1 DEF AckInv, Alone
    <3>3. \A k \in Touches(req[v]) \ contended : SameAt(k, pkg, ver, typ, tver, pkg', ver', typ', tver')
      BY <3>2 DEF SameAt, Keys
    <3>4. /\ IF req[v].op = "type" THEN req[v].key \in TypeKeys ELSE req[v].key \in Packages
          /\ req[v].op = "fork" => req[v].upstream \in Packages
      BY <3>1, BusyNames
    <3> QED BY <3>1, <3>3, <3>4, OwnElsewhere
  <2> QED BY <2>1, <2>2
<1>6. ASSUME NEW a \in acked', a.fresh, a.key \notin contended' PROVE Stands(a, pkg', ver', typ', tver')
  <2>1. CASE a \notin acked
    BY <1>6, <2>1
  <2>2. CASE a \in acked
    <3>1. Stands(a, pkg, ver, typ, tver) /\ a.key \in Keys
      BY <1>6, <2>2 DEF AckInv, Stands, Keys
    <3>2. CASE a.key \in Touches(req[w])
      BY <1>6, <3>1, <3>2
    <3>3. CASE a.key \notin Touches(req[w])
      BY <3>1, <3>3, StandsElsewhere
    <3> QED BY <3>2, <3>3
  <2> QED BY <2>1, <2>2
<1> QED BY <1>4, <1>5, <1>6 DEF AckInv

(* A step that leaves the documents and the acknowledgements alone.        *)
LEMMA QuietWork ==
  ASSUME HubInv, AckInv, NEW w \in Workers, Busy(w), NEW x, req' = [req EXCEPT ![w] = x],
         UNCHANGED <<pkg, ver, typ, tver, contended>>,
         x # None /\ x.pc # "done" =>
           Touches(x) = Touches(req[w]) /\ Own(x, contended, pkg, ver, typ, tver),
         \A a \in acked' \ acked : a.fresh /\ a.key \notin contended => Stands(a, pkg, ver, typ, tver)
  PROVE  AckInv'
<1>1. \A k : SameAt(k, pkg, ver, typ, tver, pkg', ver', typ', tver')
  BY DEF SameAt
<1>2. pkg' = pkg /\ ver' = ver /\ typ' = typ /\ tver' = tver
  OBVIOUS
<1> QED BY <1>1, <1>2, WorkKeeps

LEMMA ChangedTouches ==
  ASSUME NEW x, NEW r, NEW pc, NEW body, NEW version, Changed(x, r, pc, body, version)
  PROVE  Touches(x) = Touches(r)
BY DEF Changed, Touches

(* The steps that read and go on.                                          *)
LEMMA MovedOwn ==
  ASSUME HubInv, AckInv, NEW w \in Workers, NEW x, Busy(w), req' = [req EXCEPT ![w] = x],
         UNCHANGED <<pkg, ver, typ, tver, contended, acked>>,
         Touches(x) = Touches(req[w]) /\ Own(x, contended, pkg, ver, typ, tver)
  PROVE  AckInv'
BY QuietWork

LEMMA PublishPriorAck ==
  ASSUME HubInv, AckInv, NEW w \in Workers, PublishPrior(w)
  PROVE  AckInv'
<1> DEFINE r == req[w]
           val == IF r.seen = None THEN None ELSE ver[r.key][r.seen.latest]
           x == [[r EXCEPT !.prior = val] EXCEPT !.pc = "put"]
<1>1. IsRequest(r) /\ r.pc = "prior" /\ r.op = "publish" /\ Busy(w) /\ Own(r, contended, pkg, ver, typ, tver)
  BY InFlight, OwnOfBusy DEF PublishPrior, PackageRequestSound, TypeRequestSound
<1>2. req' = [req EXCEPT ![w] = x] /\ UNCHANGED <<pkg, ver, typ, tver, contended, acked>>
  BY DEF PublishPrior, Goto, store, aux
<1> HIDE DEF val
<1>3. Moved(x, r, "put")
  BY <1>1, Edits DEF Pcs
<1> HIDE DEF x
<1>4. Own(x, contended, pkg, ver, typ, tver) /\ Touches(x) = Touches(r)
  <2> HIDE DEF r
  <2> QED BY <1>1, <1>3, ChangedTouches DEF Own, PackageOwn, Moved, Changed
<1> QED BY <1>1, <1>2, <1>4, MovedOwn

(* Work on lists leaves what the request knows as it is.                   *)
LEMMA SamePcOwn ==
  ASSUME NEW r, NEW x, Moved(x, r, r.pc), NEW c, NEW p, NEW v, NEW t, NEW tv, Own(r, c, p, v, t, tv)
  PROVE  Own(x, c, p, v, t, tv)
BY DEF Own, PackageOwn, TypeOwn, Moved, Changed

LEMMA IndexWorkAck ==
  ASSUME HubInv, AckInv, NEW w \in Workers, IndexRead(w) \/ IndexWrite(w)
  PROVE  AckInv'
<1> DEFINE r == req[w]
<1>1. IsRequest(r) /\ Busy(w) /\ Own(r, contended, pkg, ver, typ, tver)
  BY OwnOfBusy DEF IndexRead, IndexWrite, At, HubInv, RequestSound
<1>2. PICK x : req' = [req EXCEPT ![w] = x] /\ Moved(x, r, r.pc)
  <2>1. CASE IndexRead(w)
    BY <1>1, <2>1, ListEdits DEF IndexRead
  <2>2. CASE IndexWrite(w)
    <3> DEFINE x == [r EXCEPT !.todo = Tail(r.todo), !.list = None]
    <3>1. req' = [req EXCEPT ![w] = x]
      BY <2>2 DEF IndexWrite, HubInv
    <3>2. Moved(x, r, r.pc)
      BY <1>1, ListEdits
    <3> QED BY <3>1, <3>2
  <2> QED BY <2>1, <2>2
<1>3. UNCHANGED <<pkg, ver, typ, tver, contended, acked>>
  BY DEF IndexRead, IndexWrite, store, aux
<1> QED BY <1>1, <1>2, <1>3, SamePcOwn, ChangedTouches, MovedOwn DEF Moved

(* A step that only goes on to pc.                                         *)
LEMMA GotoAck ==
  ASSUME HubInv, AckInv, NEW w \in Workers, NEW pc \in Pcs, Goto(w, req[w], pc), Busy(w),
         UNCHANGED <<pkg, ver, typ, tver, contended, acked>>,
         \A x : Moved(x, req[w], pc) => Own(x, contended, pkg, ver, typ, tver)
  PROVE  AckInv'
<1>1. IsRequest(req[w])
  BY DEF HubInv, RequestSound, Busy
<1> QED BY <1>1, PcEdit, ChangedTouches, MovedOwn DEF Goto, Moved

(* A step that answers.                                                    *)
LEMMA ReplyAck ==
  ASSUME HubInv, AckInv, NEW w \in Workers, NEW r, NEW status, Reply(w, r, status), Busy(w),
         UNCHANGED <<pkg, ver, typ, tver, contended>>,
         \A a \in acked' \ acked : a.fresh /\ a.key \notin contended => Stands(a, pkg, ver, typ, tver)
  PROVE  AckInv'
<1> DEFINE x == [Incoming(r.op, r.user, r.key) EXCEPT !.status = status, !.version = r.version]
<1>1. x.pc = "done" /\ req' = [req EXCEPT ![w] = x]
  BY DEF Reply, Incoming
<1> HIDE DEF x
<1> QED BY <1>1, QuietWork

(* "created": the version is in the history, with what was sent.           *)
LEMMA IndexDoneAck ==
  ASSUME HubInv, AckInv, NEW w \in Workers, IndexDone(w)
  PROVE  AckInv'
<1> DEFINE r == req[w]
<1>1. /\ Busy(w) /\ r # None /\ r.pc \in {"index", "links"} /\ IsRequest(r)
      /\ Own(r, contended, pkg, ver, typ, tver)
      /\ IF r.op = "type" THEN r.key \in TypeKeys ELSE r.key \in Packages /\ r.pc = "index"
      /\ UNCHANGED <<pkg, ver, typ, tver, contended>>
  BY OwnOfBusy DEF IndexDone, At, HubInv, RequestSound, PackageRequestSound, TypeRequestSound, store
<1>2. CASE r.op = "fork" /\ Goto(w, r, "upstream") /\ UNCHANGED acked
  <2>1. ASSUME NEW x, Moved(x, r, "upstream") PROVE Own(x, contended, pkg, ver, typ, tver)
    <3> HIDE DEF r
    <3> QED BY <1>1, <1>2, <2>1 DEF Own, PackageOwn, Moved, Changed
  <2> QED BY <1>1, <1>2, <2>1, GotoAck DEF Pcs
<1>3. CASE r.op = "type" /\ Goto(w, r, "typeExtends") /\ UNCHANGED acked
  <2>1. ASSUME NEW x, Moved(x, r, "typeExtends") PROVE Own(x, contended, pkg, ver, typ, tver)
    <3> HIDE DEF r
    <3> QED BY <1>1, <1>3, <2>1 DEF Own, TypeOwn, Moved, Changed
  <2> QED BY <1>1, <1>3, <2>1, GotoAck DEF Pcs
<1>4. CASE Reply(w, r, "created") /\ Ack(r, r.version, TRUE) /\ (r.op = "publish" \/ r.pc = "links")
  <2> DEFINE a == [key |-> r.key, version |-> r.version, body |-> r.body, fresh |-> TRUE]
  <2>1. acked' = acked \cup {a} /\ a.key = r.key /\ a.version = r.version /\ a.body = r.body
    BY <1>4 DEF Ack
  <2>2. ASSUME r.key \notin contended PROVE Stands(a, pkg, ver, typ, tver)
    <3>1. CASE r.op = "type"
      BY <1>1, <2>1, <2>2, <3>1 DEF Own, TypeOwn, Stands
    <3>2. CASE r.op # "type"
      BY <1>1, <2>1, <2>2, <3>2, <1>4, HubAssumption DEF Own, PackageOwn, Stands
    <3> QED BY <3>1, <3>2
  <2> HIDE DEF a
  <2> QED BY <1>1, <1>4, <2>1, <2>2, ReplyAck
<1> QED BY <1>2, <1>3, <1>4 DEF IndexDone

LEMMA StarAck ==
  ASSUME HubInv, AckInv, NEW w \in Workers, StarKey(w) \/ StarPut(w)
  PROVE  AckInv'
<1> DEFINE r == req[w]
<1>1. /\ Busy(w) /\ r # None /\ r.pc \in {"starKey", "starPut"} /\ r.op \in {"star", "unstar"}
      /\ Own(r, contended, pkg, ver, typ, tver) /\ UNCHANGED <<pkg, ver, typ, tver, contended, acked>>
  BY InFlight, OwnOfBusy DEF StarKey, StarPut, At, PackageRequestSound, TypeRequestSound, store, aux
<1>2. Reply(w, r, "ok") \/ Goto(w, r, "starPut") \/ Goto(w, r, "starMeta")
  BY DEF StarKey, StarPut
<1>3. \A x, pc : pc \in {"starPut", "starMeta"} /\ Moved(x, r, pc) => Own(x, contended, pkg, ver, typ, tver)
  <2> HIDE DEF r
  <2> QED BY <1>1 DEF Own, PackageOwn, Moved, Changed
<1>4. "starPut" \in Pcs /\ "starMeta" \in Pcs
  BY DEF Pcs
<1>5. acked' \ acked = {}
  BY <1>1
<1> QED BY <1>1, <1>2, <1>3, <1>4, <1>5, GotoAck, ReplyAck

(* A fork reads its upstream and looks whether its name is free.           *)
LEMMA ForkReadAck ==
  ASSUME HubInv, AckInv, NEW w \in Workers, ForkRead(w)
  PROVE  AckInv'
<1> DEFINE r == req[w]
           artifact == ver[r.upstream][r.seen.latest]
           x == [[r EXCEPT !.body = artifact] EXCEPT !.pc = "forkCheck"]
<1>1. /\ IsRequest(r) /\ r.pc = "forkRead" /\ r.op = "fork" /\ Busy(w) /\ Own(r, contended, pkg, ver, typ, tver)
      /\ UNCHANGED <<pkg, ver, typ, tver, contended, acked>>
  BY InFlight, OwnOfBusy DEF ForkRead, PackageRequestSound, TypeRequestSound, store, aux
<1>2. CASE Reply(w, r, "corrupt") \/ Reply(w, r, "self_fork")
  BY <1>1, <1>2, ReplyAck
<1>3. CASE r.key # r.upstream /\ req' = [req EXCEPT ![w] = x]
  <2> HIDE DEF artifact
  <2>1. Changed(x, r, "forkCheck", artifact, r.version)
    BY <1>1, Edits DEF Pcs
  <2> HIDE DEF x
  <2>2. Own(x, contended, pkg, ver, typ, tver) /\ Touches(x) = Touches(r)
    <3> HIDE DEF r
    <3> QED BY <1>1, <1>3, <2>1, ChangedTouches DEF Own, PackageOwn, Changed
  <2> QED BY <1>1, <1>3, <2>2, MovedOwn
<1> QED BY <1>2, <1>3 DEF ForkRead, Goto

LEMMA ForkCheckAck ==
  ASSUME HubInv, AckInv, NEW w \in Workers, ForkCheck(w)
  PROVE  AckInv'
<1> DEFINE r == req[w]
<1>1. /\ r.pc = "forkCheck" /\ r.op = "fork" /\ Busy(w) /\ Own(r, contended, pkg, ver, typ, tver)
      /\ UNCHANGED <<pkg, ver, typ, tver, contended, acked>>
  BY InFlight, OwnOfBusy DEF ForkCheck, PackageRequestSound, TypeRequestSound, store, aux
<1>2. CASE Reply(w, r, "already_exists")
  BY <1>1, <1>2, ReplyAck
<1>3. CASE pkg[r.key] = None /\ Goto(w, r, "put")
  <2>1. ASSUME NEW x, Moved(x, r, "put") PROVE Own(x, contended, pkg, ver, typ, tver)
    <3> HIDE DEF r
    <3> QED BY <1>1, <1>3, <2>1 DEF Own, PackageOwn, Moved, Changed
  <2> QED BY <1>1, <1>3, <2>1, GotoAck DEF Pcs
<1> QED BY <1>2, <1>3 DEF ForkCheck

(* The artifact goes above every version of an uncontended name.           *)
LEMMA PutVersionAck ==
  ASSUME HubInv, AckInv, NEW w \in Workers, PutVersion(w)
  PROVE  AckInv'
<1> DEFINE r == req[w]
           n == NextVersion(r)
           x == [[r EXCEPT !.version = n] EXCEPT !.pc = "meta"]
<1>1. /\ IsRequest(r) /\ r.pc = "put" /\ r.op \in {"publish", "fork"} /\ PackageRequestSound(r, ver)
      /\ Busy(w) /\ Own(r, contended, pkg, ver, typ, tver)
  BY InFlight, OwnOfBusy DEF PutVersion, PackageRequestSound, TypeRequestSound
<1>2. r.key \in Packages /\ n \in Versions /\ r.key \in Touches(r) /\ r.key \notin TypeKeys
  BY <1>1, HubAssumption DEF PackageRequestSound, NextVersion, Versions, Touches
<1>3. /\ ver' = [ver EXCEPT ![r.key][n] = r.body] /\ req' = [req EXCEPT ![w] = x]
      /\ UNCHANGED <<pkg, typ, tver, contended, acked>>
  BY DEF PutVersion, Goto, aux
<1>4. Changed(x, r, "meta", r.body, n)
  <2> HIDE DEF n
  <2> QED BY <1>1, Edits DEF Pcs
<1>5. /\ ver'[r.key][n] = r.body
      /\ \A k \in Packages, i \in Versions : k # r.key \/ i # n => ver'[k][i] = ver[k][i]
      /\ \A k \in Packages : k # r.key => ver'[k] = ver[k]
  <2> HIDE DEF n, r
  <2> QED BY <1>2, <1>3 DEF HubInv, StoreInv
<1>6. ASSUME r.key \notin contended, pkg[r.key] # None PROVE n \notin 1..pkg[r.key].latest
  <2>1. r.op = "publish" /\ r.seen = pkg[r.key]
    BY <1>1, <1>6 DEF Own, PackageOwn
  <2>2. pkg[r.key].latest \in Nat
    BY <1>2, <1>6 DEF HubInv, StoreInv, IsMeta, Meta, Versions
  <2> QED BY <1>6, <2>1, <2>2 DEF NextVersion
<1>7. \A a : a.key \in Touches(r) \ contended /\ Stands(a, pkg, ver, typ, tver) =>
         Stands(a, pkg', ver', typ', tver')
  <2> SUFFICES ASSUME NEW a, a.key \in Touches(r) \ contended, Stands(a, pkg, ver, typ, tver)
               PROVE  Stands(a, pkg', ver', typ', tver')
    OBVIOUS
  <2>1. CASE a.key = r.key
    <3>1. pkg[a.key] # None /\ a.version \in 1..pkg[a.key].latest /\ ver[a.key][a.version] = a.body
      BY <1>2, <2>1 DEF Stands
    <3>2. pkg[r.key].latest \in Versions
      BY <1>2, <2>1, <3>1 DEF HubInv, StoreInv, IsMeta, Meta
    <3> HIDE DEF n, r
    <3>3. a.version \in Versions /\ a.version # n
      BY <1>6, <2>1, <3>1, <3>2, HubAssumption DEF Versions
    <3> QED BY <1>2, <1>3, <1>5, <2>1, <3>1, <3>3 DEF Stands
  <2>2. CASE a.key # r.key
    <3> HIDE DEF n, r
    <3> QED BY <1>3, <1>5, <2>2 DEF Stands
  <2> QED BY <2>1, <2>2
<1>8. \A k \in Keys \ Touches(r) : SameAt(k, pkg, ver, typ, tver, pkg', ver', typ', tver')
  <2> HIDE DEF n, r
  <2> QED BY <1>2, <1>3, <1>5 DEF SameAt
<1>9. Own(x, contended, pkg', ver', typ', tver') /\ Touches(x) = Touches(r)
  <2>1. r.op = "fork" => n = 1
    BY DEF NextVersion
  <2> HIDE DEF n, x, r
  <2> QED BY <1>1, <1>3, <1>4, <1>5, <2>1, ChangedTouches DEF Own, PackageOwn, Changed
<1> HIDE DEF x
<1> QED BY <1>1, <1>3, <1>7, <1>8, <1>9, WorkKeeps

(* A document put for a touched package, with the history it had or more.  *)
LEMMA MetaAck ==
  ASSUME HubInv, AckInv, NEW w \in Workers, Busy(w), NEW p \in Packages, p \in Touches(req[w]),
         NEW m, IsMeta(m), pkg' = [pkg EXCEPT ![p] = m], UNCHANGED <<ver, typ, tver, contended>>,
         m # None,
         p \notin contended /\ pkg[p] # None => pkg[p].latest <= m.latest,
         NEW x, req' = [req EXCEPT ![w] = x],
         x.pc # "done" => Touches(x) = Touches(req[w]) /\ Own(x, contended, pkg', ver, typ, tver),
         \A a \in acked' \ acked : a.fresh /\ a.key \notin contended => Stands(a, pkg', ver, typ, tver)
  PROVE  AckInv'
<1>1. \A k \in Keys \ Touches(req[w]) : SameAt(k, pkg, ver, typ, tver, pkg', ver', typ', tver')
  BY DEF SameAt, HubInv, StoreInv
<1>2. pkg'[p] = m /\ \A k \in Packages : k # p => pkg'[k] = pkg[k]
  BY DEF HubInv, StoreInv
<1>3. ASSUME NEW a, a.key \in Touches(req[w]) \ contended, Stands(a, pkg, ver, typ, tver)
      PROVE  Stands(a, pkg', ver', typ', tver')
  <2>1. CASE a.key = p
    <3>1. pkg[p] # None /\ a.version \in 1..pkg[p].latest /\ ver[p][a.version] = a.body /\ p \notin TypeKeys
      BY <1>3, <2>1, HubAssumption DEF Stands
    <3>2. pkg[p].latest <= m.latest /\ pkg[p].latest \in Nat /\ m.latest \in Nat
      BY <1>3, <2>1, <3>1 DEF HubInv, StoreInv, IsMeta, Meta, Versions
    <3>3. a.version \in 1..m.latest
      BY <3>1, <3>2
    <3> QED BY <1>2, <2>1, <3>1, <3>3 DEF Stands
  <2>2. CASE a.key # p
    BY <1>2, <1>3, <2>2 DEF Stands
  <2> QED BY <2>1, <2>2
<1>4. ver' = ver /\ typ' = typ /\ tver' = tver
  OBVIOUS
<1> QED BY <1>1, <1>3, <1>4, WorkKeeps

LEMMA MetaIsSome == \A m : IsMeta(m) => m # None
BY NoneIsNothingElse DEF IsMeta

(* The documents written back.                                             *)
LEMMA PutMetaAck ==
  ASSUME HubInv, AckInv, NEW w \in Workers, PutMeta(w)
  PROVE  AckInv'
<1> DEFINE r == req[w]
           old == IF r.op = "fork" THEN None ELSE r.seen
           m == IF r.op = "fork" THEN NewMeta(r.seen.category, <<r.upstream, r.seen.latest>>)
                ELSE IF old = None THEN NewMeta(r.body.category, None)
                ELSE [old EXCEPT !.latest = r.version, !.category = r.body.category]
           val == PackageIndexOps(r.key, old, r.prior, m.category, r.body)
           x == [[r EXCEPT !.todo = val] EXCEPT !.pc = "index"]
<1>1. /\ IsRequest(r) /\ r.pc = "meta" /\ r.op \in {"publish", "fork"} /\ PackageRequestSound(r, ver)
      /\ Busy(w) /\ Own(r, contended, pkg, ver, typ, tver)
  <2>1. At(w, "meta")
    BY DEF PutMeta
  <2> QED BY <2>1, InFlight, OwnOfBusy DEF PackageRequestSound, TypeRequestSound
<1>2. /\ pkg' = [pkg EXCEPT ![r.key] = m] /\ req' = [req EXCEPT ![w] = x]
      /\ UNCHANGED <<ver, typ, tver, contended, acked>>
  BY DEF PutMeta, Goto, aux
<1>3. IsMeta(m) /\ m.latest = r.version /\ m # None /\ r.key \in Packages /\ r.version \in Versions
  BY <1>1, MetaWritten, MetaIsSome DEF PackageRequestSound
<1> HIDE DEF m, val
<1>4. Moved(x, r, "index")
  BY <1>1, Edits DEF Pcs
<1> HIDE DEF x
<1>5. ASSUME r.key \notin contended, pkg[r.key] # None PROVE pkg[r.key].latest <= m.latest
  <2>1. r.seen = pkg[r.key] /\ r.op # "fork" /\ r.version = NextVersion(r)
    BY <1>1, <1>5 DEF Own, PackageOwn, PackageRequestSound
  <2>2. pkg[r.key].latest \in Nat
    BY <1>3, <1>5 DEF HubInv, StoreInv, IsMeta, Meta, Versions
  <2> QED BY <1>3, <1>5, <2>1, <2>2 DEF NextVersion
<1>6. pkg'[r.key] = m /\ \A k \in Packages : k # r.key => pkg'[k] = pkg[k]
  BY <1>2, <1>3 DEF HubInv, StoreInv
<1>7. Touches(x) = Touches(r) /\ r.key \in Touches(r)
  BY <1>4, ChangedTouches DEF Moved, Touches
<1>8. Own(x, contended, pkg', ver, typ, tver)
  <2>1. r.version \in 1..r.version /\ (r.op = "fork" => r.upstream \in Packages)
    BY <1>1, <1>3 DEF Versions, PackageRequestSound
  <2> HIDE DEF r
  <2> QED BY <1>1, <1>3, <1>4, <1>6, <2>1 DEF Own, PackageOwn, Moved, Changed
<1> QED BY <1>1, <1>2, <1>3, <1>5, <1>7, <1>8, MetaAck

(* A counter: the history stays what it was.                               *)
LEMMA CounterAck ==
  ASSUME HubInv, AckInv, NEW w \in Workers, Busy(w), NEW p \in Packages, p \in Touches(req[w]),
         p \notin contended => req[w].seen = pkg[p],
         NEW m, IsMeta(m), m.latest = req[w].seen.latest, m # None,
         pkg' = [pkg EXCEPT ![p] = m], UNCHANGED <<ver, typ, tver, contended>>,
         Reply(w, req[w], "ok") \/ Reply(w, req[w], "created"),
         \A a \in acked' \ acked : a.fresh /\ a.key \notin contended => Stands(a, pkg', ver, typ, tver)
  PROVE  AckInv'
<1>1. PICK x : x.pc = "done" /\ req' = [req EXCEPT ![w] = x]
  BY DEF Reply, Incoming
<1>2. ASSUME p \notin contended, pkg[p] # None PROVE pkg[p].latest <= m.latest
  <2>1. pkg[p].latest = m.latest /\ m.latest \in Nat
    BY <1>2 DEF IsMeta, Meta, Versions
  <2> QED BY <2>1
<1> QED BY <1>1, <1>2, MetaAck

LEMMA StarMetaAck ==
  ASSUME HubInv, AckInv, NEW w \in Workers, StarMeta(w)
  PROVE  AckInv'
<1> DEFINE r == req[w]
           count == IF r.op = "star" THEN r.seen.stars + 1 ELSE r.seen.stars - 1
           m == [r.seen EXCEPT !.stars = count]
<1>1. /\ IsRequest(r) /\ r.pc = "starMeta" /\ r.op \in {"star", "unstar"} /\ PackageRequestSound(r, ver)
      /\ Busy(w) /\ Own(r, contended, pkg, ver, typ, tver)
  BY InFlight, OwnOfBusy DEF StarMeta, PackageRequestSound, TypeRequestSound
<1>2. /\ IsMeta(r.seen) /\ r.seen # None /\ r.key \in Packages /\ r.key \in Touches(r)
      /\ count \in Nat
  <2>1. IsMeta(r.seen) /\ r.seen # None /\ r.key \in Packages /\ r.key \in Touches(r)
    BY <1>1 DEF PackageRequestSound, Touches
  <2>2. r.seen.stars \in Nat /\ (r.op = "unstar" => r.seen.stars > 0)
    BY <1>1, <2>1 DEF PackageRequestSound, IsMeta, Meta
  <2> QED BY <1>1, <2>1, <2>2
<1>3. /\ pkg' = [pkg EXCEPT ![r.key] = m] /\ Reply(w, r, "ok")
      /\ UNCHANGED <<ver, typ, tver, contended, acked>>
  BY DEF StarMeta, aux
<1>4. r.key \notin contended => r.seen = pkg[r.key]
  BY <1>1 DEF Own, PackageOwn
<1> HIDE DEF count, r
<1>5. IsMeta(m) /\ m.latest = r.seen.latest /\ m # None
  BY <1>2, MetaEdits, MetaIsSome
<1> HIDE DEF m
<1> USE DEF r
<1> QED BY <1>1, <1>2, <1>3, <1>4, <1>5, CounterAck

LEMMA DownloadPutAck ==
  ASSUME HubInv, AckInv, NEW w \in Workers, DownloadPut(w)
  PROVE  AckInv'
<1> DEFINE r == req[w]
           m == [r.seen EXCEPT !.downloads = r.seen.downloads + 1]
<1>1. /\ IsRequest(r) /\ r.pc = "bump" /\ r.op = "download" /\ PackageRequestSound(r, ver)
      /\ Busy(w) /\ Own(r, contended, pkg, ver, typ, tver)
  BY InFlight, OwnOfBusy DEF DownloadPut, PackageRequestSound, TypeRequestSound
<1>2. /\ IsMeta(r.seen) /\ r.seen # None /\ r.key \in Packages /\ r.key \in Touches(r)
      /\ r.seen.downloads + 1 \in Nat
  BY <1>1 DEF PackageRequestSound, Touches, IsMeta, Meta
<1>3. IsMeta(m) /\ m.latest = r.seen.latest /\ m # None
  BY <1>2, MetaEdits, MetaIsSome
<1>4. /\ pkg' = [pkg EXCEPT ![r.key] = m] /\ Reply(w, r, "ok")
      /\ UNCHANGED <<ver, typ, tver, contended, acked>>
  BY DEF DownloadPut, aux
<1>5. r.key \notin contended => r.seen = pkg[r.key]
  BY <1>1 DEF Own, PackageOwn
<1> HIDE DEF m
<1> QED BY <1>1, <1>2, <1>3, <1>4, <1>5, CounterAck

(* A fork is answered once its upstream's counters are up: its own version *)
(* is there, and the upstream's history is what it was.                    *)
LEMMA ForkBumpAck ==
  ASSUME HubInv, AckInv, NEW w \in Workers, ForkBump(w)
  PROVE  AckInv'
<1> DEFINE r == req[w]
           forks == r.seen.forks + 1
           downloads == r.seen.downloads + 1
           m == [r.seen EXCEPT !.forks = forks, !.downloads = downloads]
           a == [key |-> r.key, version |-> 1, body |-> r.body, fresh |-> TRUE]
<1>1. /\ IsRequest(r) /\ r.pc = "upstream" /\ r.op = "fork" /\ PackageRequestSound(r, ver)
      /\ Busy(w) /\ Own(r, contended, pkg, ver, typ, tver)
  BY InFlight, OwnOfBusy DEF ForkBump, PackageRequestSound, TypeRequestSound
<1>2. /\ IsMeta(r.seen) /\ r.seen # None /\ r.upstream \in Packages /\ r.upstream # None
      /\ r.key \in Packages /\ forks \in Nat /\ downloads \in Nat
  BY <1>1, HubAssumption DEF PackageRequestSound, Keys, IsMeta, Meta
<1>3. /\ pkg' = [pkg EXCEPT ![r.upstream] = m] /\ Reply(w, r, "created") /\ acked' = acked \cup {a}
      /\ UNCHANGED <<ver, typ, tver, contended>>
  BY DEF ForkBump, Ack
<1>4. /\ r.upstream \in Touches(r) /\ (r.upstream \notin contended => r.seen = pkg[r.upstream])
      /\ r.key # r.upstream /\ r.version = 1
      /\ r.key \notin contended =>
           pkg[r.key] # None /\ 1 \in 1..pkg[r.key].latest /\ ver[r.key][1] = r.body
  BY <1>1, <1>2 DEF Own, PackageOwn, Touches
<1>5. a.key = r.key /\ a.version = 1 /\ a.body = r.body
  OBVIOUS
<1>6. pkg'[r.key] = pkg[r.key]
  BY <1>3, <1>4, <1>2 DEF HubInv, StoreInv
<1>7. r.key \notin contended => Stands(a, pkg', ver, typ, tver)
  <2> HIDE DEF a, r, m
  <2> QED BY <1>2, <1>4, <1>5, <1>6, HubAssumption DEF Stands
<1> HIDE DEF forks, downloads, a, r
<1>8. IsMeta(m) /\ m.latest = r.seen.latest /\ m # None
  BY <1>2, ForkEdits, MetaIsSome
<1> HIDE DEF m
<1> USE DEF r
<1> QED BY <1>1, <1>2, <1>3, <1>4, <1>5, <1>7, <1>8, CounterAck

(* Types.                                                                  *)
LEMMA TypeReadAck ==
  ASSUME HubInv, AckInv, NEW w \in Workers, TypePrior(w) \/ TypeExtends(w) \/ TypePutHash(w)
  PROVE  AckInv'
<1> DEFINE r == req[w]
<1>1. /\ IsRequest(r) /\ r.pc \in {"typePrior", "typeExtends", "typeHash"} /\ r.op = "type"
      /\ Busy(w) /\ Own(r, contended, pkg, ver, typ, tver)
      /\ UNCHANGED <<pkg, ver, typ, tver, contended, acked>>
  BY InFlight, OwnOfBusy DEF TypePrior, TypeExtends, TypePutHash, PackageRequestSound,
     TypeRequestSound, store, aux
<1>2. PICK x, pc :
        /\ req' = [req EXCEPT ![w] = x] /\ Moved(x, r, pc)
        /\ <<r.pc, pc>> \in {<<"typePrior", "typePut">>, <<"typeExtends", "links">>, <<"typeHash", "typeMeta">>}
  <2>1. CASE TypePrior(w)
    <3> DEFINE val == TypeArtifact(r)
               x == [[r EXCEPT !.prior = val] EXCEPT !.pc = "typePut"]
    <3>1. req' = [req EXCEPT ![w] = x] /\ r.pc = "typePrior"
      BY <2>1 DEF TypePrior, Goto, At
    <3> HIDE DEF val
    <3>2. Moved(x, r, "typePut")
      BY <1>1, Edits DEF Pcs
    <3> QED BY <3>1, <3>2
  <2>2. CASE TypeExtends(w)
    <3> DEFINE val == ExtendsOps(r.key, TypeArtifact(r), r.body)
               x == [[r EXCEPT !.todo = val] EXCEPT !.pc = "links"]
    <3>1. req' = [req EXCEPT ![w] = x] /\ r.pc = "typeExtends"
      BY <2>2 DEF TypeExtends, Goto, At
    <3> HIDE DEF val
    <3>2. Moved(x, r, "links")
      BY <1>1, Edits DEF Pcs
    <3> QED BY <3>1, <3>2
  <2>3. CASE TypePutHash(w)
    <3>1. req' = [req EXCEPT ![w] = [r EXCEPT !.pc = "typeMeta"]] /\ r.pc = "typeHash"
      BY <2>3 DEF TypePutHash, Goto, At
    <3>2. Moved([r EXCEPT !.pc = "typeMeta"], r, "typeMeta")
      BY <1>1, PcEdit DEF Pcs
    <3> QED BY <3>1, <3>2
  <2> QED BY <2>1, <2>2, <2>3
<1>3. Own(x, contended, pkg, ver, typ, tver) /\ Touches(x) = Touches(r)
  <2> HIDE DEF r
  <2> QED BY <1>1, <1>2, ChangedTouches DEF Own, TypeOwn, Moved, Changed
<1> QED BY <1>1, <1>2, <1>3, MovedOwn

LEMMA TypeHashAck ==
  ASSUME HubInv, AckInv, NEW w \in Workers, TypeHash(w)
  PROVE  AckInv'
<1> DEFINE r == req[w]
           dedup == thash[r.key][r.body.source]
<1>1. /\ r.pc = "hash" /\ r.op = "type" /\ Busy(w) /\ Own(r, contended, pkg, ver, typ, tver)
      /\ UNCHANGED <<pkg, ver, typ, tver, contended>>
  BY InFlight, OwnOfBusy DEF TypeHash, PackageRequestSound, TypeRequestSound, store
<1>2. CASE Goto(w, r, "typePrior") /\ UNCHANGED acked
  <2>1. ASSUME NEW x, Moved(x, r, "typePrior") PROVE Own(x, contended, pkg, ver, typ, tver)
    <3> HIDE DEF r
    <3> QED BY <1>1, <2>1 DEF Own, TypeOwn, Moved, Changed
  <2> QED BY <1>1, <1>2, <2>1, GotoAck DEF Pcs
<1>3. CASE Reply(w, r, "corrupt") /\ UNCHANGED acked
  BY <1>1, <1>3, ReplyAck
<1>4. CASE Reply(w, [r EXCEPT !.version = dedup], "deduped") /\ Ack(r, dedup, FALSE)
  <2>1. \A a \in acked' \ acked : ~a.fresh
    BY <1>4 DEF Ack
  <2> HIDE DEF dedup
  <2> QED BY <1>1, <1>4, <2>1, ReplyAck
<1> QED BY <1>2, <1>3, <1>4 DEF TypeHash

LEMMA TypePutAck ==
  ASSUME HubInv, AckInv, NEW w \in Workers, TypePut(w)
  PROVE  AckInv'
<1> DEFINE r == req[w]
           n == r.latest + 1
           x == [[r EXCEPT !.version = n] EXCEPT !.pc = "typeHash"]
<1>1. /\ IsRequest(r) /\ r.pc = "typePut" /\ r.op = "type" /\ TypeRequestSound(r, tver)
      /\ Busy(w) /\ Own(r, contended, pkg, ver, typ, tver)
  BY InFlight, OwnOfBusy DEF TypePut, PackageRequestSound, TypeRequestSound
<1>2. r.key \in TypeKeys /\ n \in Versions /\ r.latest \in Nat /\ r.key \in Touches(r)
  BY <1>1 DEF TypeRequestSound, Touches
<1>3. /\ tver' = [tver EXCEPT ![r.key][n] = r.body] /\ req' = [req EXCEPT ![w] = x]
      /\ UNCHANGED <<pkg, ver, typ, contended, acked>>
  BY DEF TypePut, Goto, aux
<1>4. Changed(x, r, "typeHash", r.body, n)
  <2> HIDE DEF n
  <2> QED BY <1>1, Edits DEF Pcs
<1>5. /\ tver'[r.key][n] = r.body
      /\ \A k \in TypeKeys, i \in Versions : k # r.key \/ i # n => tver'[k][i] = tver[k][i]
      /\ \A k \in TypeKeys : k # r.key => tver'[k] = tver[k]
  <2> HIDE DEF n, r
  <2> QED BY <1>2, <1>3 DEF HubInv, StoreInv
<1>6. r.key \notin contended => typ[r.key] = r.latest
  BY <1>1 DEF Own, TypeOwn
<1>7. \A a : a.key \in Touches(r) \ contended /\ Stands(a, pkg, ver, typ, tver) =>
         Stands(a, pkg', ver', typ', tver')
  <2> SUFFICES ASSUME NEW a, a.key \in Touches(r) \ contended, Stands(a, pkg, ver, typ, tver)
               PROVE  Stands(a, pkg', ver', typ', tver')
    OBVIOUS
  <2>1. CASE a.key = r.key
    <3>1. a.version \in 1..r.latest /\ tver[a.key][a.version] = a.body
      BY <1>2, <1>6, <2>1 DEF Stands
    <3>2. a.version \in Versions /\ a.version # n
      BY <1>2, <3>1, HubAssumption DEF Versions
    <3> HIDE DEF n, r
    <3> QED BY <1>2, <1>3, <1>5, <2>1, <3>1, <3>2 DEF Stands
  <2>2. CASE a.key # r.key
    <3> HIDE DEF n, r
    <3> QED BY <1>3, <1>5, <2>2 DEF Stands
  <2> QED BY <2>1, <2>2
<1>8. \A k \in Keys \ Touches(r) : SameAt(k, pkg, ver, typ, tver, pkg', ver', typ', tver')
  <2> HIDE DEF n, r
  <2> QED BY <1>2, <1>3, <1>5 DEF SameAt
<1>9. Own(x, contended, pkg', ver', typ', tver') /\ Touches(x) = Touches(r)
  <2> HIDE DEF n, x, r
  <2> QED BY <1>1, <1>3, <1>4, <1>5, ChangedTouches DEF Own, TypeOwn, Changed
<1> HIDE DEF x
<1> QED BY <1>1, <1>3, <1>7, <1>8, <1>9, WorkKeeps

LEMMA TypeMetaAck ==
  ASSUME HubInv, AckInv, NEW w \in Workers, TypeMeta(w)
  PROVE  AckInv'
<1> DEFINE r == req[w]
           val == TypeIndexOps(r.key, r.latest, r.prior, r.body)
           x == [[r EXCEPT !.todo = val] EXCEPT !.pc = "index"]
<1>1. /\ IsRequest(r) /\ r.pc = "typeMeta" /\ r.op = "type" /\ TypeRequestSound(r, tver)
      /\ Busy(w) /\ Own(r, contended, pkg, ver, typ, tver)
  BY InFlight, OwnOfBusy DEF TypeMeta, PackageRequestSound, TypeRequestSound
<1>2. /\ typ' = [typ EXCEPT ![r.key] = r.version] /\ req' = [req EXCEPT ![w] = x]
      /\ UNCHANGED <<pkg, ver, tver, contended, acked>>
  BY DEF TypeMeta, Goto, aux
<1> HIDE DEF val
<1>3. Moved(x, r, "index")
  BY <1>1, Edits DEF Pcs
<1> HIDE DEF x
<1>4. /\ r.key \in TypeKeys /\ r.latest \in Nat /\ r.version = r.latest + 1 /\ r.key \in Touches(r)
      /\ r.key \notin contended => typ[r.key] = r.latest
  BY <1>1 DEF TypeRequestSound, Own, TypeOwn, Touches
<1>5. typ'[r.key] = r.version /\ \A k \in TypeKeys : k # r.key => typ'[k] = typ[k]
  BY <1>2, <1>4 DEF HubInv, StoreInv
<1>6. \A a : a.key \in Touches(r) \ contended /\ Stands(a, pkg, ver, typ, tver) =>
         Stands(a, pkg', ver', typ', tver')
  <2> SUFFICES ASSUME NEW a, a.key \in Touches(r) \ contended, Stands(a, pkg, ver, typ, tver)
               PROVE  Stands(a, pkg', ver', typ', tver')
    OBVIOUS
  <2>1. CASE a.key = r.key
    <3>1. a.version \in 1..r.latest /\ tver[a.key][a.version] = a.body
      BY <1>4, <2>1 DEF Stands
    <3>2. a.version \in 1..r.version
      BY <1>4, <3>1
    <3> HIDE DEF r
    <3> QED BY <1>2, <1>4, <1>5, <2>1, <3>1, <3>2 DEF Stands
  <2>2. CASE a.key # r.key
    <3> HIDE DEF r
    <3> QED BY <1>2, <1>5, <2>2 DEF Stands
  <2> QED BY <2>1, <2>2
<1>7. \A k \in Keys \ Touches(r) : SameAt(k, pkg, ver, typ, tver, pkg', ver', typ', tver')
  <2> HIDE DEF r
  <2> QED BY <1>2, <1>4, <1>5 DEF SameAt
<1>8. Own(x, contended, pkg', ver', typ', tver') /\ Touches(x) = Touches(r)
  <2>1. r.version \in 1..r.version
    BY <1>4
  <2> HIDE DEF r
  <2> QED BY <1>1, <1>2, <1>3, <1>5, <2>1, ChangedTouches DEF Own, TypeOwn, Moved, Changed
<1> QED BY <1>1, <1>2, <1>6, <1>7, <1>8, WorkKeeps

LEMMA EndAck ==
  ASSUME HubInv, AckInv, NEW w \in Workers, Die(w) \/ Deliver(w)
  PROVE  AckInv'
<1>1. req' = [req EXCEPT ![w] = None] /\ UNCHANGED <<pkg, ver, typ, tver, acked, contended>>
  BY DEF Die, Deliver, store, aux
<1>2. DOMAIN req = Workers /\ req'[w] = None /\ \A v \in Workers \ {w} : req'[v] = req[v]
  BY <1>1 DEF HubInv
<1>3. \A v \in Workers : Busy(v)' => Busy(v) /\ req'[v] = req[v]
  BY <1>2 DEF Busy
<1> QED BY <1>1, <1>3 DEF AckInv, Alone, Busy, Touches

(* A request that arrives has just read the metadata; the names that       *)
(* others work on become contended.                                        *)
LEMMA ArriveAck ==
  ASSUME HubInv, AckInv, NEW w \in Workers, NEW r, Arrive(w, r),
         r.pc # "done" => \A c : Own(r, c, pkg, ver, typ, tver)
  PROVE  AckInv'
<1> DEFINE others == {v \in Workers : Busy(v)}
           busy == UNION {Touches(req[v]) : v \in others}
<1>1. /\ req[w] = None /\ req' = [req EXCEPT ![w] = r]
      /\ UNCHANGED <<pkg, ver, typ, tver, acked>>
      /\ contended' = IF r.pc = "done" THEN contended ELSE contended \cup (busy \cap Touches(r))
  BY DEF Arrive, store
<1>2. DOMAIN req = Workers /\ req'[w] = r /\ \A v \in Workers \ {w} : req'[v] = req[v]
  BY <1>1 DEF HubInv
<1>3. \A v \in Workers \ {w} : Busy(v)' <=> Busy(v)
  BY <1>2 DEF Busy
<1>4. contended \subseteq contended' /\ \A v \in Workers : Busy(v) => Touches(req[v]) \subseteq busy
  BY <1>1
<1>5. Busy(w)' => r.pc # "done" /\ contended' = contended \cup (busy \cap Touches(r))
  BY <1>1, <1>2 DEF Busy
<1> HIDE DEF busy
<1>6. Alone'
  <2> SUFFICES ASSUME NEW w1 \in Workers, NEW w2 \in Workers, w1 # w2, Busy(w1)', Busy(w2)'
               PROVE  Touches(req'[w1]) \cap Touches(req'[w2]) \subseteq contended'
    BY DEF Alone, Touches
  <2>1. CASE w1 = w
    BY <1>2, <1>3, <1>4, <1>5, <2>1
  <2>2. CASE w2 = w
    BY <1>2, <1>3, <1>4, <1>5, <2>2
  <2>3. CASE w1 # w /\ w2 # w
    BY <1>2, <1>3, <1>4, <2>3 DEF AckInv, Alone
  <2> QED BY <2>1, <2>2, <2>3
<1>7. ASSUME NEW v \in Workers, Busy(v)' PROVE Own(req'[v], contended', pkg', ver', typ', tver')
  <2>1. CASE v = w
    BY <1>1, <1>2, <1>5, <1>7, <2>1
  <2>2. CASE v # w
    <3>1. Busy(v) /\ req'[v] = req[v] /\ Own(req[v], contended, pkg, ver, typ, tver)
      BY <1>2, <1>3, <1>7, <2>2 DEF AckInv
    <3>2. \A k : SameAt(k, pkg, ver, typ, tver, pkg', ver', typ', tver')
      BY <1>1 DEF SameAt
    <3> QED BY <1>4, <3>1, <3>2, BusyNames, OwnElsewhere
  <2> QED BY <2>1, <2>2
<1>8. \A a \in acked' : a.fresh /\ a.key \notin contended' => Stands(a, pkg', ver', typ', tver')
  BY <1>1, <1>4 DEF AckInv
<1> QED BY <1>6, <1>7, <1>8 DEF AckInv

LEMMA ArrivalAck ==
  ASSUME HubInv, AckInv, NEW w \in Workers, Arrival(w)
  PROVE  AckInv'
<1>1. \A op, user, key : Incoming(op, user, key).pc = "done"
  BY DEF Incoming
<1>2. ASSUME NEW p \in Packages, NEW body, NEW base, Publish(w, p, body, base) PROVE AckInv'
  <2> DEFINE r == Incoming("publish", p[1], p)
             x == [r EXCEPT !.pc = "prior", !.body = body, !.seen = pkg[p]]
             y == [r EXCEPT !.status = "stale_base"]
  <2>1. Arrive(w, x) \/ Arrive(w, y)
    BY <1>2 DEF Publish
  <2>2. y.pc = "done" /\ x.op = "publish" /\ x.pc = "prior" /\ x.key = p /\ x.seen = pkg[p]
    BY DEF Incoming
  <2> HIDE DEF x, y
  <2>3. \A c : Own(x, c, pkg, ver, typ, tver)
    BY <2>2 DEF Own, PackageOwn
  <2> QED BY <2>1, <2>2, <2>3, ArriveAck
<1>3. ASSUME NEW t \in TypeKeys, NEW body, NEW base, PublishType(w, t, body, base) PROVE AckInv'
  <2> DEFINE r == Incoming("type", t[1], t)
             x == [r EXCEPT !.pc = "hash", !.body = body, !.latest = typ[t]]
             y == [r EXCEPT !.status = "stale_base"]
             z == [r EXCEPT !.status = "invalid"]
  <2>1. Arrive(w, x) \/ Arrive(w, y) \/ Arrive(w, z)
    BY <1>3 DEF PublishType
  <2>2. y.pc = "done" /\ z.pc = "done" /\ x.op = "type" /\ x.pc = "hash" /\ x.key = t /\ x.latest = typ[t]
    BY DEF Incoming
  <2> HIDE DEF x, y, z
  <2>3. \A c : Own(x, c, pkg, ver, typ, tver)
    BY <2>2 DEF Own, TypeOwn
  <2> QED BY <2>1, <2>2, <2>3, ArriveAck
<1>4. ASSUME NEW op \in {"star", "unstar", "download"}, NEW u, NEW p, NEW pc \in {"starKey", "bump"},
             LET r == [Incoming(op, u, p) EXCEPT !.seen = pkg[p]]
             IN  Arrive(w, IF pkg[p] = None THEN [r EXCEPT !.status = "not_found"] ELSE [r EXCEPT !.pc = pc])
      PROVE  AckInv'
  <2> DEFINE r == [Incoming(op, u, p) EXCEPT !.seen = pkg[p]]
             x == [r EXCEPT !.pc = pc]
             y == [r EXCEPT !.status = "not_found"]
  <2>1. Arrive(w, x) \/ Arrive(w, y)
    BY <1>4
  <2>2. y.pc = "done" /\ x.op = op /\ x.pc = pc /\ x.key = p /\ x.seen = pkg[p]
    BY DEF Incoming
  <2> HIDE DEF x, y
  <2>3. \A c : Own(x, c, pkg, ver, typ, tver)
    BY <2>2 DEF Own, PackageOwn
  <2> QED BY <2>1, <2>2, <2>3, ArriveAck
<1>5. ASSUME NEW u, NEW p, NEW slug, Fork(w, u, p, slug) PROVE AckInv'
  <2> DEFINE r == [Incoming("fork", u, <<u, slug>>) EXCEPT !.upstream = p, !.seen = pkg[p]]
             x == [r EXCEPT !.pc = "forkRead"]
             y == [r EXCEPT !.status = "not_found"]
  <2>1. Arrive(w, x) \/ Arrive(w, y)
    BY <1>5 DEF Fork
  <2>2. y.pc = "done" /\ x.op = "fork" /\ x.pc = "forkRead" /\ x.upstream = p /\ x.seen = pkg[p]
    BY DEF Incoming
  <2> HIDE DEF x, y
  <2>3. \A c : Own(x, c, pkg, ver, typ, tver)
    BY <2>2 DEF Own, PackageOwn
  <2> QED BY <2>1, <2>2, <2>3, ArriveAck
<1>6. ASSUME NEW p, Download(w, p) PROVE AckInv'
  BY <1>4, <1>6 DEF Download
<1>7. ASSUME NEW u, NEW p, NEW op \in {"star", "unstar"}, Star(w, op, u, p) PROVE AckInv'
  BY <1>4, <1>7 DEF Star
<1> QED BY <1>2, <1>3, <1>5, <1>6, <1>7 DEF Arrival

LEMMA AckInvHolds == Spec => []AckInv
<1>1. Init => AckInv
  BY DEF Init, AckInv, Alone, Busy
<1>2. HubInv /\ AckInv /\ [Next]_vars => AckInv'
  <2> SUFFICES ASSUME HubInv, AckInv, [Next]_vars PROVE AckInv'
    OBVIOUS
  <2>1. CASE UNCHANGED vars
    BY <2>1 DEF vars, AckInv, Alone, Busy, Touches
  <2>2. CASE Next
    BY <2>2, ArrivalAck, PublishPriorAck, PutVersionAck, PutMetaAck, IndexWorkAck, IndexDoneAck,
       StarAck, StarMetaAck, DownloadPutAck, ForkReadAck, ForkCheckAck, ForkBumpAck, TypeHashAck,
       TypeReadAck, TypePutAck, TypeMetaAck, EndAck
    DEF Next, Step
  <2> QED BY <2>1, <2>2
<1> QED BY <1>1, <1>2, HubInvHolds, PTL DEF Spec

(* A version that the hub acknowledged stays in the history of its name as *)
(* it was sent, unless two requests worked on that name at once: whatever  *)
(* requests for other names interleave, whatever later publishes, forks,   *)
(* stars and downloads write, and wherever requests die.                   *)
THEOREM AcknowledgementsStand == Spec => []AcknowledgedStands
<1>1. HubInv /\ AckInv => AcknowledgedStands
  <2> SUFFICES ASSUME HubInv, AckInv, NEW a \in acked, a.fresh, a.key \notin contended
               PROVE  a.version <= Latest(a.key) /\ Stored(a.key, a.version) = a.body
    BY DEF AcknowledgedStands
  <2>1. Stands(a, pkg, ver, typ, tver)
    BY DEF AckInv
  <2>2. CASE a.key \in TypeKeys
    BY <2>1, <2>2 DEF Stands, Latest, Stored
  <2>3. CASE a.key \notin TypeKeys
    BY <2>1, <2>3 DEF Stands, Latest, Stored
  <2> QED BY <2>2, <2>3
<1> QED BY <1>1, HubInvHolds, AckInvHolds, PTL

-------------------------------------------------------------------------------
(* The content hashes of types.                                            *)
(*                                                                         *)
(* The hash of a source is put before the metadata that announces its      *)
(* version, so it may run ahead of the metadata by the one version whose   *)
(* request is about to announce it; if that request dies, the next one     *)
(* writes another source there, and the hash is stale.                     *)

HashInv ==
  \A t \in TypeKeys \ (contended \cup died), s \in Sources : thash[t][s] # 0 =>
    /\ tver[t][thash[t][s]].source = s
    /\ \/ thash[t][s] <= typ[t]
       \/ thash[t][s] = typ[t] + 1 /\ \E w \in Workers : At(w, "typeMeta") /\ req[w].key = t

(* A request for a type, up to the put of its metadata.                    *)
Early(r) == r.op = "type" /\ r.pc \in {"hash", "typePrior", "typePut", "typeHash", "typeMeta"}
EarlyInv == \A w \in Workers : req[w] # None /\ Early(req[w]) => req[w] \in Request

DedupInv ==
  /\ EarlyInv /\ HashInv
  /\ \A a \in acked : ~a.fresh /\ a.key \notin contended \cup died =>
       /\ a.key \in TypeKeys /\ a.version \in 1..typ[a.key]
       /\ tver[a.key][a.version].source = a.body.source

LEMMA EarlyKept ==
  ASSUME HubInv, EarlyInv, NEW w \in Workers, NEW x, req' = [req EXCEPT ![w] = x],
         x # None /\ Early(x) => x \in Request
  PROVE  EarlyInv'
BY DEF HubInv, EarlyInv

(* Steps that leave types alone and announce no version.                   *)
LEMMA QuietDedup ==
  ASSUME HubInv, DedupInv, NEW w \in Workers, NEW x, req' = [req EXCEPT ![w] = x],
         x # None /\ Early(x) => x \in Request,
         UNCHANGED <<typ, tver, thash>>, contended \subseteq contended', died \subseteq died',
         At(w, "typeMeta") => req[w].key \in died',
         \A a \in acked' \ acked : a.fresh
  PROVE  DedupInv'
<1>1. \A v \in Workers \ {w} : req'[v] = req[v]
  BY DEF HubInv
<1>2. ASSUME NEW t \in TypeKeys \ (contended' \cup died'), NEW v \in Workers, At(v, "typeMeta"), req[v].key = t
      PROVE  At(v, "typeMeta")' /\ req'[v].key = t
  <2>1. v # w
    BY <1>2
  <2> QED BY <1>1, <1>2, <2>1 DEF At
<1>3. HashInv'
  <2> SUFFICES ASSUME NEW t \in TypeKeys \ (contended' \cup died'), NEW s \in Sources, thash[t][s] # 0
               PROVE  /\ tver[t][thash[t][s]].source = s
                      /\ \/ thash[t][s] <= typ[t]
                         \/ /\ thash[t][s] = typ[t] + 1
                            /\ \E v \in Workers : At(v, "typeMeta")' /\ req'[v].key = t
    BY DEF HashInv
  <2>1. t \in TypeKeys \ (contended \cup died)
    OBVIOUS
  <2> QED BY <1>2, <2>1 DEF DedupInv, HashInv
<1>4. ASSUME NEW a \in acked', ~a.fresh, a.key \notin contended' \cup died'
      PROVE  /\ a.key \in TypeKeys /\ a.version \in 1..typ'[a.key]
             /\ tver'[a.key][a.version].source = a.body.source
  BY <1>4 DEF DedupInv
<1>5. EarlyInv'
  BY EarlyKept DEF DedupInv
<1> QED BY <1>3, <1>4, <1>5 DEF DedupInv

(* The request about to announce a version of an uncontended type is alone *)
(* on it.                                                                  *)
LEMMA OneAnnouncer ==
  ASSUME HubInv, AckInv, NEW w \in Workers, Busy(w), NEW v \in Workers, At(v, "typeMeta"),
         req[w].key = req[v].key, req[w].key \notin contended
  PROVE  v = w
<1>1. Busy(v) /\ req[v].key \in Touches(req[v]) /\ req[w].key \in Touches(req[w])
  BY DEF Busy, At, Touches
<1> QED BY <1>1 DEF AckInv, Alone

LEMMA TypeHashDedup ==
  ASSUME HubInv, AckInv, DedupInv, NEW w \in Workers, TypeHash(w)
  PROVE  DedupInv'
<1> DEFINE r == req[w]
           dedup == thash[r.key][r.body.source]
           a == [key |-> r.key, version |-> dedup, body |-> r.body, fresh |-> FALSE]
<1>1. /\ r.pc = "hash" /\ r.op = "type" /\ TypeRequestSound(r, tver) /\ Own(r, contended, pkg, ver, typ, tver)
      /\ UNCHANGED <<typ, tver, thash, contended, died>> /\ ~At(w, "typeMeta")
      /\ acked' = acked \/ (acked' = acked \cup {a} /\ dedup # 0 /\ dedup = r.latest)
  BY InFlight, OwnOfBusy DEF TypeHash, PackageRequestSound, TypeRequestSound, store, At, Goto, Reply, Ack
<1>2. PICK x : req' = [req EXCEPT ![w] = x] /\ (x # None /\ Early(x) => x \in Request)
  <2>1. [r EXCEPT !.pc = "typePrior"] \in Request
    <3>1. r \in Request
      BY <1>1 DEF DedupInv, EarlyInv, Early, TypeHash, At
    <3> QED BY <3>1 DEF Request, Pcs
  <2>2. \A q, status : [Incoming(q.op, q.user, q.key) EXCEPT !.status = status, !.version = q.version].pc = "done"
    BY DEF Incoming
  <2>3. CASE Goto(w, r, "typePrior")
    BY <2>1, <2>3 DEF Goto
  <2>4. ASSUME NEW q, NEW status, Reply(w, q, status)
        PROVE  \E x : req' = [req EXCEPT ![w] = x] /\ x.pc = "done"
    BY <2>2, <2>4 DEF Reply
  <2> QED BY <2>3, <2>4 DEF TypeHash, Early
<1>3. EarlyInv'
  BY <1>2, EarlyKept DEF DedupInv
<1>4. CASE acked' = acked
  BY <1>1, <1>2, <1>4, QuietDedup
<1>5. CASE acked' = acked \cup {a} /\ dedup # 0 /\ dedup = r.latest
  <2>1. HashInv'
    <3>1. \A v \in Workers : At(v, "typeMeta") => At(v, "typeMeta")' /\ req'[v].key = req[v].key
      BY <1>1, <1>2 DEF HubInv, At
    <3> QED BY <1>1, <3>1 DEF DedupInv, HashInv
  <2>2. ASSUME r.key \notin contended \cup died
        PROVE  r.key \in TypeKeys /\ dedup \in 1..typ[r.key] /\ tver[r.key][dedup].source = r.body.source
    <3>1. r.key \in TypeKeys /\ r.body.source \in Sources /\ r.latest \in Nat /\ typ[r.key] = r.latest
      BY <1>1, <2>2 DEF TypeRequestSound, Own, TypeOwn, Sources
    <3> QED BY <1>5, <2>2, <3>1 DEF DedupInv, HashInv
  <2>3. a.key = r.key /\ a.version = dedup /\ a.body = r.body
    OBVIOUS
  <2> HIDE DEF a, dedup
  <2> QED BY <1>1, <1>3, <1>5, <2>1, <2>2, <2>3 DEF DedupInv
<1> QED BY <1>1, <1>4, <1>5

LEMMA TypePutDedup ==
  ASSUME HubInv, AckInv, DedupInv, NEW w \in Workers, TypePut(w)
  PROVE  DedupInv'
<1> DEFINE r == req[w]
           n == r.latest + 1
<1>1. /\ r.pc = "typePut" /\ r.op = "type" /\ TypeRequestSound(r, tver) /\ Busy(w)
      /\ Own(r, contended, pkg, ver, typ, tver)
  BY InFlight, OwnOfBusy DEF TypePut, PackageRequestSound, TypeRequestSound
<1>2. /\ tver' = [tver EXCEPT ![r.key][n] = r.body] /\ UNCHANGED <<typ, thash, contended, died, acked>>
      /\ req' = [req EXCEPT ![w] = [[r EXCEPT !.version = n] EXCEPT !.pc = "typeHash"]]
  BY DEF TypePut, Goto, aux
<1>3. r.key \in TypeKeys /\ r.latest \in Nat /\ (r.key \notin contended => typ[r.key] = r.latest)
  BY <1>1 DEF TypeRequestSound, Own, TypeOwn
<1>4. \A k \in TypeKeys, i \in Versions : k # r.key \/ i # n => tver'[k][i] = tver[k][i]
  <2> HIDE DEF n, r
  <2> QED BY <1>2, <1>3 DEF HubInv, StoreInv
<1>5. \A v \in Workers : At(v, "typeMeta") => At(v, "typeMeta")' /\ req'[v].key = req[v].key
  BY <1>1, <1>2 DEF HubInv, At
<1>6. ASSUME NEW t \in TypeKeys \ (contended \cup died), NEW s \in Sources, thash[t][s] # 0
      PROVE  tver'[t][thash[t][s]].source = s
  <2>1. thash[t][s] \in Versions
    BY <1>6 DEF HubInv, StoreInv, Versions
  <2>2. tver[t][thash[t][s]].source = s
    BY <1>6 DEF DedupInv, HashInv
  <2>3. t = r.key => thash[t][s] # n
    <3> SUFFICES ASSUME t = r.key, thash[t][s] = n PROVE FALSE
      OBVIOUS
    <3>1. ~(thash[t][s] <= typ[t])
      BY <1>3
    <3>2. PICK v \in Workers : At(v, "typeMeta") /\ req[v].key = t
      BY <1>6, <3>1 DEF DedupInv, HashInv
    <3>3. v = w
      BY <1>1, <3>2, OneAnnouncer
    <3> QED BY <1>1, <3>2, <3>3 DEF At
  <2> QED BY <1>4, <2>1, <2>2, <2>3
<1>7. HashInv'
  BY <1>2, <1>5, <1>6 DEF DedupInv, HashInv
<1>8. ASSUME NEW a \in acked, ~a.fresh, a.key \notin contended \cup died
      PROVE  /\ a.key \in TypeKeys /\ a.version \in 1..typ[a.key]
             /\ tver'[a.key][a.version].source = a.body.source
  <2>1. /\ a.key \in TypeKeys /\ a.version \in 1..typ[a.key] /\ typ[a.key] \in 0..MaxVersion
        /\ tver[a.key][a.version].source = a.body.source
    BY <1>8 DEF DedupInv, HubInv, StoreInv
  <2>2. a.version \in Versions /\ (a.key = r.key => a.version # n)
    BY <1>3, <1>8, <2>1, HubAssumption DEF Versions
  <2> HIDE DEF n, r
  <2> QED BY <1>4, <2>1, <2>2
<1>9. EarlyInv'
  <2>1. r \in Request /\ n \in Nat
    BY <1>1, <1>3 DEF DedupInv, EarlyInv, Early, Busy
  <2> HIDE DEF n, r
  <2>2. [[r EXCEPT !.version = n] EXCEPT !.pc = "typeHash"] \in Request
    BY <2>1 DEF Request, Pcs
  <2> QED BY <1>2, <2>2, EarlyKept DEF DedupInv
<1> QED BY <1>2, <1>7, <1>8, <1>9 DEF DedupInv

LEMMA TypePutHashDedup ==
  ASSUME HubInv, AckInv, DedupInv, NEW w \in Workers, TypePutHash(w)
  PROVE  DedupInv'
<1> DEFINE r == req[w]
           source == r.body.source
<1>1. /\ r.pc = "typeHash" /\ r.op = "type" /\ TypeRequestSound(r, tver)
      /\ Own(r, contended, pkg, ver, typ, tver) /\ IsRequest(r)
  BY InFlight, OwnOfBusy DEF TypePutHash, PackageRequestSound, TypeRequestSound
<1>2. /\ thash' = [thash EXCEPT ![r.key][source] = r.version]
      /\ UNCHANGED <<typ, tver, contended, died, acked>>
      /\ req' = [req EXCEPT ![w] = [r EXCEPT !.pc = "typeMeta"]]
  BY DEF TypePutHash, Goto, aux
<1>3. /\ r.key \in TypeKeys /\ source \in Sources /\ r.version = r.latest + 1
      /\ r.key \notin contended => typ[r.key] = r.latest /\ tver[r.key][r.version] = r.body
  BY <1>1 DEF TypeRequestSound, Own, TypeOwn, Sources
<1>4. At(w, "typeMeta")' /\ req'[w].key = r.key /\ EarlyInv'
  <2>1. Moved([r EXCEPT !.pc = "typeMeta"], r, "typeMeta")
    BY <1>1, PcEdit DEF Pcs
  <2>2. r # None /\ req'[w] = [r EXCEPT !.pc = "typeMeta"]
    BY <1>2 DEF HubInv, TypePutHash, At
  <2>3. [r EXCEPT !.pc = "typeMeta"] \in Request
    <3>1. r \in Request
      BY <1>1, <2>2 DEF DedupInv, EarlyInv, Early
    <3> QED BY <3>1 DEF Request, Pcs
  <2>4. EarlyInv'
    BY <1>2, <2>3, EarlyKept DEF DedupInv
  <2> QED BY <2>1, <2>2, <2>3, <2>4, NoneIsNothingElse DEF Moved, Changed, At
<1>5. \A v \in Workers : At(v, "typeMeta") => At(v, "typeMeta")' /\ req'[v].key = req[v].key
  BY <1>1, <1>2 DEF HubInv, At
<1>6. \A t \in TypeKeys, s \in Sources :
        thash'[t][s] = IF t = r.key /\ s = source THEN r.version ELSE thash[t][s]
  <2> HIDE DEF r, source
  <2> QED BY <1>2, <1>3 DEF HubInv, StoreInv
<1>7. ASSUME NEW t \in TypeKeys \ (contended \cup died), NEW s \in Sources, thash'[t][s] # 0
      PROVE  /\ tver[t][thash'[t][s]].source = s
             /\ \/ thash'[t][s] <= typ[t]
                \/ thash'[t][s] = typ[t] + 1 /\ \E v \in Workers : At(v, "typeMeta")' /\ req'[v].key = t
  <2>1. CASE t = r.key /\ s = source
    BY <1>3, <1>4, <1>6, <1>7, <2>1
  <2>2. CASE ~(t = r.key /\ s = source)
    BY <1>5, <1>6, <1>7, <2>2 DEF DedupInv, HashInv
  <2> QED BY <2>1, <2>2
<1>8. HashInv'
  BY <1>2, <1>7 DEF HashInv
<1> QED BY <1>2, <1>4, <1>8 DEF DedupInv

LEMMA TypeMetaDedup ==
  ASSUME HubInv, AckInv, DedupInv, NEW w \in Workers, TypeMeta(w)
  PROVE  DedupInv'
<1> DEFINE r == req[w]
<1>1. /\ IsRequest(r) /\ r.pc = "typeMeta" /\ r.op = "type" /\ TypeRequestSound(r, tver)
      /\ Own(r, contended, pkg, ver, typ, tver)
  BY InFlight, OwnOfBusy DEF TypeMeta, PackageRequestSound, TypeRequestSound
<1>2. /\ typ' = [typ EXCEPT ![r.key] = r.version] /\ UNCHANGED <<tver, thash, contended, died, acked>>
      /\ \E x : req' = [req EXCEPT ![w] = x]
  BY DEF TypeMeta, Goto, aux
<1>3. /\ r.key \in TypeKeys /\ r.latest \in Nat /\ r.version = r.latest + 1
      /\ r.key \notin contended => typ[r.key] = r.latest
  BY <1>1 DEF TypeRequestSound, Own, TypeOwn
<1>4. typ'[r.key] = r.version /\ \A k \in TypeKeys : k # r.key => typ'[k] = typ[k]
  BY <1>2, <1>3 DEF HubInv, StoreInv
<1>5. \A v \in Workers : At(v, "typeMeta") /\ req[v].key # r.key => At(v, "typeMeta")' /\ req'[v].key = req[v].key
  BY <1>2 DEF HubInv, At
<1>6. ASSUME NEW t \in TypeKeys \ (contended \cup died), NEW s \in Sources, thash[t][s] # 0
      PROVE  /\ tver[t][thash[t][s]].source = s
             /\ \/ thash[t][s] <= typ'[t]
                \/ thash[t][s] = typ'[t] + 1 /\ \E v \in Workers : At(v, "typeMeta")' /\ req'[v].key = t
  <2>1. /\ tver[t][thash[t][s]].source = s /\ thash[t][s] \in Nat
        /\ \/ thash[t][s] <= typ[t]
           \/ thash[t][s] = typ[t] + 1 /\ \E v \in Workers : At(v, "typeMeta") /\ req[v].key = t
    BY <1>6 DEF DedupInv, HashInv, HubInv, StoreInv
  <2>2. CASE t = r.key
    BY <1>3, <1>4, <2>1, <2>2
  <2>3. CASE t # r.key
    BY <1>4, <1>5, <2>1, <2>3
  <2> QED BY <2>2, <2>3
<1>7. HashInv'
  BY <1>2, <1>6 DEF HashInv
<1>8. ASSUME NEW a \in acked, ~a.fresh, a.key \notin contended \cup died
      PROVE  /\ a.key \in TypeKeys /\ a.version \in 1..typ'[a.key]
             /\ tver[a.key][a.version].source = a.body.source
  <2>1. /\ a.key \in TypeKeys /\ a.version \in 1..typ[a.key]
        /\ tver[a.key][a.version].source = a.body.source
    BY <1>8 DEF DedupInv
  <2> HIDE DEF r
  <2>2. a.version \in 1..typ'[a.key]
    BY <1>3, <1>4, <1>8, <2>1
  <2> QED BY <2>1, <2>2
<1>9. EarlyInv'
  <2>1. \A val : Moved([[r EXCEPT !.todo = val] EXCEPT !.pc = "index"], r, "index")
    BY <1>1, Edits DEF Pcs
  <2>2. PICK x : req' = [req EXCEPT ![w] = x] /\ Moved(x, r, "index")
    BY <2>1 DEF TypeMeta, Goto
  <2> QED BY <2>2, EarlyKept DEF DedupInv, Early, Moved, Changed
<1> QED BY <1>2, <1>7, <1>8, <1>9 DEF DedupInv

(* Any other step goes on to a pc past the put of a type's metadata, or    *)
(* answers, and leaves types alone.                                        *)
LeavesTypes(w) ==
  /\ UNCHANGED <<typ, tver, thash, contended, died>> /\ ~At(w, "typeMeta")
  /\ \A a \in acked' \ acked : a.fresh

LatePcs == {"prior", "put", "meta", "index", "starPut", "starMeta", "forkCheck",
            "upstream", "typeExtends", "links", "done"}

LEMMA LateDedup ==
  ASSUME HubInv, DedupInv, NEW w \in Workers, LeavesTypes(w),
         NEW x, req' = [req EXCEPT ![w] = x], x.pc \in LatePcs
  PROVE  DedupInv'
BY QuietDedup DEF LeavesTypes, Early, LatePcs

LEMMA GotoDedup ==
  ASSUME HubInv, DedupInv, NEW w \in Workers, LeavesTypes(w),
         NEW r, IsRequest(r), NEW pc \in LatePcs, Goto(w, r, pc)
  PROVE  DedupInv'
<1>1. [r EXCEPT !.pc = pc].pc = pc
  BY DEF IsRequest
<1> QED BY <1>1, LateDedup DEF Goto

LEMMA ReplyDedup ==
  ASSUME HubInv, DedupInv, NEW w \in Workers, LeavesTypes(w), NEW r, NEW status, Reply(w, r, status)
  PROVE  DedupInv'
<1> DEFINE x == [Incoming(r.op, r.user, r.key) EXCEPT !.status = status, !.version = r.version]
<1>1. x.pc = "done" /\ req' = [req EXCEPT ![w] = x]
  BY DEF Reply, Incoming
<1> HIDE DEF x
<1> QED BY <1>1, LateDedup DEF LatePcs

LEMMA AckIsFresh ==
  ASSUME NEW r, NEW version, Ack(r, version, TRUE)
  PROVE  \A a \in acked' \ acked : a.fresh
<1> DEFINE b == [key |-> r.key, version |-> version, body |-> r.body, fresh |-> TRUE]
<1>1. acked' = acked \cup {b}
  BY DEF Ack
<1>2. b.fresh
  OBVIOUS
<1> HIDE DEF b
<1> QED BY <1>1, <1>2

LEMMA PackageStepDedup ==
  ASSUME HubInv, DedupInv, NEW w \in Workers,
         \/ PublishPrior(w) \/ PutVersion(w) \/ PutMeta(w) \/ StarKey(w) \/ StarPut(w) \/ StarMeta(w)
         \/ DownloadPut(w) \/ ForkRead(w) \/ ForkCheck(w) \/ ForkBump(w)
  PROVE  DedupInv'
<1> DEFINE r == req[w]
<1>1. /\ IsRequest(r) /\ LeavesTypes(w)
  <2>1. IsRequest(r) /\ ~At(w, "typeMeta")
    BY InFlight DEF PublishPrior, PutVersion, PutMeta, StarKey, StarPut, StarMeta, DownloadPut,
       ForkRead, ForkCheck, ForkBump, At
  <2>2. UNCHANGED <<typ, tver, thash, contended, died>>
    BY DEF PublishPrior, PutVersion, PutMeta, StarKey, StarPut, StarMeta, DownloadPut,
       ForkRead, ForkCheck, ForkBump, store, aux
  <2>3. \A a \in acked' \ acked : a.fresh
    BY DEF PublishPrior, PutVersion, PutMeta, StarKey, StarPut, StarMeta, DownloadPut,
       ForkRead, ForkCheck, ForkBump, Ack, aux
  <2> QED BY <2>1, <2>2, <2>3 DEF LeavesTypes
<1>2. \A val : /\ IsRequest([r EXCEPT !.prior = val]) /\ IsRequest([r EXCEPT !.version = val])
               /\ IsRequest([r EXCEPT !.todo = val]) /\ IsRequest([r EXCEPT !.body = val])
  BY <1>1 DEF IsRequest
<1>3. \/ \E x, pc : pc \in LatePcs /\ IsRequest(x) /\ Goto(w, x, pc)
      \/ \E status : Reply(w, r, status)
  <2>1. CASE PublishPrior(w) \/ PutVersion(w) \/ PutMeta(w) \/ ForkRead(w)
    BY <1>2, <2>1 DEF PublishPrior, PutVersion, PutMeta, ForkRead, LatePcs
  <2>2. CASE StarKey(w) \/ StarPut(w) \/ StarMeta(w) \/ DownloadPut(w) \/ ForkCheck(w) \/ ForkBump(w)
    BY <1>1, <2>2 DEF StarKey, StarPut, StarMeta, DownloadPut, ForkCheck, ForkBump, LatePcs
  <2> QED BY <2>1, <2>2
<1> QED BY <1>1, <1>3, GotoDedup, ReplyDedup

LEMMA IndexStepDedup ==
  ASSUME HubInv, DedupInv, NEW w \in Workers, IndexRead(w) \/ IndexWrite(w) \/ IndexDone(w) \/ TypeExtends(w)
  PROVE  DedupInv'
<1> DEFINE r == req[w]
<1>1. IsRequest(r) /\ r.pc \in {"index", "links", "typeExtends"} /\ LeavesTypes(w)
  <2>1. IsRequest(r) /\ r.pc \in {"index", "links", "typeExtends"} /\ ~At(w, "typeMeta")
    BY InFlight DEF IndexRead, IndexWrite, IndexDone, TypeExtends, At
  <2>2. UNCHANGED <<typ, tver, thash, contended, died>>
    BY DEF IndexRead, IndexWrite, IndexDone, TypeExtends, store, aux
  <2>3. \A a \in acked' \ acked : a.fresh
    <3>1. acked' = acked \/ Ack(r, r.version, TRUE)
      BY DEF IndexRead, IndexWrite, IndexDone, TypeExtends, aux
    <3> QED BY <3>1, AckIsFresh
  <2> QED BY <2>1, <2>2, <2>3 DEF LeavesTypes
<1>2. CASE IndexRead(w)
  <2>1. PICK x : req' = [req EXCEPT ![w] = x] /\ Moved(x, r, r.pc)
    BY <1>1, <1>2, ListEdits DEF IndexRead
  <2> QED BY <1>1, <2>1, LateDedup DEF Moved, Changed, LatePcs
<1>3. CASE IndexWrite(w)
  <2> DEFINE x == [r EXCEPT !.todo = Tail(r.todo), !.list = None]
  <2>1. req' = [req EXCEPT ![w] = x]
    BY <1>3 DEF IndexWrite, HubInv
  <2>2. Moved(x, r, r.pc)
    BY <1>1, ListEdits
  <2> HIDE DEF x, r
  <2> QED BY <1>1, <2>1, <2>2, LateDedup DEF Moved, Changed, LatePcs
<1>4. CASE IndexDone(w)
  BY <1>1, <1>4, GotoDedup, ReplyDedup DEF IndexDone, LatePcs
<1>5. CASE TypeExtends(w)
  <2>1. \A val : IsRequest([r EXCEPT !.todo = val])
    BY <1>1 DEF IsRequest
  <2> QED BY <1>1, <1>5, <2>1, GotoDedup DEF TypeExtends, LatePcs
<1> QED BY <1>2, <1>3, <1>4, <1>5

LEMMA TypePriorDedup ==
  ASSUME HubInv, DedupInv, NEW w \in Workers, TypePrior(w)
  PROVE  DedupInv'
<1> DEFINE r == req[w]
           val == TypeArtifact(r)
           x == [[r EXCEPT !.prior = val] EXCEPT !.pc = "typePut"]
<1>1. /\ r.pc = "typePrior" /\ r.op = "type" /\ TypeRequestSound(r, tver)
      /\ req' = [req EXCEPT ![w] = x] /\ UNCHANGED <<typ, tver, thash, contended, died, acked>>
  BY InFlight DEF TypePrior, PackageRequestSound, TypeRequestSound, Goto, store, aux
<1>2. val \in TypeBodies \cup {None}
  <2>1. r.key \in TypeKeys /\ (r.latest # 0 => r.latest \in Versions)
    BY <1>1, HubAssumption DEF TypeRequestSound, Versions
  <2> QED BY <2>1 DEF HubInv, StoreInv, TypeArtifact
<1>3. r \in Request
  BY <1>1 DEF DedupInv, EarlyInv, Early, TypePrior, At
<1> HIDE DEF val
<1>4. x \in Request
  BY <1>2, <1>3 DEF Request, Pcs
<1> HIDE DEF x
<1>5. ~At(w, "typeMeta")
  BY <1>1 DEF At
<1> QED BY <1>1, <1>4, <1>5, QuietDedup

(* A request that arrives or leaves.                                       *)
LEMMA ArrivalDedup ==
  ASSUME HubInv, DedupInv, NEW w \in Workers, Arrival(w)
  PROVE  DedupInv'
<1>1. ASSUME NEW x, Arrive(w, x), Early(x) => x \in Request PROVE DedupInv'
  <2>1. /\ req[w] = None /\ req' = [req EXCEPT ![w] = x] /\ contended \subseteq contended'
        /\ UNCHANGED <<typ, tver, thash, acked, died>> /\ ~At(w, "typeMeta")
    BY <1>1 DEF Arrive, store, At
  <2> QED BY <1>1, <2>1, QuietDedup
<1>2. \A op, user, key : Incoming(op, user, key).pc = "done" /\ Incoming(op, user, key).op = op
  BY DEF Incoming
<1>3. ASSUME NEW t \in TypeKeys, NEW body \in TypeBodies, NEW base, PublishType(w, t, body, base) PROVE DedupInv'
  <2> DEFINE r == Incoming("type", t[1], t)
             x == [r EXCEPT !.pc = "hash", !.body = body, !.latest = typ[t]]
             y == [r EXCEPT !.status = "stale_base"]
             z == [r EXCEPT !.status = "invalid"]
  <2>1. Arrive(w, x) \/ Arrive(w, y) \/ Arrive(w, z)
    BY <1>3 DEF PublishType
  <2>2. ~Early(y) /\ ~Early(z)
    BY DEF Incoming, Early
  <2>3. r \in Request
    BY HubAssumption DEF Incoming, Request, Ops, Pcs, Statuses, Keys
  <2>4. typ[t] \in Nat
    BY DEF HubInv, StoreInv
  <2>5. x \in Request
    <3> HIDE DEF r
    <3> QED BY <2>3, <2>4 DEF Request, Pcs
  <2> HIDE DEF x, y, z
  <2> QED BY <1>1, <2>1, <2>2, <2>5
<1>4. ASSUME NEW op \in Ops \ {"type"}, NEW r, IsRequest(r), r.op = op, NEW x, Arrive(w, x),
             \/ \E pc \in Pcs : x = [r EXCEPT !.pc = pc]
             \/ \E status : x = [r EXCEPT !.status = status]
             \/ \E body, seen : x = [r EXCEPT !.pc = "prior", !.body = body, !.seen = seen]
      PROVE  DedupInv'
  <2>1. x.op = op
    BY <1>4 DEF IsRequest
  <2> QED BY <1>1, <1>4, <2>1 DEF Early
<1>5. ASSUME NEW p, NEW body, NEW base, Publish(w, p, body, base) PROVE DedupInv'
  <2> DEFINE r == Incoming("publish", p[1], p)
  <2>1. IsRequest(r) /\ r.op = "publish"
    BY DEF Incoming, IsRequest, Ops, Pcs
  <2>2. PICK x : /\ Arrive(w, x)
                 /\ \/ x = [r EXCEPT !.pc = "prior", !.body = body, !.seen = pkg[p]]
                    \/ x = [r EXCEPT !.status = "stale_base"]
    BY <1>5 DEF Publish
  <2> HIDE DEF r
  <2> QED BY <1>4, <2>1, <2>2 DEF Ops
<1>6. ASSUME NEW op \in Ops \ {"type"}, NEW r, IsRequest(r), r.op = op, NEW pc \in Pcs, NEW p,
             Arrive(w, IF pkg[p] = None THEN [r EXCEPT !.status = "not_found"] ELSE [r EXCEPT !.pc = pc])
      PROVE  DedupInv'
  <2>1. PICK x : Arrive(w, x) /\ (x = [r EXCEPT !.status = "not_found"] \/ x = [r EXCEPT !.pc = pc])
    BY <1>6
  <2> QED BY <1>4, <1>6, <2>1
<1>7. ASSUME NEW op \in {"star", "unstar"}, NEW u, NEW p, Star(w, op, u, p) PROVE DedupInv'
  <2> DEFINE r == [Incoming(op, u, p) EXCEPT !.seen = pkg[p]]
  <2>1. IsRequest(r) /\ r.op = op /\ op \in Ops \ {"type"} /\ "starKey" \in Pcs
    BY DEF Incoming, IsRequest, Ops, Pcs
  <2>2. Arrive(w, IF pkg[p] = None THEN [r EXCEPT !.status = "not_found"] ELSE [r EXCEPT !.pc = "starKey"])
    BY <1>7 DEF Star
  <2> HIDE DEF r
  <2> QED BY <1>6, <2>1, <2>2
<1>8. ASSUME NEW p, Download(w, p) PROVE DedupInv'
  <2> DEFINE r == [Incoming("download", p[1], p) EXCEPT !.seen = pkg[p]]
  <2>1. IsRequest(r) /\ r.op = "download" /\ "download" \in Ops \ {"type"} /\ "bump" \in Pcs
    BY DEF Incoming, IsRequest, Ops, Pcs
  <2>2. Arrive(w, IF pkg[p] = None THEN [r EXCEPT !.status = "not_found"] ELSE [r EXCEPT !.pc = "bump"])
    BY <1>8 DEF Download
  <2> HIDE DEF r
  <2> QED BY <1>6, <2>1, <2>2
<1>9. ASSUME NEW u, NEW p, NEW slug, Fork(w, u, p, slug) PROVE DedupInv'
  <2> DEFINE r == [Incoming("fork", u, <<u, slug>>) EXCEPT !.upstream = p, !.seen = pkg[p]]
  <2>1. IsRequest(r) /\ r.op = "fork" /\ "fork" \in Ops \ {"type"} /\ "forkRead" \in Pcs
    BY DEF Incoming, IsRequest, Ops, Pcs
  <2>2. Arrive(w, IF pkg[p] = None THEN [r EXCEPT !.status = "not_found"] ELSE [r EXCEPT !.pc = "forkRead"])
    BY <1>9 DEF Fork
  <2> HIDE DEF r
  <2> QED BY <1>6, <2>1, <2>2
<1> QED BY <1>3, <1>5, <1>7, <1>8, <1>9 DEF Arrival

LEMMA EndDedup ==
  ASSUME HubInv, DedupInv, NEW w \in Workers, Die(w) \/ Deliver(w)
  PROVE  DedupInv'
<1>1. req' = [req EXCEPT ![w] = None] /\ UNCHANGED <<typ, tver, thash, acked, contended>>
  BY DEF Die, Deliver, store, aux
<1>2. died \subseteq died' /\ (At(w, "typeMeta") => req[w].key \in died')
  BY DEF Die, Deliver, aux, At, Touches
<1> QED BY <1>1, <1>2, QuietDedup

LEMMA DedupInvHolds == Spec => []DedupInv
<1>1. Init => DedupInv
  BY DEF Init, DedupInv, EarlyInv, HashInv
<1>2. HubInv /\ AckInv /\ DedupInv /\ [Next]_vars => DedupInv'
  <2> SUFFICES ASSUME HubInv, AckInv, DedupInv, [Next]_vars PROVE DedupInv'
    OBVIOUS
  <2>1. CASE UNCHANGED vars
    BY <2>1 DEF vars, DedupInv, EarlyInv, HashInv, At
  <2>2. CASE Next
    BY <2>2, ArrivalDedup, PackageStepDedup, IndexStepDedup, TypeHashDedup, TypePriorDedup,
       TypePutDedup, TypePutHashDedup, TypeMetaDedup, EndDedup
    DEF Next, Step
  <2> QED BY <2>1, <2>2
<1> QED BY <1>1, <1>2, HubInvHolds, AckInvHolds, PTL DEF Spec

(* A publisher who is told that its type is unchanged and given version N  *)
(* pins a version with the source it sent, as long as no two requests work *)
(* on the type at once and none of its requests died: the stored hash of a *)
(* source never names a version that was rewritten.                        *)
THEOREM DedupsHaveTheSource == Spec => []DedupIsSameSource
<1>1. DedupInv => DedupIsSameSource
  BY DEF DedupInv, DedupIsSameSource
<1> QED BY <1>1, DedupInvHolds, PTL

-------------------------------------------------------------------------------
(* The counters.                                                           *)
(*                                                                         *)
(* Stars and forks are counted in the metadata after the key or the        *)
(* document they count was put.  On an uncontended name the request that   *)
(* put it is the only one that can write the metadata until it has.        *)

Starrers(p) == {s \in stars : s[1] = p}
Forkers(p) == {q \in Packages : pkg[q] # None /\ pkg[q].forkedFrom # None /\ pkg[q].forkedFrom[1] = p}

(* A request that has put a star or taken it off, and what it will write.  *)
CountsStar(r, p) == r # None /\ r.pc = "starMeta" /\ r.key = p
StarsAfter(r) == IF r.op = "star" THEN r.seen.stars + 1 ELSE r.seen.stars - 1

(* A request about to do so has seen whether the star was there.           *)
AboutToStar(r, p) == r # None /\ r.pc = "starPut" /\ r.key = p

(* A fork that was put and not yet counted.                                *)
CountsFork(r, p) == r # None /\ r.op = "fork" /\ r.pc \in {"index", "upstream"} /\ r.upstream = p

StarsAgree(p) ==
  /\ pkg[p] = None => Starrers(p) = {}
  /\ pkg[p] # None /\ (\A w \in Workers : ~CountsStar(req[w], p)) =>
       pkg[p].stars = Cardinality(Starrers(p))
  /\ \A w \in Workers :
       /\ CountsStar(req[w], p) => StarsAfter(req[w]) = Cardinality(Starrers(p))
       /\ AboutToStar(req[w], p) => (<<p, req[w].user>> \in stars <=> req[w].op = "unstar")

ForksAgree(p) ==
  /\ pkg[p] = None => Forkers(p) = {}
  /\ pkg[p] # None =>
       Cardinality(Forkers(p)) = pkg[p].forks + (IF \E w \in Workers : CountsFork(req[w], p) THEN 1 ELSE 0)

CountInv ==
  /\ IsFiniteSet(stars) /\ IsFiniteSet({q \in Packages : pkg[q] # None})
  /\ \A p \in Packages \ (contended \cup died) : StarsAgree(p)
  /\ contended \cup died = {} => \A p \in Packages : ForksAgree(p)

(* What all steps of w have in common.                                     *)
StepOf(w) ==
  /\ DOMAIN req' = Workers /\ \A v \in Workers \ {w} : req'[v] = req[v]
  /\ contended \subseteq contended' /\ died \subseteq died'

(* A name that a busy request touches is not counted by another, unless    *)
(* it is contended.                                                        *)
LEMMA CountsAlone ==
  ASSUME HubInv, AckInv, NEW w \in Workers, Busy(w), NEW k \in Packages, k \in Touches(req[w]), k \notin contended,
         NEW v \in Workers \ {w}
  PROVE  ~CountsStar(req[v], k) /\ ~AboutToStar(req[v], k) /\ ~CountsFork(req[v], k)
<1>1. k # None
  BY HubAssumption DEF Keys
<1>2. CountsStar(req[v], k) \/ AboutToStar(req[v], k) \/ CountsFork(req[v], k) => Busy(v) /\ k \in Touches(req[v])
  BY <1>1 DEF CountsStar, AboutToStar, CountsFork, Busy, Touches
<1>3. ~(Busy(v) /\ k \in Touches(req[v]))
  BY DEF AckInv, Alone
<1> QED BY <1>2, <1>3

(* Stars: a step that puts no star, and metadata at most of a name k, with *)
(* the stars it has.                                                       *)
LEMMA StarsKept ==
  ASSUME CountInv, NEW w \in Workers, StepOf(w), stars' = stars,
         \A p \in Packages \ (contended' \cup died') :
           /\ ~CountsStar(req'[w], p)
           /\ AboutToStar(req'[w], p) => (<<p, req'[w].user>> \in stars <=> req'[w].op = "unstar")
           /\ \/ pkg'[p] = pkg[p] /\ ~CountsStar(req[w], p)
              \/ pkg'[p] # None /\ pkg'[p].stars = Cardinality(Starrers(p))
  PROVE  \A p \in Packages \ (contended' \cup died') : StarsAgree(p)'
<1> SUFFICES ASSUME NEW p \in Packages \ (contended' \cup died') PROVE StarsAgree(p)'
  OBVIOUS
<1>1. StarsAgree(p) /\ Starrers(p)' = Starrers(p)
  BY DEF CountInv, Starrers, StepOf
<1>2. \A v \in Workers \ {w} : req'[v] = req[v]
  BY DEF StepOf
<1>3. pkg'[p] = None => Starrers(p) = {}
  BY <1>1 DEF StarsAgree
<1>4. pkg'[p] # None /\ (\A v \in Workers : ~CountsStar(req'[v], p)) => pkg'[p].stars = Cardinality(Starrers(p))
  BY <1>1, <1>2 DEF StarsAgree
<1>5. \A v \in Workers : CountsStar(req'[v], p) => StarsAfter(req'[v]) = Cardinality(Starrers(p))
  BY <1>1, <1>2 DEF StarsAgree
<1>6. \A v \in Workers : AboutToStar(req'[v], p) => (<<p, req'[v].user>> \in stars <=> req'[v].op = "unstar")
  BY <1>1, <1>2 DEF StarsAgree
<1> QED BY <1>1, <1>3, <1>4, <1>5, <1>6 DEF StarsAgree, StarsAfter, CountsStar, AboutToStar

(* Forks: a step that puts metadata at most of a name k, with the lineage  *)
(* it has, and adds what it stops counting.                                *)
ForkBit(r, p) == IF CountsFork(r, p) THEN 1 ELSE 0

LEMMA ForksKept ==
  ASSUME CountInv, NEW w \in Workers, StepOf(w), contended' \cup died' = {},
         \A p \in Packages :
           \/ pkg'[p] = pkg[p] /\ (CountsFork(req'[w], p) <=> CountsFork(req[w], p))
           \/ /\ pkg'[p] # None /\ \A v \in Workers \ {w} : ~CountsFork(req[v], p)
              /\ \/ /\ pkg[p] = None /\ pkg'[p].forkedFrom = None
                    /\ pkg'[p].forks = 0 /\ ~CountsFork(req'[w], p)
                 \/ /\ pkg[p] # None /\ pkg'[p].forkedFrom = pkg[p].forkedFrom
                    /\ pkg'[p].forks + ForkBit(req'[w], p) = pkg[p].forks + ForkBit(req[w], p)
  PROVE  \A p \in Packages : ForksAgree(p)'
<1> SUFFICES ASSUME NEW p \in Packages PROVE ForksAgree(p)'
  OBVIOUS
<1>1. ForksAgree(p)
  BY DEF CountInv, StepOf
<1>2. Forkers(p)' = Forkers(p)
  <2>1. \A q \in Packages : (pkg'[q] # None /\ pkg'[q].forkedFrom # None /\ pkg'[q].forkedFrom[1] = p)
                              <=> (pkg[q] # None /\ pkg[q].forkedFrom # None /\ pkg[q].forkedFrom[1] = p)
    OBVIOUS
  <2> QED BY <2>1 DEF Forkers
<1>3. \A v \in Workers \ {w} : req'[v] = req[v]
  BY DEF StepOf
<1>4. CASE pkg'[p] = pkg[p] /\ (CountsFork(req'[w], p) <=> CountsFork(req[w], p))
  <2>1. (\E v \in Workers : CountsFork(req'[v], p)) <=> (\E v \in Workers : CountsFork(req[v], p))
    BY <1>3, <1>4
  <2> QED BY <1>1, <1>2, <1>4, <2>1 DEF ForksAgree, CountsFork
<1>5. CASE pkg'[p] # None /\ \A v \in Workers \ {w} : ~CountsFork(req[v], p)
  <2>1. (\E v \in Workers : CountsFork(req'[v], p)) <=> CountsFork(req'[w], p)
    BY <1>3, <1>5
  <2>2. (\E v \in Workers : CountsFork(req[v], p)) <=> CountsFork(req[w], p)
    BY <1>5
  <2>3. pkg[p] = None => Cardinality(Forkers(p)) = 0
    BY <1>1, FS_EmptySet DEF ForksAgree
  <2>4. pkg[p] # None => Cardinality(Forkers(p)) = pkg[p].forks + ForkBit(req[w], p)
    BY <1>1, <2>2 DEF ForksAgree, ForkBit
  <2>5. Cardinality(Forkers(p)) = pkg'[p].forks + ForkBit(req'[w], p)
    <3>1. CASE pkg[p] = None /\ pkg'[p] # pkg[p]
      BY <1>5, <2>3, <3>1 DEF ForkBit
    <3>2. CASE pkg[p] # None
      BY <1>5, <2>4, <3>2 DEF ForkBit
    <3> QED BY <1>5, <3>1, <3>2
  <2> QED BY <1>2, <1>5, <2>1, <2>5 DEF ForksAgree, CountsFork, ForkBit
<1> QED BY <1>4, <1>5

(* The documents stay finitely many.                                       *)
LEMMA FiniteKept ==
  ASSUME CountInv, NEW k, \A q \in Packages \ {k} : pkg'[q] = pkg[q]
  PROVE  IsFiniteSet({q \in Packages : pkg'[q] # None})
<1> DEFINE S == {q \in Packages : pkg[q] # None} \cup {k}
           T == {q \in Packages : pkg'[q] # None}
<1>1. IsFiniteSet(S)
  BY FS_AddElement DEF CountInv
<1>2. T \in SUBSET S
  OBVIOUS
<1> HIDE DEF S, T
<1>3. IsFiniteSet(T)
  BY <1>1, <1>2, FS_Subset
<1> QED BY <1>3 DEF T

(* Steps that put no document and no star.                                 *)
LEMMA QuietCount ==
  ASSUME HubInv, CountInv, NEW w \in Workers, StepOf(w), UNCHANGED <<pkg, stars>>,
         \A p \in Packages \ (contended' \cup died') :
           /\ ~CountsStar(req'[w], p) /\ ~CountsStar(req[w], p)
           /\ AboutToStar(req'[w], p) => (<<p, req'[w].user>> \in stars <=> req'[w].op = "unstar"),
         contended' \cup died' = {} => \A p \in Packages : CountsFork(req'[w], p) <=> CountsFork(req[w], p)
  PROVE  CountInv'
<1>1. \A p \in Packages \ (contended' \cup died') : StarsAgree(p)'
  BY StarsKept
<1>2. contended' \cup died' = {} => \A p \in Packages : ForksAgree(p)'
  BY ForksKept
<1>3. IsFiniteSet(stars') /\ IsFiniteSet({q \in Packages : pkg'[q] # None})
  BY DEF CountInv
<1> QED BY <1>1, <1>2, <1>3 DEF CountInv

(* ... of a request that neither counts before nor after.                  *)
NoCount == {"prior", "put", "meta", "bump", "starKey", "forkRead", "forkCheck", "done", "hash",
            "typePrior", "typePut", "typeHash", "typeMeta", "typeExtends", "links"}

CountsNothing(r) == r = None \/ r.pc \in NoCount \/ (r.pc = "index" /\ r.op # "fork")

LEMMA NothingCounted ==
  ASSUME HubInv, CountInv, NEW w \in Workers, StepOf(w), UNCHANGED <<pkg, stars>>, CountsNothing(req[w]), CountsNothing(req'[w])
  PROVE  CountInv'
<1>1. \A r, p : CountsNothing(r) => ~CountsStar(r, p) /\ ~AboutToStar(r, p) /\ ~CountsFork(r, p)
  BY DEF CountsNothing, NoCount, CountsStar, AboutToStar, CountsFork
<1> QED BY <1>1, QuietCount

LEMMA StepIsOf ==
  ASSUME HubInv, NEW w \in Workers, Arrival(w) \/ Step(w) \/ Die(w) \/ Deliver(w)
  PROVE  StepOf(w)
<1>1. CASE Arrival(w)
  <2>1. PICK x : Arrive(w, x)
    BY <1>1 DEF Arrival, Publish, PublishType, Download, Star, Fork
  <2> QED BY <1>1, <2>1, OthersKeep DEF Arrive, StepOf
<1>2. CASE Step(w)
  <2>1. UNCHANGED <<contended, died>>
    BY <1>2 DEF Step, PublishPrior, PutVersion, PutMeta, IndexRead, IndexWrite, IndexDone, StarKey, StarPut,
       StarMeta, DownloadPut, ForkRead, ForkCheck, ForkBump, TypeHash, TypePrior, TypePut, TypePutHash,
       TypeMeta, TypeExtends, aux
  <2> QED BY <1>2, <2>1, OthersKeep DEF StepOf
<1>3. CASE Die(w) \/ Deliver(w)
  <2>1. contended' = contended /\ died \subseteq died'
    BY <1>3 DEF Die, Deliver, aux
  <2> QED BY <1>3, <2>1, OthersKeep DEF StepOf
<1> QED BY <1>1, <1>2, <1>3

LEMMA ArrivalCount ==
  ASSUME HubInv, CountInv, NEW w \in Workers, Arrival(w)
  PROVE  CountInv'
<1>1. ASSUME NEW x, Arrive(w, x), x.pc \in NoCount PROVE CountInv'
  <2>1. req[w] = None /\ req'[w] = x /\ UNCHANGED <<pkg, stars>>
    BY <1>1 DEF Arrive, store, HubInv
  <2> QED BY <1>1, <2>1, StepIsOf, NothingCounted DEF CountsNothing
<1>2. ASSUME NEW op, NEW user, NEW key
      PROVE  /\ DOMAIN Incoming(op, user, key) =
                  {"op", "pc", "user", "key", "upstream", "body", "seen", "latest", "prior", "todo", "list",
                   "status", "version"}
             /\ Incoming(op, user, key).pc = "done"
  BY DEF Incoming
<1>3. ASSUME NEW p \in Packages, NEW body \in Recipes, NEW base, Publish(w, p, body, base) PROVE CountInv'
  <2>1. PICK r : r = Incoming("publish", p[1], p)
    OBVIOUS
  <2>2. /\ [r EXCEPT !.pc = "prior", !.body = body, !.seen = pkg[p]].pc = "prior"
        /\ [r EXCEPT !.status = "stale_base"].pc = "done"
    BY <1>2, <2>1
  <2> QED BY <1>1, <1>3, <2>1, <2>2 DEF Publish, NoCount
<1>4. ASSUME NEW t \in TypeKeys, NEW body \in TypeBodies, NEW base, PublishType(w, t, body, base) PROVE CountInv'
  <2>1. PICK r : r = Incoming("type", t[1], t)
    OBVIOUS
  <2>2. /\ [r EXCEPT !.pc = "hash", !.body = body, !.latest = typ[t]].pc = "hash"
        /\ [r EXCEPT !.status = "stale_base"].pc = "done" /\ [r EXCEPT !.status = "invalid"].pc = "done"
    BY <1>2, <2>1
  <2> QED BY <1>1, <1>4, <2>1, <2>2 DEF PublishType, NoCount
<1>5. ASSUME NEW op, NEW u, NEW p \in Packages, Star(w, op, u, p) PROVE CountInv'
  <2>1. PICK r : r = [Incoming(op, u, p) EXCEPT !.seen = pkg[p]]
    OBVIOUS
  <2>2. [r EXCEPT !.status = "not_found"].pc = "done" /\ [r EXCEPT !.pc = "starKey"].pc = "starKey"
    BY <1>2, <2>1
  <2> QED BY <1>1, <1>5, <2>1, <2>2 DEF Star, NoCount
<1>6. ASSUME NEW p \in Packages, Download(w, p) PROVE CountInv'
  <2>1. PICK r : r = [Incoming("download", p[1], p) EXCEPT !.seen = pkg[p]]
    OBVIOUS
  <2>2. [r EXCEPT !.status = "not_found"].pc = "done" /\ [r EXCEPT !.pc = "bump"].pc = "bump"
    BY <1>2, <2>1
  <2> QED BY <1>1, <1>6, <2>1, <2>2 DEF Download, NoCount
<1>7. ASSUME NEW u, NEW p \in Packages, NEW slug, Fork(w, u, p, slug) PROVE CountInv'
  <2>1. PICK r : r = [Incoming("fork", u, <<u, slug>>) EXCEPT !.upstream = p, !.seen = pkg[p]]
    OBVIOUS
  <2>2. [r EXCEPT !.status = "not_found"].pc = "done" /\ [r EXCEPT !.pc = "forkRead"].pc = "forkRead"
    BY <1>2, <2>1
  <2> QED BY <1>1, <1>7, <2>1, <2>2 DEF Fork, NoCount
<1> QED BY <1>3, <1>4, <1>5, <1>6, <1>7 DEF Arrival

(* The pc and the op that Goto and Reply leave.                            *)
LEMMA AfterGoto ==
  ASSUME HubInv, NEW w \in Workers, NEW q, IsRequest(q), NEW pc, Goto(w, q, pc)
  PROVE  req'[w].pc = pc /\ req'[w].op = q.op /\ req'[w].key = q.key /\ req'[w].user = q.user
         /\ req'[w].upstream = q.upstream /\ req'[w].seen = q.seen
<1>1. PICK x : x = [q EXCEPT !.pc = pc]
  OBVIOUS
<1>2. x.pc = pc /\ x.op = q.op /\ x.key = q.key /\ x.user = q.user /\ x.upstream = q.upstream /\ x.seen = q.seen
  BY <1>1 DEF IsRequest
<1>3. req'[w] = x
  BY <1>1 DEF Goto, HubInv
<1> QED BY <1>2, <1>3

LEMMA AfterReply ==
  ASSUME HubInv, NEW w \in Workers, NEW q, NEW status, Reply(w, q, status)
  PROVE  req'[w].pc = "done" /\ req'[w].op = q.op /\ req'[w].key = q.key
         /\ req'[w].status = status /\ req'[w].version = q.version
<1>1. PICK x : x = [Incoming(q.op, q.user, q.key) EXCEPT !.status = status, !.version = q.version]
  OBVIOUS
<1>2. x.pc = "done" /\ x.op = q.op /\ x.key = q.key /\ x.status = status /\ x.version = q.version
  BY <1>1 DEF Incoming
<1>3. req'[w] = x
  BY <1>1 DEF Reply, HubInv
<1> QED BY <1>2, <1>3

LEMMA PlainStepCount ==
  ASSUME HubInv, CountInv, NEW w \in Workers,
         \/ TypeHash(w) \/ TypePrior(w) \/ TypePut(w) \/ TypePutHash(w) \/ TypeMeta(w) \/ TypeExtends(w)
         \/ PublishPrior(w) \/ PutVersion(w) \/ ForkRead(w) \/ ForkCheck(w)
  PROVE  CountInv'
<1> DEFINE r == req[w]
<1>1. /\ IsRequest(r) /\ r.pc \in NoCount /\ UNCHANGED <<pkg, stars>> /\ StepOf(w)
      /\ TypeMeta(w) => r.op # "fork"
  <2>1. IsRequest(r) /\ r.pc \in NoCount
    BY InFlight DEF TypeHash, TypePrior, TypePut, TypePutHash, TypeMeta, TypeExtends, PublishPrior,
       PutVersion, ForkRead, ForkCheck, At, NoCount
  <2>2. UNCHANGED <<pkg, stars>>
    BY DEF TypeHash, TypePrior, TypePut, TypePutHash, TypeMeta, TypeExtends, PublishPrior,
       PutVersion, ForkRead, ForkCheck, store
  <2>3. TypeMeta(w) => r.op # "fork"
    BY InFlight DEF TypeMeta, PackageRequestSound
  <2> QED BY <2>1, <2>2, <2>3, StepIsOf DEF Step
<1>2. \A val : /\ IsRequest([r EXCEPT !.prior = val]) /\ IsRequest([r EXCEPT !.version = val])
               /\ IsRequest([r EXCEPT !.todo = val]) /\ IsRequest([r EXCEPT !.body = val])
               /\ [r EXCEPT !.todo = val].op = r.op
  BY <1>1 DEF IsRequest
<1>3. \/ \E q, pc : IsRequest(q) /\ (pc \in NoCount \/ (pc = "index" /\ q.op # "fork")) /\ Goto(w, q, pc)
      \/ \E q, status : Reply(w, q, status)
  <2>1. CASE TypeHash(w) \/ ForkCheck(w) \/ TypePutHash(w)
    BY <1>1, <2>1 DEF TypeHash, ForkCheck, TypePutHash, NoCount
  <2>2. CASE TypePrior(w) \/ TypePut(w) \/ TypeExtends(w)
    BY <1>2, <2>2 DEF TypePrior, TypePut, TypeExtends, NoCount
  <2>3. CASE PublishPrior(w) \/ PutVersion(w) \/ ForkRead(w)
    BY <1>2, <2>3 DEF PublishPrior, PutVersion, ForkRead, NoCount
  <2>4. CASE TypeMeta(w)
    BY <1>1, <1>2, <2>4 DEF TypeMeta
  <2> QED BY <2>1, <2>2, <2>3, <2>4
<1>4. CountsNothing(req'[w])
  <2>1. CASE \E q, pc : IsRequest(q) /\ (pc \in NoCount \/ (pc = "index" /\ q.op # "fork")) /\ Goto(w, q, pc)
    BY <2>1, AfterGoto DEF CountsNothing
  <2>2. CASE \E q, status : Reply(w, q, status)
    BY <2>2, AfterReply DEF CountsNothing, NoCount
  <2> QED BY <1>3, <2>1, <2>2
<1> QED BY <1>1, <1>4, NothingCounted DEF CountsNothing

LEMMA IndexStepCount ==
  ASSUME HubInv, TypeInv, CountInv, NEW w \in Workers, IndexRead(w) \/ IndexWrite(w) \/ IndexDone(w)
  PROVE  CountInv'
<1> DEFINE r == req[w]
<1>1. /\ IsRequest(r) /\ r # None /\ r.pc \in {"index", "links"} /\ UNCHANGED <<pkg, stars>> /\ StepOf(w)
      /\ r.op = "fork" => r.pc = "index"
  <2>1. IsRequest(r) /\ r # None /\ r.pc \in {"index", "links"} /\ (r.op = "fork" => r.pc = "index")
    BY InFlight DEF IndexRead, IndexWrite, IndexDone, At, PackageRequestSound
  <2>2. UNCHANGED <<pkg, stars>>
    BY DEF IndexRead, IndexWrite, IndexDone, store
  <2> QED BY <2>1, <2>2, StepIsOf DEF Step
<1>2. req'[w] # None
  BY StepTyped, NoneIsNothingElse DEF Step, Typed
<1>3. \/ /\ req'[w].op = r.op /\ req'[w].upstream = r.upstream
         /\ req'[w].pc = r.pc \/ (r.pc = "index" /\ req'[w].pc \in {"upstream", "typeExtends"})
         /\ req'[w].pc = "typeExtends" => r.op # "fork"
         /\ req'[w].pc = "upstream" => r.op = "fork"
      \/ req'[w].pc = "done" /\ r.op # "fork"
  <2>1. CASE IndexRead(w)
    <3>1. PICK x : req' = [req EXCEPT ![w] = x] /\ Moved(x, r, r.pc)
      BY <1>1, <2>1, ListEdits DEF IndexRead
    <3>2. req'[w] = x
      BY <3>1 DEF HubInv
    <3> QED BY <1>1, <3>1, <3>2 DEF Moved, Changed
  <2>2. CASE IndexWrite(w)
    <3>1. PICK x : x = [r EXCEPT !.todo = Tail(r.todo), !.list = None]
      OBVIOUS
    <3>2. req'[w] = x
      BY <2>2, <3>1 DEF IndexWrite, HubInv
    <3>3. Moved(x, r, r.pc)
      BY <1>1, <3>1, ListEdits
    <3> QED BY <1>1, <3>2, <3>3 DEF Moved, Changed
  <2>3. CASE IndexDone(w)
    <3>1. \/ r.op = "fork" /\ Goto(w, r, "upstream")
          \/ r.op = "type" /\ r.pc = "index" /\ Goto(w, r, "typeExtends")
          \/ r.op # "fork" /\ Reply(w, r, "created")
      BY <1>1, <2>3 DEF IndexDone
    <3> QED BY <1>1, <3>1, AfterGoto, AfterReply
  <2> QED BY <2>1, <2>2, <2>3
<1> HIDE DEF r
<1>4. \A p : CountsFork(req'[w], p) <=> CountsFork(r, p)
  BY <1>1, <1>2, <1>3 DEF CountsFork
<1>5. \A p : ~CountsStar(req'[w], p) /\ ~CountsStar(r, p) /\ ~AboutToStar(req'[w], p)
  BY <1>1, <1>3 DEF CountsStar, AboutToStar
<1> QED BY <1>1, <1>4, <1>5, QuietCount DEF r

LEMMA StarKeyCount ==
  ASSUME HubInv, TypeInv, CountInv, NEW w \in Workers, StarKey(w)
  PROVE  CountInv'
<1> DEFINE r == req[w]
<1>1. IsRequest(r) /\ r.pc = "starKey" /\ r.op \in {"star", "unstar"} /\ UNCHANGED <<pkg, stars>> /\ StepOf(w)
  <2>1. IsRequest(r) /\ r.pc = "starKey" /\ r.op \in {"star", "unstar"}
    BY InFlight DEF StarKey, PackageRequestSound, TypeRequestSound
  <2> QED BY <2>1, StepIsOf DEF StarKey, store, Step
<1>2. \A p : ~CountsStar(r, p) /\ ~CountsFork(r, p)
  BY <1>1 DEF CountsStar, CountsFork
<1>3. CASE Reply(w, r, "ok")
  BY <1>1, <1>3, AfterReply, NothingCounted DEF CountsNothing, NoCount
<1>4. CASE Goto(w, r, "starPut") /\ ~(<<r.key, r.user>> \in stars <=> r.op = "star")
  <2>1. req'[w].pc = "starPut" /\ req'[w].op = r.op /\ req'[w].key = r.key /\ req'[w].user = r.user
    BY <1>1, <1>4, AfterGoto
  <2> HIDE DEF r
  <2>2. \A p : ~CountsStar(req'[w], p) /\ ~CountsFork(req'[w], p)
    BY <1>1, <2>1 DEF CountsStar, CountsFork
  <2>3. \A p : AboutToStar(req'[w], p) => (<<p, req'[w].user>> \in stars <=> req'[w].op = "unstar")
    BY <1>1, <1>4, <2>1 DEF AboutToStar
  <2> QED BY <1>1, <1>2, <2>2, <2>3, QuietCount DEF r
<1> QED BY <1>3, <1>4 DEF StarKey

(* What the request of w knows at a put, on a name it has for itself.      *)
LEMMA AtPut ==
  ASSUME HubInv, TypeInv, AckInv, NEW w \in Workers, NEW pc \in {"meta", "starPut", "starMeta", "bump", "upstream"},
         At(w, pc)
  PROVE  /\ Busy(w) /\ req[w] # None /\ IsRequest(req[w]) /\ req[w].pc = pc /\ req[w].key \in Packages
         /\ PackageRequestSound(req[w], ver) /\ PackageOwn(req[w], contended, pkg, ver)
         /\ req[w].key \in Touches(req[w])
         /\ pc = "upstream" => req[w].upstream \in Packages /\ req[w].upstream \in Touches(req[w])
<1>1. Busy(w) /\ req[w] # None /\ IsRequest(req[w]) /\ req[w].pc = pc
  BY InFlight DEF At, Busy
<1>2. req[w].op # "type" /\ PackageRequestSound(req[w], ver)
  BY <1>1, InFlight DEF TypeRequestSound
<1>3. PackageOwn(req[w], contended, pkg, ver)
  BY <1>1, <1>2 DEF AckInv, Own
<1> QED BY <1>1, <1>2, <1>3, HubAssumption DEF PackageRequestSound, Touches, Keys

LEMMA MetaType ==
  ASSUME NEW m, IsMeta(m)
  PROVE  /\ m.stars \in Nat /\ m.forks \in Nat /\ m # None
         /\ \A d : /\ [m EXCEPT !.downloads = d].stars = m.stars /\ [m EXCEPT !.downloads = d].forks = m.forks
                   /\ [m EXCEPT !.downloads = d].forkedFrom = m.forkedFrom
         /\ \A n : /\ [m EXCEPT !.stars = n].stars = n /\ [m EXCEPT !.stars = n].forks = m.forks
                   /\ [m EXCEPT !.stars = n].forkedFrom = m.forkedFrom
         /\ \A f, d : LET m2 == [m EXCEPT !.forks = f, !.downloads = d]
                      IN  m2.stars = m.stars /\ m2.forks = f /\ m2.forkedFrom = m.forkedFrom
         /\ \A v, c : LET m2 == [m EXCEPT !.latest = v, !.category = c]
                      IN  m2.stars = m.stars /\ m2.forks = m.forks /\ m2.forkedFrom = m.forkedFrom
BY NoneIsNothingElse DEF IsMeta, Meta

(* A put of metadata that answers or goes on to the lists, and changes     *)
(* neither the lineage nor, but for what it counts, the counters.          *)
LEMMA PutCount ==
  ASSUME HubInv, AckInv, CountInv, NEW w \in Workers, StepOf(w), Busy(w), UNCHANGED <<stars, contended, died>>,
         NEW k \in Packages, k \in Touches(req[w]), NEW m, m # None, pkg' = [pkg EXCEPT ![k] = m],
         \A p : ~CountsStar(req'[w], p) /\ ~AboutToStar(req'[w], p) /\ ~CountsFork(req'[w], p),
         \A p \in Packages \ {k} : ~CountsStar(req[w], p) /\ ~CountsFork(req[w], p),
         k \notin contended => /\ m.forkedFrom = IF pkg[k] = None THEN None ELSE pkg[k].forkedFrom
                               /\ m.stars = IF pkg[k] = None THEN 0
                                            ELSE IF CountsStar(req[w], k) THEN StarsAfter(req[w]) ELSE pkg[k].stars
                               /\ m.forks = IF pkg[k] = None THEN 0
                                            ELSE pkg[k].forks + ForkBit(req[w], k)
  PROVE  CountInv'
<1>1. pkg'[k] = m /\ \A p \in Packages \ {k} : pkg'[p] = pkg[p]
  BY DEF HubInv, StoreInv
<1>2. \A p \in Packages \ (contended' \cup died') : StarsAgree(p)'
  <2>1. k \notin contended \cup died => m.stars = Cardinality(Starrers(k))
    <3> SUFFICES ASSUME k \notin contended \cup died PROVE m.stars = Cardinality(Starrers(k))
      OBVIOUS
    <3>1. StarsAgree(k)
      BY DEF CountInv
    <3>2. CASE pkg[k] = None
      BY <3>1, <3>2, FS_EmptySet DEF StarsAgree
    <3>3. CASE pkg[k] # None /\ CountsStar(req[w], k)
      BY <3>1, <3>3 DEF StarsAgree
    <3>4. CASE pkg[k] # None /\ ~CountsStar(req[w], k)
      BY <3>1, <3>4, CountsAlone DEF StarsAgree
    <3> QED BY <3>2, <3>3, <3>4
  <2>2. \A p \in Packages \ (contended' \cup died') :
           \/ pkg'[p] = pkg[p] /\ ~CountsStar(req[w], p)
           \/ pkg'[p] # None /\ pkg'[p].stars = Cardinality(Starrers(p))
    BY <1>1, <2>1
  <2> QED BY <2>2, StarsKept
<1>3. contended' \cup died' = {} => \A p \in Packages : ForksAgree(p)'
  <2> SUFFICES ASSUME contended' \cup died' = {} PROVE \A p \in Packages : ForksAgree(p)'
    OBVIOUS
  <2>1. \A p \in Packages \ {k} : pkg'[p] = pkg[p] /\ (CountsFork(req'[w], p) <=> CountsFork(req[w], p))
    BY <1>1
  <2>2. \A v \in Workers \ {w} : ~CountsFork(req[v], k)
    BY CountsAlone
  <2>3. pkg'[k] # None /\ ~CountsFork(req'[w], k)
    BY <1>1
  <2>4. CASE pkg[k] = None
    <3>1. pkg'[k].forkedFrom = None /\ pkg'[k].forks = 0
      BY <1>1, <2>4
    <3> QED BY <2>1, <2>2, <2>3, <2>4, <3>1, ForksKept
  <2>5. CASE pkg[k] # None
    <3>1. pkg[k].forks \in Nat
      BY <2>5, MetaType DEF HubInv, StoreInv
    <3>2. pkg'[k].forkedFrom = pkg[k].forkedFrom
      BY <1>1, <2>5
    <3>3. pkg'[k].forks + ForkBit(req'[w], k) = pkg[k].forks + ForkBit(req[w], k)
      BY <1>1, <2>3, <2>5, <3>1 DEF ForkBit
    <3> QED BY <2>1, <2>2, <2>3, <2>5, <3>2, <3>3, ForksKept
  <2> QED BY <2>4, <2>5
<1>4. IsFiniteSet(stars') /\ IsFiniteSet({q \in Packages : pkg'[q] # None})
  BY <1>1, FiniteKept DEF CountInv
<1> QED BY <1>2, <1>3, <1>4 DEF CountInv

LEMMA StarMetaCount ==
  ASSUME HubInv, TypeInv, AckInv, CountInv, NEW w \in Workers, StarMeta(w)
  PROVE  CountInv'
<1> DEFINE r == req[w]
           m == [r.seen EXCEPT !.stars = IF r.op = "star" THEN @ + 1 ELSE @ - 1]
<1>1. /\ Busy(w) /\ r # None /\ r.pc = "starMeta" /\ r.key \in Packages /\ r.key \in Touches(r)
      /\ PackageRequestSound(r, ver) /\ PackageOwn(r, contended, pkg, ver)
  BY AtPut DEF StarMeta
<1>2. r.op \in {"star", "unstar"} /\ IsMeta(r.seen) /\ (r.key \notin contended => r.seen = pkg[r.key])
  BY <1>1 DEF PackageRequestSound, PackageOwn
<1>3. m # None /\ m.stars = StarsAfter(r) /\ m.forks = r.seen.forks /\ m.forkedFrom = r.seen.forkedFrom
  <2>1. PICK n : n = StarsAfter(r)
    OBVIOUS
  <2>2. n \in Nat
    BY <1>1, <1>2, <2>1, MetaType DEF PackageRequestSound, StarsAfter
  <2>3. m = [r.seen EXCEPT !.stars = n]
    BY <2>1 DEF StarsAfter
  <2>4. IsMeta(m)
    BY <1>2, <2>2, <2>3 DEF IsMeta, Meta
  <2>5. PICK m2 : m2 = [r.seen EXCEPT !.stars = n]
    OBVIOUS
  <2>6. m2 # None /\ m2.stars = n /\ m2.forks = r.seen.forks /\ m2.forkedFrom = r.seen.forkedFrom
    BY <1>2, <2>3, <2>4, <2>5, MetaType
  <2> QED BY <2>1, <2>3, <2>5, <2>6
<1>4. pkg' = [pkg EXCEPT ![r.key] = m] /\ UNCHANGED <<stars, contended, died>> /\ req'[w].pc = "done"
  BY AfterReply DEF StarMeta, aux
<1>5. \A p : ~CountsStar(req'[w], p) /\ ~AboutToStar(req'[w], p) /\ ~CountsFork(req'[w], p)
  BY <1>4 DEF CountsStar, AboutToStar, CountsFork
<1>6. CountsStar(r, r.key) /\ \A p : ~CountsFork(r, p) /\ (p # r.key => ~CountsStar(r, p))
  BY <1>1 DEF CountsStar, CountsFork
<1>7. StepOf(w)
  BY StepIsOf DEF Step
<1>8. r.seen # None /\ r.seen.forks \in Nat
  BY <1>2, MetaType
<1> HIDE DEF r, m
<1>9. r.key \notin contended =>
           /\ m.forkedFrom = IF pkg[r.key] = None THEN None ELSE pkg[r.key].forkedFrom
           /\ m.stars = IF pkg[r.key] = None THEN 0
                        ELSE IF CountsStar(r, r.key) THEN StarsAfter(r) ELSE pkg[r.key].stars
           /\ m.forks = IF pkg[r.key] = None THEN 0 ELSE pkg[r.key].forks + ForkBit(r, r.key)
  BY <1>2, <1>3, <1>6, <1>8 DEF ForkBit
<1> QED BY <1>1, <1>3, <1>4, <1>5, <1>6, <1>7, <1>9, PutCount DEF r

LEMMA DownloadPutCount ==
  ASSUME HubInv, TypeInv, AckInv, CountInv, NEW w \in Workers, DownloadPut(w)
  PROVE  CountInv'
<1> DEFINE r == req[w]
           m == [r.seen EXCEPT !.downloads = @ + 1]
<1>1. /\ Busy(w) /\ r # None /\ r.pc = "bump" /\ r.key \in Packages /\ r.key \in Touches(r)
      /\ PackageRequestSound(r, ver) /\ PackageOwn(r, contended, pkg, ver)
  BY AtPut DEF DownloadPut
<1>2. IsMeta(r.seen) /\ (r.key \notin contended => r.seen = pkg[r.key])
  BY <1>1 DEF PackageRequestSound, PackageOwn
<1>3. m # None /\ m.stars = r.seen.stars /\ m.forks = r.seen.forks /\ m.forkedFrom = r.seen.forkedFrom
  <2>1. IsMeta(m)
    BY <1>2 DEF IsMeta, Meta
  <2> QED BY <1>2, <2>1, MetaType
<1>4. pkg' = [pkg EXCEPT ![r.key] = m] /\ UNCHANGED <<stars, contended, died>> /\ req'[w].pc = "done"
  BY AfterReply DEF DownloadPut, aux
<1>5. \A p : ~CountsStar(req'[w], p) /\ ~AboutToStar(req'[w], p) /\ ~CountsFork(req'[w], p)
  BY <1>4 DEF CountsStar, AboutToStar, CountsFork
<1>6. \A p : ~CountsFork(r, p) /\ ~CountsStar(r, p)
  BY <1>1 DEF CountsStar, CountsFork
<1>7. StepOf(w)
  BY StepIsOf DEF Step
<1>8. r.seen # None /\ r.seen.forks \in Nat
  BY <1>2, MetaType
<1> HIDE DEF r, m
<1>9. r.key \notin contended =>
           /\ m.forkedFrom = IF pkg[r.key] = None THEN None ELSE pkg[r.key].forkedFrom
           /\ m.stars = IF pkg[r.key] = None THEN 0
                        ELSE IF CountsStar(r, r.key) THEN StarsAfter(r) ELSE pkg[r.key].stars
           /\ m.forks = IF pkg[r.key] = None THEN 0 ELSE pkg[r.key].forks + ForkBit(r, r.key)
  BY <1>2, <1>3, <1>6, <1>8 DEF ForkBit
<1> QED BY <1>1, <1>3, <1>4, <1>5, <1>6, <1>7, <1>9, PutCount DEF r

LEMMA ForkBumpCount ==
  ASSUME HubInv, TypeInv, AckInv, CountInv, NEW w \in Workers, ForkBump(w)
  PROVE  CountInv'
<1> DEFINE r == req[w]
           k == r.upstream
           m == [r.seen EXCEPT !.forks = @ + 1, !.downloads = @ + 1]
<1>1. /\ Busy(w) /\ r # None /\ r.pc = "upstream" /\ k \in Packages /\ k \in Touches(r)
      /\ PackageRequestSound(r, ver) /\ PackageOwn(r, contended, pkg, ver)
  BY AtPut DEF ForkBump
<1>2. r.op = "fork" /\ IsMeta(r.seen) /\ (k \notin contended => r.seen = pkg[k])
  BY <1>1 DEF PackageRequestSound, PackageOwn
<1>3. m # None /\ m.stars = r.seen.stars /\ m.forks = r.seen.forks + 1 /\ m.forkedFrom = r.seen.forkedFrom
  <2>1. PICK s : s = r.seen
    OBVIOUS
  <2>2. IsMeta(s) /\ s.forks + 1 \in Nat /\ s.downloads + 1 \in Nat
    BY <1>2, <2>1 DEF IsMeta, Meta
  <2>3. PICK m1 : m1 = [s EXCEPT !.forks = s.forks + 1]
    OBVIOUS
  <2>4. IsMeta(m1) /\ m1.downloads = s.downloads
    BY <2>2, <2>3 DEF IsMeta, Meta
  <2>5. IsMeta([m1 EXCEPT !.downloads = s.downloads + 1])
    BY <2>2, <2>4 DEF IsMeta, Meta
  <2>6. m = [m1 EXCEPT !.downloads = s.downloads + 1]
    BY <2>1, <2>3
  <2>7. IsMeta(m)
    BY <2>5, <2>6
  <2> QED BY <1>2, <2>7, MetaType
<1>4. pkg' = [pkg EXCEPT ![k] = m] /\ UNCHANGED <<stars, contended, died>> /\ req'[w].pc = "done"
  BY AfterReply DEF ForkBump
<1>5. \A p : ~CountsStar(req'[w], p) /\ ~AboutToStar(req'[w], p) /\ ~CountsFork(req'[w], p)
  BY <1>4 DEF CountsStar, AboutToStar, CountsFork
<1>6. CountsFork(r, k) /\ \A p : ~CountsStar(r, p) /\ (p # k => ~CountsFork(r, p))
  BY <1>1, <1>2 DEF CountsStar, CountsFork
<1>7. StepOf(w)
  BY StepIsOf DEF Step
<1>8. r.seen # None /\ r.seen.forks \in Nat
  BY <1>2, MetaType
<1> HIDE DEF r, m, k
<1>9. k \notin contended =>
           /\ m.forkedFrom = IF pkg[k] = None THEN None ELSE pkg[k].forkedFrom
           /\ m.stars = IF pkg[k] = None THEN 0
                        ELSE IF CountsStar(r, k) THEN StarsAfter(r) ELSE pkg[k].stars
           /\ m.forks = IF pkg[k] = None THEN 0 ELSE pkg[k].forks + ForkBit(r, k)
  BY <1>2, <1>3, <1>6, <1>8 DEF ForkBit
<1> QED BY <1>1, <1>3, <1>4, <1>5, <1>6, <1>7, <1>9, PutCount DEF r

LEMMA StarPutCount ==
  ASSUME HubInv, TypeInv, AckInv, CountInv, NEW w \in Workers, StarPut(w)
  PROVE  CountInv'
<1>a. PICK r : r = req[w]
  OBVIOUS
<1>b. PICK k : k = r.key
  OBVIOUS
<1>c. PICK e : e = <<k, r.user>>
  OBVIOUS
<1>1. /\ Busy(w) /\ r # None /\ r.pc = "starPut" /\ k \in Packages /\ k \in Touches(r) /\ IsRequest(r)
      /\ PackageRequestSound(r, ver) /\ PackageOwn(r, contended, pkg, ver)
  BY <1>a, <1>b, AtPut DEF StarPut
<1>2. r.op \in {"star", "unstar"} /\ IsMeta(r.seen) /\ r.seen # None /\ (k \notin contended => r.seen = pkg[k])
  BY <1>1, <1>b, MetaType DEF PackageRequestSound, PackageOwn
<1>3. /\ UNCHANGED <<pkg, contended, died>> /\ StepOf(w)
      /\ stars' = IF r.op = "star" THEN stars \cup {e} ELSE stars \ {e}
  BY <1>a, <1>b, <1>c, StepIsOf DEF StarPut, Step, aux
<1>4. \/ /\ r.op = "star" \/ r.seen.stars > 0
         /\ req'[w].pc = "starMeta" /\ req'[w].op = r.op /\ req'[w].key = k /\ req'[w].seen = r.seen
      \/ req'[w].pc = "done" /\ r.op # "star" /\ ~(r.seen.stars > 0)
  BY <1>a, <1>b, <1>1, AfterGoto, AfterReply DEF StarPut
<1>5. req'[w] # None
  BY StepTyped, NoneIsNothingElse DEF Step, Typed
<1>6. \A p : ~CountsStar(r, p) /\ ~CountsFork(r, p) /\ ~CountsFork(req'[w], p) /\ ~AboutToStar(req'[w], p)
  BY <1>1, <1>2, <1>4 DEF CountsStar, AboutToStar, CountsFork
<1>7. AboutToStar(r, k)
  BY <1>1, <1>b DEF AboutToStar
<1>8. \A p : CountsStar(req'[w], p) => p = k /\ StarsAfter(req'[w]) = StarsAfter(r)
  BY <1>4 DEF CountsStar, StarsAfter
<1>9. k \notin contended => \A v \in Workers \ {w} : ~CountsStar(req[v], k) /\ ~AboutToStar(req[v], k)
  BY <1>1, <1>a, CountsAlone
<1>10. \A v \in Workers \ {w} : req'[v] = req[v]
  BY <1>3 DEF StepOf
<1>11. /\ e[1] = k
       /\ \A p : Starrers(p)' = IF p = k THEN IF r.op = "star" THEN Starrers(k) \cup {e} ELSE Starrers(k) \ {e}
                                ELSE Starrers(p)
  BY <1>3, <1>c DEF Starrers
<1>12. \A p \in Packages \ (contended' \cup died') : StarsAgree(p)'
  <2>1. SUFFICES ASSUME NEW p \in Packages \ (contended' \cup died') PROVE StarsAgree(p)'
    OBVIOUS
  <2>2. StarsAgree(p) /\ pkg'[p] = pkg[p]
    BY <1>3 DEF CountInv
  <2>3. CASE p # k
    <3>1. Starrers(p)' = Starrers(p)
      BY <1>11, <2>3
    <3>2. \A u : <<p, u>> \in stars' <=> <<p, u>> \in stars
      BY <1>3, <1>c, <2>3
    <3>3. \A v \in Workers : /\ CountsStar(req'[v], p) <=> CountsStar(req[v], p)
                             /\ AboutToStar(req'[v], p) => AboutToStar(req[v], p) /\ req'[v] = req[v]
                             /\ CountsStar(req'[v], p) => req'[v] = req[v]
      BY <1>a, <1>b, <1>6, <1>8, <1>10, <2>3 DEF AboutToStar
    <3>4. /\ pkg'[p] = None => Starrers(p) = {}
          /\ pkg'[p] # None /\ (\A v \in Workers : ~CountsStar(req'[v], p)) => pkg'[p].stars = Cardinality(Starrers(p))
      BY <2>2, <3>3 DEF StarsAgree
    <3>5. \A v \in Workers : CountsStar(req'[v], p) => StarsAfter(req'[v]) = Cardinality(Starrers(p))
      BY <2>2, <3>3 DEF StarsAgree
    <3>6. \A v \in Workers : AboutToStar(req'[v], p) => (<<p, req'[v].user>> \in stars' <=> req'[v].op = "unstar")
      BY <2>2, <3>2, <3>3 DEF StarsAgree
    <3> QED BY <3>1, <3>4, <3>5, <3>6 DEF StarsAgree, StarsAfter, CountsStar, AboutToStar
  <2>4. CASE p = k
    <3>1. k \notin contended /\ r.seen = pkg[k] /\ pkg[k] # None
      BY <1>2, <1>3, <2>4
    <3>2. IsFiniteSet(Starrers(k))
      <4>1. IsFiniteSet(stars) /\ Starrers(k) \in SUBSET stars
        BY DEF CountInv, Starrers
      <4> QED BY <4>1, FS_Subset
    <3>3. r.seen.stars = Cardinality(Starrers(k))
      <4>1. \A v \in Workers : ~CountsStar(req[v], k)
        BY <1>a, <1>6, <1>9, <3>1
      <4> QED BY <2>2, <2>4, <3>1, <4>1 DEF StarsAgree
    <3>4. e \in Starrers(k) <=> r.op = "unstar"
      <4>1. e \in stars <=> r.op = "unstar"
        BY <1>a, <1>c, <1>7, <2>2, <2>4 DEF StarsAgree
      <4> QED BY <4>1, <1>11 DEF Starrers
    <3>5. Cardinality(Starrers(k)') = StarsAfter(r)
      <4>1. PICK S : S = Starrers(k)
        OBVIOUS
      <4>2. IsFiniteSet(S) /\ Cardinality(S) = r.seen.stars /\ (e \in S <=> r.op = "unstar")
        BY <3>2, <3>3, <3>4, <4>1
      <4>3. CASE r.op = "star"
        <5>1. Starrers(k)' = S \cup {e}
          BY <1>11, <4>1, <4>3
        <5>2. Cardinality(S \cup {e}) = r.seen.stars + 1
          BY <4>2, <4>3, FS_AddElement
        <5> QED BY <4>3, <5>1, <5>2 DEF StarsAfter
      <4>4. CASE r.op = "unstar"
        <5>1. Starrers(k)' = S \ {e}
          BY <1>11, <4>1, <4>4
        <5>2. Cardinality(S \ {e}) = r.seen.stars - 1
          BY <4>2, <4>4, FS_RemoveElement
        <5> QED BY <4>4, <5>1, <5>2 DEF StarsAfter
      <4> QED BY <1>2, <4>3, <4>4
    <3>6. CountsStar(req'[w], k)
      <4>1. r.op = "star" \/ r.seen.stars > 0
        <5>1. r.op = "unstar" => Cardinality(Starrers(k)) # 0
          BY <3>2, <3>4, FS_EmptySet
        <5> QED BY <1>2, <3>2, <3>3, <5>1, FS_CardinalityType
      <4> QED BY <1>4, <1>5, <4>1 DEF CountsStar
    <3>7. \A v \in Workers : CountsStar(req'[v], k) => StarsAfter(req'[v]) = Cardinality(Starrers(k)')
      BY <1>8, <1>9, <1>10, <3>1, <3>5
    <3>8. \A v \in Workers : ~AboutToStar(req'[v], k)
      BY <1>6, <1>9, <1>10, <3>1
    <3>9. pkg'[k] # None /\ ~ \A v \in Workers : ~CountsStar(req'[v], k)
      BY <2>2, <2>4, <3>1, <3>6
    <3> QED BY <2>4, <3>7, <3>8, <3>9 DEF StarsAgree, StarsAfter, CountsStar, AboutToStar
  <2> QED BY <2>3, <2>4
<1>13. contended' \cup died' = {} => \A p \in Packages : ForksAgree(p)'
  BY <1>a, <1>3, <1>6, ForksKept
<1>14. IsFiniteSet(stars')
  BY <1>3, FS_AddElement, FS_RemoveElement DEF CountInv
<1>15. IsFiniteSet({q \in Packages : pkg'[q] # None})
  BY <1>3 DEF CountInv
<1> QED BY <1>12, <1>13, <1>14, <1>15 DEF CountInv

LEMMA PutMetaCount ==
  ASSUME HubInv, TypeInv, AckInv, CountInv, NEW w \in Workers, PutMeta(w)
  PROVE  CountInv'
<1>a. PICK r : r = req[w]
  OBVIOUS
<1>b. PICK k : k = r.key
  OBVIOUS
<1>1. /\ Busy(w) /\ r # None /\ r.pc = "meta" /\ k \in Packages /\ k \in Touches(r) /\ IsRequest(r)
      /\ PackageRequestSound(r, ver) /\ PackageOwn(r, contended, pkg, ver) /\ r.op \in {"publish", "fork"}
  BY <1>a, <1>b, AtPut DEF PutMeta, PackageRequestSound
<1>2. UNCHANGED <<stars, contended, died>> /\ StepOf(w)
  BY StepIsOf DEF PutMeta, Step, aux
<1>3. PICK m : /\ pkg' = [pkg EXCEPT ![k] = m]
               /\ m = IF r.op = "fork" THEN NewMeta(r.seen.category, <<r.upstream, r.seen.latest>>)
                      ELSE IF r.seen = None THEN NewMeta(r.body.category, None)
                      ELSE [r.seen EXCEPT !.latest = r.version, !.category = r.body.category]
  BY <1>a, <1>b DEF PutMeta
<1>4. req'[w].pc = "index" /\ req'[w].op = r.op /\ req'[w].upstream = r.upstream
  <2>1. \A ops : LET q == [r EXCEPT !.todo = ops] IN IsRequest(q) /\ q.op = r.op /\ q.upstream = r.upstream
    BY <1>1 DEF IsRequest
  <2>2. PICK ops : Goto(w, [r EXCEPT !.todo = ops], "index")
    BY <1>a DEF PutMeta
  <2>3. PICK q : q = [r EXCEPT !.todo = ops]
    OBVIOUS
  <2>4. IsRequest(q) /\ q.op = r.op /\ q.upstream = r.upstream /\ Goto(w, q, "index")
    BY <2>1, <2>2, <2>3
  <2> QED BY <2>4, AfterGoto
<1>5. \A p : ~CountsStar(r, p) /\ ~CountsFork(r, p) /\ ~CountsStar(req'[w], p) /\ ~AboutToStar(req'[w], p)
  BY <1>1, <1>4 DEF CountsStar, AboutToStar, CountsFork
<1>6. CASE r.op = "publish"
  <2>1. k \notin contended => r.seen = pkg[k]
    BY <1>1, <1>6, <1>b DEF PackageOwn
  <2>2. /\ m # None
        /\ m.forkedFrom = IF r.seen = None THEN None ELSE r.seen.forkedFrom
        /\ m.stars = IF r.seen = None THEN 0 ELSE r.seen.stars
        /\ m.forks = IF r.seen = None THEN 0 ELSE r.seen.forks
    <3>1. CASE r.seen = None
      <4>1. PICK c : c = r.body.category
        OBVIOUS
      <4>2. c \in Categories
        BY <1>1, <1>6, <4>1 DEF PackageRequestSound, Categories
      <4>3. NewMeta(c, None) \in Meta
        BY <4>2, HubAssumption DEF NewMeta, Meta, Versions
      <4> QED BY <1>3, <1>6, <3>1, <4>1, <4>3, NoneIsNothingElse DEF NewMeta
    <3>2. CASE r.seen # None
      <4>1. IsMeta(r.seen)
        BY <1>1, <3>2 DEF PackageRequestSound
      <4>2. PICK s : s = r.seen
        OBVIOUS
      <4>3. PICK v, c : v = r.version /\ c = r.body.category
        OBVIOUS
      <4>4. m = [s EXCEPT !.latest = v, !.category = c] /\ IsMeta(s)
        BY <1>3, <1>6, <3>2, <4>1, <4>2, <4>3
      <4>5. v \in Versions /\ c \in Categories
        BY <1>1, <1>6, <4>3 DEF PackageRequestSound, Categories
      <4>6. m \in Meta /\ m.stars = s.stars /\ m.forks = s.forks /\ m.forkedFrom = s.forkedFrom
        BY <4>4, <4>5 DEF IsMeta, Meta
      <4> QED BY <3>2, <4>2, <4>6, NoneIsNothingElse
    <3> QED BY <3>1, <3>2
  <2>3. \A p : ~CountsFork(req'[w], p)
    BY <1>4, <1>6 DEF CountsFork
  <2>4. pkg[k] # None => pkg[k].forks \in Nat
    BY <1>1, MetaType DEF HubInv, StoreInv
  <2>5. k \notin contended =>
           /\ m.forkedFrom = IF pkg[k] = None THEN None ELSE pkg[k].forkedFrom
           /\ m.stars = IF pkg[k] = None THEN 0
                        ELSE IF CountsStar(r, k) THEN StarsAfter(r) ELSE pkg[k].stars
           /\ m.forks = IF pkg[k] = None THEN 0 ELSE pkg[k].forks + ForkBit(r, k)
    <3>1. ~CountsStar(r, k) /\ ~CountsFork(r, k) /\ ForkBit(r, k) = 0
      BY <1>5 DEF ForkBit
    <3>2. k \notin contended /\ pkg[k] # None => m.forks = pkg[k].forks + 0
      BY <2>1, <2>2, <2>4
    <3> QED BY <2>1, <2>2, <3>1, <3>2
  <2>6. \A p : ~CountsStar(req'[w], p) /\ ~AboutToStar(req'[w], p) /\ ~CountsFork(req'[w], p)
    BY <1>5, <2>3
  <2>7. \A p \in Packages \ {k} : ~CountsStar(req[w], p) /\ ~CountsFork(req[w], p)
    BY <1>a, <1>5
  <2>8. k \in Touches(req[w]) /\ m # None
    BY <1>a, <1>1, <2>2
  <2> QED BY <1>a, <1>1, <1>2, <1>3, <2>5, <2>6, <2>7, <2>8, PutCount
<1>7. CASE r.op = "fork"
  <2>a. PICK up : up = r.upstream
    OBVIOUS
  <2>1. /\ up \in Packages /\ up # k /\ up \in Touches(r) /\ IsMeta(r.seen)
        /\ k \notin contended => pkg[k] = None
    BY <1>1, <1>7, <1>b, <2>a, HubAssumption DEF PackageOwn, PackageRequestSound, Touches, Keys
  <2>2. m.stars = 0 /\ m.forks = 0 /\ m.forkedFrom = <<up, r.seen.latest>> /\ m # None /\ m.forkedFrom # None
    <3>1. r.seen.category \in Categories /\ r.seen.latest \in Versions
      BY <2>1 DEF IsMeta, Meta
    <3>2. m = NewMeta(r.seen.category, <<up, r.seen.latest>>)
      BY <1>3, <1>7, <2>a
    <3>3. m \in Meta
      BY <2>1, <3>1, <3>2, HubAssumption DEF NewMeta, Meta, Versions
    <3>4. <<up, r.seen.latest>> # None
      BY <2>1, <3>1, NoneIsNothingElse
    <3> QED BY <3>2, <3>3, <3>4, NoneIsNothingElse DEF NewMeta
  <2>3. pkg'[k] = m /\ \A p \in Packages \ {k} : pkg'[p] = pkg[p]
    BY <1>1, <1>3 DEF HubInv, StoreInv
  <2>4. \A p \in Packages \ (contended' \cup died') : StarsAgree(p)'
    <3>1. k \notin contended \cup died => 0 = Cardinality(Starrers(k))
      BY <1>1, <2>1, FS_EmptySet DEF CountInv, StarsAgree
    <3>2. \A p \in Packages \ (contended' \cup died') :
            \/ pkg'[p] = pkg[p] /\ ~CountsStar(req[w], p)
            \/ pkg'[p] # None /\ pkg'[p].stars = Cardinality(Starrers(p))
      BY <1>a, <1>2, <1>5, <2>2, <2>3, <3>1
    <3> QED BY <1>2, <1>5, <3>2, StarsKept
  <2>5. contended' \cup died' = {} => \A p \in Packages : ForksAgree(p)'
    <3> SUFFICES ASSUME contended' \cup died' = {}, NEW p \in Packages PROVE ForksAgree(p)'
      OBVIOUS
    <3>1. contended = {} /\ ForksAgree(p) /\ ForksAgree(k) /\ pkg[k] = None
      BY <1>1, <1>2, <2>1 DEF CountInv
    <3>2. req'[w] # None
      BY StepTyped, NoneIsNothingElse DEF Step, Typed
    <3>3. CountsFork(req'[w], p) <=> p = up
      BY <1>4, <1>7, <2>a, <3>2 DEF CountsFork
    <3>4. \A v \in Workers \ {w} : req'[v] = req[v] /\ (p \in {k, up} => ~CountsFork(req[v], p))
      BY <1>a, <1>1, <1>2, <2>1, <3>1, CountsAlone DEF StepOf
    <3>5. CASE p = up
      <4>1. Forkers(p)' = Forkers(p) \cup {k}
        BY <1>1, <2>2, <2>3, <3>5 DEF Forkers
      <4>2. k \notin Forkers(p)
        BY <3>1 DEF Forkers
      <4>3. IsFiniteSet(Forkers(p))
        <5>1. PICK S : S = {q \in Packages : pkg[q] # None}
          OBVIOUS
        <5>2. IsFiniteSet(S) /\ Forkers(p) \in SUBSET S
          BY <5>1 DEF CountInv, Forkers
        <5> QED BY <5>2, FS_Subset
      <4>4. Cardinality(Forkers(p)') = Cardinality(Forkers(p)) + 1
        <5>1. PICK S : S = Forkers(p)
          OBVIOUS
        <5>2. Cardinality(S \cup {k}) = Cardinality(S) + 1
          BY <4>2, <4>3, <5>1, FS_AddElement
        <5> QED BY <4>1, <5>1, <5>2
      <4>5. \A v \in Workers : ~CountsFork(req[v], p)
        BY <1>a, <1>5, <3>4, <3>5
      <4>6. pkg'[p] = pkg[p]
        BY <2>1, <2>3, <3>5
      <4>7. pkg[p] # None
        BY <1>1, <1>7, <2>1, <2>a, <3>1, <3>5, MetaType DEF PackageOwn
      <4>8. pkg[p].forks \in Nat
        BY <4>7, MetaType DEF HubInv, StoreInv
      <4>9. Cardinality(Forkers(p)') = pkg'[p].forks + 1
        BY <3>1, <4>4, <4>5, <4>6, <4>7, <4>8 DEF ForksAgree
      <4>10. \E v \in Workers : CountsFork(req'[v], p)
        BY <3>3, <3>5
      <4> QED BY <4>6, <4>7, <4>9, <4>10 DEF ForksAgree, CountsFork
    <3>6. CASE p # up
      <4>1. Forkers(p)' = Forkers(p)
        <5>1. pkg'[k].forkedFrom[1] # p
          BY <2>2, <2>3, <3>6
        <5> QED BY <2>3, <3>1, <5>1 DEF Forkers
      <4>2. (\E v \in Workers : CountsFork(req'[v], p)) <=> (\E v \in Workers : CountsFork(req[v], p))
        BY <1>a, <1>5, <3>3, <3>4, <3>6
      <4>3. CASE p # k
        BY <2>3, <3>1, <4>1, <4>2, <4>3 DEF ForksAgree, CountsFork
      <4>4. CASE p = k
        <5>1. pkg'[p] # None /\ pkg'[p].forks = 0
          BY <2>2, <2>3, <4>4
        <5>2. Cardinality(Forkers(p)') = 0
          BY <3>1, <4>1, <4>4, FS_EmptySet DEF ForksAgree
        <5>3. ~ \E v \in Workers : CountsFork(req'[v], p)
          BY <1>a, <1>5, <3>4, <4>2, <4>4
        <5> QED BY <5>1, <5>2, <5>3 DEF ForksAgree, CountsFork
      <4> QED BY <4>3, <4>4
    <3> QED BY <3>5, <3>6
  <2>6. IsFiniteSet(stars') /\ IsFiniteSet({q \in Packages : pkg'[q] # None})
    BY <1>2, <2>3, FiniteKept DEF CountInv
  <2> QED BY <2>4, <2>5, <2>6 DEF CountInv
<1> QED BY <1>1, <1>6, <1>7

LEMMA EndCount ==
  ASSUME HubInv, CountInv, NEW w \in Workers, Die(w) \/ Deliver(w)
  PROVE  CountInv'
<1>1. StepOf(w) /\ UNCHANGED <<pkg, stars>> /\ req'[w] = None
  BY StepIsOf DEF Die, Deliver, store, HubInv
<1>2. CASE Deliver(w)
  BY <1>1, <1>2, NothingCounted DEF Deliver, At, CountsNothing, NoCount
<1>3. CASE Die(w)
  <2>1. died' # {} /\ \A p : CountsStar(req[w], p) => p \in died'
    BY <1>3 DEF Die, Touches, CountsStar
  <2>2. \A p : ~CountsStar(req'[w], p) /\ ~AboutToStar(req'[w], p)
    BY <1>1 DEF CountsStar, AboutToStar
  <2> QED BY <1>1, <2>1, <2>2, QuietCount
<1> QED BY <1>2, <1>3

LEMMA CountInvHolds == Spec => []CountInv
<1>1. Init => CountInv
  <2> SUFFICES ASSUME Init PROVE CountInv
    OBVIOUS
  <2>1. stars = {} /\ \A q \in Packages : pkg[q] = None
    BY DEF Init
  <2>2. {q \in Packages : pkg[q] # None} = {} /\ \A p : Forkers(p) = {} /\ Starrers(p) = {}
    BY <2>1 DEF Forkers, Starrers
  <2>3. \A w \in Workers : req[w] = None
    BY DEF Init
  <2> QED BY <2>1, <2>2, <2>3, FS_EmptySet DEF CountInv, StarsAgree, ForksAgree, CountsStar, AboutToStar
<1>2. HubInv /\ TypeInv /\ AckInv /\ CountInv /\ [Next]_vars => CountInv'
  <2> SUFFICES ASSUME HubInv, TypeInv, AckInv, CountInv, [Next]_vars PROVE CountInv'
    OBVIOUS
  <2>1. CASE UNCHANGED vars
    <3>1. UNCHANGED <<pkg, stars, req, contended, died>>
      BY <2>1 DEF vars
    <3>2. \A p : StarsAgree(p)' <=> StarsAgree(p)
      BY <3>1 DEF StarsAgree, Starrers, CountsStar, AboutToStar, StarsAfter
    <3>3. \A p : ForksAgree(p)' <=> ForksAgree(p)
      BY <3>1 DEF ForksAgree, Forkers, CountsFork
    <3> QED BY <3>1, <3>2, <3>3 DEF CountInv
  <2>2. CASE Next
    BY <2>2, ArrivalCount, PlainStepCount, IndexStepCount, StarKeyCount, StarPutCount, StarMetaCount,
       DownloadPutCount, ForkBumpCount, PutMetaCount, EndCount
    DEF Next, Step
  <2> QED BY <2>1, <2>2
<1> QED BY <1>1, <1>2, HubInvHolds, RequestsAreTyped, AckInvHolds, PTL DEF Spec

(* Once no request is in flight, the star count of a package is the number *)
(* of users who star it, and the fork count the number of forks that name  *)
(* it, on packages that no two requests worked on at once and none died    *)
(* working on: the counter is put last, so only an overlap can lose one.   *)
THEOREM CountersAlwaysAgree == Spec => []CountersAgree
<1>1. HubInv /\ CountInv => CountersAgree
  <2> SUFFICES ASSUME HubInv, CountInv, Quiet, NEW p \in Packages, Published(p)
               PROVE  /\ p \notin contended \cup died => pkg[p].stars = StarsOf(p)
                      /\ contended \cup died = {} => pkg[p].forks = ForksOf(p)
    BY DEF CountersAgree
  <2>1. pkg[p] # None
    BY HubAssumption DEF Published, Latest
  <2>2. \A w \in Workers : ~CountsStar(req[w], p) /\ ~CountsFork(req[w], p)
    BY DEF Quiet, Busy, CountsStar, CountsFork
  <2>3. p \notin contended \cup died => pkg[p].stars = StarsOf(p)
    BY <2>1, <2>2 DEF CountInv, StarsAgree, StarsOf, Starrers
  <2>4. contended \cup died = {} => pkg[p].forks = ForksOf(p)
    <3>1. pkg[p].forks \in Nat
      BY <2>1, MetaType DEF HubInv, StoreInv
    <3> QED BY <2>1, <2>2, <3>1 DEF CountInv, ForksAgree, ForksOf, Forkers
  <2> QED BY <2>3, <2>4
<1> QED BY <1>1, HubInvHolds, CountInvHolds, PTL

-------------------------------------------------------------------------------
(* Artifacts are immutable.                                                *)
(*                                                                         *)
(* An artifact may be put again only by a request that dies before it      *)
(* announces it, or that raced another: on any other name, what is stored  *)
(* above the latest version is the put of a request about to announce it.  *)

Unannounced(p, n) == pkg[p] = None \/ pkg[p].latest < n
Announces(w, p, n) == At(w, "meta") /\ req[w].key = p /\ req[w].version = n

NoOrphans ==
  \A p \in Packages \ (contended \cup died), n \in Versions :
    ver[p][n] # None /\ Unannounced(p, n) => \E w \in Workers : Announces(w, p, n)

LatestStays ==
  \A p \in Packages \ contended :
    pkg'[p] = pkg[p] \/ (pkg[p] # None /\ pkg'[p] # None /\ pkg'[p].latest = pkg[p].latest)

(* A step that puts no artifact, moves no latest version and announces     *)
(* nothing, unless it dies doing so.                                       *)
LEMMA OrphansKept ==
  ASSUME HubInv, NoOrphans, NEW w \in Workers, StepOf(w), ver' = ver, LatestStays,
         At(w, "meta") => req[w].key \in contended' \cup died'
  PROVE  NoOrphans'
<1> SUFFICES ASSUME NEW p \in Packages, p \notin contended' \cup died', NEW n \in Versions,
                    ver'[p][n] # None, Unannounced(p, n)'
             PROVE  \E v \in Workers : Announces(v, p, n)'
  BY DEF NoOrphans
<1>1. p \notin contended \cup died
  BY DEF StepOf
<1>2. Unannounced(p, n)
  BY <1>1 DEF Unannounced, LatestStays
<1>3. PICK v \in Workers : Announces(v, p, n)
  BY <1>1, <1>2 DEF NoOrphans
<1>4. v # w
  BY <1>3 DEF Announces
<1>5. req'[v] = req[v]
  BY <1>4 DEF StepOf
<1> QED BY <1>3, <1>5 DEF Announces, At

(* The put of an artifact, by a request that will announce it.             *)
LEMMA PutVersionOrphans ==
  ASSUME HubInv, TypeInv, NoOrphans, NEW w \in Workers, PutVersion(w)
  PROVE  NoOrphans'
<1>1. PICK r : r = req[w]
  OBVIOUS
<1>2. PICK k : k = NextVersion(r)
  OBVIOUS
<1>3. IsRequest(r) /\ r.pc = "put" /\ r.op \in {"publish", "fork"} /\ r.key \in Packages /\ k \in Versions
  BY <1>1, <1>2, InFlight, HubAssumption DEF PutVersion, PackageRequestSound, TypeRequestSound, NextVersion, Versions
<1>4. PICK x : x = [[r EXCEPT !.version = k] EXCEPT !.pc = "meta"]
  OBVIOUS
<1>5. Changed(x, r, "meta", r.body, k)
  BY <1>3, <1>4, Edits DEF Pcs
<1>6. ver' = [ver EXCEPT ![r.key][k] = r.body] /\ req' = [req EXCEPT ![w] = x] /\ UNCHANGED <<pkg, contended, died>>
  BY <1>1, <1>2, <1>4 DEF PutVersion, Goto, aux
<1>7. req'[w] = x /\ \A v \in Workers \ {w} : req'[v] = req[v]
  BY <1>6 DEF HubInv
<1>8. \A p \in Packages, i \in Versions : p # r.key \/ i # k => ver'[p][i] = ver[p][i]
  BY <1>3, <1>6 DEF HubInv, StoreInv
<1>9. x # None
  BY <1>7, StepTyped, NoneIsNothingElse DEF Step, Typed
<1> SUFFICES ASSUME NEW p \in Packages, p \notin contended \cup died, NEW n \in Versions,
                    ver'[p][n] # None, Unannounced(p, n)
             PROVE  \E v \in Workers : Announces(v, p, n)'
  BY <1>6 DEF NoOrphans, Unannounced
<1>10. CASE p = r.key /\ n = k
  BY <1>5, <1>7, <1>9, <1>10 DEF Announces, At, Changed
<1>11. CASE ~(p = r.key /\ n = k)
  <2>1. PICK v \in Workers : Announces(v, p, n)
    BY <1>8, <1>11 DEF NoOrphans
  <2>2. v # w
    BY <1>1, <1>3, <2>1 DEF Announces, At
  <2> QED BY <1>7, <2>1, <2>2 DEF Announces, At
<1> QED BY <1>10, <1>11

(* The put of the metadata announces what its own request put.             *)
LEMMA PutMetaOrphans ==
  ASSUME HubInv, TypeInv, AckInv, NoOrphans, NEW w \in Workers, PutMeta(w)
  PROVE  NoOrphans'
<1>1. PICK r : r = req[w]
  OBVIOUS
<1>2. /\ Busy(w) /\ r # None /\ IsRequest(r) /\ r.pc = "meta" /\ r.key \in Packages
      /\ PackageRequestSound(r, ver) /\ PackageOwn(r, contended, pkg, ver) /\ r.key \in Touches(r)
  BY <1>1, AtPut DEF PutMeta
<1>3. PICK m : m = IF r.op = "fork" THEN NewMeta(r.seen.category, <<r.upstream, r.seen.latest>>)
                   ELSE IF r.seen = None THEN NewMeta(r.body.category, None)
                   ELSE [r.seen EXCEPT !.latest = r.version, !.category = r.body.category]
  OBVIOUS
<1>4. pkg' = [pkg EXCEPT ![r.key] = m] /\ UNCHANGED <<ver, contended, died>>
  BY <1>1, <1>3 DEF PutMeta, aux
<1>5. m # None /\ m.latest = r.version /\ r.version = NextVersion(r) /\ r.version \in Versions
  <2>1. IsMeta(m) /\ m.latest = r.version
    BY <1>2, <1>3, MetaWritten
  <2> QED BY <1>2, <2>1, MetaIsSome DEF PackageRequestSound
<1>6. StepOf(w)
  BY StepIsOf DEF Step
<1>7. pkg'[r.key] = m /\ \A p \in Packages : p # r.key => pkg'[p] = pkg[p]
  BY <1>2, <1>4 DEF HubInv, StoreInv
<1> SUFFICES ASSUME NEW p \in Packages, p \notin contended \cup died, NEW n \in Versions,
                    ver[p][n] # None, Unannounced(p, n)'
             PROVE  \E v \in Workers : Announces(v, p, n)'
  BY <1>4 DEF NoOrphans
<1>8. CASE p # r.key
  <2>1. PICK v \in Workers : Announces(v, p, n)
    BY <1>7, <1>8 DEF NoOrphans, Unannounced
  <2>2. v # w /\ req'[v] = req[v]
    BY <1>1, <1>6, <1>8, <2>1 DEF Announces, StepOf
  <2> QED BY <2>1, <2>2 DEF Announces, At
<1>9. CASE p = r.key
  <2>1. r.version < n
    BY <1>5, <1>7, <1>9 DEF Unannounced
  <2>2. Unannounced(p, n)
    <3>1. CASE pkg[p] = None
      BY <3>1 DEF Unannounced
    <3>2. CASE pkg[p] # None
      <4>1. r.seen = pkg[p] /\ pkg[p].latest \in Nat /\ r.op # "fork"
        BY <1>2, <1>9, <3>2 DEF PackageOwn, HubInv, StoreInv, IsMeta, Meta, Versions
      <4>2. r.version = pkg[p].latest + 1
        BY <1>5, <3>2, <4>1 DEF NextVersion
      <4> QED BY <2>1, <4>1, <4>2, HubAssumption DEF Unannounced, Versions
    <3> QED BY <3>1, <3>2
  <2>3. PICK v \in Workers : Announces(v, p, n)
    BY <2>2 DEF NoOrphans
  <2>4. CASE v = w
    BY <1>1, <1>5, <2>1, <2>3, <2>4, HubAssumption DEF Announces, Versions
  <2>5. CASE v # w
    <3>1. Busy(v) /\ p \in Touches(req[v])
      BY <2>3 DEF Announces, At, Busy, Touches
    <3> QED BY <1>1, <1>2, <1>9, <2>5, <3>1 DEF AckInv, Alone
  <2> QED BY <2>4, <2>5
<1> QED BY <1>8, <1>9

(* The steps that write a counter write back the version they saw.         *)
LEMMA CounterLatest ==
  ASSUME HubInv, TypeInv, AckInv, NEW w \in Workers, StarMeta(w) \/ DownloadPut(w) \/ ForkBump(w)
  PROVE  LatestStays /\ ver' = ver /\ ~At(w, "meta") /\ StepOf(w)
<1>1. PICK r : r = req[w]
  OBVIOUS
<1>2. PICK k : k = IF r.pc = "upstream" THEN r.upstream ELSE r.key
  OBVIOUS
<1>3. /\ IsRequest(r) /\ r.pc \in {"starMeta", "bump", "upstream"} /\ k \in Packages
      /\ PackageRequestSound(r, ver) /\ PackageOwn(r, contended, pkg, ver)
  BY <1>1, <1>2, AtPut DEF StarMeta, DownloadPut, ForkBump, At
<1>4. PICK seen : seen = r.seen
  OBVIOUS
<1>5. IsMeta(seen) /\ (k \notin contended => seen = pkg[k])
  BY <1>2, <1>3, <1>4 DEF PackageRequestSound, PackageOwn
<1>6. PICK m : pkg' = [pkg EXCEPT ![k] = m] /\ m # None /\ m.latest = seen.latest
  <2>1. seen.stars \in Nat /\ seen.downloads \in Nat /\ seen.forks \in Nat
    BY <1>5 DEF IsMeta, Meta
  <2>2. CASE StarMeta(w)
    <3>1. PICK n : n = IF r.op = "star" THEN seen.stars + 1 ELSE seen.stars - 1
      OBVIOUS
    <3>2. pkg' = [pkg EXCEPT ![k] = [seen EXCEPT !.stars = n]]
      BY <1>1, <1>2, <1>4, <2>2, <3>1 DEF StarMeta, At
    <3>3. n \in Nat
      BY <1>1, <1>3, <1>4, <2>1, <2>2, <3>1 DEF StarMeta, At, PackageRequestSound
    <3> QED BY <1>5, <3>2, <3>3, MetaEdits, MetaIsSome
  <2>3. CASE DownloadPut(w)
    <3>1. PICK n : n = seen.downloads + 1
      OBVIOUS
    <3>2. PICK m : m = [seen EXCEPT !.downloads = n]
      OBVIOUS
    <3>3. pkg' = [pkg EXCEPT ![k] = m]
      BY <1>1, <1>2, <1>4, <2>3, <3>1, <3>2 DEF DownloadPut, At
    <3>4. n \in Nat
      BY <2>1, <3>1
    <3>5. IsMeta(m) /\ m.latest = seen.latest
      BY <1>5, <3>2, <3>4, MetaEdits
    <3> QED BY <3>3, <3>5, MetaIsSome
  <2>4. CASE ForkBump(w)
    <3>1. PICK n, d : n = seen.forks + 1 /\ d = seen.downloads + 1
      OBVIOUS
    <3>2. PICK m : m = [seen EXCEPT !.forks = n, !.downloads = d]
      OBVIOUS
    <3>3. pkg' = [pkg EXCEPT ![k] = m]
      BY <1>1, <1>2, <1>4, <2>4, <3>1, <3>2 DEF ForkBump, At
    <3>4. n \in Nat /\ d \in Nat
      BY <2>1, <3>1
    <3>5. IsMeta(m) /\ m.latest = seen.latest
      BY <1>5, <3>2, <3>4, ForkEdits
    <3> QED BY <3>3, <3>5, MetaIsSome
  <2> QED BY <2>2, <2>3, <2>4
<1>7. LatestStays
  <2>1. pkg'[k] = m /\ \A p \in Packages : p # k => pkg'[p] = pkg[p]
    BY <1>3, <1>6 DEF HubInv, StoreInv
  <2>2. seen # None
    BY <1>5, MetaIsSome
  <2> QED BY <1>5, <1>6, <2>1, <2>2 DEF LatestStays
<1>8. ver' = ver /\ ~At(w, "meta") /\ StepOf(w)
  BY <1>1, <1>3, StepIsOf DEF StarMeta, DownloadPut, ForkBump, At, Step
<1> QED BY <1>7, <1>8

(* All other steps.                                                        *)
LEMMA QuietOrphans ==
  ASSUME HubInv, NoOrphans, NEW w \in Workers, StepOf(w), UNCHANGED <<pkg, ver>>,
         At(w, "meta") => req[w].key \in died'
  PROVE  NoOrphans'
BY OrphansKept DEF LatestStays

LEMMA OrphansStep ==
  ASSUME HubInv, TypeInv, AckInv, NoOrphans, NEW w \in Workers, Arrival(w) \/ Step(w) \/ Die(w) \/ Deliver(w)
  PROVE  NoOrphans'
<1>1. StepOf(w)
  BY StepIsOf
<1>2. CASE Arrival(w)
  <2>1. PICK x : Arrive(w, x)
    BY <1>2 DEF Arrival, Publish, PublishType, Download, Star, Fork
  <2> QED BY <1>1, <2>1, QuietOrphans DEF Arrive, store, At
<1>3. CASE Die(w)
  BY <1>1, <1>3, QuietOrphans DEF Die, store, Touches, At
<1>4. CASE Deliver(w)
  BY <1>1, <1>4, QuietOrphans DEF Deliver, store, At
<1>5. CASE PutVersion(w) \/ PutMeta(w) \/ StarMeta(w) \/ DownloadPut(w) \/ ForkBump(w)
  BY <1>5, PutVersionOrphans, PutMetaOrphans, CounterLatest, OrphansKept
<1>6. CASE Step(w) /\ ~(PutVersion(w) \/ PutMeta(w) \/ StarMeta(w) \/ DownloadPut(w) \/ ForkBump(w))
  <2>1. UNCHANGED <<pkg, ver>> /\ ~At(w, "meta")
    BY <1>6 DEF Step, PublishPrior, IndexRead, IndexWrite, IndexDone, StarKey, StarPut, ForkRead, ForkCheck,
       TypeHash, TypePrior, TypePut, TypePutHash, TypeMeta, TypeExtends, At, store
  <2> QED BY <1>1, <2>1, QuietOrphans
<1> QED BY <1>2, <1>3, <1>4, <1>5, <1>6

LEMMA NoOrphansHolds == Spec => []NoOrphans
<1>1. Init => NoOrphans
  BY DEF Init, NoOrphans
<1>2. HubInv /\ TypeInv /\ AckInv /\ NoOrphans /\ [Next]_vars => NoOrphans'
  <2>1. ASSUME NoOrphans, UNCHANGED vars PROVE NoOrphans'
    BY <2>1 DEF NoOrphans, Unannounced, Announces, At, vars
  <2> QED BY <2>1, OrphansStep DEF Next
<1> QED BY <1>1, <1>2, HubInvHolds, RequestsAreTyped, AckInvHolds, PTL DEF Spec

(* What a step does to the artifacts.                                      *)
ArtifactsStand ==
  /\ contended \subseteq contended' /\ died \subseteq died'
  /\ \A p \in Packages, n \in Versions : ver[p][n] # None =>
       /\ ver'[p][n] # None
       /\ p \notin contended' \cup died' => ver'[p][n] = ver[p][n]

LEMMA ArtifactsStandStep ==
  HubInv /\ AckInv /\ NoOrphans /\ [Next]_vars => ArtifactsStand
<1> SUFFICES ASSUME HubInv, AckInv, NoOrphans, [Next]_vars PROVE ArtifactsStand
  OBVIOUS
<1>1. CASE UNCHANGED vars
  BY <1>1 DEF vars, ArtifactsStand
<1>2. CASE Next
  <2>1. PICK w \in Workers : Arrival(w) \/ Step(w) \/ Die(w) \/ Deliver(w)
    BY <1>2 DEF Next
  <2>2. StepOf(w)
    BY <2>1, StepIsOf
  <2>3. CASE ver' = ver
    BY <2>2, <2>3 DEF StepOf, ArtifactsStand
  <2>4. CASE PutVersion(w)
    <3>1. PICK r : r = req[w]
      OBVIOUS
    <3>2. PICK k : k = NextVersion(r)
      OBVIOUS
    <3>3. /\ Busy(w) /\ r.pc = "put" /\ r.op \in {"publish", "fork"} /\ r.key \in Packages /\ k \in Versions
          /\ r.body \in Recipes /\ PackageOwn(r, contended, pkg, ver) /\ PackageRequestSound(r, ver)
      BY <2>4, <3>1, <3>2, InFlight, OwnOfBusy, HubAssumption
         DEF PutVersion, PackageRequestSound, TypeRequestSound, NextVersion, Versions, Own
    <3>4. ver' = [ver EXCEPT ![r.key][k] = r.body] /\ UNCHANGED <<contended, died>>
      BY <2>4, <3>1, <3>2 DEF PutVersion, aux
    <3>5. /\ ver'[r.key][k] = r.body
          /\ \A p \in Packages, i \in Versions : p # r.key \/ i # k => ver'[p][i] = ver[p][i]
      BY <3>3, <3>4 DEF HubInv, StoreInv
    <3>6. r.key \notin contended \cup died => ver[r.key][k] = None
      <4> SUFFICES ASSUME r.key \notin contended \cup died, ver[r.key][k] # None PROVE FALSE
        OBVIOUS
      <4>1. Unannounced(r.key, k)
        <5>1. CASE pkg[r.key] = None
          BY <5>1 DEF Unannounced
        <5>2. CASE pkg[r.key] # None
          <6>1. r.seen = pkg[r.key] /\ pkg[r.key].latest \in Nat /\ r.op # "fork"
            BY <3>3, <5>2 DEF PackageOwn, HubInv, StoreInv, IsMeta, Meta, Versions
          <6> QED BY <3>2, <5>2, <6>1 DEF NextVersion, Unannounced
        <5> QED BY <5>1, <5>2
      <4>2. PICK v \in Workers : Announces(v, r.key, k)
        BY <3>3, <4>1 DEF NoOrphans
      <4>3. v # w /\ Busy(v) /\ r.key \in Touches(req[v])
        BY <3>1, <3>3, <4>2 DEF Announces, At, Busy, Touches
      <4>4. r.key \in Touches(req[w])
        BY <3>1 DEF Touches
      <4> QED BY <3>3, <4>3, <4>4 DEF AckInv, Alone
    <3> QED BY <3>3, <3>4, <3>5, <3>6, HubAssumption DEF ArtifactsStand
  <2>5. Arrival(w) => ver' = ver
    <3> SUFFICES ASSUME Arrival(w) PROVE ver' = ver
      OBVIOUS
    <3>1. PICK x : Arrive(w, x)
      BY DEF Arrival, Publish, PublishType, Download, Star, Fork
    <3> QED BY <3>1 DEF Arrive, store
  <2>6. Step(w) /\ ~PutVersion(w) => ver' = ver
    BY DEF Step, PublishPrior, PutMeta, IndexRead, IndexWrite, IndexDone, StarKey, StarPut,
       StarMeta, DownloadPut, ForkRead, ForkCheck, ForkBump, TypeHash, TypePrior, TypePut, TypePutHash,
       TypeMeta, TypeExtends, store
  <2>7. Die(w) \/ Deliver(w) => ver' = ver
    BY DEF Die, Deliver, store
  <2> QED BY <2>1, <2>3, <2>4, <2>5, <2>6, <2>7
<1> QED BY <1>1, <1>2

(* An artifact that is stored is stored for good, and is never replaced on *)
(* a name that no two requests worked on at once and none died on: a       *)
(* download of one version is always the same recipe.                      *)
THEOREM ArtifactsAreImmutable == Spec => [][ArtifactsStand]_vars
BY ArtifactsStandStep, HubInvHolds, AckInvHolds, NoOrphansHolds, PTL DEF Spec
===============================================================================
