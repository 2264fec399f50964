---------------------------------- MODULE Hub ----------------------------------
(***************************************************************************)
(* hub-api: packages, types, stars and the discovery indexes in the KV     *)
(* namespace METADATA.                                                     *)
(*                                                                         *)
(* A handler is a chain of KV gets and puts; each is atomic, a chain is    *)
(* not.  Every put (with the gets just before it, where nothing turns on   *)
(* the gap) is one action, every worker isolate runs one request, and a    *)
(* request may die before any put: a KV error propagates as a 500, a       *)
(* worker may be evicted.                                                  *)
(***************************************************************************)
EXTENDS Integers, Sequences, FiniteSets, SequencesExt

CONSTANTS
  None,        \* null
  Missing,     \* undefined: a field the request body lacks
  Workers,     \* worker isolates: how many requests are in flight at once
  Users, Slugs,
  Packages,    \* pkg:<author>:<slug>, the package names in play
  TypeKeys,    \* type:<author>:<name>, the type names in play
  Recipes,     \* publishable recipes: [name, category, inputs, outputs, pins, ...]
  TypeBodies,  \* publishable types: [source, aligned, extends]
  MaxVersion,  \* bound on the versions of one name
  MaxRequests, \* bound on requests in all
  MaxDied      \* bound on the names whose requests died

Keys == Packages \cup TypeKeys
Versions == 1..MaxVersion

Categories == {r.category : r \in Recipes}
Sources == {b.source : b \in TypeBodies}
AlignmentUris == UNION {b.aligned : b \in TypeBodies}
Pins == {b.extends : b \in TypeBodies} \ {None, Missing}

ASSUME HubAssumption ==
  /\ MaxVersion \in Nat \ {0} /\ MaxRequests \in Nat /\ MaxDied \in Nat
  /\ None \notin Recipes /\ None \notin TypeBodies /\ None \notin Keys
  /\ Packages \cap TypeKeys = {}
  /\ Packages \subseteq Users \X Slugs
  /\ \A t \in TypeKeys : t[1] \in Users
  /\ \A r \in Recipes : \A ids \in {r.inputs, r.outputs} : ids \subseteq TypeKeys /\ IsFiniteSet(ids)
  /\ \A b \in TypeBodies : IsFiniteSet(b.aligned)

VARIABLES
  pkg,    \* pkg: metadata of each package, or None
  ver,    \* ver: the artifacts of each package
  typ,    \* type: the latest version of each type, 0 without one
  tver,   \* tver: the artifacts of each type
  thash,  \* thash: the version that last had a source, or 0
  stars,  \* star: and stars_by:, who starred what
  idx,    \* idx: every list, as a set
  req,    \* what each worker is doing
  served, \* requests taken so far
  acked,  \* history: what 2xx replies told publishers and forkers
  contended, \* history: names that two requests worked on at once
  shared,    \* history: two requests were ever in flight at once
  died       \* history: names of requests that died

store == <<pkg, ver, typ, tver, thash, stars, idx>>
aux == <<served, acked, contended, shared, died>>
vars == <<pkg, ver, typ, tver, thash, stars, idx, req, served, acked,
          contended, shared, died>>

-------------------------------------------------------------------------------
(* Values.                                                                 *)

Meta == [latest : Versions, category : Categories, stars : Nat,
         downloads : Nat, forks : Nat,
         forkedFrom : (Packages \X Versions) \cup {None}]

Lists == {<<"packages">>, <<"categories">>, <<"types">>}
         \cup ({"user_packages", "user_types"} \X Users)
         \cup ({"cat"} \X Categories)
         \cup ({"producers", "consumers"} \X TypeKeys)
         \cup ({"aligned"} \X AlignmentUris)
         \cup ({"extends"} \X Pins)

Entries == Keys \cup Categories

ListOp == [do : {"add", "remove", "prune"}, list : Lists, entry : Entries]

Ops == {"publish", "star", "unstar", "download", "fork", "type"}
Pcs == {"prior", "put", "meta", "index", "bump",
        "starKey", "starPut", "starMeta",
        "forkRead", "forkCheck", "upstream",
        "hash", "typePrior", "typePut", "typeHash", "typeMeta", "typeExtends",
        "links", "done"}
Statuses == {"created", "ok", "deduped", "stale_base", "not_found", "corrupt",
             "self_fork", "already_exists", "invalid"}

(* A request: the name it is about (for a fork the new one, with the       *)
(* upstream beside it), its payload, what it has read, and the index       *)
(* operations it still has to do; `list` is the list it read to rewrite.   *)
Request ==
  [op : Ops, pc : Pcs, user : Users, key : Keys,
   upstream : Packages \cup {None}, body : Recipes \cup TypeBodies \cup {None},
   seen : Meta \cup {None}, latest : Nat,
   prior : Recipes \cup TypeBodies \cup {None},
   todo : Seq(ListOp), list : (SUBSET Entries) \cup {None},
   status : Statuses \cup {None}, version : Nat]

ASSUME NoneIsNothingElse ==
  None \notin Statuses \cup Meta \cup Request \cup Versions \cup (Packages \X Versions)

Incoming(op, user, key) ==
  [op |-> op, pc |-> "done", user |-> user, key |-> key, upstream |-> None,
   body |-> None, seen |-> None, latest |-> 0, prior |-> None, todo |-> <<>>, list |-> None,
   status |-> None, version |-> 0]

Touches(r) == {r.key} \cup ({r.upstream} \ {None})
Busy(w) == req[w] # None /\ req[w].pc # "done"

Latest(key) ==
  IF key \in TypeKeys THEN typ[key]
  ELSE IF pkg[key] = None THEN 0 ELSE pkg[key].latest

Stored(key, n) == IF key \in TypeKeys THEN tver[key][n] ELSE ver[key][n]

(* base_version of a request that is not stale: null for a new name.       *)
CurrentBase(key) == IF Latest(key) = 0 THEN None ELSE Latest(key)

-------------------------------------------------------------------------------
(* Index operations: appendToIndex, removeFromIndex, and the pruning of an *)
(* empty category from idx:categories.                                     *)

AddTo(list, entry) == [do |-> "add", list |-> list, entry |-> entry]
RemoveFrom(list, entry) == [do |-> "remove", list |-> list, entry |-> entry]

AddAll(kind, of, entry) == SetToSeq({AddTo(<<kind, k>>, entry) : k \in of})
RemoveAll(kind, of, entry) == SetToSeq({RemoveFrom(<<kind, k>>, entry) : k \in of})

(* What the lists of one kind need when `from` becomes `to`.               *)
DiffIndex(kind, from, to, entry) ==
  AddAll(kind, to \ from, entry) \o RemoveAll(kind, from \ to, entry)

IndexUnderCategory(c, p) == <<AddTo(<<"cat", c>>, p)>>

IndexAddCategory(c, p) == <<AddTo(<<"cat", c>>, p), AddTo(<<"categories">>, c)>>

IndexRemoveCategory(c, p) ==
  <<RemoveFrom(<<"cat", c>>, p), [do |-> "prune", list |-> <<"cat", c>>, entry |-> c]>>

IndexNew(kind, userKind, key) ==
  <<AddTo(<<kind>>, key), AddTo(<<userKind, key[1]>>, key)>>

(* What publishVersion and createFork do to the lists after putPackage.    *)
PackageIndexOps(p, old, prior, category, body) ==
  (IF old = None THEN IndexNew("packages", "user_packages", p) ELSE <<>>)
  \o IndexAddCategory(category, p)
  \o (IF old # None /\ old.category # category
      THEN IndexRemoveCategory(old.category, p) ELSE <<>>)
  \o DiffIndex("consumers", IF prior = None THEN {} ELSE prior.inputs, body.inputs, p)
  \o DiffIndex("producers", IF prior = None THEN {} ELSE prior.outputs, body.outputs, p)

TypeIndexOps(t, seen, prior, body) ==
  (IF seen = 0 THEN IndexNew("types", "user_types", t) ELSE <<>>)
  \o DiffIndex("aligned", IF prior = None THEN {} ELSE prior.aligned, body.aligned, t)

ExtendsOps(t, prior, body) ==
  (IF prior # None /\ prior.extends # None /\ prior.extends # body.extends
   THEN <<RemoveFrom(<<"extends", prior.extends>>, t)>> ELSE <<>>)
  \o (IF body.extends # None THEN <<AddTo(<<"extends", body.extends>>, t)>> ELSE <<>>)

-------------------------------------------------------------------------------
(* A request arrives: its handler reads the metadata and either answers or *)
(* goes on with what it has read.                                          *)

Arrive(w, r) ==
  LET others == {v \in Workers : Busy(v)}
      busy == UNION {Touches(req[v]) : v \in others}
  IN
  /\ req[w] = None /\ served < MaxRequests
  /\ req' = [req EXCEPT ![w] = r]
  /\ served' = served + 1
  /\ contended' = IF r.pc = "done" THEN contended
                  ELSE contended \cup (busy \cap Touches(r))
  /\ shared' = (shared \/ (r.pc # "done" /\ others # {}))
  /\ UNCHANGED <<store, acked, died>>

(* publishVersion up to its stale-base check.  A caller other than the     *)
(* author, and a recipe whose header has another name than the package,    *)
(* are refused before anything is read.                                    *)
Publish(w, p, body, base) ==
  LET r == Incoming("publish", p[1], p) IN
  /\ body.name = p[2] /\ Latest(p) < MaxVersion
  /\ Arrive(w, IF base = CurrentBase(p)
               THEN [r EXCEPT !.pc = "prior", !.body = body, !.seen = pkg[p]]
               ELSE [r EXCEPT !.status = "stale_base"])

(* addStar and removeStar.                                                 *)
Star(w, op, u, p) ==
  LET r == [Incoming(op, u, p) EXCEPT !.seen = pkg[p]] IN
  /\ op \in {"star", "unstar"}
  /\ Arrive(w, IF pkg[p] = None THEN [r EXCEPT !.status = "not_found"]
               ELSE [r EXCEPT !.pc = "starKey"])

(* recordDownload, which anybody may call.                                 *)
Download(w, p) ==
  LET r == [Incoming("download", p[1], p) EXCEPT !.seen = pkg[p]] IN
  Arrive(w, IF pkg[p] = None THEN [r EXCEPT !.status = "not_found"]
            ELSE [r EXCEPT !.pc = "bump"])

(* createFork of `up` as <<u, slug>>.  The recipe is copied as it is: the  *)
(* header of a renamed fork still has the upstream's name.                 *)
Fork(w, u, up, slug) ==
  LET r == [Incoming("fork", u, <<u, slug>>) EXCEPT !.upstream = up, !.seen = pkg[up]] IN
  Arrive(w, IF pkg[up] = None THEN [r EXCEPT !.status = "not_found"]
            ELSE [r EXCEPT !.pc = "forkRead"])

(* publishTypeVersion up to its stale-base check.  A body without the      *)
(* field `extends` does not validate: undefined is neither null nor an     *)
(* object.                                                                 *)
PublishType(w, t, body, base) ==
  LET r == Incoming("type", t[1], t) IN
  /\ Latest(t) < MaxVersion
  /\ Arrive(w, IF body.extends = Missing THEN [r EXCEPT !.status = "invalid"]
               ELSE IF base = CurrentBase(t)
               THEN [r EXCEPT !.pc = "hash", !.body = body, !.latest = typ[t]]
               ELSE [r EXCEPT !.status = "stale_base"])

-------------------------------------------------------------------------------
(* The steps of a request in flight.                                       *)

At(w, pc) == req[w] # None /\ req[w].pc = pc

Goto(w, r, pc) == req' = [req EXCEPT ![w] = [r EXCEPT !.pc = pc]]

Reply(w, r, status) ==
  req' = [req EXCEPT ![w] =
    [Incoming(r.op, r.user, r.key) EXCEPT !.status = status, !.version = r.version]]

Ack(r, version, fresh) ==
  acked' = acked \cup {[key |-> r.key, version |-> version,
                        body |-> r.body, fresh |-> fresh]}

(* getVersion of the prior latest, for the index diff.                     *)
PublishPrior(w) ==
  LET r == req[w] IN
  /\ At(w, "prior")
  /\ Goto(w, [r EXCEPT !.prior = IF r.seen = None THEN None
                                 ELSE ver[r.key][r.seen.latest]], "put")
  /\ UNCHANGED <<store, aux>>

NextOfSeen(r) == IF r.seen = None THEN 1 ELSE r.seen.latest + 1
SeenVersion(r) == IF r.op = "fork" \/ r.seen = None THEN 1 ELSE r.seen.latest

(* The version a publish or a fork writes.                                 *)
NextVersion(r) == IF r.op = "fork" \/ r.seen = None THEN 1 ELSE r.seen.latest + 1

PutVersion(w) ==
  LET r == req[w] IN
  /\ At(w, "put")
  /\ ver' = [ver EXCEPT ![r.key][NextVersion(r)] = r.body]
  /\ Goto(w, [r EXCEPT !.version = NextVersion(r)], "meta")
  /\ UNCHANGED <<pkg, typ, tver, thash, stars, idx, aux>>

NewMeta(category, forkedFrom) ==
  [latest |-> 1, category |-> category, stars |-> 0, downloads |-> 0,
   forks |-> 0, forkedFrom |-> forkedFrom]

(* putPackage writes the document whole: the counters and the lineage are  *)
(* those of the document read on arrival.                                  *)
PutMeta(w) ==
  LET r == req[w]
      old == IF r.op = "fork" THEN None ELSE r.seen
      meta == IF r.op = "fork" THEN NewMeta(r.seen.category, <<r.upstream, r.seen.latest>>)
              ELSE IF old = None THEN NewMeta(r.body.category, None)
              ELSE [old EXCEPT !.latest = r.version, !.category = r.body.category]
  IN
  /\ At(w, "meta")
  /\ pkg' = [pkg EXCEPT ![r.key] = meta]
  /\ Goto(w, [r EXCEPT !.todo =
       PackageIndexOps(r.key, old, r.prior, meta.category, r.body)], "index")
  /\ UNCHANGED <<ver, typ, tver, thash, stars, idx, aux>>

(* listIndex of the next operation's list.  An entry already there, or     *)
(* already gone, leaves nothing to write.                                  *)
IndexRead(w) ==
  LET r == req[w]
      h == Head(r.todo)
      rest == [r EXCEPT !.todo = Tail(@)]
      rewritten == IF h.do = "add" THEN idx[h.list] \cup {h.entry}
                   ELSE idx[h.list] \ {h.entry}
  IN
  /\ At(w, "index") \/ At(w, "links")
  /\ r.todo # <<>> /\ r.list = None
  /\ req' = [req EXCEPT ![w] =
       IF h.do = "prune"
       THEN IF idx[h.list] = {}
            THEN [rest EXCEPT !.todo = <<RemoveFrom(<<"categories">>, h.entry)>> \o @]
            ELSE rest
       ELSE IF rewritten = idx[h.list] THEN rest
       ELSE [r EXCEPT !.list = rewritten]]
  /\ UNCHANGED <<store, aux>>

(* The whole list is put back.                                             *)
IndexWrite(w) ==
  LET r == req[w] IN
  /\ At(w, "index") \/ At(w, "links")
  /\ r.list # None
  /\ idx' = [idx EXCEPT ![Head(r.todo).list] = r.list]
  /\ req' = [req EXCEPT ![w].todo = Tail(@), ![w].list = None]
  /\ UNCHANGED <<pkg, ver, typ, tver, thash, stars, aux>>

(* The indexes are done: a publish is answered, a fork bumps its upstream, *)
(* a type goes on to the extends index.                                    *)
IndexDone(w) ==
  LET r == req[w] IN
  /\ At(w, "index") \/ At(w, "links")
  /\ r.todo = <<>>
  /\ \/ /\ r.op = "fork"
        /\ Goto(w, r, "upstream") /\ UNCHANGED acked
     \/ /\ r.op = "type" /\ r.pc = "index"
        /\ Goto(w, r, "typeExtends") /\ UNCHANGED acked
     \/ /\ r.op = "publish" \/ r.pc = "links"
        /\ Reply(w, r, "created") /\ Ack(r, r.version, TRUE)
  /\ UNCHANGED <<store, served, contended, shared, died>>

StarAgain(w) ==
  At(w, "starKey") /\ Goto(w, req[w], "starPut") /\ UNCHANGED <<store, aux>>

(* putStar and deleteStar: the key is read, then both keys are written.    *)
StarKey(w) ==
  LET r == req[w]
      there == <<r.key, r.user>> \in stars
  IN
  /\ At(w, "starKey")
  /\ IF there <=> r.op = "star" THEN Reply(w, r, "ok") ELSE Goto(w, r, "starPut")
  /\ UNCHANGED <<store, aux>>

StarPut(w) ==
  LET r == req[w] IN
  /\ At(w, "starPut")
  /\ stars' = IF r.op = "star" THEN stars \cup {<<r.key, r.user>>}
              ELSE stars \ {<<r.key, r.user>>}
  /\ IF r.op = "star" \/ r.seen.stars > 0 THEN Goto(w, r, "starMeta")
     ELSE Reply(w, r, "ok")
  /\ UNCHANGED <<pkg, ver, typ, tver, thash, idx, aux>>

StarMeta(w) ==
  LET r == req[w] IN
  /\ At(w, "starMeta")
  /\ pkg' = [pkg EXCEPT ![r.key] =
       [r.seen EXCEPT !.stars = IF r.op = "star" THEN @ + 1 ELSE @ - 1]]
  /\ Reply(w, r, "ok")
  /\ UNCHANGED <<ver, typ, tver, thash, stars, idx, aux>>

DownloadPut(w) ==
  LET r == req[w] IN
  /\ At(w, "bump")
  /\ pkg' = [pkg EXCEPT ![r.key] = [r.seen EXCEPT !.downloads = @ + 1]]
  /\ Reply(w, r, "ok")
  /\ UNCHANGED <<ver, typ, tver, thash, stars, idx, aux>>

(* The upstream's latest artifact, then the checks on the new name.        *)
ForkRead(w) ==
  LET r == req[w]
      artifact == ver[r.upstream][r.seen.latest]
  IN
  /\ At(w, "forkRead")
  /\ IF artifact = None THEN Reply(w, r, "corrupt")
     ELSE IF r.key = r.upstream THEN Reply(w, r, "self_fork")
     ELSE Goto(w, [r EXCEPT !.body = artifact], "forkCheck")
  /\ UNCHANGED <<store, aux>>

ForkCheck(w) ==
  LET r == req[w] IN
  /\ At(w, "forkCheck")
  /\ IF pkg[r.key] # None THEN Reply(w, r, "already_exists") ELSE Goto(w, r, "put")
  /\ UNCHANGED <<store, aux>>

(* The upstream's document of the fork's arrival, with both counters up.   *)
ForkBump(w) ==
  LET r == req[w] IN
  /\ At(w, "upstream")
  /\ pkg' = [pkg EXCEPT ![r.upstream] =
               [r.seen EXCEPT !.forks = @ + 1, !.downloads = @ + 1]]
  /\ Reply(w, r, "created") /\ Ack(r, 1, TRUE)
  /\ UNCHANGED <<ver, typ, tver, thash, stars, idx, served, contended, shared, died>>

(* Content-hash dedup against the latest version.                          *)
TypeHash(w) ==
  LET r == req[w]
      dedup == thash[r.key][r.body.source]
  IN
  /\ At(w, "hash")
  /\ IF dedup = 0 \/ dedup # r.latest
     THEN Goto(w, r, "typePrior") /\ UNCHANGED acked
     ELSE IF tver[r.key][dedup] = None
     THEN Reply(w, r, "corrupt") /\ UNCHANGED acked
     ELSE /\ Reply(w, [r EXCEPT !.version = dedup], "deduped")
          /\ Ack(r, dedup, FALSE)
  /\ UNCHANGED <<store, served, contended, shared, died>>

TypeArtifact(r) == IF r.latest = 0 THEN None ELSE tver[r.key][r.latest]

TypePrior(w) ==
  LET r == req[w] IN
  /\ At(w, "typePrior")
  /\ Goto(w, [r EXCEPT !.prior = TypeArtifact(r)], "typePut")
  /\ UNCHANGED <<store, aux>>

TypePut(w) ==
  LET r == req[w] IN
  /\ At(w, "typePut")
  /\ tver' = [tver EXCEPT ![r.key][r.latest + 1] = r.body]
  /\ Goto(w, [r EXCEPT !.version = r.latest + 1], "typeHash")
  /\ UNCHANGED <<pkg, ver, typ, thash, stars, idx, aux>>

HashByName(w) ==
  /\ At(w, "typeHash")
  /\ thash' = [thash EXCEPT ![req[w].key] = [s \in Sources |-> req[w].version]]
  /\ Goto(w, req[w], "typeMeta")
  /\ UNCHANGED <<pkg, ver, typ, tver, stars, idx, aux>>

TypePutHash(w) ==
  LET r == req[w] IN
  /\ At(w, "typeHash")
  /\ thash' = [thash EXCEPT ![r.key][r.body.source] = r.version]
  /\ Goto(w, r, "typeMeta")
  /\ UNCHANGED <<pkg, ver, typ, tver, stars, idx, aux>>

TypeMeta(w) ==
  LET r == req[w] IN
  /\ At(w, "typeMeta")
  /\ typ' = [typ EXCEPT ![r.key] = r.version]
  /\ Goto(w, [r EXCEPT !.todo = TypeIndexOps(r.key, r.latest, r.prior, r.body)], "index")
  /\ UNCHANGED <<pkg, ver, tver, thash, stars, idx, aux>>

(* The prior artifact is read again for the extends index.                 *)
TypeExtends(w) ==
  LET r == req[w] IN
  /\ At(w, "typeExtends")
  /\ Goto(w, [r EXCEPT !.todo = ExtendsOps(r.key, TypeArtifact(r), r.body)], "links")
  /\ UNCHANGED <<store, aux>>

(* A put fails or the isolate goes away: what was put stays.               *)
Die(w) ==
  /\ Busy(w) /\ Cardinality(died) < MaxDied
  /\ req' = [req EXCEPT ![w] = None]
  /\ died' = died \cup Touches(req[w])
  /\ UNCHANGED <<store, served, acked, contended, shared>>

(* The reply leaves and the worker is free.                                *)
Deliver(w) ==
  /\ At(w, "done")
  /\ req' = [req EXCEPT ![w] = None]
  /\ UNCHANGED <<store, aux>>

-------------------------------------------------------------------------------

Init ==
  /\ pkg = [p \in Packages |-> None]
  /\ ver = [p \in Packages |-> [n \in Versions |-> None]]
  /\ typ = [t \in TypeKeys |-> 0]
  /\ tver = [t \in TypeKeys |-> [n \in Versions |-> None]]
  /\ thash = [t \in TypeKeys |-> [s \in Sources |-> 0]]
  /\ stars = {}
  /\ idx = [l \in Lists |-> {}]
  /\ req = [w \in Workers |-> None]
  /\ served = 0 /\ acked = {}
  /\ contended = {} /\ shared = FALSE /\ died = {}

Arrival(w) ==
  \/ \E p \in Packages, body \in Recipes, base \in Versions \cup {None} :
       Publish(w, p, body, base)
  \/ \E t \in TypeKeys, body \in TypeBodies, base \in Versions \cup {None} :
       PublishType(w, t, body, base)
  \/ \E p \in Packages : Download(w, p)
  \/ \E u \in Users, p \in Packages :
       \/ \E op \in {"star", "unstar"} : Star(w, op, u, p)
       \/ \E slug \in Slugs : <<u, slug>> \in Packages /\ Fork(w, u, p, slug)

Step(w) ==
  \/ PublishPrior(w) \/ PutVersion(w) \/ PutMeta(w)
  \/ IndexRead(w) \/ IndexWrite(w) \/ IndexDone(w)
  \/ StarKey(w) \/ StarPut(w) \/ StarMeta(w) \/ DownloadPut(w)
  \/ ForkRead(w) \/ ForkCheck(w) \/ ForkBump(w)
  \/ TypeHash(w) \/ TypePrior(w) \/ TypePut(w) \/ TypePutHash(w)
  \/ TypeMeta(w) \/ TypeExtends(w)

Next == \E w \in Workers : Arrival(w) \/ Step(w) \/ Die(w) \/ Deliver(w)

Spec == Init /\ [][Next]_vars

-------------------------------------------------------------------------------
(* What the hub promises.                                                  *)

(* Every version up to the latest can be fetched: listVersions skips none, *)
(* a fork never finds its upstream corrupt and the type-hash shortcut      *)
(* never points at nothing, whatever requests interleave and wherever they *)
(* die (the artifact is put before the metadata names it).                 *)
VersionsAreStored ==
  /\ \A k \in Keys : \A n \in 1..Latest(k) : Stored(k, n) # None
  /\ \A w \in Workers : req[w] # None => req[w].status # "corrupt"

(* A version that was acknowledged stays what was sent, and stays within   *)
(* the history of its name: no later publish, fork, star or download takes *)
(* it back, even when requests for other names interleave and requests of  *)
(* its own die.  Two requests for the name itself at once may break it.    *)
AcknowledgedStands ==
  \A a \in acked : a.fresh /\ a.key \notin contended =>
    a.version <= Latest(a.key) /\ Stored(a.key, a.version) = a.body

(* A publisher who is told "unchanged, reused version N" pins a version    *)
(* that has the source it sent.                                            *)
DedupIsSameSource ==
  \A a \in acked : ~a.fresh /\ a.key \notin contended \cup died =>
    tver[a.key][a.version].source = a.body.source

Quiet == \A w \in Workers : ~Busy(w)

DiscoverProducers(t) ==
  {p \in idx[<<"producers", t>>] : pkg[p] # None /\ ver[p][pkg[p].latest] # None}
DiscoverConsumers(t) ==
  {p \in idx[<<"consumers", t>>] : pkg[p] # None /\ ver[p][pkg[p].latest] # None}
ListPackages(category) == {p \in idx[<<"cat", category>>] : pkg[p] # None}

LatestArtifact(k) == Stored(k, Latest(k))
Published(k) == Latest(k) > 0

(* The indexes are the current canonical view: once no request is in       *)
(* flight, every package and type none of whose requests died is listed    *)
(* where its latest version says and nowhere else, as long as requests     *)
(* never overlapped; and no empty category is left over.                   *)
IndexesAreCanonical ==
  Quiet /\ ~shared =>
    /\ \A p \in Packages \ died :
         /\ p \in idx[<<"packages">>] <=> Published(p)
         /\ p \in idx[<<"user_packages", p[1]>>] <=> Published(p)
         /\ \A c \in Categories :
              p \in ListPackages(c) <=> Published(p) /\ pkg[p].category = c
         /\ \A t \in TypeKeys :
              /\ p \in DiscoverProducers(t) <=> Published(p) /\ t \in LatestArtifact(p).outputs
              /\ p \in DiscoverConsumers(t) <=> Published(p) /\ t \in LatestArtifact(p).inputs
    /\ \A t \in TypeKeys \ died :
         /\ t \in idx[<<"types">>] <=> Published(t)
         /\ t \in idx[<<"user_types", t[1]>>] <=> Published(t)
         /\ \A u \in AlignmentUris :
              t \in idx[<<"aligned", u>>] <=> Published(t) /\ u \in LatestArtifact(t).aligned
         /\ \A parent \in Pins :
              t \in idx[<<"extends", parent>>]
                <=> Published(t) /\ LatestArtifact(t).extends = parent
    /\ died = {} => idx[<<"categories">>] = {c \in Categories : ListPackages(c) # {}}

(* The star count is the number of users who star the package, and the     *)
(* fork count the number of forks that name it, whatever publishes, forks  *)
(* and downloads went on in between.                                       *)
StarsOf(p) == Cardinality({s \in stars : s[1] = p})
ForksOf(p) == Cardinality({q \in Packages : pkg[q] # None /\ pkg[q].forkedFrom # None
                                            /\ pkg[q].forkedFrom[1] = p})

CountersAgree ==
  Quiet => \A p \in Packages : Published(p) =>
    /\ p \notin contended \cup died => pkg[p].stars = StarsOf(p)
    /\ contended \cup died = {} => pkg[p].forks = ForksOf(p)
===============================================================================
