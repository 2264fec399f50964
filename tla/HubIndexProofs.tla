---------------------------- MODULE HubIndexProofs ----------------------------
(***************************************************************************)
(* The hub's index documents are the canonical view, for every set of      *)
(* packages, types, users and categories.                                  *)
(*                                                                         *)
(* As long as requests never overlapped, the only difference between the   *)
(* lists and what the latest versions say is the work the one request in   *)
(* flight still has on them; and what it has left to add belongs there,    *)
(* what it has left to remove does not.                                    *)
(***************************************************************************)
EXTENDS HubProofs

-------------------------------------------------------------------------------
(* The inductive invariant.                                                *)

(* The lists where a document of a package, or a type, puts it.            *)
PackagePlaces(p, category, body) ==
  {<<"packages">>, <<"user_packages", p[1]>>, <<"cat", category>>}
  \cup {<<"producers", t>> : t \in body.outputs} \cup {<<"consumers", t>> : t \in body.inputs}
TypePlaces(t, body) ==
  {<<"types">>, <<"user_types", t[1]>>}
  \cup {<<"aligned", u>> : u \in body.aligned} \cup {<<"extends", e>> : e \in {body.extends} \ {None}}

Places(k) ==
  IF ~Published(k) THEN {}
  ELSE IF k \in TypeKeys THEN TypePlaces(k, LatestArtifact(k))
  ELSE PackagePlaces(k, pkg[k].category, LatestArtifact(k))

Inhabited(c) == \E p \in Packages : <<"cat", c>> \in Places(p)

(* The work on lists that a request has left.                              *)
ExtendsAhead(r) == r.op = "type" /\ r.pc \in {"index", "typeExtends"}
Work(r) ==
  ToSet(r.todo)
  \cup (IF ExtendsAhead(r) THEN ToSet(ExtendsOps(r.key, TypeArtifact(r), r.body)) ELSE {})

Pending == UNION {Work(req[w]) : w \in {v \in Workers : Busy(v)}}

Apt(o) ==
  /\ o.do # "prune" /\ o.list # <<"categories">> =>
       o.entry \in Keys /\ (o.do = "add" <=> o.list \in Places(o.entry))
  /\ o.list = <<"categories">> =>
       /\ o.do # "prune" /\ o.entry \in Categories
       /\ o.do = "add" => Inhabited(o.entry)
       /\ o.do = "remove" /\ died = {} => ~Inhabited(o.entry)
  /\ o.do = "prune" => o.list = <<"cat", o.entry>>

(* A category is looked at for packages after the work on its list.        *)
PrunesLast(todo) ==
  \A i, j \in DOMAIN todo : i < j /\ todo[i].do = "prune" => todo[j].list # todo[i].list

Rewritten(o) == IF o.do = "add" THEN idx[o.list] \cup {o.entry} ELSE idx[o.list] \ {o.entry}

(* What the request in flight knows: the artifact its diff starts from,    *)
(* and that the list it holds is still the one it read.                    *)
KnowsPrior(r) ==
  /\ r.op = "publish" /\ r.pc \in {"put", "meta"} =>
       r.prior = IF r.seen = None THEN None ELSE ver[r.key][r.seen.latest]
  /\ r.op = "fork" => r.prior = None
  /\ r.op = "type" /\ r.pc \in {"typePut", "typeHash", "typeMeta"} => r.prior = TypeArtifact(r)

Knows(r) ==
  /\ KnowsPrior(r)
  /\ r.pc \notin {"index", "links"} => r.todo = <<>>
  /\ r.list # None => r.todo # <<>> /\ Head(r.todo).do # "prune" /\ r.list = Rewritten(Head(r.todo))
  /\ PrunesLast(r.todo)
  /\ \A o \in Work(r) :
       IF o.do = "prune" THEN r.op # "type" ELSE o.list = <<"categories">> \/ o.entry = r.key

Listed(l, k) ==
  \/ k \in idx[l] <=> l \in Places(k)
  \/ \E o \in Pending : o.do # "prune" /\ o.list = l /\ o.entry = k

Categorized(c) ==
  /\ Inhabited(c) /\ c \notin idx[<<"categories">>] => AddTo(<<"categories">>, c) \in Pending
  /\ c \in idx[<<"categories">>] /\ ~Inhabited(c) =>
       \E o \in Pending : o.entry = c /\ (o.do = "prune" \/ o = RemoveFrom(<<"categories">>, c))

Solo == contended = {} /\ \A v, w \in Workers : Busy(v) /\ Busy(w) => v = w

IndexInv ==
  ~shared =>
    /\ Solo
    /\ \A w \in Workers : Busy(w) => Knows(req[w])
    /\ \A o \in Pending : Apt(o)
    /\ \A k \in Keys \ died, l \in Lists \ {<<"categories">>} : Listed(l, k)
    /\ idx[<<"categories">>] \subseteq Categories /\ \A c \in Categories : idx[<<"cat", c>>] \subseteq Packages
    /\ died = {} => \A c \in Categories : Categorized(c)

(* Sequences of work as sets.                                              *)
LEMMA ToSetConcat ==
  ASSUME NEW S, NEW s \in Seq(S), NEW t \in Seq(S)
  PROVE  ToSet(s \o t) = ToSet(s) \cup ToSet(t)
<1>1. PICK u : u = s \o t
  OBVIOUS
<1>2. /\ DOMAIN u = 1..(Len(s) + Len(t)) /\ DOMAIN s = 1..Len(s) /\ DOMAIN t = 1..Len(t)
      /\ Len(s) \in Nat /\ Len(t) \in Nat
      /\ \A i \in 1..Len(s) : u[i] = s[i]
      /\ \A i \in 1..Len(t) : u[Len(s) + i] = t[i]
  BY <1>1
<1>3. \A i \in 1..Len(t) : Len(s) + i \in DOMAIN u
  BY <1>2
<1>4. \A i \in DOMAIN u : i \in 1..Len(s) \/ (i - Len(s) \in 1..Len(t) /\ u[i] = t[i - Len(s)])
  <2>1. ASSUME NEW i \in DOMAIN u, i \notin 1..Len(s)
        PROVE  i - Len(s) \in 1..Len(t) /\ u[i] = t[i - Len(s)]
    <3>1. i \in Int /\ i - Len(s) \in 1..Len(t) /\ Len(s) + (i - Len(s)) = i
      BY <1>2, <2>1
    <3> QED BY <1>2, <3>1
  <2> QED BY <2>1
<1>5. \A i \in 1..Len(s) : i \in DOMAIN u
  BY <1>2
<1>6. ToSet(u) = ToSet(s) \cup ToSet(t)
  <2>1. \A x : x \in ToSet(u) => x \in ToSet(s) \cup ToSet(t)
    BY <1>2, <1>4 DEF ToSet
  <2>2. \A x : x \in ToSet(s) => x \in ToSet(u)
    BY <1>2, <1>5 DEF ToSet
  <2>3. \A x : x \in ToSet(t) => x \in ToSet(u)
    BY <1>2, <1>3 DEF ToSet
  <2> QED BY <2>1, <2>2, <2>3
<1> QED BY <1>1, <1>6

LEMMA ToSetOfSet ==
  ASSUME NEW S, IsFiniteSet(S)
  PROVE  ToSet(SetToSeq(S)) = S
<1> DEFINE n == Cardinality(S)
<1>1. n \in Nat /\ ExistsBijection(1..n, S)
  BY FS_CardinalityType
<1>2. PICK f : f \in Bijection(1..n, S)
  BY <1>1 DEF ExistsBijection
<1>3. f \in [1..n -> S] /\ IsInjective(f)
  BY <1>2 DEF Bijection, Injection, IsInjective
<1>4. SetToSeq(S) \in [1..n -> S] /\ IsInjective(SetToSeq(S))
  BY <1>3 DEF SetToSeq
<1>5. Cardinality(1..n) = n
  BY <1>1, FS_Interval
<1>6. SetToSeq(S) \in Injection(1..n, S)
  BY <1>4 DEF Injection, IsInjective
<1>7. SetToSeq(S) \in Surjection(1..n, S)
  BY <1>5, <1>6, FS_Injection
<1> HIDE DEF n
<1> QED BY <1>4, <1>7 DEF Surjection, ToSet

LEMMA AllWork ==
  ASSUME NEW kind, NEW of, NEW entry, IsFiniteSet(of)
  PROVE  /\ \A o : o \in ToSet(AddAll(kind, of, entry)) <=> (\E k \in of : o = AddTo(<<kind, k>>, entry))
         /\ \A o : o \in ToSet(RemoveAll(kind, of, entry)) <=> (\E k \in of : o = RemoveFrom(<<kind, k>>, entry))
<1>1. PICK f : f = [k \in of |-> AddTo(<<kind, k>>, entry)]
  OBVIOUS
<1>2. DOMAIN f = of /\ {f[x] : x \in of} = {AddTo(<<kind, k>>, entry) : k \in of}
  BY <1>1
<1>3. IsFiniteSet({f[x] : x \in of})
  BY <1>2, ImageFinite
<1>4. PICK g : g = [k \in of |-> RemoveFrom(<<kind, k>>, entry)]
  OBVIOUS
<1>5. DOMAIN g = of /\ {g[x] : x \in of} = {RemoveFrom(<<kind, k>>, entry) : k \in of}
  BY <1>4
<1>6. IsFiniteSet({g[x] : x \in of})
  BY <1>5, ImageFinite
<1>7. ToSet(AddAll(kind, of, entry)) = {f[x] : x \in of} /\ ToSet(RemoveAll(kind, of, entry)) = {g[x] : x \in of}
  BY <1>2, <1>3, <1>5, <1>6, ToSetOfSet DEF AddAll, RemoveAll
<1> QED BY <1>1, <1>4, <1>7

LEMMA DiffWork ==
  ASSUME NEW kind, NEW from, NEW to, NEW entry \in Entries, IsFiniteSet(from), IsFiniteSet(to),
         \A k \in from \cup to : <<kind, k>> \in Lists,
         NEW o
  PROVE  o \in ToSet(DiffIndex(kind, from, to, entry)) <=>
              \/ \E k \in to \ from : o = AddTo(<<kind, k>>, entry)
              \/ \E k \in from \ to : o = RemoveFrom(<<kind, k>>, entry)
<1>1. PICK new, gone : new = to \ from /\ gone = from \ to
  OBVIOUS
<1>2. IsFiniteSet(new) /\ IsFiniteSet(gone) /\ \A k \in new \cup gone : <<kind, k>> \in Lists
  BY <1>1, FS_Subset
<1>3. PICK a, b : a = AddAll(kind, new, entry) /\ b = RemoveAll(kind, gone, entry)
  OBVIOUS
<1>4. a \in Seq(ListOp) /\ b \in Seq(ListOp)
  BY <1>2, <1>3, AllType
<1>5. ToSet(a \o b) = ToSet(a) \cup ToSet(b)
  BY <1>4, ToSetConcat
<1>6. \A x : x \in ToSet(a) <=> \E k \in new : x = AddTo(<<kind, k>>, entry)
  <2>1. IsFiniteSet(new)
    BY <1>2
  <2>2. \A x : x \in ToSet(AddAll(kind, new, entry)) <=> \E k \in new : x = AddTo(<<kind, k>>, entry)
    BY <2>1, AllWork
  <2> QED BY <1>3, <2>2
<1>7. \A x : x \in ToSet(b) <=> \E k \in gone : x = RemoveFrom(<<kind, k>>, entry)
  <2>1. IsFiniteSet(gone)
    BY <1>2
  <2>2. \A x : x \in ToSet(RemoveAll(kind, gone, entry)) <=> \E k \in gone : x = RemoveFrom(<<kind, k>>, entry)
    BY <2>1, AllWork
  <2> QED BY <1>3, <2>2
<1>8. DiffIndex(kind, from, to, entry) = a \o b
  BY <1>1, <1>3 DEF DiffIndex
<1> QED BY <1>1, <1>5, <1>6, <1>7, <1>8

LEMMA PairSet ==
  ASSUME NEW x, NEW y
  PROVE  ToSet(<<x, y>>) = {x, y} /\ ToSet(<<x>>) = {x} /\ ToSet(<< >>) = {}
<1>1. PICK s, t, e : s = <<x, y>> /\ t = <<x>> /\ e = << >>
  OBVIOUS
<1>2. DOMAIN s = {1, 2} /\ s[1] = x /\ s[2] = y /\ DOMAIN t = {1} /\ t[1] = x /\ DOMAIN e = {}
  BY <1>1
<1> QED BY <1>1, <1>2 DEF ToSet

LEMMA NoPrunes ==
  ASSUME NEW s, \A o \in ToSet(s) : o.do # "prune"
  PROVE  PrunesLast(s)
BY DEF PrunesLast, ToSet

LEMMA PrunesConcat ==
  ASSUME NEW S, NEW s \in Seq(S), NEW t \in Seq(S), PrunesLast(s), PrunesLast(t),
         \A x \in ToSet(s), y \in ToSet(t) : x.do = "prune" => y.list # x.list
  PROVE  PrunesLast(s \o t)
<1>1. PICK u, n : u = s \o t /\ n = Len(s)
  OBVIOUS
<1>2. /\ n \in Nat /\ DOMAIN s = 1..n /\ DOMAIN t = 1..Len(t) /\ Len(t) \in Nat
      /\ DOMAIN u = 1..(n + Len(t))
      /\ \A i \in 1..n : u[i] = s[i]
      /\ \A i \in DOMAIN u : i \notin 1..n => i - n \in DOMAIN t /\ u[i] = t[i - n]
  BY <1>1
<1>3. ASSUME NEW i \in DOMAIN u, NEW j \in DOMAIN u, i < j, u[i].do = "prune" PROVE u[j].list # u[i].list
  <2>1. CASE j \in 1..n
    <3>1. i \in 1..n
      BY <1>2, <1>3, <2>1
    <3> QED BY <1>2, <1>3, <2>1, <3>1 DEF PrunesLast
  <2>2. CASE i \in 1..n /\ j \notin 1..n
    <3>1. u[i] \in ToSet(s) /\ u[j] \in ToSet(t)
      BY <1>2, <2>2 DEF ToSet
    <3> QED BY <1>3, <3>1
  <2>3. CASE i \notin 1..n /\ j \notin 1..n
    <3>1. i - n \in DOMAIN t /\ j - n \in DOMAIN t /\ i - n < j - n
      BY <1>2, <1>3, <2>3
    <3> QED BY <1>2, <1>3, <2>3, <3>1 DEF PrunesLast
  <2> QED BY <1>2, <1>3, <2>1, <2>2, <2>3
<1> QED BY <1>1, <1>3 DEF PrunesLast

LEMMA PlaceOfPackage ==
  ASSUME NEW p, NEW c, NEW body
  PROVE  /\ \A l : l \in PackagePlaces(p, c, body) <=>
              \/ l = <<"packages">> \/ l = <<"user_packages", p[1]>> \/ l = <<"cat", c>>
              \/ \E k \in body.outputs : l = <<"producers", k>>
              \/ \E k \in body.inputs : l = <<"consumers", k>>
         /\ \A k : /\ <<"consumers", k>> \in PackagePlaces(p, c, body) <=> k \in body.inputs
                   /\ <<"producers", k>> \in PackagePlaces(p, c, body) <=> k \in body.outputs
                   /\ <<"cat", k>> \in PackagePlaces(p, c, body) <=> k = c
                   /\ <<"user_packages", k>> \in PackagePlaces(p, c, body) <=> k = p[1]
         /\ <<"packages">> \in PackagePlaces(p, c, body)
         /\ <<"categories">> \notin PackagePlaces(p, c, body)
         /\ \A k : <<"consumers", k>> # <<"categories">> /\ <<"producers", k>> # <<"categories">>
                   /\ <<"cat", k>> # <<"categories">> /\ <<"user_packages", k>> # <<"categories">>
         /\ <<"packages">> # <<"categories">>
<1>1. \A l : l \in PackagePlaces(p, c, body) <=>
              \/ l = <<"packages">> \/ l = <<"user_packages", p[1]>> \/ l = <<"cat", c>>
              \/ \E k \in body.outputs : l = <<"producers", k>>
              \/ \E k \in body.inputs : l = <<"consumers", k>>
  BY DEF PackagePlaces
<1>2. \A x, y, z : /\ <<x>> # <<y, z>>
                   /\ \A u : <<x, u>> = <<y, z>> <=> x = y /\ u = z
                   /\ <<x>> = <<y>> <=> x = y
  OBVIOUS
<1> QED BY <1>1, <1>2

LEMMA OpsTyped ==
  ASSUME NEW l \in Lists, NEW e \in Entries
  PROVE  AddTo(l, e) \in ListOp /\ RemoveFrom(l, e) \in ListOp /\ [do |-> "prune", list |-> l, entry |-> e] \in ListOp
BY DEF AddTo, RemoveFrom, ListOp

LEMMA PairOps ==
  ASSUME NEW x \in ListOp, NEW y \in ListOp
  PROVE  <<x, y>> \in Seq(ListOp) /\ <<x>> \in Seq(ListOp) /\ << >> \in Seq(ListOp)
OBVIOUS

LEMMA OpsConcat ==
  ASSUME NEW s \in Seq(ListOp), NEW t \in Seq(ListOp)
  PROVE  s \o t \in Seq(ListOp) /\ ToSet(s \o t) = ToSet(s) \cup ToSet(t)
BY ToSetConcat

(* What publishVersion and createFork have to do to the lists: to add what *)
(* is new, to remove what is gone, and to look at the category left.       *)
PackagePlan(p, old, category, ops, before, after) ==
  /\ \A o \in ToSet(ops) :
       \/ o.do = "add" /\ o.entry = p /\ o.list \in after /\ o.list # <<"categories">>
       \/ o.do = "remove" /\ o.entry = p /\ o.list \notin after /\ o.list # <<"categories">>
       \/ o = AddTo(<<"categories">>, category)
       \/ old # None /\ o.do = "prune" /\ o.entry = old.category /\ o.list = <<"cat", old.category>>
  /\ \A l \in (after \ before) \cup (before \ after) :
       \E o \in ToSet(ops) : o.do # "prune" /\ o.list = l /\ o.entry = p
  /\ AddTo(<<"categories">>, category) \in ToSet(ops)
  /\ old # None /\ old.category # category => \E o \in ToSet(ops) : o.do = "prune" /\ o.entry = old.category
  /\ PrunesLast(ops)

LEMMA PackageWork ==
  ASSUME NEW p \in Packages, NEW old, old # None => old \in Meta,
         NEW prior \in Recipes \cup {None}, prior = None <=> old = None,
         NEW category \in Categories, NEW body \in Recipes,
         NEW ops, ops = PackageIndexOps(p, old, prior, category, body),
         NEW before, before = IF old = None THEN {} ELSE PackagePlaces(p, old.category, prior),
         NEW after, after = PackagePlaces(p, category, body)
  PROVE  PackagePlan(p, old, category, ops, before, after)
<1>1. PICK ins, outs : /\ ins = IF prior = None THEN {} ELSE prior.inputs
                       /\ outs = IF prior = None THEN {} ELSE prior.outputs
  OBVIOUS
<1>2. PICK a, b, c, d, e :
        /\ a = IF old = None THEN IndexNew("packages", "user_packages", p) ELSE <<>>
        /\ b = IndexAddCategory(category, p)
        /\ c = IF old # None /\ old.category # category THEN IndexRemoveCategory(old.category, p) ELSE <<>>
        /\ d = DiffIndex("consumers", ins, body.inputs, p)
        /\ e = DiffIndex("producers", outs, body.outputs, p)
  OBVIOUS
<1>3. ops = a \o b \o c \o d \o e
  BY <1>1, <1>2 DEF PackageIndexOps
<1>4. p \in Entries /\ category \in Entries /\ p[1] \in Users
  BY HubAssumption DEF Entries, Keys
<1>5. /\ <<"packages">> \in Lists /\ <<"categories">> \in Lists /\ <<"user_packages", p[1]>> \in Lists
      /\ \A x \in Categories : <<"cat", x>> \in Lists
      /\ \A t \in TypeKeys : <<"consumers", t>> \in Lists /\ <<"producers", t>> \in Lists
  BY <1>4 DEF Lists
<1>6. /\ IsFiniteSet(ins) /\ ins \subseteq TypeKeys /\ IsFiniteSet(outs) /\ outs \subseteq TypeKeys
      /\ IsFiniteSet(body.inputs) /\ body.inputs \subseteq TypeKeys
      /\ IsFiniteSet(body.outputs) /\ body.outputs \subseteq TypeKeys
  <2>1. \A r \in Recipes : /\ IsFiniteSet(r.inputs) /\ r.inputs \subseteq TypeKeys
                           /\ IsFiniteSet(r.outputs) /\ r.outputs \subseteq TypeKeys
    BY HubAssumption
  <2>2. IsFiniteSet({})
    BY FS_EmptySet
  <2> QED BY <1>1, <2>1, <2>2
<1>7. /\ a \in Seq(ListOp) /\ b \in Seq(ListOp) /\ c \in Seq(ListOp) /\ d \in Seq(ListOp) /\ e \in Seq(ListOp)
  <2>1. old # None => old.category \in Categories /\ old.category \in Entries
    BY DEF Meta, Entries
  <2>2. a \in Seq(ListOp) /\ b \in Seq(ListOp)
    <3>1. /\ AddTo(<<"packages">>, p) \in ListOp /\ AddTo(<<"user_packages", p[1]>>, p) \in ListOp
          /\ AddTo(<<"cat", category>>, p) \in ListOp /\ AddTo(<<"categories">>, category) \in ListOp
      BY <1>4, <1>5, OpsTyped
    <3> QED BY <1>2, <3>1, PairOps DEF IndexNew, IndexAddCategory
  <2>3. c \in Seq(ListOp)
    <3>1. CASE old # None /\ old.category # category
      <4>1. /\ RemoveFrom(<<"cat", old.category>>, p) \in ListOp
            /\ [do |-> "prune", list |-> <<"cat", old.category>>, entry |-> old.category] \in ListOp
        BY <1>4, <1>5, <2>1, <3>1, OpsTyped
      <4> QED BY <1>2, <3>1, <4>1, PairOps DEF IndexRemoveCategory
    <3>2. CASE ~(old # None /\ old.category # category)
      BY <1>2, <3>2
    <3> QED BY <3>1, <3>2
  <2>4. d \in Seq(ListOp) /\ e \in Seq(ListOp)
    <3>1. /\ \A k \in ins \cup body.inputs : <<"consumers", k>> \in Lists
          /\ \A k \in outs \cup body.outputs : <<"producers", k>> \in Lists
      BY <1>5, <1>6
    <3> QED BY <1>2, <1>4, <1>6, <3>1, DiffIndexType
  <2> QED BY <2>2, <2>3, <2>4
<1>8. /\ ToSet(a) = IF old = None THEN {AddTo(<<"packages">>, p), AddTo(<<"user_packages", p[1]>>, p)} ELSE {}
      /\ ToSet(b) = {AddTo(<<"cat", category>>, p), AddTo(<<"categories">>, category)}
      /\ ToSet(c) = IF old # None /\ old.category # category
                    THEN {RemoveFrom(<<"cat", old.category>>, p),
                          [do |-> "prune", list |-> <<"cat", old.category>>, entry |-> old.category]}
                    ELSE {}
  BY <1>2, PairSet DEF IndexNew, IndexAddCategory, IndexRemoveCategory
<1>9. /\ \A o : o \in ToSet(d) <=> \/ \E k \in body.inputs \ ins : o = AddTo(<<"consumers", k>>, p)
                                   \/ \E k \in ins \ body.inputs : o = RemoveFrom(<<"consumers", k>>, p)
      /\ \A o : o \in ToSet(e) <=> \/ \E k \in body.outputs \ outs : o = AddTo(<<"producers", k>>, p)
                                   \/ \E k \in outs \ body.outputs : o = RemoveFrom(<<"producers", k>>, p)
  <2>1. /\ \A k \in ins \cup body.inputs : <<"consumers", k>> \in Lists
        /\ \A k \in outs \cup body.outputs : <<"producers", k>> \in Lists
    BY <1>5, <1>6
  <2>2. \A o : o \in ToSet(d) <=> \/ \E k \in body.inputs \ ins : o = AddTo(<<"consumers", k>>, p)
                                  \/ \E k \in ins \ body.inputs : o = RemoveFrom(<<"consumers", k>>, p)
    <3>1. PICK to, kind : to = body.inputs /\ kind = "consumers"
      OBVIOUS
    <3>2. d = DiffIndex(kind, ins, to, p)
      BY <1>2, <1>6, <2>1, <3>1
    <3>3. IsFiniteSet(ins) /\ IsFiniteSet(to)
      BY <1>2, <1>6, <2>1, <3>1
    <3>4. \A k \in ins \cup to : <<kind, k>> \in Lists
      BY <1>2, <1>6, <2>1, <3>1
    <3>5. \A o : o \in ToSet(d) <=> \/ \E k \in to \ ins : o = AddTo(<<kind, k>>, p)
                                    \/ \E k \in ins \ to : o = RemoveFrom(<<kind, k>>, p)
      BY <1>4, <3>2, <3>3, <3>4, DiffWork
    <3> QED BY <3>1, <3>5
  <2>3. \A o : o \in ToSet(e) <=> \/ \E k \in body.outputs \ outs : o = AddTo(<<"producers", k>>, p)
                                  \/ \E k \in outs \ body.outputs : o = RemoveFrom(<<"producers", k>>, p)
    <3>1. PICK to, kind : to = body.outputs /\ kind = "producers"
      OBVIOUS
    <3>2. e = DiffIndex(kind, outs, to, p)
      BY <1>2, <1>6, <2>1, <3>1
    <3>3. IsFiniteSet(outs) /\ IsFiniteSet(to)
      BY <1>2, <1>6, <2>1, <3>1
    <3>4. \A k \in outs \cup to : <<kind, k>> \in Lists
      BY <1>2, <1>6, <2>1, <3>1
    <3>5. \A o : o \in ToSet(e) <=> \/ \E k \in to \ outs : o = AddTo(<<kind, k>>, p)
                                    \/ \E k \in outs \ to : o = RemoveFrom(<<kind, k>>, p)
      BY <1>4, <3>2, <3>3, <3>4, DiffWork
    <3> QED BY <3>1, <3>5
  <2> QED BY <2>2, <2>3
<1>10. PICK ab, abc, abcd : ab = a \o b /\ abc = ab \o c /\ abcd = abc \o d /\ ops = abcd \o e
  BY <1>3
<1>11. ab \in Seq(ListOp) /\ abc \in Seq(ListOp) /\ abcd \in Seq(ListOp)
  BY <1>7, <1>10
<1>12. ToSet(ops) = ToSet(a) \cup ToSet(b) \cup ToSet(c) \cup ToSet(d) \cup ToSet(e)
  <2>1. ToSet(ab) = ToSet(a) \cup ToSet(b)
    BY <1>7, <1>10, OpsConcat
  <2>2. ToSet(abc) = ToSet(ab) \cup ToSet(c)
    BY <1>7, <1>10, <1>11, OpsConcat
  <2>3. ToSet(abcd) = ToSet(abc) \cup ToSet(d)
    BY <1>7, <1>10, <1>11, OpsConcat
  <2>4. ToSet(ops) = ToSet(abcd) \cup ToSet(e)
    <3>1. ToSet(abcd \o e) = ToSet(abcd) \cup ToSet(e)
      BY <1>7, <1>11, OpsConcat
    <3> QED BY <1>10, <3>1
  <2> QED BY <2>1, <2>2, <2>3, <2>4
<1>13. /\ \A k : /\ <<"consumers", k>> \in after <=> k \in body.inputs
                 /\ <<"producers", k>> \in after <=> k \in body.outputs
                 /\ <<"cat", k>> \in after <=> k = category
       /\ <<"packages">> \in after /\ <<"user_packages", p[1]>> \in after
       /\ <<"categories">> \notin after
       /\ \A k : <<"consumers", k>> # <<"categories">> /\ <<"producers", k>> # <<"categories">>
                 /\ <<"cat", k>> # <<"categories">> /\ <<"user_packages", k>> # <<"categories">>
       /\ <<"packages">> # <<"categories">>
  BY PlaceOfPackage
<1>14. \A l : l \in after <=>
         \/ l = <<"packages">> \/ l = <<"user_packages", p[1]>> \/ l = <<"cat", category>>
         \/ \E k \in body.outputs : l = <<"producers", k>>
         \/ \E k \in body.inputs : l = <<"consumers", k>>
  BY PlaceOfPackage
<1>15. \A l : l \in before <=> old # None /\
         (\/ l = <<"packages">> \/ l = <<"user_packages", p[1]>> \/ l = <<"cat", old.category>>
          \/ \E k \in outs : l = <<"producers", k>>
          \/ \E k \in ins : l = <<"consumers", k>>)
  BY <1>1, PlaceOfPackage
<1>16. /\ \A l : /\ AddTo(l, p).do = "add" /\ AddTo(l, p).entry = p /\ AddTo(l, p).list = l
                 /\ RemoveFrom(l, p).do = "remove" /\ RemoveFrom(l, p).entry = p /\ RemoveFrom(l, p).list = l
       /\ AddTo(<<"categories">>, category).do = "add"
  BY DEF AddTo, RemoveFrom
<1>17. ASSUME NEW o \in ToSet(ops)
       PROVE  \/ o.do = "add" /\ o.entry = p /\ o.list \in after /\ o.list # <<"categories">>
              \/ o.do = "remove" /\ o.entry = p /\ o.list \notin after /\ o.list # <<"categories">>
              \/ o = AddTo(<<"categories">>, category)
              \/ old # None /\ o.do = "prune" /\ o.entry = old.category /\ o.list = <<"cat", old.category>>
  <2>1. ASSUME NEW l, o = AddTo(l, p), l \in after PROVE o.do = "add" /\ o.entry = p /\ o.list \in after /\ o.list # <<"categories">>
    BY <1>13, <1>16, <2>1
  <2>2. ASSUME NEW l, o = RemoveFrom(l, p), l \notin after, l # <<"categories">>
        PROVE  o.do = "remove" /\ o.entry = p /\ o.list \notin after /\ o.list # <<"categories">>
    BY <1>16, <2>2
  <2>3. CASE o \in ToSet(a)
    <3>1. o = AddTo(<<"packages">>, p) \/ o = AddTo(<<"user_packages", p[1]>>, p)
      BY <1>8, <2>3
    <3> QED BY <1>13, <2>1, <3>1
  <2>4. CASE o \in ToSet(b)
    <3>1. o = AddTo(<<"cat", category>>, p) \/ o = AddTo(<<"categories">>, category)
      BY <1>8, <2>4
    <3>2. <<"cat", category>> \in after
      BY <1>13
    <3> QED BY <2>1, <3>1, <3>2
  <2>5. CASE o \in ToSet(c)
    <3>1. /\ old # None /\ old.category # category
          /\ \/ o = RemoveFrom(<<"cat", old.category>>, p)
             \/ o = [do |-> "prune", list |-> <<"cat", old.category>>, entry |-> old.category]
      BY <1>8, <2>5
    <3>2. <<"cat", old.category>> \notin after /\ <<"cat", old.category>> # <<"categories">>
      BY <1>13, <3>1
    <3>3. CASE o = RemoveFrom(<<"cat", old.category>>, p)
      BY <2>2, <3>2, <3>3
    <3>4. CASE o = [do |-> "prune", list |-> <<"cat", old.category>>, entry |-> old.category]
      BY <3>1, <3>4
    <3> QED BY <3>1, <3>3, <3>4
  <2>6. CASE o \in ToSet(d)
    <3>1. CASE \E k \in body.inputs \ ins : o = AddTo(<<"consumers", k>>, p)
      BY <1>13, <2>1, <3>1
    <3>2. CASE \E k \in ins \ body.inputs : o = RemoveFrom(<<"consumers", k>>, p)
      BY <1>13, <2>2, <3>2
    <3> QED BY <1>9, <2>6, <3>1, <3>2
  <2>7. CASE o \in ToSet(e)
    <3>1. CASE \E k \in body.outputs \ outs : o = AddTo(<<"producers", k>>, p)
      BY <1>13, <2>1, <3>1
    <3>2. CASE \E k \in outs \ body.outputs : o = RemoveFrom(<<"producers", k>>, p)
      BY <1>13, <2>2, <3>2
    <3> QED BY <1>9, <2>7, <3>1, <3>2
  <2> QED BY <1>12, <1>17, <2>3, <2>4, <2>5, <2>6, <2>7
<1>18. ASSUME NEW l \in (after \ before) \cup (before \ after)
       PROVE  \E o \in ToSet(ops) : o.do # "prune" /\ o.list = l /\ o.entry = p
  <2>1. AddTo(l, p) \in ToSet(ops) \/ RemoveFrom(l, p) \in ToSet(ops)
    <3>1. CASE l = <<"packages">> \/ l = <<"user_packages", p[1]>>
      <4>1. old = None
        BY <1>14, <1>15, <1>18, <3>1
      <4> QED BY <1>8, <1>12, <3>1, <4>1
    <3>2. CASE \E k : l = <<"cat", k>>
      <4>1. PICK k : l = <<"cat", k>>
        BY <3>2
      <4>2. k = category \/ (old # None /\ k = old.category /\ k # category)
        <5>1. <<"cat", k>> \in before => old # None /\ k = old.category
          BY PlaceOfPackage
        <5> QED BY <1>13, <1>18, <4>1, <5>1
      <4> QED BY <1>8, <1>12, <4>1, <4>2
    <3>3. CASE \E k : l = <<"consumers", k>>
      <4>1. PICK k : l = <<"consumers", k>>
        BY <3>3
      <4>2. k \in (body.inputs \ ins) \cup (ins \ body.inputs)
        <5>1. <<"consumers", k>> \in before <=> k \in ins
          BY <1>1, PlaceOfPackage
        <5> QED BY <1>13, <1>18, <4>1, <5>1
      <4> QED BY <1>9, <1>12, <4>1, <4>2
    <3>4. CASE \E k : l = <<"producers", k>>
      <4>1. PICK k : l = <<"producers", k>>
        BY <3>4
      <4>2. k \in (body.outputs \ outs) \cup (outs \ body.outputs)
        <5>1. <<"producers", k>> \in before <=> k \in outs
          BY <1>1, PlaceOfPackage
        <5> QED BY <1>13, <1>18, <4>1, <5>1
      <4> QED BY <1>9, <1>12, <4>1, <4>2
    <3> QED BY <1>14, <1>15, <1>18, <3>1, <3>2, <3>3, <3>4
  <2> QED BY <1>16, <2>1
<1>19. AddTo(<<"categories">>, category) \in ToSet(ops)
  BY <1>8, <1>12
<1>20. old # None /\ old.category # category => \E o \in ToSet(ops) : o.do = "prune" /\ o.entry = old.category
  BY <1>8, <1>12
<1>21. PrunesLast(ops)
  <2>1. /\ \A o \in ToSet(a) \cup ToSet(b) \cup ToSet(d) \cup ToSet(e) : o.do # "prune"
        /\ \A o \in ToSet(d) \cup ToSet(e) : \A k : o.list # <<"cat", k>>
    <3>1. \A o \in ToSet(a) \cup ToSet(b) : o.do # "prune"
      BY <1>8 DEF AddTo
    <3>2. \A x, y : <<"consumers", x>> # <<"cat", y>> /\ <<"producers", x>> # <<"cat", y>>
      OBVIOUS
    <3>3. \A o \in ToSet(d) : o.do # "prune" /\ \A k : o.list # <<"cat", k>>
      <4>1. ASSUME NEW o \in ToSet(d) PROVE \E x : o = AddTo(<<"consumers", x>>, p) \/ o = RemoveFrom(<<"consumers", x>>, p)
        BY <1>9
      <4>2. ASSUME NEW o \in ToSet(d) PROVE o.do # "prune" /\ \E x : o.list = <<"consumers", x>>
        <5>1. PICK x : o = AddTo(<<"consumers", x>>, p) \/ o = RemoveFrom(<<"consumers", x>>, p)
          BY <4>1
        <5>2. (o.do = "add" \/ o.do = "remove") /\ o.list = <<"consumers", x>>
          BY <1>16, <5>1
        <5> QED BY <5>2
      <4> QED BY <3>2, <4>2
    <3>4. \A o \in ToSet(e) : o.do # "prune" /\ \A k : o.list # <<"cat", k>>
      <4>1. ASSUME NEW o \in ToSet(e) PROVE \E x : o = AddTo(<<"producers", x>>, p) \/ o = RemoveFrom(<<"producers", x>>, p)
        BY <1>9
      <4>2. ASSUME NEW o \in ToSet(e) PROVE o.do # "prune" /\ \E x : o.list = <<"producers", x>>
        <5>1. PICK x : o = AddTo(<<"producers", x>>, p) \/ o = RemoveFrom(<<"producers", x>>, p)
          BY <4>1
        <5>2. (o.do = "add" \/ o.do = "remove") /\ o.list = <<"producers", x>>
          BY <1>16, <5>1
        <5> QED BY <5>2
      <4> QED BY <3>2, <4>2
    <3> QED BY <3>1, <3>3, <3>4
  <2>2. PrunesLast(c)
    <3>1. CASE c = <<>>
      BY <3>1 DEF PrunesLast
    <3>2. CASE c = IndexRemoveCategory(old.category, p)
      <4>1. PICK x, y : x = RemoveFrom(<<"cat", old.category>>, p)
                        /\ y = [do |-> "prune", list |-> <<"cat", old.category>>, entry |-> old.category]
        OBVIOUS
      <4>2. c = <<x, y>> /\ x.do = "remove"
        BY <1>16, <3>2, <4>1 DEF IndexRemoveCategory
      <4>3. DOMAIN c = {1, 2} /\ c[1] = x
        BY <4>2
      <4> QED BY <4>2, <4>3 DEF PrunesLast
    <3> QED BY <1>2, <3>1, <3>2
  <2>3. PrunesLast(a) /\ PrunesLast(b) /\ PrunesLast(d) /\ PrunesLast(e)
    BY <2>1, NoPrunes
  <2>4. PrunesLast(ab) /\ \A o \in ToSet(ab) : o.do # "prune"
    <3>1. ToSet(ab) = ToSet(a) \cup ToSet(b)
      BY <1>7, <1>10, OpsConcat
    <3> QED BY <2>1, <3>1, NoPrunes
  <2>5. PrunesLast(abc)
    BY <1>7, <1>10, <1>11, <2>2, <2>4, PrunesConcat
  <2>6. \A o \in ToSet(abc) : o.do = "prune" => \E k : o.list = <<"cat", k>>
    <3>1. ToSet(abc) = ToSet(ab) \cup ToSet(c)
      BY <1>7, <1>10, <1>11, OpsConcat
    <3> QED BY <1>8, <1>16, <2>4, <3>1
  <2>7. PrunesLast(abcd) /\ \A o \in ToSet(abcd) : o.do = "prune" => \E k : o.list = <<"cat", k>>
    <3>1. ToSet(abcd) = ToSet(abc) \cup ToSet(d)
      BY <1>7, <1>10, <1>11, OpsConcat
    <3>2. PrunesLast(abcd)
      BY <1>7, <1>10, <1>11, <2>1, <2>3, <2>5, <2>6, PrunesConcat
    <3> QED BY <2>1, <2>6, <3>1, <3>2
  <2>8. PrunesLast(ops)
    BY <1>7, <1>10, <1>11, <2>1, <2>3, <2>7, PrunesConcat
  <2> QED BY <2>8
<1> QED BY <1>17, <1>18, <1>19, <1>20, <1>21 DEF PackagePlan

LEMMA PlaceOfType ==
  ASSUME NEW t, NEW body
  PROVE  /\ \A l : l \in TypePlaces(t, body) <=>
              \/ l = <<"types">> \/ l = <<"user_types", t[1]>>
              \/ \E u \in body.aligned : l = <<"aligned", u>>
              \/ l = <<"extends", body.extends>> /\ body.extends # None
         /\ \A k : /\ <<"aligned", k>> \in TypePlaces(t, body) <=> k \in body.aligned
                   /\ <<"extends", k>> \in TypePlaces(t, body) <=> k = body.extends /\ k # None
                   /\ <<"user_types", k>> \in TypePlaces(t, body) <=> k = t[1]
                   /\ <<"cat", k>> \notin TypePlaces(t, body)
         /\ <<"types">> \in TypePlaces(t, body)
         /\ \A k : /\ <<"aligned", k>> # <<"categories">> /\ <<"extends", k>> # <<"categories">>
                   /\ <<"user_types", k>> # <<"categories">>
         /\ <<"types">> # <<"categories">>
<1>1. \A l : l \in TypePlaces(t, body) <=>
              \/ l = <<"types">> \/ l = <<"user_types", t[1]>>
              \/ \E u \in body.aligned : l = <<"aligned", u>>
              \/ l = <<"extends", body.extends>> /\ body.extends # None
  BY DEF TypePlaces
<1>2. \A x, y, z : /\ <<x>> # <<y, z>>
                   /\ \A u : <<x, u>> = <<y, z>> <=> x = y /\ u = z
                   /\ <<x>> = <<y>> <=> x = y
  OBVIOUS
<1> QED BY <1>1, <1>2

(* What publishTypeVersion has to do, now and for the extends index.       *)
TypePlan(t, ops, more, before, after) ==
  /\ \A o \in ToSet(ops) \cup ToSet(more) :
       /\ o.entry = t /\ o.list # <<"categories">> /\ \A c : o.list # <<"cat", c>>
       /\ (o.do = "add" /\ o.list \in after) \/ (o.do = "remove" /\ o.list \notin after)
  /\ \A l \in (after \ before) \cup (before \ after) :
       \E o \in ToSet(ops) \cup ToSet(more) : o.do # "prune" /\ o.list = l /\ o.entry = t

LEMMA TypeWork ==
  ASSUME NEW t \in TypeKeys, NEW latest, NEW prior \in TypeBodies \cup {None}, prior = None <=> latest = 0,
         NEW body \in TypeBodies, body.extends # Missing, prior # None => prior.extends # Missing,
         NEW ops, ops = TypeIndexOps(t, latest, prior, body), NEW more, more = ExtendsOps(t, prior, body),
         NEW before, before = IF latest = 0 THEN {} ELSE TypePlaces(t, prior),
         NEW after, after = TypePlaces(t, body)
  PROVE  TypePlan(t, ops, more, before, after)
<1>1. PICK from, to, a, d : /\ from = IF prior = None THEN {} ELSE prior.aligned
                            /\ to = body.aligned
                            /\ a = IF latest = 0 THEN IndexNew("types", "user_types", t) ELSE <<>>
                            /\ d = DiffIndex("aligned", from, to, t)
  OBVIOUS
<1>2. ops = a \o d
  BY <1>1 DEF TypeIndexOps
<1>3. t \in Entries /\ t[1] \in Users /\ <<"types">> \in Lists /\ <<"user_types", t[1]>> \in Lists
  BY HubAssumption DEF Entries, Keys, Lists
<1>4. IsFiniteSet(from) /\ IsFiniteSet(to) /\ \A k \in from \cup to : <<"aligned", k>> \in Lists
  <2>1. \A b \in TypeBodies : IsFiniteSet(b.aligned) /\ \A u \in b.aligned : <<"aligned", u>> \in Lists
    BY HubAssumption DEF Lists, AlignmentUris
  <2> QED BY <1>1, <2>1, FS_EmptySet
<1>5. a \in Seq(ListOp) /\ d \in Seq(ListOp)
  <2>1. AddTo(<<"types">>, t) \in ListOp /\ AddTo(<<"user_types", t[1]>>, t) \in ListOp
    BY <1>3, OpsTyped
  <2>2. a \in Seq(ListOp)
    BY <1>1, <2>1, PairOps DEF IndexNew
  <2>3. d \in Seq(ListOp)
    BY <1>1, <1>3, <1>4, DiffIndexType
  <2> QED BY <2>2, <2>3
<1>6. ToSet(ops) = ToSet(a) \cup ToSet(d)
  BY <1>2, <1>5, OpsConcat
<1>7. \A o : o \in ToSet(a) <=> latest = 0 /\ (o = AddTo(<<"types">>, t) \/ o = AddTo(<<"user_types", t[1]>>, t))
  <2>1. PICK x, y : x = AddTo(<<"types">>, t) /\ y = AddTo(<<"user_types", t[1]>>, t)
    OBVIOUS
  <2>2. a = IF latest = 0 THEN <<x, y>> ELSE <<>>
    BY <1>1, <2>1 DEF IndexNew
  <2>3. ToSet(a) = IF latest = 0 THEN {x, y} ELSE {}
    BY <2>2, PairSet
  <2> QED BY <2>1, <2>3
<1>8. \A o : o \in ToSet(d) <=> (\/ \E k \in to \ from : o = AddTo(<<"aligned", k>>, t)
                                 \/ \E k \in from \ to : o = RemoveFrom(<<"aligned", k>>, t))
  <2>1. PICK kind : kind = "aligned"
    OBVIOUS
  <2>2. d = DiffIndex(kind, from, to, t) /\ \A k \in from \cup to : <<kind, k>> \in Lists
    BY <1>1, <1>4, <2>1
  <2>3. \A o : o \in ToSet(d) <=> (\/ \E k \in to \ from : o = AddTo(<<kind, k>>, t)
                                  \/ \E k \in from \ to : o = RemoveFrom(<<kind, k>>, t))
    BY <1>3, <1>4, <2>2, DiffWork
  <2> QED BY <2>1, <2>3
<1>9. \A o : o \in ToSet(more) <=>
         \/ /\ prior # None /\ prior.extends # None /\ prior.extends # body.extends
            /\ o = RemoveFrom(<<"extends", prior.extends>>, t)
         \/ body.extends # None /\ o = AddTo(<<"extends", body.extends>>, t)
  <2>1. PICK x, y : /\ x = IF prior # None /\ prior.extends # None /\ prior.extends # body.extends
                           THEN <<RemoveFrom(<<"extends", prior.extends>>, t)>> ELSE <<>>
                    /\ y = IF body.extends # None THEN <<AddTo(<<"extends", body.extends>>, t)>> ELSE <<>>
    OBVIOUS
  <2>2. more = x \o y
    BY <2>1 DEF ExtendsOps
  <2>3. \A b \in TypeBodies : b.extends # None /\ b.extends # Missing => <<"extends", b.extends>> \in Lists
    BY DEF Lists, Pins
  <2>4. x \in Seq(ListOp) /\ y \in Seq(ListOp)
    <3>1. prior # None /\ prior.extends # None => RemoveFrom(<<"extends", prior.extends>>, t) \in ListOp
      BY <1>3, <2>3, OpsTyped
    <3>2. body.extends # None => AddTo(<<"extends", body.extends>>, t) \in ListOp
      BY <1>3, <2>3, OpsTyped
    <3> QED BY <2>1, <3>1, <3>2, PairOps
  <2>5. ToSet(more) = ToSet(x) \cup ToSet(y)
    BY <2>2, <2>4, OpsConcat
  <2>6. \A o : o \in ToSet(x) <=> /\ prior # None /\ prior.extends # None /\ prior.extends # body.extends
                                  /\ o = RemoveFrom(<<"extends", prior.extends>>, t)
    <3>1. PICK z : z = RemoveFrom(<<"extends", prior.extends>>, t)
      OBVIOUS
    <3>2. ToSet(x) = IF prior # None /\ prior.extends # None /\ prior.extends # body.extends THEN {z} ELSE {}
      BY <2>1, <3>1, PairSet
    <3> QED BY <3>1, <3>2
  <2>7. \A o : o \in ToSet(y) <=> body.extends # None /\ o = AddTo(<<"extends", body.extends>>, t)
    <3>1. PICK z : z = AddTo(<<"extends", body.extends>>, t)
      OBVIOUS
    <3>2. ToSet(y) = IF body.extends # None THEN {z} ELSE {}
      BY <2>1, <3>1, PairSet
    <3> QED BY <3>1, <3>2
  <2> QED BY <2>5, <2>6, <2>7
<1>10. \A l : /\ AddTo(l, t).do = "add" /\ AddTo(l, t).entry = t /\ AddTo(l, t).list = l
              /\ RemoveFrom(l, t).do = "remove" /\ RemoveFrom(l, t).entry = t /\ RemoveFrom(l, t).list = l
  BY DEF AddTo, RemoveFrom
<1>11. /\ \A k : /\ <<"aligned", k>> \in after <=> k \in to
                 /\ <<"extends", k>> \in after <=> k = body.extends /\ k # None
       /\ <<"types">> \in after /\ <<"user_types", t[1]>> \in after
       /\ \A k : /\ <<"aligned", k>> # <<"categories">> /\ <<"extends", k>> # <<"categories">>
                 /\ <<"user_types", k>> # <<"categories">>
       /\ <<"types">> # <<"categories">>
  BY <1>1, PlaceOfType
<1>12. \A x, c : /\ <<"aligned", x>> # <<"cat", c>> /\ <<"extends", x>> # <<"cat", c>>
                 /\ <<"user_types", x>> # <<"cat", c>> /\ <<"types">> # <<"cat", c>>
  OBVIOUS
<1>13. ASSUME NEW o \in ToSet(ops) \cup ToSet(more)
       PROVE  \E l : /\ l # <<"categories">> /\ \A c : l # <<"cat", c>>
                     /\ (o = AddTo(l, t) /\ l \in after) \/ (o = RemoveFrom(l, t) /\ l \notin after)
  <2>1. CASE o \in ToSet(a)
    BY <1>7, <1>11, <1>12, <2>1
  <2>2. CASE o \in ToSet(d)
    <3>1. PICK k : \/ k \in to \ from /\ o = AddTo(<<"aligned", k>>, t)
                   \/ k \in from \ to /\ o = RemoveFrom(<<"aligned", k>>, t)
      BY <1>8, <2>2
    <3> QED BY <1>11, <1>12, <3>1
  <2>3. CASE o \in ToSet(more)
    <3>1. CASE /\ prior # None /\ prior.extends # None /\ prior.extends # body.extends
               /\ o = RemoveFrom(<<"extends", prior.extends>>, t)
      <4>1. PICK l : l = <<"extends", prior.extends>>
        OBVIOUS
      <4>2. l # <<"categories">> /\ (\A c : l # <<"cat", c>>) /\ l \notin after
        BY <1>11, <1>12, <3>1, <4>1
      <4> QED BY <3>1, <4>1, <4>2
    <3>2. CASE body.extends # None /\ o = AddTo(<<"extends", body.extends>>, t)
      <4>1. PICK l : l = <<"extends", body.extends>>
        OBVIOUS
      <4>2. l # <<"categories">> /\ (\A c : l # <<"cat", c>>) /\ l \in after
        BY <1>11, <1>12, <3>2, <4>1
      <4> QED BY <3>2, <4>1, <4>2
    <3> QED BY <1>9, <2>3, <3>1, <3>2
  <2> QED BY <1>6, <2>1, <2>2, <2>3
<1>14. ASSUME NEW o \in ToSet(ops) \cup ToSet(more)
       PROVE  /\ o.entry = t /\ o.list # <<"categories">> /\ \A c : o.list # <<"cat", c>>
              /\ (o.do = "add" /\ o.list \in after) \/ (o.do = "remove" /\ o.list \notin after)
  <2>1. PICK l : /\ l # <<"categories">> /\ \A c : l # <<"cat", c>>
                 /\ (o = AddTo(l, t) /\ l \in after) \/ (o = RemoveFrom(l, t) /\ l \notin after)
    BY <1>13
  <2>2. o.list = l
    BY <1>10, <2>1
  <2> QED BY <1>10, <2>1, <2>2
<1>15. \A l : l \in before <=> prior # None /\
         (\/ l = <<"types">> \/ l = <<"user_types", t[1]>>
          \/ \E u \in from : l = <<"aligned", u>>
          \/ l = <<"extends", prior.extends>> /\ prior.extends # None)
  BY <1>1, PlaceOfType
<1>16. \A l : l \in after <=>
         \/ l = <<"types">> \/ l = <<"user_types", t[1]>>
         \/ \E u \in to : l = <<"aligned", u>>
         \/ l = <<"extends", body.extends>> /\ body.extends # None
  BY <1>1, PlaceOfType
<1>17. ASSUME NEW l \in (after \ before) \cup (before \ after)
       PROVE  \E o \in ToSet(ops) \cup ToSet(more) : o.do # "prune" /\ o.list = l /\ o.entry = t
  <2>1. AddTo(l, t) \in ToSet(ops) \cup ToSet(more) \/ RemoveFrom(l, t) \in ToSet(ops) \cup ToSet(more)
    <3>1. CASE l = <<"types">> \/ l = <<"user_types", t[1]>>
      <4>1. latest = 0
        BY <1>15, <1>16, <1>17, <3>1
      <4> QED BY <1>6, <1>7, <3>1, <4>1
    <3>2. CASE \E k : l = <<"aligned", k>>
      <4>1. PICK k : l = <<"aligned", k>>
        BY <3>2
      <4>2. <<"aligned", k>> \in before <=> k \in from
        BY <1>1, PlaceOfType
      <4>3. k \in (to \ from) \cup (from \ to)
        BY <1>11, <1>17, <4>1, <4>2
      <4> QED BY <1>6, <1>8, <4>1, <4>3
    <3>3. CASE \E k : l = <<"extends", k>>
      <4>1. PICK k : l = <<"extends", k>>
        BY <3>3
      <4>2. <<"extends", k>> \in before <=> prior # None /\ k = prior.extends /\ k # None
        BY <1>1, PlaceOfType
      <4>3. <<"extends", k>> \in after <=> k = body.extends /\ k # None
        BY <1>11
      <4> QED BY <1>9, <1>17, <4>1, <4>2, <4>3
    <3> QED BY <1>15, <1>16, <1>17, <3>1, <3>2, <3>3
  <2> QED BY <1>10, <2>1
<1> QED BY <1>14, <1>17 DEF TypePlan

(* A request that is the same says the same.                               *)
LEMMA SameRequest ==
  ASSUME NEW w \in Workers, NEW x, req'[w] = x
  PROVE  Work(req[w])' = Work(x)' /\ (Knows(req[w])' <=> Knows(x)')
<1>1. Work(req[w])' = Work(x)'
  BY DEF Work, ExtendsAhead, TypeArtifact
<1>2. KnowsPrior(req[w])' <=> KnowsPrior(x)'
  BY DEF KnowsPrior, TypeArtifact
<1> QED BY <1>1, <1>2 DEF Knows, Rewritten

LEMMA SameStores ==
  ASSUME UNCHANGED <<ver, tver, idx>>, NEW x
  PROVE  Work(x)' = Work(x) /\ (Knows(x)' <=> Knows(x))
<1>1. Work(x)' = Work(x)
  BY DEF Work, ExtendsAhead, TypeArtifact
<1>2. KnowsPrior(x)' <=> KnowsPrior(x)
  BY DEF KnowsPrior, TypeArtifact
<1> QED BY <1>1, <1>2 DEF Knows, Rewritten

LEMMA SameOthers ==
  ASSUME UNCHANGED <<ver, tver, idx>>, NEW v \in Workers, req'[v] = req[v]
  PROVE  (Busy(v)' <=> Busy(v)) /\ Work(req[v])' = Work(req[v]) /\ (Knows(req[v])' <=> Knows(req[v]))
<1>1. PICK x : x = req[v]
  OBVIOUS
<1>2. Work(req[v])' = Work(x)' /\ (Knows(req[v])' <=> Knows(x)')
  BY <1>1, SameRequest
<1>3. Work(x)' = Work(x) /\ (Knows(x)' <=> Knows(x))
  BY SameStores
<1> QED BY <1>1, <1>2, <1>3 DEF Busy

(* The one request in flight.                                              *)
LEMMA Working ==
  ASSUME HubInv, IndexInv, ~shared, NEW w \in Workers, Busy(w), StepOf(w), contended' = contended
  PROVE  /\ Pending = Work(req[w]) /\ Solo' /\ Knows(req[w]) /\ req[w].key \notin contended
         /\ \A v \in Workers : Busy(v)' => v = w
         /\ Busy(w)' => Pending' = (Work(req[w]))'
         /\ ~Busy(w)' => Pending' = {}
<1>1. Solo /\ Knows(req[w])
  BY DEF IndexInv
<1>2. \A v \in Workers : Busy(v) => v = w
  BY <1>1 DEF Solo
<1>3. \A v \in Workers : Busy(v)' => v = w
  BY <1>2 DEF Busy, StepOf
<1>4. Solo' /\ contended = {}
  BY <1>1, <1>3 DEF Solo
<1>5. {v \in Workers : Busy(v)} = {w}
  BY <1>2
<1>6. Busy(w)' => {v \in Workers : Busy(v)}' = {w}
  BY <1>3
<1>7. ~Busy(w)' => {v \in Workers : Busy(v)}' = {}
  BY <1>3
<1>8. Pending = Work(req[w])
  BY <1>5 DEF Pending
<1>9. Busy(w)' => Pending' = (Work(req[w]))'
  BY <1>6 DEF Pending
<1>10. ~Busy(w)' => Pending' = {}
  BY <1>7 DEF Pending
<1> QED BY <1>1, <1>3, <1>4, <1>8, <1>9, <1>10

(* A step that moves no name to another list and no list, and leaves the   *)
(* same work.                                                              *)
LEMMA Calm ==
  ASSUME IndexInv, ~shared, Solo', \A w \in Workers : Busy(w)' => Knows(req[w])',
         Pending' = Pending, idx' = idx, died \subseteq died', \A k \in Keys : Places(k)' = Places(k)
  PROVE  IndexInv'
<1>1. Packages \subseteq Keys
  BY DEF Keys
<1>2. \A c : Inhabited(c)' <=> Inhabited(c)
  BY <1>1 DEF Inhabited
<1>3. \A o \in Pending : Apt(o)'
  <2>1. \A o \in Pending : Apt(o)
    BY DEF IndexInv
  <2> QED BY <1>2, <2>1 DEF Apt
<1>4. \A k \in Keys \ died', l \in Lists \ {<<"categories">>} : Listed(l, k)'
  <2>1. \A k \in Keys \ died, l \in Lists \ {<<"categories">>} : Listed(l, k)
    BY DEF IndexInv
  <2> QED BY <2>1 DEF Listed
<1>5. idx'[<<"categories">>] \subseteq Categories /\ \A c \in Categories : idx'[<<"cat", c>>] \subseteq Packages
  BY DEF IndexInv
<1>6. died' = {} => \A c \in Categories : Categorized(c)'
  <2>1. died = {} => \A c \in Categories : Categorized(c)
    BY DEF IndexInv
  <2> QED BY <1>2, <2>1 DEF Categorized
<1> QED BY <1>3, <1>4, <1>5, <1>6 DEF IndexInv

(* The documents a step may touch without moving a name.                   *)
LEMMA PlacesKept ==
  ASSUME HubInv,
         \A p \in Packages : /\ pkg'[p] = None <=> pkg[p] = None
                             /\ pkg[p] # None =>
                                  /\ pkg'[p].latest = pkg[p].latest /\ pkg'[p].category = pkg[p].category
                                  /\ ver'[p][pkg[p].latest] = ver[p][pkg[p].latest],
         \A t \in TypeKeys : typ'[t] = typ[t] /\ (typ[t] # 0 => tver'[t][typ[t]] = tver[t][typ[t]])
  PROVE  \A k \in Keys : Places(k)' = Places(k)
<1> SUFFICES ASSUME NEW k \in Keys PROVE Places(k)' = Places(k)
  OBVIOUS
<1>1. CASE k \in TypeKeys
  <2>1. Latest(k)' = typ[k] /\ Latest(k) = typ[k] /\ typ[k] \in Nat
    BY <1>1, HubAssumption DEF Latest, HubInv, StoreInv
  <2>2. Published(k)' <=> Published(k)
    BY <2>1 DEF Published
  <2>3. Published(k) => LatestArtifact(k)' = LatestArtifact(k)
    BY <1>1, <2>1 DEF LatestArtifact, Stored, Published
  <2> QED BY <1>1, <2>2, <2>3 DEF Places
<1>2. CASE k \notin TypeKeys
  <2>1. k \in Packages
    BY <1>2 DEF Keys
  <2>2. Latest(k)' = Latest(k)
    BY <1>2, <2>1 DEF Latest
  <2>3. Published(k)' <=> Published(k)
    BY <2>2 DEF Published
  <2>4. Published(k) => pkg[k] # None /\ Latest(k) = pkg[k].latest
    BY <1>2 DEF Published, Latest
  <2>5. Published(k) => LatestArtifact(k)' = LatestArtifact(k) /\ pkg'[k].category = pkg[k].category
    BY <1>2, <2>1, <2>2, <2>4 DEF LatestArtifact, Stored
  <2> QED BY <1>2, <2>3, <2>5 DEF Places
<1> QED BY <1>1, <1>2

LEMMA DocumentsKept ==
  ASSUME HubInv, UNCHANGED <<pkg, ver, typ, tver>>
  PROVE  \A k \in Keys : Places(k)' = Places(k)
BY PlacesKept

(* The steps of a request with no work on lists yet, or none any more.     *)
Listless(r) == r.todo = <<>> /\ ~ExtendsAhead(r)

LEMMA ListlessWork ==
  ASSUME NEW r, Listless(r)
  PROVE  Work(r) = {} /\ (Work(r))' = {}
BY PairSet DEF Work, Listless, ExtendsAhead

LEMMA PlainStep ==
  ASSUME HubInv, IndexInv, ~shared, NEW w \in Workers, Busy(w), StepOf(w), contended' = contended,
         Listless(req[w]), NEW x, req'[w] = x,
         x # None /\ x.pc # "done" => Listless(x) /\ x.list = None /\ KnowsPrior(x)',
         idx' = idx, \A k \in Keys : Places(k)' = Places(k)
  PROVE  IndexInv'
<1>1. Pending = {}
  BY Working, ListlessWork
<1>2. Busy(w)' => Listless(x) /\ x.list = None /\ KnowsPrior(x)' /\ (Work(x))' = {}
  BY ListlessWork DEF Busy
<1>3. (Work(req[w]))' = (Work(x))'
  BY SameRequest
<1>4. Pending' = {}
  BY <1>2, <1>3, Working
<1>5. Busy(w)' => Knows(x)'
  <2>1. PrunesLast(<< >>)
    BY DEF PrunesLast
  <2> QED BY <1>2, <2>1 DEF Knows, Listless
<1>6. Knows(x)' => Knows(req[w])'
  BY SameRequest
<1>7. \A v \in Workers : Busy(v)' => Knows(req[v])'
  BY <1>5, <1>6, Working
<1>8. died \subseteq died' /\ Solo'
  BY Working DEF StepOf
<1> QED BY <1>1, <1>4, <1>7, <1>8, Calm

(* A request that is not at its lists.                                     *)
LEMMA ListlessAt ==
  ASSUME HubInv, TypeInv, IndexInv, ~shared, NEW w \in Workers, NEW pc, At(w, pc),
         pc \notin {"index", "links", "typeExtends", "done"}
  PROVE  /\ Busy(w) /\ Listless(req[w]) /\ req[w].list = None /\ req[w].todo = <<>> /\ IsRequest(req[w])
         /\ Knows(req[w]) /\ KnowsPrior(req[w]) /\ req[w].pc = pc
<1>1. Busy(w) /\ req[w].pc = pc /\ IsRequest(req[w]) /\ Typed(req[w])
  BY InFlight, InFlightTyped DEF At, Busy
<1>2. Knows(req[w])
  BY <1>1 DEF IndexInv
<1> QED BY <1>1, <1>2 DEF Knows, Listless, ExtendsAhead, Typed

LEMMA ReplyPlain ==
  ASSUME HubInv, IndexInv, ~shared, NEW w \in Workers, Busy(w), StepOf(w), contended' = contended,
         Listless(req[w]), idx' = idx, \A k \in Keys : Places(k)' = Places(k),
         NEW q, NEW status, Reply(w, q, status)
  PROVE  IndexInv'
<1>1. PICK x : x = req'[w]
  OBVIOUS
<1>2. x.pc = "done"
  BY <1>1, AfterReply
<1> QED BY <1>1, <1>2, PlainStep

LEMMA GotoPlain ==
  ASSUME HubInv, IndexInv, ~shared, NEW w \in Workers, Busy(w), StepOf(w), contended' = contended,
         Listless(req[w]), idx' = idx, \A k \in Keys : Places(k)' = Places(k),
         NEW q, IsRequest(q), q.todo = <<>>, q.list = None, NEW pc \in Pcs \ {"index", "typeExtends"}, Goto(w, q, pc),
         \A x : IsRequest(x) /\ x.pc = pc /\ x.op = q.op /\ x.key = q.key /\ x.seen = q.seen
                /\ x.prior = q.prior /\ x.latest = q.latest => KnowsPrior(x)'
  PROVE  IndexInv'
<1>1. PICK x : x = [q EXCEPT !.pc = pc]
  OBVIOUS
<1>2. /\ IsRequest(x) /\ x.pc = pc /\ x.op = q.op /\ x.key = q.key /\ x.seen = q.seen
      /\ x.prior = q.prior /\ x.latest = q.latest /\ x.todo = <<>> /\ x.list = None
  BY <1>1 DEF IsRequest
<1>3. req'[w] = x
  BY <1>1 DEF Goto, HubInv
<1>4. Listless(x) /\ KnowsPrior(x)'
  BY <1>2 DEF Listless, ExtendsAhead
<1> QED BY <1>2, <1>3, <1>4, PlainStep

(* Arrivals, replies that leave and requests that die.                     *)
Fresh(x) ==
  /\ x.todo = <<>> /\ x.list = None /\ x.prior = None
  /\ x.pc \in {"done", "prior", "starKey", "bump", "forkRead", "hash"}

LEMMA ArrivesFresh ==
  ASSUME NEW w \in Workers, Arrival(w)
  PROVE  \E x : Arrive(w, x) /\ Fresh(x)
<1>1. ASSUME NEW p, NEW body, NEW base, Publish(w, p, body, base) PROVE \E x : Arrive(w, x) /\ Fresh(x)
  <2>1. PICK r : r = Incoming("publish", p[1], p)
    OBVIOUS
  <2>2. PICK x, y : x = [r EXCEPT !.pc = "prior", !.body = body, !.seen = pkg[p]] /\ y = [r EXCEPT !.status = "stale_base"]
    OBVIOUS
  <2>3. Arrive(w, x) \/ Arrive(w, y)
    BY <1>1, <2>1, <2>2 DEF Publish
  <2>4. Fresh(x) /\ Fresh(y)
    BY <2>1, <2>2 DEF Incoming, Fresh
  <2> QED BY <2>3, <2>4
<1>2. ASSUME NEW t, NEW body, NEW base, PublishType(w, t, body, base) PROVE \E x : Arrive(w, x) /\ Fresh(x)
  <2>1. PICK r : r = Incoming("type", t[1], t)
    OBVIOUS
  <2>2. PICK x, y, z : /\ x = [r EXCEPT !.pc = "hash", !.body = body, !.latest = typ[t]]
                       /\ y = [r EXCEPT !.status = "stale_base"] /\ z = [r EXCEPT !.status = "invalid"]
    OBVIOUS
  <2>3. Arrive(w, x) \/ Arrive(w, y) \/ Arrive(w, z)
    BY <1>2, <2>1, <2>2 DEF PublishType
  <2>4. Fresh(x) /\ Fresh(y) /\ Fresh(z)
    BY <2>1, <2>2 DEF Incoming, Fresh
  <2> QED BY <2>3, <2>4
<1>3. ASSUME NEW op, NEW u, NEW p, Star(w, op, u, p) PROVE \E x : Arrive(w, x) /\ Fresh(x)
  <2>1. PICK q, r : q = Incoming(op, u, p) /\ r = [q EXCEPT !.seen = pkg[p]]
    OBVIOUS
  <2>2. PICK x, y : x = [r EXCEPT !.pc = "starKey"] /\ y = [r EXCEPT !.status = "not_found"]
    OBVIOUS
  <2>3. Arrive(w, x) \/ Arrive(w, y)
    BY <1>3, <2>1, <2>2 DEF Star
  <2>4. Fresh(x) /\ Fresh(y)
    BY <2>1, <2>2 DEF Incoming, Fresh
  <2> QED BY <2>3, <2>4
<1>4. ASSUME NEW p, Download(w, p) PROVE \E x : Arrive(w, x) /\ Fresh(x)
  <2>1. PICK q, r : q = Incoming("download", p[1], p) /\ r = [q EXCEPT !.seen = pkg[p]]
    OBVIOUS
  <2>2. PICK x, y : x = [r EXCEPT !.pc = "bump"] /\ y = [r EXCEPT !.status = "not_found"]
    OBVIOUS
  <2>3. Arrive(w, x) \/ Arrive(w, y)
    BY <1>4, <2>1, <2>2 DEF Download
  <2>4. Fresh(x) /\ Fresh(y)
    BY <2>1, <2>2 DEF Incoming, Fresh
  <2> QED BY <2>3, <2>4
<1>5. ASSUME NEW u, NEW p, NEW slug, Fork(w, u, p, slug) PROVE \E x : Arrive(w, x) /\ Fresh(x)
  <2>1. PICK q, r : q = Incoming("fork", u, <<u, slug>>) /\ r = [q EXCEPT !.upstream = p, !.seen = pkg[p]]
    OBVIOUS
  <2>2. PICK x, y : x = [r EXCEPT !.pc = "forkRead"] /\ y = [r EXCEPT !.status = "not_found"]
    OBVIOUS
  <2>3. Arrive(w, x) \/ Arrive(w, y)
    BY <1>5, <2>1, <2>2 DEF Fork
  <2>4. Fresh(x) /\ Fresh(y)
    BY <2>1, <2>2 DEF Incoming, Fresh
  <2> QED BY <2>3, <2>4
<1> QED BY <1>1, <1>2, <1>3, <1>4, <1>5 DEF Arrival

LEMMA ArrivalIndex ==
  ASSUME HubInv, IndexInv, NEW w \in Workers, Arrival(w)
  PROVE  IndexInv'
<1> SUFFICES ASSUME ~shared' PROVE IndexInv'
  BY DEF IndexInv
<1>1. PICK x : Arrive(w, x) /\ Fresh(x)
  BY ArrivesFresh
<1>2. /\ ~shared /\ req[w] = None /\ req'[w] = x /\ \A v \in Workers \ {w} : req'[v] = req[v]
      /\ UNCHANGED <<pkg, ver, typ, tver, idx, died>>
  BY <1>1 DEF Arrive, store, HubInv
<1>3. \A k \in Keys : Places(k)' = Places(k)
  BY <1>2, DocumentsKept
<1>4. ~Busy(w)
  BY <1>2 DEF Busy
<1>5. \A v \in Workers \ {w} : (Busy(v)' <=> Busy(v)) /\ Work(req[v])' = Work(req[v]) /\ (Knows(req[v])' <=> Knows(req[v]))
  BY <1>2, SameOthers
<1>6. \A v \in Workers : Busy(v) => Knows(req[v])
  BY <1>2 DEF IndexInv
<1>7. CASE x.pc = "done"
  <2>1. ~Busy(w)' /\ contended' = contended
    BY <1>1, <1>2, <1>7 DEF Busy, Arrive
  <2>2. {v \in Workers : Busy(v)}' = {v \in Workers : Busy(v)}
    BY <1>4, <1>5, <2>1
  <2>3. Pending' = Pending
    <3>1. \A v \in {u \in Workers : Busy(u)} : v # w
      BY <1>4
    <3> QED BY <1>5, <2>2, <3>1 DEF Pending
  <2>4. Solo'
    BY <1>2, <1>5, <2>1 DEF IndexInv, Solo
  <2>5. \A v \in Workers : Busy(v)' => Knows(req[v])'
    BY <1>5, <1>6, <2>1
  <2> QED BY <1>2, <1>3, <2>3, <2>4, <2>5, Calm
<1>8. CASE x.pc # "done"
  <2>1. {v \in Workers : Busy(v)} = {} /\ contended' = contended
    BY <1>1, <1>8 DEF Arrive
  <2>2. \A v \in Workers : Busy(v)' => v = w
    BY <1>5, <2>1
  <2>3. Listless(x) /\ KnowsPrior(x)' /\ x.list = None
    BY <1>1 DEF Fresh, Listless, ExtendsAhead, KnowsPrior
  <2>4. (Work(x))' = {} /\ (Work(req[w]))' = (Work(x))'
    BY <1>2, <2>3, ListlessWork DEF Work, ExtendsAhead, TypeArtifact
  <2>5. Pending = {} /\ Pending' = {}
    BY <2>1, <2>2, <2>4 DEF Pending
  <2>6. Knows(x)'
    <3>1. PrunesLast(<< >>)
      BY DEF PrunesLast
    <3> QED BY <2>3, <2>4, <3>1 DEF Knows, Listless
  <2>7. Knows(x)' => Knows(req[w])'
    BY <1>2, SameRequest
  <2>8. Solo' /\ \A v \in Workers : Busy(v)' => Knows(req[v])'
    BY <1>2, <2>1, <2>2, <2>6, <2>7 DEF IndexInv, Solo
  <2> QED BY <1>2, <1>3, <2>5, <2>8, Calm
<1> QED BY <1>7, <1>8

LEMMA DeliverIndex ==
  ASSUME HubInv, IndexInv, NEW w \in Workers, Deliver(w)
  PROVE  IndexInv'
<1> SUFFICES ASSUME ~shared PROVE IndexInv'
  BY DEF IndexInv, Deliver, aux
<1>1. /\ req'[w] = None /\ \A v \in Workers \ {w} : req'[v] = req[v]
      /\ UNCHANGED <<pkg, ver, typ, tver, idx, died, contended>> /\ ~Busy(w)
  BY DEF Deliver, store, aux, HubInv, At, Busy
<1>2. \A k \in Keys : Places(k)' = Places(k)
  BY <1>1, DocumentsKept
<1>3. \A v \in Workers \ {w} : (Busy(v)' <=> Busy(v)) /\ Work(req[v])' = Work(req[v]) /\ (Knows(req[v])' <=> Knows(req[v]))
  BY <1>1, SameOthers
<1>4. ~Busy(w)'
  BY <1>1 DEF Busy
<1>5. {v \in Workers : Busy(v)}' = {v \in Workers : Busy(v)}
  BY <1>1, <1>3, <1>4
<1>6. Pending' = Pending
  <2>1. \A v \in {u \in Workers : Busy(u)} : v # w
    BY <1>1
  <2> QED BY <1>3, <1>5, <2>1 DEF Pending
<1>7. Solo' /\ \A v \in Workers : Busy(v)' => Knows(req[v])'
  BY <1>1, <1>3, <1>4 DEF IndexInv, Solo
<1> QED BY <1>1, <1>2, <1>6, <1>7, Calm

(* The lists a request dies over are off for the names it touched, and the *)
(* categories from then on.                                                *)
LEMMA DieIndex ==
  ASSUME HubInv, TypeInv, IndexInv, NEW w \in Workers, Die(w)
  PROVE  IndexInv'
<1> SUFFICES ASSUME ~shared PROVE IndexInv'
  BY DEF IndexInv, Die
<1>1. /\ Busy(w) /\ req'[w] = None /\ UNCHANGED <<pkg, ver, typ, tver, idx, contended>>
      /\ died' = died \cup Touches(req[w]) /\ StepOf(w)
  BY StepIsOf DEF Die, store, HubInv
<1>2. ~Busy(w)'
  BY <1>1 DEF Busy
<1>3. Pending = Work(req[w]) /\ Pending' = {} /\ Solo' /\ \A v \in Workers : ~Busy(v)'
  BY <1>1, <1>2, Working
<1>4. req[w].key \in died' /\ died' # {}
  BY <1>1 DEF Touches
<1>7. \A o \in Pending : o.do = "prune" \/ o.list = <<"categories">> \/ o.entry \in died'
  BY <1>1, <1>3, <1>4 DEF IndexInv, Knows
<1>5. \A k \in Keys : Places(k)' = Places(k)
  BY <1>1, DocumentsKept
<1>6. ASSUME NEW k \in Keys \ died', NEW l \in Lists \ {<<"categories">>} PROVE Listed(l, k)'
  <2>1. Listed(l, k)
    BY <1>1 DEF IndexInv
  <2>2. k \in idx[l] <=> l \in Places(k)
    BY <1>6, <1>7, <2>1 DEF Listed
  <2> QED BY <1>1, <1>5, <2>2 DEF Listed
<1>8. idx'[<<"categories">>] \subseteq Categories /\ \A c \in Categories : idx'[<<"cat", c>>] \subseteq Packages
  BY <1>1 DEF IndexInv
<1> QED BY <1>3, <1>4, <1>6, <1>8 DEF IndexInv

-------------------------------------------------------------------------------
(* The steps before the lists and after them.                              *)

LEMMA OnlyArrivalsShare ==
  ASSUME NEW w \in Workers, Step(w), shared
  PROVE  IndexInv'
<1>1. shared' = shared
  BY DEF Step, PublishPrior, PutVersion, PutMeta, IndexRead, IndexWrite, IndexDone, StarKey, StarPut,
     StarMeta, DownloadPut, ForkRead, ForkCheck, ForkBump, TypeHash, TypePrior, TypePut, TypePutHash,
     TypeMeta, TypeExtends, aux
<1> QED BY <1>1, Zenon DEF IndexInv

(* A counter is written on the document as it is.                          *)
LEMMA CounterPlaces ==
  ASSUME HubInv, TypeInv, AckInv, NEW w \in Workers, contended = {},
         StarMeta(w) \/ DownloadPut(w) \/ ForkBump(w)
  PROVE  \A k \in Keys : Places(k)' = Places(k)
<1>1. PICK r : r = req[w]
  OBVIOUS
<1>2. PICK k : k = IF r.pc = "upstream" THEN r.upstream ELSE r.key
  OBVIOUS
<1>3. /\ r.pc \in {"starMeta", "bump", "upstream"} /\ k \in Packages
      /\ PackageRequestSound(r, ver) /\ PackageOwn(r, contended, pkg, ver)
  BY <1>1, <1>2, AtPut DEF StarMeta, DownloadPut, ForkBump, At
<1>4. PICK seen : seen = r.seen
  OBVIOUS
<1>5. IsMeta(seen) /\ seen = pkg[k]
  BY <1>2, <1>3, <1>4 DEF PackageRequestSound, PackageOwn
<1>6. PICK m : pkg' = [pkg EXCEPT ![k] = m] /\ m # None /\ m.latest = seen.latest /\ m.category = seen.category
  <2>1. seen.stars \in Nat /\ seen.downloads \in Nat /\ seen.forks \in Nat
    BY <1>5 DEF IsMeta, Meta
  <2>2. DOMAIN seen = {"latest", "category", "stars", "downloads", "forks", "forkedFrom"}
    BY <1>5 DEF IsMeta, Meta
  <2>6. IsMeta(seen)
    BY <1>5
  <2>3. CASE StarMeta(w)
    <3>1. PICK n : n = IF r.op = "star" THEN seen.stars + 1 ELSE seen.stars - 1
      OBVIOUS
    <3>2. PICK m : m = [seen EXCEPT !.stars = n]
      OBVIOUS
    <3>3. pkg' = [pkg EXCEPT ![k] = m]
      BY <1>1, <1>2, <1>4, <2>3, <3>1, <3>2 DEF StarMeta, At
    <3>4. n \in Nat
      BY <1>1, <1>3, <1>4, <2>1, <2>3, <3>1 DEF StarMeta, At, PackageRequestSound
    <3>5. IsMeta(m) /\ m.latest = seen.latest
      BY <2>6, <3>2, <3>4, MetaEdits
    <3>6. m.category = seen.category
      BY <2>2, <3>2
    <3> QED BY <3>3, <3>5, <3>6, MetaIsSome
  <2>4. CASE DownloadPut(w)
    <3>1. PICK n : n = seen.downloads + 1
      OBVIOUS
    <3>2. PICK m : m = [seen EXCEPT !.downloads = n]
      OBVIOUS
    <3>3. pkg' = [pkg EXCEPT ![k] = m]
      BY <1>1, <1>2, <1>4, <2>4, <3>1, <3>2 DEF DownloadPut, At
    <3>4. n \in Nat
      BY <2>1, <3>1
    <3>5. IsMeta(m) /\ m.latest = seen.latest
      BY <2>6, <3>2, <3>4, MetaEdits
    <3>6. m.category = seen.category
      BY <2>2, <3>2
    <3> QED BY <3>3, <3>5, <3>6, MetaIsSome
  <2>5. CASE ForkBump(w)
    <3>1. PICK n, d : n = seen.forks + 1 /\ d = seen.downloads + 1
      OBVIOUS
    <3>2. PICK m : m = [seen EXCEPT !.forks = n, !.downloads = d]
      OBVIOUS
    <3>3. pkg' = [pkg EXCEPT ![k] = m]
      BY <1>1, <1>2, <1>4, <2>5, <3>1, <3>2 DEF ForkBump, At
    <3>4. n \in Nat /\ d \in Nat
      BY <2>1, <3>1
    <3>5. IsMeta(m) /\ m.latest = seen.latest
      BY <2>6, <3>2, <3>4, ForkEdits
    <3>6. m.category = seen.category
      BY <2>2, <3>2
    <3> QED BY <3>3, <3>5, <3>6, MetaIsSome
  <2> QED BY <2>3, <2>4, <2>5
<1>7. pkg'[k] = m /\ pkg[k] # None /\ \A p \in Packages : p # k => pkg'[p] = pkg[p]
  BY <1>3, <1>5, <1>6, MetaIsSome DEF HubInv, StoreInv
<1>8. UNCHANGED <<ver, typ, tver>>
  BY DEF StarMeta, DownloadPut, ForkBump
<1>9. \A p \in Packages : /\ pkg'[p] = None <=> pkg[p] = None
                          /\ pkg[p] # None => pkg'[p].latest = pkg[p].latest /\ pkg'[p].category = pkg[p].category
  BY <1>5, <1>6, <1>7
<1> QED BY <1>8, <1>9, PlacesKept

LEMMA CounterIndex ==
  ASSUME HubInv, TypeInv, AckInv, IndexInv, NEW w \in Workers, StarMeta(w) \/ DownloadPut(w) \/ ForkBump(w)
  PROVE  IndexInv'
<1> SUFFICES ASSUME ~shared PROVE IndexInv'
  BY OnlyArrivalsShare DEF Step
<1>1. \A k \in Keys : Places(k)' = Places(k)
  <2>1. contended = {}
    BY DEF IndexInv, Solo
  <2> QED BY <2>1, CounterPlaces
<1>2. StepOf(w) /\ UNCHANGED <<idx, contended>>
  BY StepIsOf DEF Step, StarMeta, DownloadPut, ForkBump, aux
<1>3. Busy(w) /\ Listless(req[w])
  BY ListlessAt DEF StarMeta, DownloadPut, ForkBump
<1>4. \E status : Reply(w, req[w], status)
  BY DEF StarMeta, DownloadPut, ForkBump
<1> QED BY <1>1, <1>2, <1>3, <1>4, ReplyPlain

(* The steps that leave the documents alone.                               *)
LEMMA ReadIndex ==
  ASSUME HubInv, TypeInv, IndexInv, NEW w \in Workers,
         \/ PublishPrior(w) \/ StarKey(w) \/ StarPut(w) \/ ForkRead(w) \/ ForkCheck(w)
         \/ TypeHash(w) \/ TypePrior(w) \/ TypePutHash(w)
  PROVE  IndexInv'
<1> SUFFICES ASSUME ~shared PROVE IndexInv'
  BY OnlyArrivalsShare DEF Step
<1>1. PICK r : r = req[w]
  OBVIOUS
<1>2. /\ StepOf(w) /\ UNCHANGED <<pkg, ver, typ, tver, idx, contended>>
  BY StepIsOf DEF Step, PublishPrior, StarKey, StarPut, ForkRead, ForkCheck, TypeHash, TypePrior, TypePutHash,
     store, aux
<1>3. \A k \in Keys : Places(k)' = Places(k)
  BY <1>2, DocumentsKept
<1>4. PICK pc : At(w, pc) /\ pc \in {"prior", "starKey", "starPut", "forkRead", "forkCheck", "hash", "typePrior", "typeHash"}
  BY DEF PublishPrior, StarKey, StarPut, ForkRead, ForkCheck, TypeHash, TypePrior, TypePutHash
<1>5. /\ Busy(w) /\ Listless(r) /\ r.list = None /\ r.todo = <<>> /\ IsRequest(r) /\ KnowsPrior(r) /\ r.pc = pc
      /\ r.op # "type" => PackageRequestSound(r, ver)
      /\ r.op = "type" => TypeRequestSound(r, tver)
  BY <1>1, <1>4, ListlessAt, InFlight
<1>6. ASSUME NEW status, NEW q, Reply(w, q, status) PROVE IndexInv'
  BY <1>1, <1>2, <1>3, <1>5, <1>6, ReplyPlain
<1>7. ASSUME NEW q, IsRequest(q), q.todo = <<>>, q.list = None, NEW to \in Pcs \ {"index", "typeExtends"},
             Goto(w, q, to),
             \A x : IsRequest(x) /\ x.pc = to /\ x.op = q.op /\ x.key = q.key /\ x.seen = q.seen
                    /\ x.prior = q.prior /\ x.latest = q.latest => KnowsPrior(x)
      PROVE  IndexInv'
  <2>1. \A x : KnowsPrior(x) => KnowsPrior(x)'
    BY <1>2 DEF KnowsPrior, TypeArtifact
  <2> QED BY <1>1, <1>2, <1>3, <1>5, <1>7, <2>1, GotoPlain
<1>8. CASE PublishPrior(w)
  <2>1. PICK val : val = IF r.seen = None THEN None ELSE ver[r.key][r.seen.latest]
    OBVIOUS
  <2>2. PICK q : q = [r EXCEPT !.prior = val]
    OBVIOUS
  <2>3. IsRequest(q) /\ q.todo = <<>> /\ q.list = None /\ q.op = r.op /\ q.key = r.key /\ q.seen = r.seen /\ q.prior = val
    BY <1>5, <2>2 DEF IsRequest
  <2>4. Goto(w, q, "put") /\ r.op = "publish"
    BY <1>1, <1>4, <1>5, <1>8, <2>1, <2>2 DEF PublishPrior, At, PackageRequestSound, TypeRequestSound
  <2> QED BY <1>7, <2>1, <2>3, <2>4 DEF KnowsPrior, Pcs
<1>9. CASE StarKey(w) \/ StarPut(w)
  <2>1. r.op \in {"star", "unstar"}
    BY <1>1, <1>5, <1>9 DEF StarKey, StarPut, At, PackageRequestSound, TypeRequestSound
  <2>2. \/ \E status : Reply(w, r, status)
        \/ \E to \in {"starPut", "starMeta"} : Goto(w, r, to)
    BY <1>1, <1>9 DEF StarKey, StarPut
  <2> QED BY <1>5, <1>6, <1>7, <2>1, <2>2 DEF KnowsPrior, Pcs
<1>10. CASE ForkRead(w) \/ ForkCheck(w)
  <2>1. r.op = "fork" /\ r.prior = None
    BY <1>1, <1>5, <1>10 DEF ForkRead, ForkCheck, At, PackageRequestSound, TypeRequestSound, KnowsPrior
  <2>2. PICK q : q = [r EXCEPT !.body = ver[r.upstream][r.seen.latest]]
    OBVIOUS
  <2>3. IsRequest(q) /\ q.todo = <<>> /\ q.list = None /\ q.op = r.op /\ q.prior = r.prior
    BY <1>5, <2>2 DEF IsRequest
  <2>4. \/ \E status : Reply(w, r, status)
        \/ Goto(w, q, "forkCheck") \/ Goto(w, r, "put")
    BY <1>1, <1>10, <2>2 DEF ForkRead, ForkCheck
  <2> QED BY <1>5, <1>6, <1>7, <2>1, <2>3, <2>4 DEF KnowsPrior, Pcs
<1>11. CASE TypeHash(w)
  <2>1. r.op = "type"
    BY <1>1, <1>5, <1>11 DEF TypeHash, At, PackageRequestSound
  <2>2. (\E q, status : Reply(w, q, status)) \/ Goto(w, r, "typePrior")
    BY <1>1, <1>11 DEF TypeHash
  <2> QED BY <1>5, <1>6, <1>7, <2>1, <2>2 DEF KnowsPrior, Pcs
<1>12. CASE TypePrior(w)
  <2>1. PICK val : val = TypeArtifact(r)
    OBVIOUS
  <2>2. PICK q : q = [r EXCEPT !.prior = val]
    OBVIOUS
  <2>3. /\ IsRequest(q) /\ q.todo = <<>> /\ q.list = None /\ q.op = r.op /\ q.key = r.key
        /\ q.latest = r.latest /\ q.prior = val
    BY <1>5, <2>2 DEF IsRequest
  <2>4. Goto(w, q, "typePut") /\ r.op = "type"
    BY <1>1, <1>5, <1>12, <2>1, <2>2 DEF TypePrior, At, PackageRequestSound
  <2> QED BY <1>7, <2>1, <2>3, <2>4 DEF KnowsPrior, TypeArtifact, Pcs
<1>13. CASE TypePutHash(w)
  <2>1. r.op = "type" /\ r.prior = TypeArtifact(r)
    BY <1>1, <1>5, <1>13 DEF TypePutHash, At, PackageRequestSound, KnowsPrior
  <2>2. Goto(w, r, "typeMeta")
    BY <1>1, <1>13 DEF TypePutHash
  <2> QED BY <1>5, <1>7, <2>1, <2>2 DEF KnowsPrior, TypeArtifact, Pcs
<1> QED BY <1>8, <1>9, <1>10, <1>11, <1>12, <1>13

(* An artifact is put above the latest version.                            *)
LEMMA PutVersionIndex ==
  ASSUME HubInv, TypeInv, AckInv, IndexInv, NEW w \in Workers, PutVersion(w)
  PROVE  IndexInv'
<1> SUFFICES ASSUME ~shared PROVE IndexInv'
  BY OnlyArrivalsShare DEF Step
<1>1. PICK r, n : r = req[w] /\ n = NextVersion(r)
  OBVIOUS
<1>2. /\ Busy(w) /\ Listless(r) /\ r.list = None /\ r.todo = <<>> /\ IsRequest(r) /\ KnowsPrior(r) /\ r.pc = "put"
      /\ StepOf(w) /\ contended' = contended /\ idx' = idx
  BY <1>1, ListlessAt, StepIsOf DEF PutVersion, Step, aux
<1>3. /\ r.op # "type" /\ PackageRequestSound(r, ver) /\ r.key \in Packages /\ r.op \in {"publish", "fork"}
  BY <1>1, <1>2, InFlight DEF PutVersion, TypeRequestSound, PackageRequestSound
<1>4. PackageOwn(r, contended, pkg, ver) /\ contended = {}
  BY <1>1, <1>2, <1>3 DEF AckInv, Own, IndexInv, Solo
<1>5. pkg[r.key] = (IF r.op = "fork" THEN None ELSE r.seen)
  BY <1>2, <1>4 DEF PackageOwn
<1>6. pkg[r.key] # None => r.seen = pkg[r.key] /\ n = r.seen.latest + 1 /\ r.seen.latest \in Versions /\ r.seen.latest # n
  <2> SUFFICES ASSUME pkg[r.key] # None
               PROVE  r.seen = pkg[r.key] /\ n = r.seen.latest + 1 /\ r.seen.latest \in Versions /\ r.seen.latest # n
    OBVIOUS
  <2>1. r.op # "fork" /\ r.seen = pkg[r.key]
    BY <1>5
  <2>2. r.seen.latest \in Versions /\ r.seen # None
    BY <1>3, <2>1 DEF HubInv, StoreInv, IsMeta, Meta
  <2>3. n = r.seen.latest + 1
    BY <1>1, <2>1, <2>2 DEF NextVersion
  <2> QED BY <2>1, <2>2, <2>3, HubAssumption DEF Versions
<1>7. PICK q : q = [r EXCEPT !.version = n]
  OBVIOUS
<1>8. IsRequest(q) /\ q.todo = <<>> /\ q.list = None /\ q.op = r.op /\ q.key = r.key /\ q.seen = r.seen /\ q.prior = r.prior
  BY <1>2, <1>7 DEF IsRequest
<1>9. /\ ver' = [ver EXCEPT ![r.key][n] = r.body] /\ UNCHANGED <<pkg, typ, tver>> /\ Goto(w, q, "meta")
  BY <1>1, <1>7 DEF PutVersion
<1>10. /\ \A p \in Packages : p # r.key => ver'[p] = ver[p]
       /\ \A i \in Versions : i # n => ver'[r.key][i] = ver[r.key][i]
  BY <1>3, <1>9 DEF HubInv, StoreInv
<1>11. \A k \in Keys : Places(k)' = Places(k)
  <2>1. \A p \in Packages : pkg[p] # None => ver'[p][pkg[p].latest] = ver[p][pkg[p].latest]
    BY <1>6, <1>10
  <2> QED BY <1>9, <2>1, PlacesKept
<1>12. ASSUME NEW x, x.pc = "meta", x.op = r.op, x.key = r.key, x.seen = r.seen, x.prior = r.prior PROVE KnowsPrior(x)'
  <2>1. r.op = "publish" => r.prior = IF r.seen = None THEN None ELSE ver[r.key][r.seen.latest]
    BY <1>2 DEF KnowsPrior
  <2>2. r.op = "publish" /\ r.seen # None => ver'[r.key][r.seen.latest] = ver[r.key][r.seen.latest]
    BY <1>5, <1>6, <1>10
  <2>3. r.op = "fork" => r.prior = None
    BY <1>2 DEF KnowsPrior
  <2> QED BY <1>3, <1>12, <2>1, <2>2, <2>3 DEF KnowsPrior
<1> QED BY <1>1, <1>2, <1>8, <1>9, <1>11, <1>12, GotoPlain DEF Pcs

LEMMA TypePutIndex ==
  ASSUME HubInv, TypeInv, AckInv, IndexInv, NEW w \in Workers, TypePut(w)
  PROVE  IndexInv'
<1> SUFFICES ASSUME ~shared PROVE IndexInv'
  BY OnlyArrivalsShare DEF Step
<1>1. PICK r, n : r = req[w] /\ n = r.latest + 1
  OBVIOUS
<1>2. /\ Busy(w) /\ Listless(r) /\ r.list = None /\ r.todo = <<>> /\ IsRequest(r) /\ KnowsPrior(r) /\ r.pc = "typePut"
      /\ StepOf(w) /\ contended' = contended /\ idx' = idx
  BY <1>1, ListlessAt, StepIsOf DEF TypePut, Step, aux
<1>3. r.op = "type" /\ r.key \in TypeKeys /\ r.latest \in Nat /\ n \in Versions /\ r.prior = TypeArtifact(r)
  BY <1>1, <1>2, InFlight DEF TypePut, TypeRequestSound, PackageRequestSound, KnowsPrior
<1>4. TypeOwn(r, contended, typ, tver) /\ contended = {}
  BY <1>1, <1>2, <1>3 DEF AckInv, Own, IndexInv, Solo
<1>5. typ[r.key] = r.latest
  BY <1>2, <1>4 DEF TypeOwn
<1>6. PICK q : q = [r EXCEPT !.version = n]
  OBVIOUS
<1>7. /\ IsRequest(q) /\ q.todo = <<>> /\ q.list = None /\ q.op = r.op /\ q.key = r.key /\ q.seen = r.seen
      /\ q.prior = r.prior /\ q.latest = r.latest
  BY <1>2, <1>6 DEF IsRequest
<1>8. /\ tver' = [tver EXCEPT ![r.key][n] = r.body] /\ UNCHANGED <<pkg, typ, ver>> /\ Goto(w, q, "typeHash")
  BY <1>1, <1>6 DEF TypePut
<1>9. /\ \A t \in TypeKeys : t # r.key => tver'[t] = tver[t]
      /\ \A i \in Versions : i # n => tver'[r.key][i] = tver[r.key][i]
  BY <1>3, <1>8 DEF HubInv, StoreInv
<1>10. r.latest # 0 => r.latest \in Versions /\ r.latest # n
  BY <1>1, <1>3, HubAssumption DEF Versions
<1>11. \A k \in Keys : Places(k)' = Places(k)
  <2>1. \A t \in TypeKeys : typ'[t] = typ[t] /\ (typ[t] # 0 => tver'[t][typ[t]] = tver[t][typ[t]])
    BY <1>5, <1>8, <1>9, <1>10
  <2> QED BY <1>8, <2>1, PlacesKept
<1>12. TypeArtifact(r)' = TypeArtifact(r)
  BY <1>9, <1>10 DEF TypeArtifact
<1>13. ASSUME NEW x, x.op = r.op, x.key = r.key, x.latest = r.latest, x.prior = r.prior PROVE KnowsPrior(x)'
  <2>1. TypeArtifact(x)' = TypeArtifact(r)'
    BY <1>13 DEF TypeArtifact
  <2> QED BY <1>3, <1>12, <1>13, <2>1 DEF KnowsPrior
<1> QED BY <1>1, <1>2, <1>7, <1>8, <1>11, <1>13, GotoPlain DEF Pcs

(* The lists are done; those of a type that extends another are not.       *)
LEMMA IndexDoneIndex ==
  ASSUME HubInv, TypeInv, IndexInv, NEW w \in Workers, IndexDone(w)
  PROVE  IndexInv'
<1> SUFFICES ASSUME ~shared PROVE IndexInv'
  BY OnlyArrivalsShare DEF Step
<1>1. PICK r : r = req[w]
  OBVIOUS
<1>2. /\ StepOf(w) /\ UNCHANGED <<pkg, ver, typ, tver, idx, contended, died>>
  BY StepIsOf DEF Step, IndexDone, store
<1>3. \A k \in Keys : Places(k)' = Places(k)
  BY <1>2, DocumentsKept
<1>4. /\ Busy(w) /\ r.pc \in {"index", "links"} /\ r.todo = <<>> /\ IsRequest(r) /\ Typed(r) /\ r.list = None /\ Knows(r)
      /\ r.op # "type" => PackageRequestSound(r, ver)
  <2>1. /\ Busy(w) /\ r.pc \in {"index", "links"} /\ r.todo = <<>> /\ IsRequest(r) /\ Typed(r)
        /\ r.op # "type" => PackageRequestSound(r, ver)
    BY <1>1, InFlight, InFlightTyped DEF IndexDone, At, Busy
  <2> QED BY <1>1, <2>1 DEF IndexInv, Typed
<1>5. CASE r.op = "type" /\ r.pc = "index" /\ Goto(w, r, "typeExtends")
  <2>1. PICK x : x = [r EXCEPT !.pc = "typeExtends"]
    OBVIOUS
  <2>2. /\ x.pc = "typeExtends" /\ x.op = "type" /\ x.key = r.key /\ x.todo = r.todo /\ x.list = None
        /\ x.latest = r.latest /\ x.body = r.body
    BY <1>4, <1>5, <2>1 DEF IsRequest
  <2>3. req'[w] = x
    BY <1>1, <1>5, <2>1 DEF Goto, HubInv
  <2>4. Work(x) = Work(r)
    BY <1>5, <2>2 DEF Work, ExtendsAhead, TypeArtifact
  <2>5. Knows(x)
    BY <1>4, <1>5, <2>2, <2>4 DEF Knows, KnowsPrior
  <2>6. Knows(req[w])' /\ Work(req[w])' = Work(r)
    BY <1>2, <2>3, <2>4, <2>5, SameRequest, SameStores
  <2>7. Busy(w)' => Pending' = Pending
    BY <1>1, <1>2, <1>4, <2>6, Working
  <2>8. Busy(w)'
    <3>1. x # None
      BY <2>3, StepTyped, NoneIsNothingElse DEF Step, Typed
    <3> QED BY <2>2, <2>3, <3>1 DEF Busy
  <2>9. Solo' /\ \A v \in Workers : Busy(v)' => Knows(req[v])'
    BY <1>1, <1>2, <1>4, <2>6, Working
  <2> QED BY <1>2, <1>3, <2>7, <2>8, <2>9, Calm
<1>6. CASE ~(r.op = "type" /\ r.pc = "index")
  <2>1. Listless(r)
    BY <1>2, <1>4, <1>6, InFlight DEF Listless, ExtendsAhead
  <2>2. CASE r.op = "fork" /\ Goto(w, r, "upstream")
    BY <1>1, <1>2, <1>3, <1>4, <2>1, <2>2, GotoPlain DEF KnowsPrior, Knows, Pcs
  <2>3. CASE Reply(w, r, "created")
    BY <1>1, <1>2, <1>3, <1>4, <2>1, <2>3, ReplyPlain
  <2> QED BY <1>1, <1>6, <2>2, <2>3 DEF IndexDone
<1> QED
  <2>1. r.op = "type" /\ r.pc = "index" => Goto(w, r, "typeExtends")
    BY <1>1 DEF IndexDone
  <2> QED BY <1>5, <1>6, <2>1

(* The prior artifact is the one that was read the first time.             *)
LEMMA TypeExtendsIndex ==
  ASSUME HubInv, TypeInv, IndexInv, NEW w \in Workers, TypeExtends(w)
  PROVE  IndexInv'
<1> SUFFICES ASSUME ~shared PROVE IndexInv'
  BY OnlyArrivalsShare DEF Step
<1>1. PICK r, ops : r = req[w] /\ ops = ExtendsOps(r.key, TypeArtifact(r), r.body)
  OBVIOUS
<1>2. /\ StepOf(w) /\ UNCHANGED <<pkg, ver, typ, tver, idx, contended, died>>
  BY StepIsOf DEF Step, TypeExtends, store, aux
<1>3. \A k \in Keys : Places(k)' = Places(k)
  BY <1>2, DocumentsKept
<1>4. Busy(w) /\ r.pc = "typeExtends" /\ r.op = "type" /\ IsRequest(r) /\ Typed(r) /\ Knows(r)
  <2>1. Busy(w) /\ r.pc = "typeExtends" /\ r.op = "type" /\ IsRequest(r) /\ Typed(r)
    BY <1>1, InFlight, InFlightTyped DEF TypeExtends, At, Busy, PackageRequestSound
  <2> QED BY <1>1, <2>1 DEF IndexInv
<1>5. r.todo = <<>> /\ r.list = None
  BY <1>4 DEF Knows, Typed
<1>6. PICK q, x : q = [r EXCEPT !.todo = ops] /\ x = [q EXCEPT !.pc = "links"]
  OBVIOUS
<1>7. x.pc = "links" /\ x.op = "type" /\ x.key = r.key /\ x.todo = ops /\ x.list = None
  BY <1>4, <1>5, <1>6 DEF IsRequest
<1>8. req'[w] = x
  BY <1>1, <1>6 DEF TypeExtends, Goto, HubInv
<1>9. Work(r) = ToSet(ops) /\ Work(x) = ToSet(ops)
  BY <1>1, <1>4, <1>5, <1>7, PairSet DEF Work, ExtendsAhead
<1>10. \A o \in ToSet(ops) : o.do # "prune" /\ (o.list = <<"categories">> \/ o.entry = r.key)
  BY <1>4, <1>9 DEF Knows
<1>11. Knows(x)
  BY <1>7, <1>9, <1>10, NoPrunes DEF Knows, KnowsPrior
<1>12. Knows(req[w])' /\ Work(req[w])' = Work(r)
  BY <1>2, <1>8, <1>9, <1>11, SameRequest, SameStores
<1>13. Busy(w)'
  <2>1. x # None
    BY <1>8, StepTyped, NoneIsNothingElse DEF Step, Typed
  <2> QED BY <1>7, <1>8, <2>1 DEF Busy
<1>14. Pending' = Pending
  BY <1>1, <1>2, <1>4, <1>12, <1>13, Working
<1>15. Solo' /\ \A v \in Workers : Busy(v)' => Knows(req[v])'
  BY <1>1, <1>2, <1>4, <1>12, Working
<1> QED BY <1>2, <1>3, <1>14, <1>15, Calm

-------------------------------------------------------------------------------
(* The work on the lists.                                                  *)

LEMMA HeadWork ==
  ASSUME NEW S, NEW s \in Seq(S), s # << >>
  PROVE  /\ ToSet(s) = {Head(s)} \cup ToSet(Tail(s)) /\ Head(s) \in S /\ Tail(s) \in Seq(S)
         /\ PrunesLast(s) =>
              /\ PrunesLast(Tail(s))
              /\ Head(s).do = "prune" => \A o \in ToSet(Tail(s)) : o.list # Head(s).list
<1>1. PICK h, t : h = Head(s) /\ t = Tail(s)
  OBVIOUS
<1>2. /\ Len(s) \in Nat \ {0} /\ DOMAIN s = 1..Len(s) /\ DOMAIN t = 1..(Len(s) - 1)
      /\ s[1] = h /\ \A i \in 1..(Len(s) - 1) : t[i] = s[i + 1]
      /\ h \in S /\ t \in Seq(S)
  BY <1>1
<1>3. \A i \in DOMAIN s : i = 1 \/ (i - 1 \in DOMAIN t /\ s[i] = t[i - 1])
  <2> SUFFICES ASSUME NEW i \in DOMAIN s, i # 1 PROVE i - 1 \in DOMAIN t /\ s[i] = t[i - 1]
    OBVIOUS
  <2>1. i \in Int /\ i - 1 \in 1..(Len(s) - 1) /\ (i - 1) + 1 = i
    BY <1>2
  <2> QED BY <1>2, <2>1
<1>4. \A i \in DOMAIN t : i \in Int /\ i + 1 \in DOMAIN s /\ t[i] = s[i + 1] /\ 1 < i + 1
  BY <1>2
<1>5. ToSet(s) = {h} \cup ToSet(t)
  <2>1. 1 \in DOMAIN s
    BY <1>2
  <2>2. \A x : x \in ToSet(s) => x \in {h} \cup ToSet(t)
    BY <1>2, <1>3 DEF ToSet
  <2>3. \A x : x \in {h} \cup ToSet(t) => x \in ToSet(s)
    BY <1>2, <1>4, <2>1 DEF ToSet
  <2> QED BY <2>2, <2>3
<1>6. ASSUME PrunesLast(s) PROVE PrunesLast(t)
  <2> SUFFICES ASSUME NEW i \in DOMAIN t, NEW j \in DOMAIN t, i < j, t[i].do = "prune" PROVE t[j].list # t[i].list
    BY DEF PrunesLast
  <2>1. i + 1 < j + 1
    BY <1>4
  <2> QED BY <1>4, <1>6, <2>1 DEF PrunesLast
<1>7. ASSUME PrunesLast(s), h.do = "prune", NEW o \in ToSet(t) PROVE o.list # h.list
  <2>1. PICK i \in DOMAIN t : o = t[i]
    BY DEF ToSet
  <2>2. 1 \in DOMAIN s /\ i + 1 \in DOMAIN s /\ 1 < i + 1 /\ o = s[i + 1]
    BY <1>2, <1>4, <2>1
  <2> QED BY <1>2, <1>7, <2>2 DEF PrunesLast
<1> QED BY <1>1, <1>2, <1>5, <1>6, <1>7

LEMMA WorkSplit ==
  ASSUME NEW r, NEW x, x.op = r.op, x.pc = r.pc, x.key = r.key, x.latest = r.latest, x.body = r.body
  PROVE  \E E : Work(r) = ToSet(r.todo) \cup E /\ Work(x) = ToSet(x.todo) \cup E
                /\ (r.op # "type" => E = {})
BY DEF Work, ExtendsAhead, TypeArtifact

LEMMA KnowsAtLists ==
  ASSUME NEW x, x.list = None, x.pc \in {"index", "links"}, x.op = "fork" => x.prior = None, PrunesLast(x.todo),
         \A o \in Work(x) : IF o.do = "prune" THEN x.op # "type" ELSE o.list = <<"categories">> \/ o.entry = x.key,
         tver' = tver
  PROVE  Knows(x)' /\ Work(x)' = Work(x)
<1>1. Work(x)' = Work(x)
  BY DEF Work, ExtendsAhead, TypeArtifact
<1>2. KnowsPrior(x)'
  BY DEF KnowsPrior
<1> QED BY <1>1, <1>2 DEF Knows

(* An entry is put where it belongs, or taken off where it does not.       *)
LEMMA Performed ==
  ASSUME TypeInv, IndexInv, ~shared, Solo', \A v \in Workers : Busy(v)' => Knows(req[v])', died' = died,
         \A k \in Keys : Places(k)' = Places(k),
         NEW h \in ListOp, h \in Pending, h.do # "prune", idx' = [idx EXCEPT ![h.list] = Rewritten(h)],
         Pending' \subseteq Pending, Pending \subseteq Pending' \cup {h}
  PROVE  IndexInv'
<1>1. /\ h.list \in Lists /\ h.do \in {"add", "remove"} /\ Apt(h)
      /\ idx'[h.list] = Rewritten(h) /\ \A l \in Lists : l # h.list => idx'[l] = idx[l]
  BY DEF ListOp, TypeInv, IndexInv
<1>2. \A e : e \in idx'[h.list] <=> IF e = h.entry THEN h.do = "add" ELSE e \in idx[h.list]
  BY <1>1 DEF Rewritten
<1>3. \A c : Inhabited(c)' <=> Inhabited(c)
  BY DEF Inhabited, Keys
<1>4. \A o \in Pending' : Apt(o)'
  <2>1. \A o \in Pending' : Apt(o)
    BY DEF IndexInv
  <2> QED BY <1>3, <2>1 DEF Apt
<1>5. ASSUME NEW k \in Keys \ died', NEW l \in Lists \ {<<"categories">>} PROVE Listed(l, k)'
  <2>1. Listed(l, k)
    BY <1>5 DEF IndexInv
  <2>2. CASE l = h.list /\ k = h.entry
    <3>1. h.do = "add" <=> l \in Places(k)
      BY <1>1, <2>2 DEF Apt
    <3> QED BY <1>2, <2>2, <3>1 DEF Listed
  <2>3. CASE ~(l = h.list /\ k = h.entry)
    <3>1. k \in idx'[l] <=> k \in idx[l]
      BY <1>1, <1>2, <2>3
    <3>2. \A o \in Pending : o.list = l /\ o.entry = k => o \in Pending'
      BY <2>3
    <3> QED BY <2>1, <3>1, <3>2 DEF Listed
  <2> QED BY <2>2, <2>3
<1>6. ASSUME NEW c \in Categories PROVE idx'[<<"cat", c>>] \subseteq Packages
  <2>1. PICK l : l = <<"cat", c>>
    OBVIOUS
  <2>2. l \in Lists /\ l # <<"categories">>
    BY <2>1 DEF Lists
  <2>3. idx[l] \subseteq Packages
    BY <1>6, <2>1 DEF IndexInv
  <2>4. CASE l = h.list /\ h.do = "add"
    <3>1. h.entry \in Keys /\ l \in Places(h.entry)
      BY <1>1, <2>2, <2>4 DEF Apt
    <3>2. h.entry \notin TypeKeys
      <4>1. \A t, b : l \notin TypePlaces(t, b)
        BY <2>1, PlaceOfType
      <4> QED BY <3>1, <4>1 DEF Places
    <3> QED BY <1>2, <2>1, <2>3, <2>4, <3>1, <3>2 DEF Keys
  <2>5. CASE ~(l = h.list /\ h.do = "add")
    BY <1>1, <1>2, <2>1, <2>2, <2>3, <2>5
  <2> QED BY <2>4, <2>5
<1>7. ASSUME died' = {}, NEW c \in Categories PROVE Categorized(c)'
  <2>1. Categorized(c)
    BY <1>7 DEF IndexInv
  <2>2. \A l, e : /\ AddTo(l, e).list = l /\ AddTo(l, e).entry = e
                  /\ RemoveFrom(l, e).list = l /\ RemoveFrom(l, e).entry = e
    BY DEF AddTo, RemoveFrom
  <2>3. PICK l : l = <<"categories">>
    OBVIOUS
  <2>4. l \in Lists
    BY <2>3 DEF Lists
  <2>5. CASE h.list = l /\ h.entry = c
    <3>1. (h.do = "add" => Inhabited(c)) /\ (h.do = "remove" => ~Inhabited(c))
      BY <1>1, <1>7, <2>3, <2>5 DEF Apt
    <3>2. c \in idx'[l] <=> h.do = "add"
      BY <1>2, <2>5
    <3> QED BY <1>1, <1>3, <2>3, <3>1, <3>2 DEF Categorized
  <2>6. CASE ~(h.list = l /\ h.entry = c)
    <3>1. c \in idx'[l] <=> c \in idx[l]
      BY <1>1, <1>2, <2>4, <2>6
    <3>2. AddTo(l, c) \in Pending => AddTo(l, c) \in Pending'
      BY <2>2, <2>6
    <3>3. \A o \in Pending : (o.do = "prune" \/ o = RemoveFrom(l, c)) => o \in Pending'
      BY <2>2, <2>6
    <3> QED BY <1>3, <2>1, <2>3, <3>1, <3>2, <3>3 DEF Categorized
  <2> QED BY <2>5, <2>6
<1>8. idx'[<<"categories">>] \subseteq Categories
  <2>1. PICK l : l = <<"categories">>
    OBVIOUS
  <2>2. l \in Lists /\ idx[l] \subseteq Categories
    BY <2>1 DEF Lists, IndexInv
  <2>3. h.list = l => h.entry \in Categories
    BY <1>1, <2>1 DEF Apt
  <2>4. idx'[l] \subseteq Categories
    BY <1>1, <1>2, <2>2, <2>3
  <2> QED BY <2>1, <2>4
<1> QED BY <1>4, <1>5, <1>6, <1>7, <1>8 DEF IndexInv

(* A category is looked at when no work is left on its list: it is taken   *)
(* off the categories if and only if no package is in it.                  *)
LEMMA Pruned ==
  ASSUME IndexInv, ~shared, Solo', \A v \in Workers : Busy(v)' => Knows(req[v])', died' = died, idx' = idx,
         \A k \in Keys : Places(k)' = Places(k),
         NEW h \in ListOp, h \in Pending, h.do = "prune", \A o \in Pending : o.do # "prune" => o.list # h.list,
         NEW n, n = RemoveFrom(<<"categories">>, h.entry),
         Pending \subseteq Pending' \cup {h},
         IF idx[h.list] = {} THEN Pending' \subseteq Pending \cup {n} /\ n \in Pending' ELSE Pending' \subseteq Pending
  PROVE  IndexInv'
<1>1. PICK c : c = h.entry
  OBVIOUS
<1>2. h.list = <<"cat", c>> /\ h.list \in Lists /\ h.list # <<"categories">> /\ c \in Categories
  <2>1. h.list = <<"cat", c>> /\ h.list \in Lists
    BY <1>1 DEF IndexInv, Apt, ListOp
  <2> QED BY <2>1 DEF Lists
<1>3. n.do = "remove" /\ n.list = <<"categories">> /\ n.entry = c
  BY <1>1 DEF RemoveFrom
<1>4. died = {} => (Inhabited(c) <=> idx[h.list] # {})
  <2> SUFFICES ASSUME died = {} PROVE Inhabited(c) <=> idx[h.list] # {}
    OBVIOUS
  <2>1. \A k \in Keys : k \in idx[h.list] <=> h.list \in Places(k)
    BY <1>2 DEF IndexInv, Listed
  <2>2. idx[h.list] \subseteq Packages
    BY <1>2 DEF IndexInv
  <2> QED BY <1>2, <2>1, <2>2 DEF Inhabited, Keys
<1>5. \A e : Inhabited(e)' <=> Inhabited(e)
  BY DEF Inhabited, Keys
<1>6. \A o \in Pending' : Apt(o)'
  <2>1. \A o \in Pending : Apt(o)'
    <3>1. \A o \in Pending : Apt(o)
      BY DEF IndexInv
    <3> QED BY <1>5, <3>1 DEF Apt
  <2>2. idx[h.list] = {} => Apt(n)'
    BY <1>2, <1>3, <1>4, <1>5 DEF Apt
  <2> QED BY <2>1, <2>2
<1>7. ASSUME NEW k \in Keys \ died', NEW l \in Lists \ {<<"categories">>} PROVE Listed(l, k)'
  <2>1. Listed(l, k)
    BY <1>7 DEF IndexInv
  <2> QED BY <2>1 DEF Listed
<1>8. idx'[<<"categories">>] \subseteq Categories /\ \A e \in Categories : idx'[<<"cat", e>>] \subseteq Packages
  BY DEF IndexInv
<1>9. ASSUME died' = {}, NEW e \in Categories PROVE Categorized(e)'
  <2>1. Categorized(e)
    BY <1>9 DEF IndexInv
  <2>2. Inhabited(e) /\ e \notin idx[<<"categories">>] => AddTo(<<"categories">>, e) \in Pending'
    <3>1. AddTo(<<"categories">>, e) # h
      BY DEF AddTo
    <3> QED BY <2>1, <3>1 DEF Categorized
  <2>3. ASSUME e \in idx[<<"categories">>], ~Inhabited(e)
        PROVE  \E o \in Pending' : o.entry = e /\ (o.do = "prune" \/ o = RemoveFrom(<<"categories">>, e))
    <3>1. PICK o \in Pending : o.entry = e /\ (o.do = "prune" \/ o = RemoveFrom(<<"categories">>, e))
      BY <2>1, <2>3 DEF Categorized
    <3>2. CASE o # h
      BY <3>1, <3>2
    <3>3. CASE o = h
      <4>1. e = c /\ idx[h.list] = {}
        BY <1>1, <1>4, <1>9, <2>3, <3>1, <3>3
      <4> QED BY <1>1, <1>3, <4>1
    <3> QED BY <3>2, <3>3
  <2> QED BY <1>5, <2>2, <2>3 DEF Categorized
<1> QED BY <1>6, <1>7, <1>8, <1>9 DEF IndexInv

(* What IndexRead and IndexWrite find.                                     *)
LEMMA AtLists ==
  ASSUME HubInv, TypeInv, IndexInv, ~shared, NEW w \in Workers, IndexRead(w) \/ IndexWrite(w)
  PROVE  /\ Busy(w) /\ req[w].pc \in {"index", "links"} /\ req[w] \in Request /\ IsRequest(req[w]) /\ Knows(req[w])
         /\ req[w].todo \in Seq(ListOp) /\ req[w].todo # <<>> /\ Pending = Work(req[w])
         /\ StepOf(w) /\ UNCHANGED <<pkg, ver, typ, tver, contended, died>>
         /\ Solo' /\ req'[w] # None
         /\ \A k \in Keys : Places(k)' = Places(k)
<1>1. /\ Busy(w) /\ req[w].pc \in {"index", "links"} /\ req[w] \in Request /\ IsRequest(req[w]) /\ Typed(req[w])
  BY InFlightTyped, InFlight DEF IndexRead, IndexWrite, At, Busy
<1>2. req[w].todo \in Seq(ListOp) /\ req[w].todo # <<>>
  BY <1>1, FieldsOfRequest DEF IndexRead, IndexWrite, Typed
<1>3. StepOf(w) /\ UNCHANGED <<pkg, ver, typ, tver, contended, died>>
  BY StepIsOf DEF Step, IndexRead, IndexWrite, store, aux
<1>4. Knows(req[w]) /\ Pending = Work(req[w]) /\ Solo'
  BY <1>1, <1>3, Working DEF IndexInv
<1>5. req'[w] # None
  BY StepTyped, NoneIsNothingElse DEF Step, Typed
<1> QED BY <1>1, <1>2, <1>3, <1>4, <1>5, DocumentsKept

(* What a request knows after the operation at the head of its work.       *)
Follows(x, r) ==
  /\ x.op = r.op /\ x.pc = r.pc /\ x.key = r.key /\ x.latest = r.latest /\ x.body = r.body
  /\ x.prior = r.prior /\ x.list = None

LEMMA AfterHead ==
  ASSUME HubInv, TypeInv, IndexInv, ~shared, NEW w \in Workers, IndexRead(w) \/ IndexWrite(w),
         NEW r, r = req[w], NEW x, req'[w] = x,
         Follows(x, r), NEW s, x.todo = s, PrunesLast(s),
         \A o \in ToSet(s) : o \in ToSet(r.todo) \/ (o.do # "prune" /\ o.list = <<"categories">>)
  PROVE  /\ \A v \in Workers : Busy(v)' => Knows(req[v])'
         /\ \E E : Pending = ToSet(r.todo) \cup E /\ Pending' = ToSet(s) \cup E /\ (r.op # "type" => E = {})
<1> USE DEF Follows
<1>1. /\ Busy(w) /\ r.pc \in {"index", "links"} /\ Knows(r) /\ Pending = Work(r) /\ StepOf(w)
      /\ tver' = tver /\ contended' = contended /\ x # None
  BY AtLists
<1>2. PICK E : Work(r) = ToSet(r.todo) \cup E /\ Work(x) = ToSet(x.todo) \cup E /\ (r.op # "type" => E = {})
  BY WorkSplit
<1>3. \A o \in Work(x) : IF o.do = "prune" THEN x.op # "type" ELSE o.list = <<"categories">> \/ o.entry = x.key
  BY <1>1, <1>2 DEF Knows
<1>4. x.op = "fork" => x.prior = None
  BY <1>1 DEF Knows, KnowsPrior
<1>5. Knows(x)' /\ Work(x)' = Work(x)
  BY <1>1, <1>3, <1>4, KnowsAtLists
<1>6. Knows(req[w])' /\ Work(req[w])' = Work(x)
  BY <1>5, SameRequest
<1>7. Busy(w)'
  BY <1>1 DEF Busy
<1>8. Pending' = Work(x) /\ \A v \in Workers : Busy(v)' => Knows(req[v])'
  BY <1>1, <1>6, <1>7, Working
<1> QED BY <1>1, <1>2, <1>8

LEMMA IndexWriteIndex ==
  ASSUME HubInv, TypeInv, IndexInv, NEW w \in Workers, IndexWrite(w)
  PROVE  IndexInv'
<1> SUFFICES ASSUME ~shared PROVE IndexInv'
  BY OnlyArrivalsShare DEF Step
<1>1. PICK r, h, t : r = req[w] /\ h = Head(r.todo) /\ t = Tail(r.todo)
  OBVIOUS
<1>2. /\ IsRequest(r) /\ Knows(r) /\ r.todo \in Seq(ListOp) /\ r.todo # <<>> /\ died' = died /\ Solo'
      /\ \A k \in Keys : Places(k)' = Places(k)
  BY <1>1, AtLists
<1>3. /\ ToSet(r.todo) = {h} \cup ToSet(t) /\ h \in ListOp /\ PrunesLast(t)
  BY <1>1, <1>2, HeadWork DEF Knows
<1>4. r.list # None /\ h.do # "prune" /\ r.list = Rewritten(h)
  BY <1>1, <1>2 DEF IndexWrite, Knows
<1>5. PICK x : x = [r EXCEPT !.todo = t, !.list = None]
  OBVIOUS
<1>6. Follows(x, r) /\ x.todo = t
  BY <1>2, <1>5 DEF IsRequest, Follows
<1>7. req'[w] = x /\ idx' = [idx EXCEPT ![h.list] = Rewritten(h)]
  BY <1>1, <1>4, <1>5 DEF IndexWrite, HubInv
<1>8. /\ \A v \in Workers : Busy(v)' => Knows(req[v])'
      /\ \E E : Pending = ToSet(r.todo) \cup E /\ Pending' = ToSet(t) \cup E /\ (r.op # "type" => E = {})
  <2>1. \A o \in ToSet(t) : o \in ToSet(r.todo) \/ (o.do # "prune" /\ o.list = <<"categories">>)
    BY <1>3
  <2>2. PrunesLast(t) /\ r = req[w] /\ req'[w] = x
    BY <1>1, <1>3, <1>7
  <2> QED BY <1>6, <2>1, <2>2, AfterHead
<1>9. h \in Pending /\ Pending' \subseteq Pending /\ Pending \subseteq Pending' \cup {h}
  BY <1>3, <1>8
<1> QED BY <1>2, <1>3, <1>4, <1>7, <1>8, <1>9, Performed

LEMMA IndexReadIndex ==
  ASSUME HubInv, TypeInv, IndexInv, NEW w \in Workers, IndexRead(w)
  PROVE  IndexInv'
<1> SUFFICES ASSUME ~shared PROVE IndexInv'
  BY OnlyArrivalsShare DEF Step
<1>1. PICK r, h, t : r = req[w] /\ h = Head(r.todo) /\ t = Tail(r.todo)
  OBVIOUS
<1>2. /\ IsRequest(r) /\ Knows(r) /\ r.todo \in Seq(ListOp) /\ r.todo # <<>> /\ died' = died /\ Solo'
      /\ \A k \in Keys : Places(k)' = Places(k)
      /\ UNCHANGED <<ver, tver, contended, idx>> /\ r.list = None /\ Busy(w) /\ StepOf(w)
      /\ r.pc \in {"index", "links"} /\ req'[w] # None /\ Pending = Work(r)
  BY <1>1, AtLists DEF IndexRead, store
<1>3. /\ ToSet(r.todo) = {h} \cup ToSet(t) /\ h \in ListOp /\ t \in Seq(ListOp) /\ PrunesLast(t)
      /\ h.do = "prune" => \A o \in ToSet(t) : o.list # h.list
  BY <1>1, <1>2, HeadWork DEF Knows
<1>4. h.list \in Lists /\ h.entry \in Entries /\ h.do \in {"add", "remove", "prune"}
  BY <1>3 DEF ListOp
<1>5. PICK n, s, rest, fired, held :
        /\ n = RemoveFrom(<<"categories">>, h.entry) /\ s = <<n>> \o t
        /\ rest = [r EXCEPT !.todo = t]
        /\ fired = [rest EXCEPT !.todo = s]
        /\ held = [r EXCEPT !.list = Rewritten(h)]
  OBVIOUS
<1>6. /\ Follows(rest, r) /\ rest.todo = t /\ Follows(fired, r) /\ fired.todo = s
      /\ held.op = r.op /\ held.pc = r.pc /\ held.key = r.key /\ held.latest = r.latest /\ held.body = r.body
      /\ held.prior = r.prior /\ held.list = Rewritten(h) /\ held.todo = r.todo /\ held.seen = r.seen
  BY <1>2, <1>5 DEF IsRequest, Follows
<1>7. req'[w] = IF h.do = "prune" THEN (IF idx[h.list] = {} THEN fired ELSE rest)
                ELSE IF Rewritten(h) = idx[h.list] THEN rest ELSE held
  <2>1. rest.todo = t
    BY <1>6
  <2>2. rest = [r EXCEPT !.todo = Tail(@)]
    BY <1>1, <1>5
  <2>3. fired = [rest EXCEPT !.todo = <<RemoveFrom(<<"categories">>, h.entry)>> \o @]
    BY <1>5, <2>1
  <2>4. PICK x : x = IF h.do = "prune" THEN (IF idx[h.list] = {} THEN fired ELSE rest)
                     ELSE IF Rewritten(h) = idx[h.list] THEN rest ELSE held
    OBVIOUS
  <2>5. req' = [req EXCEPT ![w] = x]
    BY <1>1, <1>5, <2>2, <2>3, <2>4 DEF IndexRead, Rewritten
  <2> QED BY <2>4, <2>5 DEF HubInv
<1>8. ASSUME req'[w] = rest
       PROVE  /\ \A v \in Workers : Busy(v)' => Knows(req[v])'
              /\ \E E : Pending = ToSet(r.todo) \cup E /\ Pending' = ToSet(t) \cup E /\ (r.op # "type" => E = {})
  <2>1. \A o \in ToSet(t) : o \in ToSet(r.todo) \/ (o.do # "prune" /\ o.list = <<"categories">>)
    BY <1>3
  <2>2. r = req[w] /\ req'[w] = rest /\ Follows(rest, r) /\ rest.todo = t /\ PrunesLast(t)
    BY <1>1, <1>3, <1>6, <1>8
  <2> QED BY <2>1, <2>2, AfterHead
<1>9. CASE h.do = "prune" /\ idx[h.list] = {}
  <2>1. n \in ListOp /\ n.do = "remove" /\ n.list = <<"categories">>
    <3>1. <<"categories">> \in Lists
      BY DEF Lists
    <3> QED BY <1>4, <1>5, <3>1, OpsTyped DEF RemoveFrom
  <2>2. <<n>> \in Seq(ListOp) /\ ToSet(<<n>>) = {n}
    BY <2>1, PairOps, PairSet
  <2>3. ToSet(s) = {n} \cup ToSet(t)
    BY <1>3, <1>5, <2>2, OpsConcat
  <2>4. PrunesLast(s)
    <3>1. PrunesLast(<<n>>)
      BY <2>1, <2>2, NoPrunes
    <3> QED BY <1>3, <1>5, <2>1, <2>2, <3>1, PrunesConcat
  <2>5. \A o \in ToSet(s) : o \in ToSet(r.todo) \/ (o.do # "prune" /\ o.list = <<"categories">>)
    BY <1>3, <2>1, <2>3
  <2>6. /\ \A v \in Workers : Busy(v)' => Knows(req[v])'
        /\ \E E : Pending = ToSet(r.todo) \cup E /\ Pending' = ToSet(s) \cup E /\ (r.op # "type" => E = {})
    <3>1. r = req[w] /\ req'[w] = fired /\ Follows(fired, r) /\ fired.todo = s
      BY <1>1, <1>6, <1>7, <1>9
    <3> QED BY <2>4, <2>5, <3>1, AfterHead
  <2>7. h \in Pending
    BY <1>3, <2>6
  <2>8. r.op # "type"
    BY <1>2, <1>9, <2>7 DEF Knows
  <2>9. /\ \A o \in Pending : o.do # "prune" => o.list # h.list
        /\ Pending \subseteq Pending' \cup {h} /\ Pending' \subseteq Pending \cup {n} /\ n \in Pending'
    BY <1>3, <1>9, <2>3, <2>6, <2>8
  <2> QED BY <1>2, <1>3, <1>5, <1>9, <2>6, <2>7, <2>9, Pruned
<1>10. CASE h.do = "prune" /\ idx[h.list] # {}
  <2>1. /\ \A v \in Workers : Busy(v)' => Knows(req[v])'
        /\ \E E : Pending = ToSet(r.todo) \cup E /\ Pending' = ToSet(t) \cup E /\ (r.op # "type" => E = {})
    BY <1>7, <1>10, <1>8
  <2>2. h \in Pending
    BY <1>3, <2>1
  <2>3. r.op # "type"
    BY <1>2, <1>10, <2>2 DEF Knows
  <2>4. /\ \A o \in Pending : o.do # "prune" => o.list # h.list
        /\ Pending \subseteq Pending' \cup {h} /\ Pending' \subseteq Pending
    BY <1>3, <1>10, <2>1, <2>3
  <2> QED BY <1>2, <1>3, <1>5, <1>10, <2>1, <2>2, <2>4, Pruned
<1>11. CASE h.do # "prune" /\ Rewritten(h) = idx[h.list]
  <2>1. /\ \A v \in Workers : Busy(v)' => Knows(req[v])'
        /\ \E E : Pending = ToSet(r.todo) \cup E /\ Pending' = ToSet(t) \cup E /\ (r.op # "type" => E = {})
    BY <1>7, <1>11, <1>8
  <2>2. h \in Pending /\ Pending' \subseteq Pending /\ Pending \subseteq Pending' \cup {h}
    BY <1>3, <2>1
  <2>3. idx' = [idx EXCEPT ![h.list] = Rewritten(h)]
    BY <1>2, <1>4, <1>11 DEF TypeInv
  <2> QED BY <1>2, <1>3, <1>11, <2>1, <2>2, <2>3, Performed
<1>12. CASE h.do # "prune" /\ Rewritten(h) # idx[h.list]
  <2>1. req'[w] = held
    BY <1>7, <1>12
  <2>2. Work(held) = Work(r)
    BY <1>6 DEF Work, ExtendsAhead, TypeArtifact
  <2>3. Knows(held)
    BY <1>1, <1>2, <1>6, <1>12, <2>2 DEF Knows, KnowsPrior
  <2>4. Knows(req[w])' /\ Work(req[w])' = Work(r)
    BY <1>2, <2>1, <2>2, <2>3, SameRequest, SameStores
  <2>5. Busy(w)'
    BY <1>2, <1>6, <2>1 DEF Busy
  <2>6. Pending' = Pending /\ \A v \in Workers : Busy(v)' => Knows(req[v])'
    BY <1>1, <1>2, <2>4, <2>5, Working
  <2> QED BY <1>2, <2>6, Calm
<1> QED BY <1>9, <1>10, <1>11, <1>12

-------------------------------------------------------------------------------
(* The put of the metadata, which moves a name and leaves the work.        *)

LEMMA Announced ==
  ASSUME IndexInv, ~shared, Solo', \A v \in Workers : Busy(v)' => Knows(req[v])', died' = died, idx' = idx, Pending = {},
         NEW k \in Keys, \A j \in Keys \ {k} : Places(j)' = Places(j),
         \A o \in Pending' : Apt(o)',
         \A l : (l \in Places(k)' <=> l \in Places(k)) \/ \E o \in Pending' : o.do # "prune" /\ o.list = l /\ o.entry = k,
         died = {} => \A c \in Categories : Categorized(c)'
  PROVE  IndexInv'
<1>1. ASSUME NEW j \in Keys \ died', NEW l \in Lists \ {<<"categories">>} PROVE Listed(l, j)'
  <2>1. j \in idx[l] <=> l \in Places(j)
    BY <1>1 DEF IndexInv, Listed
  <2>2. CASE j = k
    BY <2>1, <2>2 DEF Listed
  <2>3. CASE j # k
    BY <2>1, <2>3 DEF Listed
  <2> QED BY <2>2, <2>3
<1>2. idx'[<<"categories">>] \subseteq Categories /\ \A c \in Categories : idx'[<<"cat", c>>] \subseteq Packages
  BY DEF IndexInv
<1> QED BY <1>1, <1>2 DEF IndexInv

LEMMA PutMetaIndex ==
  ASSUME HubInv, TypeInv, AckInv, IndexInv, NEW w \in Workers, PutMeta(w)
  PROVE  IndexInv'
<1> SUFFICES ASSUME ~shared PROVE IndexInv'
  BY OnlyArrivalsShare DEF Step
<1>1. PICK r : r = req[w]
  OBVIOUS
<1>2. PICK p, old, prior, body : p = r.key /\ old = (IF r.op = "fork" THEN None ELSE r.seen) /\ prior = r.prior /\ body = r.body
  OBVIOUS
<1>3. /\ Busy(w) /\ Listless(r) /\ r.list = None /\ IsRequest(r) /\ Knows(r) /\ KnowsPrior(r) /\ r.pc = "meta"
      /\ StepOf(w) /\ UNCHANGED <<ver, typ, tver, idx, contended, died>>
  BY <1>1, ListlessAt, StepIsOf DEF PutMeta, Step, aux
<1>4. /\ r # None /\ p \in Packages /\ PackageRequestSound(r, ver) /\ PackageOwn(r, contended, pkg, ver)
      /\ contended = {} /\ r.op \in {"publish", "fork"} /\ body \in Recipes
  <2>1. /\ r # None /\ p \in Packages /\ PackageRequestSound(r, ver) /\ PackageOwn(r, contended, pkg, ver)
    BY <1>1, <1>2, AtPut DEF PutMeta
  <2> QED BY <1>2, <1>3, <2>1 DEF PackageRequestSound, IndexInv, Solo
<1>5. /\ pkg[p] = old /\ ver[p][r.version] = body
      /\ prior = IF old = None THEN None ELSE ver[p][old.latest]
  BY <1>2, <1>3, <1>4 DEF PackageOwn, KnowsPrior
<1>6. old # None => old \in Meta /\ old.latest \in Versions /\ HasUpTo(ver, p, old.latest)
  BY <1>4, <1>5 DEF HubInv, StoreInv, IsMeta, Meta
<1>7. prior \in Recipes \cup {None} /\ (prior = None <=> old = None)
  <2>1. old # None => ver[p][old.latest] \in Recipes \cup {None} /\ ver[p][old.latest] # None
    BY <1>4, <1>6, HubAssumption DEF HubInv, StoreInv, HasUpTo, Versions
  <2> QED BY <1>5, <2>1
<1>8. PICK m : m = IF r.op = "fork" THEN NewMeta(r.seen.category, <<r.upstream, r.seen.latest>>)
                   ELSE IF r.seen = None THEN NewMeta(r.body.category, None)
                   ELSE [r.seen EXCEPT !.latest = r.version, !.category = r.body.category]
  OBVIOUS
<1>9. IsMeta(m) /\ m.latest = r.version /\ m # None /\ m.category \in Categories /\ r.version \in Versions
  <2>1. IsMeta(m) /\ m.latest = r.version
    BY <1>3, <1>4, <1>8, MetaWritten
  <2> QED BY <2>1, MetaIsSome DEF IsMeta, Meta
<1>10. PICK c, ops : c = m.category /\ ops = PackageIndexOps(p, old, prior, c, body)
  OBVIOUS
<1>11. PICK q, x : q = [r EXCEPT !.todo = ops] /\ x = [q EXCEPT !.pc = "index"]
  OBVIOUS
<1>12. x.pc = "index" /\ x.todo = ops /\ x.list = None /\ x.op = r.op /\ x.key = p /\ x.prior = r.prior
  BY <1>2, <1>3, <1>11 DEF IsRequest
<1>13. pkg' = [pkg EXCEPT ![p] = m] /\ req' = [req EXCEPT ![w] = x]
  BY <1>1, <1>2, <1>8, <1>10, <1>11 DEF PutMeta, Goto
<1>14. req'[w] = x /\ pkg'[p] = m /\ \A j \in Packages : j # p => pkg'[j] = pkg[j]
  BY <1>4, <1>13 DEF HubInv, StoreInv
<1>15. PICK before, after : /\ before = (IF old = None THEN {} ELSE PackagePlaces(p, old.category, prior))
                            /\ after = PackagePlaces(p, c, body)
  OBVIOUS
<1>16. p \in Keys /\ p \notin TypeKeys
  BY <1>4, HubAssumption DEF Keys
<1>17. Places(p) = before
  <2>1. Published(p) <=> old # None
    BY <1>5, <1>6, <1>16, HubAssumption DEF Published, Latest, Versions
  <2>2. old # None => LatestArtifact(p) = prior
    BY <1>5, <1>16 DEF LatestArtifact, Latest, Stored
  <2> QED BY <1>5, <1>15, <1>16, <2>1, <2>2 DEF Places
<1>18. Places(p)' = after
  <2>1. Latest(p)' = r.version
    BY <1>9, <1>14, <1>16 DEF Latest
  <2>2. Published(p)'
    BY <1>9, <2>1, HubAssumption DEF Published, Versions
  <2>3. LatestArtifact(p)' = body
    BY <1>3, <1>5, <1>16, <2>1 DEF LatestArtifact, Stored
  <2> QED BY <1>10, <1>14, <1>15, <1>16, <2>2, <2>3 DEF Places
<1>19. \A j \in Keys \ {p} : Places(j)' = Places(j)
  <2> SUFFICES ASSUME NEW j \in Keys \ {p} PROVE Places(j)' = Places(j)
    OBVIOUS
  <2>1. CASE j \in TypeKeys
    BY <1>3, <2>1 DEF Places, Published, Latest, LatestArtifact, Stored
  <2>2. CASE j \notin TypeKeys
    BY <1>3, <1>14, <2>2 DEF Places, Published, Latest, LatestArtifact, Stored, Keys
  <2> QED BY <2>1, <2>2
<1>20. PackagePlan(p, old, c, ops, before, after)
  <2>1. c \in Categories
    BY <1>9, <1>10
  <2>2. old # None => old \in Meta
    BY <1>6
  <2>3. ops = PackageIndexOps(p, old, prior, c, body)
    BY <1>10
  <2>4. before = IF old = None THEN {} ELSE PackagePlaces(p, old.category, prior)
    BY <1>15
  <2>5. after = PackagePlaces(p, c, body)
    BY <1>15
  <2>6. prior \in Recipes \cup {None}
    BY <1>7
  <2>7. prior = None <=> old = None
    BY <1>7
  <2>8. p \in Packages
    BY <1>4
  <2>9. body \in Recipes
    BY <1>4
  <2> QED BY <2>1, <2>2, <2>3, <2>4, <2>5, <2>6, <2>7, <2>8, <2>9, PackageWork
<1>21. Work(x) = ToSet(ops)
  BY <1>4, <1>12 DEF Work, ExtendsAhead
<1>22. AddTo(<<"categories">>, c).list = <<"categories">> /\ AddTo(<<"categories">>, c).do = "add" /\ AddTo(<<"categories">>, c).entry = c
  BY DEF AddTo
<1>23. Knows(x)' /\ Work(x)' = ToSet(ops)
  <2>1. \A o \in Work(x) : IF o.do = "prune" THEN x.op # "type" ELSE o.list = <<"categories">> \/ o.entry = x.key
    BY <1>4, <1>12, <1>20, <1>21, <1>22 DEF PackagePlan
  <2>2. x.op = "fork" => x.prior = None
    BY <1>3, <1>12 DEF KnowsPrior
  <2>3. x.pc \in {"index", "links"} /\ PrunesLast(x.todo) /\ tver' = tver
    BY <1>3, <1>12, <1>20 DEF PackagePlan
  <2> QED BY <1>12, <1>21, <2>1, <2>2, <2>3, KnowsAtLists
<1>24. Busy(w)'
  <2>1. x # None
    BY <1>14, StepTyped, NoneIsNothingElse DEF Step, Typed
  <2> QED BY <1>12, <1>14, <2>1 DEF Busy
<1>25. Knows(req[w])' /\ Work(req[w])' = ToSet(ops)
  BY <1>14, <1>23, SameRequest
<1>26. Pending = {} /\ Pending' = ToSet(ops) /\ Solo' /\ \A v \in Workers : Busy(v)' => Knows(req[v])'
  BY <1>1, <1>3, <1>24, <1>25, Working, ListlessWork
<1>27. Packages \subseteq Keys /\ \A e : <<"cat", e>> \in after <=> e = c
  BY <1>15, PlaceOfPackage DEF Keys
<1>28. Inhabited(c)'
  BY <1>4, <1>18, <1>27 DEF Inhabited
<1>29. ASSUME NEW o \in Pending' PROVE Apt(o)'
  <2>1. \A e : <<"cat", e>> # <<"categories">>
    OBVIOUS
  <2>2. CASE o = AddTo(<<"categories">>, c)
    BY <1>9, <1>10, <1>22, <1>28, <2>2 DEF Apt
  <2>3. CASE o # AddTo(<<"categories">>, c)
    BY <1>16, <1>18, <1>20, <1>26, <2>1, <2>3 DEF Apt, PackagePlan
  <2> QED BY <2>2, <2>3
<1>30. ASSUME died = {}, NEW e \in Categories PROVE Categorized(e)'
  <2>1. /\ Inhabited(e) => e \in idx[<<"categories">>]
        /\ e \in idx[<<"categories">>] => Inhabited(e)
    <3>1. Categorized(e)
      BY <1>30 DEF IndexInv
    <3> QED BY <1>26, <3>1 DEF Categorized
  <2>2. Inhabited(e)' => Inhabited(e) \/ e = c
    BY <1>18, <1>19, <1>27 DEF Inhabited
  <2>3. Inhabited(e) => Inhabited(e)' \/ <<"cat", e>> \in before
    BY <1>17, <1>19, <1>27 DEF Inhabited
  <2>4. <<"cat", e>> \in before => old # None /\ e = old.category
    BY <1>15, PlaceOfPackage
  <2>5. Inhabited(e)' /\ e \notin idx'[<<"categories">>] => AddTo(<<"categories">>, e) \in Pending'
    BY <1>3, <1>20, <1>26, <2>1, <2>2 DEF PackagePlan
  <2>6. e \in idx'[<<"categories">>] /\ ~Inhabited(e)' => \E o \in Pending' : o.entry = e /\ o.do = "prune"
    BY <1>3, <1>20, <1>26, <1>28, <2>1, <2>3, <2>4 DEF PackagePlan
  <2> QED BY <2>5, <2>6 DEF Categorized
<1>31. \A l : (l \in Places(p)' <=> l \in Places(p)) \/ \E o \in Pending' : o.do # "prune" /\ o.list = l /\ o.entry = p
  BY <1>17, <1>18, <1>20, <1>26 DEF PackagePlan
<1> QED BY <1>3, <1>16, <1>19, <1>26, <1>29, <1>30, <1>31, Announced

LEMMA TypeMetaIndex ==
  ASSUME HubInv, TypeInv, AckInv, IndexInv, NEW w \in Workers, TypeMeta(w)
  PROVE  IndexInv'
<1> SUFFICES ASSUME ~shared PROVE IndexInv'
  BY OnlyArrivalsShare DEF Step
<1>1. PICK r : r = req[w]
  OBVIOUS
<1>2. PICK t, n, prior, body : t = r.key /\ n = r.version /\ prior = r.prior /\ body = r.body
  OBVIOUS
<1>3. /\ Busy(w) /\ Listless(r) /\ r.list = None /\ IsRequest(r) /\ Knows(r) /\ KnowsPrior(r) /\ r.pc = "typeMeta"
      /\ StepOf(w) /\ UNCHANGED <<pkg, ver, tver, idx, contended, died>>
  BY <1>1, ListlessAt, StepIsOf DEF TypeMeta, Step, aux
<1>4. /\ r.op = "type" /\ t \in TypeKeys /\ body \in TypeBodies /\ r.latest \in Nat /\ n = r.latest + 1 /\ n \in Versions
      /\ HasUpTo(tver, t, r.latest)
  BY <1>1, <1>2, <1>3, InFlight DEF TypeMeta, TypeRequestSound, PackageRequestSound
<1>5. TypeOwn(r, contended, typ, tver) /\ contended = {}
  BY <1>1, <1>3, <1>4 DEF AckInv, Own, IndexInv, Solo
<1>6. typ[t] = r.latest /\ tver[t][n] = body
  BY <1>2, <1>3, <1>5 DEF TypeOwn
<1>7. prior = (IF r.latest = 0 THEN None ELSE tver[t][r.latest])
  BY <1>2, <1>3, <1>4 DEF KnowsPrior, TypeArtifact
<1>8. prior \in TypeBodies \cup {None} /\ (prior = None <=> r.latest = 0) /\ (prior # None => prior.extends # Missing)
  <2>1. r.latest # 0 => r.latest \in Versions /\ r.latest \in 1..r.latest
    BY <1>4, HubAssumption DEF Versions
  <2>2. r.latest # 0 => tver[t][r.latest] \in TypeBodies \cup {None} /\ tver[t][r.latest] # None
    BY <1>4, <2>1 DEF HubInv, StoreInv, HasUpTo
  <2>3. r.latest # 0 => tver[t][r.latest].extends # Missing
    BY <1>4, <2>1, <2>2 DEF TypeInv
  <2> QED BY <1>7, <2>2, <2>3
<1>9. body.extends # Missing
  <2>1. Typed(r)
    BY <1>1, <1>3, InFlightTyped DEF TypeMeta
  <2> QED BY <1>2, <1>3, <1>4, <2>1 DEF Typed
<1>10. PICK ops, more : ops = TypeIndexOps(t, r.latest, prior, body) /\ more = ExtendsOps(t, prior, body)
  OBVIOUS
<1>11. PICK q, x : q = [r EXCEPT !.todo = ops] /\ x = [q EXCEPT !.pc = "index"]
  OBVIOUS
<1>12. /\ x.pc = "index" /\ x.todo = ops /\ x.list = None /\ x.op = "type" /\ x.key = t /\ x.prior = prior
       /\ x.latest = r.latest /\ x.body = body
  BY <1>2, <1>3, <1>4, <1>11 DEF IsRequest
<1>13. typ' = [typ EXCEPT ![t] = n] /\ req' = [req EXCEPT ![w] = x]
  BY <1>1, <1>2, <1>10, <1>11 DEF TypeMeta, Goto
<1>14. req'[w] = x /\ typ'[t] = n /\ \A j \in TypeKeys : j # t => typ'[j] = typ[j]
  BY <1>4, <1>13 DEF HubInv, StoreInv
<1>15. PICK before, after : before = (IF r.latest = 0 THEN {} ELSE TypePlaces(t, prior)) /\ after = TypePlaces(t, body)
  OBVIOUS
<1>16. t \in Keys /\ t \notin Packages
  BY <1>4, HubAssumption DEF Keys
<1>17. Places(t) = before
  <2>1. Latest(t) = r.latest /\ (Published(t) <=> r.latest # 0)
    BY <1>4, <1>6 DEF Published, Latest
  <2>2. r.latest # 0 => LatestArtifact(t) = prior
    BY <1>4, <1>7, <2>1 DEF LatestArtifact, Stored
  <2> QED BY <1>4, <1>15, <2>1, <2>2 DEF Places
<1>18. Places(t)' = after
  <2>1. Latest(t)' = n
    BY <1>4, <1>14 DEF Latest
  <2>2. Published(t)'
    BY <1>4, <2>1, HubAssumption DEF Published, Versions
  <2>3. LatestArtifact(t)' = body
    BY <1>3, <1>4, <1>6, <2>1 DEF LatestArtifact, Stored
  <2> QED BY <1>4, <1>15, <2>2, <2>3 DEF Places
<1>19. \A j \in Keys \ {t} : Places(j)' = Places(j)
  <2> SUFFICES ASSUME NEW j \in Keys \ {t} PROVE Places(j)' = Places(j)
    OBVIOUS
  <2>1. CASE j \in TypeKeys
    BY <1>3, <1>14, <2>1 DEF Places, Published, Latest, LatestArtifact, Stored
  <2>2. CASE j \notin TypeKeys
    BY <1>3, <2>2 DEF Places, Published, Latest, LatestArtifact, Stored, Keys
  <2> QED BY <2>1, <2>2
<1>20. TypePlan(t, ops, more, before, after)
  <2>1. prior \in TypeBodies \cup {None}
    BY <1>8
  <2>2. prior = None <=> r.latest = 0
    BY <1>8
  <2>3. prior # None => prior.extends # Missing
    BY <1>8
  <2>4. ops = TypeIndexOps(t, r.latest, prior, body)
    BY <1>10
  <2>5. more = ExtendsOps(t, prior, body)
    BY <1>10
  <2>6. before = IF r.latest = 0 THEN {} ELSE TypePlaces(t, prior)
    BY <1>15
  <2>7. after = TypePlaces(t, body)
    BY <1>15
  <2>8. t \in TypeKeys
    BY <1>4
  <2>9. body \in TypeBodies
    BY <1>4
  <2> QED BY <1>9, <2>1, <2>2, <2>3, <2>4, <2>5, <2>6, <2>7, <2>8, <2>9, TypeWork
<1>21. Work(x) = ToSet(ops) \cup ToSet(more)
  <2>1. TypeArtifact(x) = prior
    BY <1>7, <1>12 DEF TypeArtifact
  <2> QED BY <1>10, <1>12, <2>1 DEF Work, ExtendsAhead
<1>22. \A o \in ToSet(ops) \cup ToSet(more) : o.entry = t /\ o.do \in {"add", "remove"}
  BY <1>20 DEF TypePlan
<1>23. Knows(x)' /\ Work(x)' = ToSet(ops) \cup ToSet(more)
  <2>1. \A o \in Work(x) : IF o.do = "prune" THEN x.op # "type" ELSE o.list = <<"categories">> \/ o.entry = x.key
    BY <1>12, <1>21, <1>22
  <2>2. PrunesLast(x.todo)
    BY <1>12, <1>22, NoPrunes
  <2>3. x.pc \in {"index", "links"} /\ (x.op = "fork" => x.prior = None) /\ tver' = tver
    BY <1>3, <1>12
  <2> QED BY <1>12, <1>21, <2>1, <2>2, <2>3, KnowsAtLists
<1>24. Busy(w)'
  <2>1. x # None
    BY <1>14, StepTyped, NoneIsNothingElse DEF Step, Typed
  <2> QED BY <1>12, <1>14, <2>1 DEF Busy
<1>25. Knows(req[w])' /\ Work(req[w])' = ToSet(ops) \cup ToSet(more)
  BY <1>14, <1>23, SameRequest
<1>26. /\ Pending = {} /\ Pending' = ToSet(ops) \cup ToSet(more) /\ Solo'
       /\ \A v \in Workers : Busy(v)' => Knows(req[v])'
  BY <1>1, <1>3, <1>24, <1>25, Working, ListlessWork
<1>27. \A c : Inhabited(c)' <=> Inhabited(c)
  BY <1>16, <1>19 DEF Inhabited, Keys
<1>28. \A o \in Pending' : Apt(o)'
  BY <1>16, <1>18, <1>20, <1>26 DEF Apt, TypePlan
<1>29. ASSUME died = {}, NEW c \in Categories PROVE Categorized(c)'
  <2>1. Categorized(c)
    BY <1>29 DEF IndexInv
  <2> QED BY <1>3, <1>26, <1>27, <2>1 DEF Categorized
<1>30. \A l : (l \in Places(t)' <=> l \in Places(t)) \/ \E o \in Pending' : o.do # "prune" /\ o.list = l /\ o.entry = t
  BY <1>17, <1>18, <1>20, <1>26 DEF TypePlan
<1> QED BY <1>3, <1>16, <1>19, <1>26, <1>28, <1>29, <1>30, Announced

-------------------------------------------------------------------------------
(* The indexes, once no request is in flight.                              *)
LEMMA IndexInvStart == Init => IndexInv
<1> SUFFICES ASSUME Init PROVE IndexInv
  OBVIOUS
<1>1. \A w \in Workers : ~Busy(w)
  BY DEF Init, Busy
<1>2. Pending = {}
  <2>1. {w \in Workers : Busy(w)} = {}
    BY <1>1
  <2> QED BY <2>1 DEF Pending
<1>3. \A l \in Lists : idx[l] = {}
  BY DEF Init
<1>4. \A k \in Keys : Places(k) = {}
  <2>1. \A k \in Keys : Latest(k) = 0
    BY HubAssumption DEF Init, Latest, Keys
  <2> QED BY <2>1 DEF Places, Published
<1>5. <<"categories">> \in Lists /\ \A c \in Categories : <<"cat", c>> \in Lists
  BY DEF Lists
<1>6. \A c : ~Inhabited(c)
  BY <1>4 DEF Inhabited, Keys
<1>7. Solo
  BY <1>1 DEF Init, Solo
<1> QED BY <1>1, <1>2, <1>3, <1>4, <1>5, <1>6, <1>7 DEF IndexInv, Listed, Categorized

LEMMA IndexInvStep == HubInv /\ TypeInv /\ AckInv /\ IndexInv /\ [Next]_vars => IndexInv'
<1> SUFFICES ASSUME HubInv, TypeInv, AckInv, IndexInv, [Next]_vars PROVE IndexInv'
  OBVIOUS
<1>1. CASE UNCHANGED vars
  <2>1. UNCHANGED <<pkg, ver, typ, tver, idx, req, contended, shared, died>>
    BY <1>1 DEF vars
  <2>2. \A w \in Workers : /\ Busy(w)' <=> Busy(w)
                           /\ Work(req[w])' = Work(req[w]) /\ (Knows(req[w])' <=> Knows(req[w]))
    BY <2>1, SameOthers
  <2>3. Pending' = Pending
    <3>1. {v \in Workers : Busy(v)}' = {v \in Workers : Busy(v)}
      BY <2>2
    <3> QED BY <2>2, <3>1 DEF Pending
  <2>4. Solo' <=> Solo
    BY <2>1, <2>2 DEF Solo
  <2>5. \A k \in Keys : Places(k)' = Places(k)
    BY <2>1, DocumentsKept
  <2>6. CASE ~shared
    BY <2>1, <2>2, <2>3, <2>4, <2>5, <2>6, Calm DEF IndexInv
  <2>7. CASE shared
    BY <2>1, <2>7 DEF IndexInv
  <2> QED BY <2>6, <2>7
<1>2. CASE Next
  BY <1>2, ArrivalIndex, DeliverIndex, DieIndex, CounterIndex, ReadIndex, PutVersionIndex, PutMetaIndex, TypePutIndex,
     TypeMetaIndex, TypeExtendsIndex, IndexReadIndex, IndexWriteIndex, IndexDoneIndex
  DEF Next, Step
<1> QED BY <1>1, <1>2

LEMMA IndexInvHolds == Spec => []IndexInv
BY IndexInvStart, IndexInvStep, HubInvHolds, RequestsAreTyped, AckInvHolds, PTL DEF Spec

LEMMA SettledIndexes ==
  ASSUME HubInv, TypeInv, IndexInv, Quiet, ~shared
  PROVE  /\ \A k \in Keys \ died, l \in Lists \ {<<"categories">>} : k \in idx[l] <=> l \in Places(k)
         /\ \A c \in Categories : idx[<<"cat", c>>] \subseteq Packages
         /\ idx[<<"categories">>] \subseteq Categories
         /\ died = {} => \A c \in Categories : c \in idx[<<"categories">>] <=> Inhabited(c)
<1>1. Pending = {}
  <2>1. {w \in Workers : Busy(w)} = {}
    BY DEF Quiet
  <2> QED BY <2>1 DEF Pending
<1> QED BY <1>1 DEF IndexInv, Listed, Categorized

LEMMA PackageListed ==
  ASSUME HubInv, TypeInv, IndexInv, Quiet, ~shared, NEW p \in Packages \ died
  PROVE  /\ p \in idx[<<"packages">>] <=> Published(p)
         /\ p \in idx[<<"user_packages", p[1]>>] <=> Published(p)
         /\ \A c \in Categories : p \in ListPackages(c) <=> Published(p) /\ pkg[p].category = c
         /\ \A t \in TypeKeys :
              /\ p \in DiscoverProducers(t) <=> Published(p) /\ t \in LatestArtifact(p).outputs
              /\ p \in DiscoverConsumers(t) <=> Published(p) /\ t \in LatestArtifact(p).inputs
<1>1. PICK c, b : c = pkg[p].category /\ b = LatestArtifact(p)
  OBVIOUS
<1>2. p \in Keys /\ p \notin TypeKeys /\ p[1] \in Users
  BY HubAssumption DEF Keys
<1>3. Published(p) <=> pkg[p] # None
  BY <1>2, HubAssumption DEF HubInv, StoreInv, IsMeta, Meta, Published, Latest, Versions
<1>4. Published(p) => ver[p][pkg[p].latest] # None
  <2>1. Published(p) => pkg[p].latest \in 1..pkg[p].latest /\ HasUpTo(ver, p, pkg[p].latest)
    BY <1>3, HubAssumption DEF HubInv, StoreInv, IsMeta, Meta, Versions
  <2> QED BY <2>1 DEF HasUpTo
<1>5. \A l : l \in Places(p) <=> Published(p) /\ l \in PackagePlaces(p, c, b)
  BY <1>1, <1>2 DEF Places
<1>6. \A l \in Lists \ {<<"categories">>} : p \in idx[l] <=> Published(p) /\ l \in PackagePlaces(p, c, b)
  BY <1>2, <1>5, SettledIndexes
<1>7. PICK all, own : all = <<"packages">> /\ own = <<"user_packages", p[1]>>
  OBVIOUS
<1>8. all \in Lists \ {<<"categories">>} /\ own \in Lists \ {<<"categories">>}
  BY <1>2, <1>7, PlaceOfPackage DEF Lists
<1>9. /\ p \in idx[all] <=> Published(p)
      /\ p \in idx[own] <=> Published(p)
  <2>1. all \in PackagePlaces(p, c, b) /\ own \in PackagePlaces(p, c, b)
    BY <1>7, PlaceOfPackage
  <2> QED BY <1>6, <1>8, <2>1
<1>10. ASSUME NEW e \in Categories PROVE p \in ListPackages(e) <=> Published(p) /\ pkg[p].category = e
  <2>1. PICK l : l = <<"cat", e>>
    OBVIOUS
  <2>2. l \in Lists \ {<<"categories">>} /\ (l \in PackagePlaces(p, c, b) <=> e = c)
    BY <2>1, PlaceOfPackage DEF Lists
  <2>3. p \in idx[l] <=> Published(p) /\ e = c
    BY <1>6, <2>2
  <2> QED BY <1>1, <1>3, <2>1, <2>3 DEF ListPackages
<1>11. ASSUME NEW t \in TypeKeys
       PROVE  /\ p \in DiscoverProducers(t) <=> Published(p) /\ t \in LatestArtifact(p).outputs
              /\ p \in DiscoverConsumers(t) <=> Published(p) /\ t \in LatestArtifact(p).inputs
  <2>1. PICK l, m : l = <<"producers", t>> /\ m = <<"consumers", t>>
    OBVIOUS
  <2>2. /\ l \in Lists \ {<<"categories">>} /\ (l \in PackagePlaces(p, c, b) <=> t \in b.outputs)
        /\ m \in Lists \ {<<"categories">>} /\ (m \in PackagePlaces(p, c, b) <=> t \in b.inputs)
    BY <2>1, PlaceOfPackage DEF Lists
  <2>3. (p \in idx[l] <=> Published(p) /\ t \in b.outputs) /\ (p \in idx[m] <=> Published(p) /\ t \in b.inputs)
    BY <1>6, <2>2
  <2> QED BY <1>1, <1>3, <1>4, <2>1, <2>3 DEF DiscoverProducers, DiscoverConsumers
<1> QED BY <1>7, <1>9, <1>10, <1>11

LEMMA TypeListed ==
  ASSUME HubInv, TypeInv, IndexInv, Quiet, ~shared, NEW t \in TypeKeys \ died
  PROVE  /\ t \in idx[<<"types">>] <=> Published(t)
         /\ t \in idx[<<"user_types", t[1]>>] <=> Published(t)
         /\ \A u \in AlignmentUris : t \in idx[<<"aligned", u>>] <=> Published(t) /\ u \in LatestArtifact(t).aligned
         /\ \A parent \in Pins : t \in idx[<<"extends", parent>>] <=> Published(t) /\ LatestArtifact(t).extends = parent
<1>1. PICK b : b = LatestArtifact(t)
  OBVIOUS
<1>2. t \in Keys /\ t[1] \in Users
  BY HubAssumption DEF Keys
<1>3. \A l : l \in Places(t) <=> Published(t) /\ l \in TypePlaces(t, b)
  BY <1>1 DEF Places
<1>4. \A l \in Lists \ {<<"categories">>} : t \in idx[l] <=> Published(t) /\ l \in TypePlaces(t, b)
  BY <1>2, <1>3, SettledIndexes
<1>5. PICK all, own : all = <<"types">> /\ own = <<"user_types", t[1]>>
  OBVIOUS
<1>6. all \in Lists \ {<<"categories">>} /\ own \in Lists \ {<<"categories">>}
  BY <1>2, <1>5, PlaceOfType DEF Lists
<1>7. /\ t \in idx[all] <=> Published(t)
      /\ t \in idx[own] <=> Published(t)
  <2>1. all \in TypePlaces(t, b) /\ own \in TypePlaces(t, b)
    BY <1>5, PlaceOfType
  <2> QED BY <1>4, <1>6, <2>1
<1>8. ASSUME NEW u \in AlignmentUris PROVE t \in idx[<<"aligned", u>>] <=> Published(t) /\ u \in LatestArtifact(t).aligned
  <2>1. PICK l : l = <<"aligned", u>>
    OBVIOUS
  <2>2. l \in Lists \ {<<"categories">>} /\ (l \in TypePlaces(t, b) <=> u \in b.aligned)
    BY <2>1, PlaceOfType DEF Lists
  <2> QED BY <1>1, <1>4, <2>1, <2>2
<1>9. ASSUME NEW e \in Pins PROVE t \in idx[<<"extends", e>>] <=> Published(t) /\ LatestArtifact(t).extends = e
  <2>1. PICK l : l = <<"extends", e>>
    OBVIOUS
  <2>2. l \in Lists \ {<<"categories">>} /\ (l \in TypePlaces(t, b) <=> e = b.extends /\ e # None)
    BY <2>1, PlaceOfType DEF Lists
  <2>3. e # None
    BY DEF Pins
  <2> QED BY <1>1, <1>4, <2>1, <2>2, <2>3
<1> QED BY <1>5, <1>7, <1>8, <1>9

(* Once no request is in flight, every package and type is listed where    *)
(* its latest version says and nowhere else, and the categories are those  *)
(* with a package in them, as long as requests never overlapped and none   *)
(* working on the name died: diffing against the artifact read before the  *)
(* put leaves no list behind, whatever the history of publishes and forks. *)
THEOREM IndexesAreAlwaysCanonical == Spec => []IndexesAreCanonical
<1>1. HubInv /\ TypeInv /\ IndexInv => IndexesAreCanonical
  <2> SUFFICES ASSUME HubInv, TypeInv, IndexInv, Quiet, ~shared PROVE IndexesAreCanonical
    BY DEF IndexesAreCanonical
  <2>1. ASSUME died = {} PROVE idx[<<"categories">>] = {c \in Categories : ListPackages(c) # {}}
    <3>1. ASSUME NEW c \in Categories PROVE c \in idx[<<"categories">>] <=> ListPackages(c) # {}
      <4>1. \A p \in Packages : p \in ListPackages(c) <=> Published(p) /\ pkg[p].category = c
        BY <2>1, PackageListed
      <4>2. \A p \in Packages : <<"cat", c>> \in Places(p) <=> Published(p) /\ pkg[p].category = c
        <5> SUFFICES ASSUME NEW p \in Packages PROVE <<"cat", c>> \in Places(p) <=> Published(p) /\ pkg[p].category = c
          OBVIOUS
        <5>1. PICK e, b : e = pkg[p].category /\ b = LatestArtifact(p)
          OBVIOUS
        <5>2. <<"cat", c>> \in PackagePlaces(p, e, b) <=> c = e
          BY PlaceOfPackage
        <5>3. p \notin TypeKeys
          BY HubAssumption
        <5> QED BY <5>1, <5>2, <5>3 DEF Places
      <4>3. ListPackages(c) \subseteq Packages
        BY <3>1, SettledIndexes DEF ListPackages
      <4>4. c \in idx[<<"categories">>] <=> Inhabited(c)
        BY <2>1, <3>1, SettledIndexes
      <4> QED BY <4>1, <4>2, <4>3, <4>4 DEF Inhabited
    <3> QED BY <3>1, SettledIndexes
  <2> QED BY <2>1, PackageListed, TypeListed DEF IndexesAreCanonical
<1> QED BY <1>1, HubInvHolds, RequestsAreTyped, IndexInvHolds, PTL
===============================================================================
