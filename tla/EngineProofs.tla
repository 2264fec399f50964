------------------------------ MODULE EngineProofs ------------------------------
(***************************************************************************)
(* The engine implements atomic steps: for any recipes, page sizes, lists  *)
(* and budgets, over an honest server.                                     *)
(*                                                                         *)
(* While a step is under way the driver has collected exactly the pages    *)
(* before the one it asks for, and that page is what the request names,    *)
(* in the query or in the body, counted from zero or from one.  So the     *)
(* page where it stops is the last one.                                    *)
(***************************************************************************)
EXTENDS Engine, SequenceTheorems, TLAPS

-------------------------------------------------------------------------------
(* Lists and their pages.                                                  *)

SmallerOf(a, b) == IF a < b THEN a ELSE b

(* The first n items are a list, as many as there are.                     *)
LEMMA FirstItems ==
  ASSUME NEW l, IsList(l), NEW n \in Nat
  PROVE  /\ Len(l) \in Nat
         /\ IsList(Slice(l, 1, n)) /\ Len(Slice(l, 1, n)) = SmallerOf(n, Len(l))
         /\ n >= Len(l) => Slice(l, 1, n) = l
<1> DEFINE S == {l[i] : i \in DOMAIN l}
           m == SmallerOf(n, Len(l))
           first == Slice(l, 1, n)
<1>1. l \in Seq(S) BY DEF IsList
<1>2. Len(l) \in Nat /\ DOMAIN l = 1..Len(l) BY <1>1, LenProperties
<1>3. m \in Nat /\ m <= Len(l) BY <1>2 DEF SmallerOf
<1>4. first = SubSeq(l, 1, m) BY <1>2 DEF Slice, SmallerOf
<1>5. \A i \in 1..m : l[i] \in S BY <1>2, <1>3
<1>5a. SubSeq(l, 1, m) \in Seq(S) /\ Len(SubSeq(l, 1, m)) = (IF 1 <= m THEN m - 1 + 1 ELSE 0)
       /\ \A i \in 1..m - 1 + 1 : SubSeq(l, 1, m)[i] = l[1 + i - 1]
  <2> HIDE DEF S, m
  <2> QED BY <1>3, <1>5, SubSeqProperties
<1>6. first \in Seq(S) /\ Len(first) = m /\ \A i \in 1..m : first[i] = l[i]
  <2> HIDE DEF S, m
  <2> QED BY <1>3, <1>4, <1>5a
<1>7. IsList(first)
  <2>1. DOMAIN first = 1..m BY <1>6, LenProperties
  <2>2. first \in [1..m -> {first[i] : i \in DOMAIN first}]
    BY <1>6, <2>1, LenProperties
  <2> QED BY <2>2, <1>3, SeqDef DEF IsList
<1>8. n >= Len(l) => first = l
  BY <1>1, <1>2, <1>4, SubSeqFull DEF SmallerOf
<1> QED BY <1>2, <1>6, <1>7, <1>8

(* The first a items and the n after them are the first a + n.             *)
LEMMA NextItems ==
  ASSUME NEW l, IsList(l), NEW a \in Nat, NEW n \in Nat
  PROVE  Slice(l, 1, a) \o Slice(l, a + 1, n) = Slice(l, 1, a + n)
<1> DEFINE S == {l[i] : i \in DOMAIN l}
<1>1. l \in Seq(S) BY DEF IsList
<1>2. Len(l) \in Nat BY <1>1, LenProperties
<1>3. CASE a <= Len(l)
  <2> DEFINE b == IF a + n < Len(l) THEN a + n ELSE Len(l)
  <2>1. b \in a..Len(l) /\ a \in 0..Len(l) BY <1>2, <1>3
  <2>2. Slice(l, 1, a) = SubSeq(l, 1, a) BY <1>2, <1>3 DEF Slice
  <2>3. Slice(l, a + 1, n) = SubSeq(l, a + 1, b) BY <1>2, <1>3 DEF Slice
  <2>4. Slice(l, 1, a + n) = SubSeq(l, 1, b) BY <1>2, <1>3 DEF Slice
  <2>5. SubSeq(l, 1, a) \o SubSeq(l, a + 1, b) = SubSeq(l, 1, b)
    <3> HIDE DEF S, b
    <3> QED BY <1>1, <1>2, <2>1, ConcatAdjacentSubSeq
  <2> QED BY <2>2, <2>3, <2>4, <2>5
<1>4. CASE a > Len(l)
  <2>1. Slice(l, 1, a) = l /\ Slice(l, 1, a + n) = l
    <3>1. a + n \in Nat /\ a >= Len(l) /\ a + n >= Len(l) BY <1>2, <1>4
    <3> QED BY <3>1, FirstItems
  <2>2. Slice(l, a + 1, n) = SubSeq(l, a + 1, Len(l)) BY <1>2, <1>4 DEF Slice
  <2>3. Slice(l, a + 1, n) = <<>> BY <1>2, <1>4, <2>2, SubSeqEmpty
  <2> QED BY <1>1, <2>1, <2>3, ConcatEmptySeq
<1>5. a <= Len(l) \/ a > Len(l) BY <1>2
<1> QED BY <1>3, <1>4, <1>5

(* What collecting one more page does, and when it was the last one.       *)
LEMMA OneMorePage ==
  ASSUME NEW l, IsList(l), NEW a \in Nat, NEW size \in Nat \ {0}
  PROVE  LET page == Slice(l, a + 1, size)
             acc == Slice(l, 1, a)
         IN  /\ Len(l) \in Nat
             /\ acc \o page = Slice(l, 1, a + size)
             /\ a + size >= Len(l) => acc \o page = l
             /\ Len(page) = 0 => a + size >= Len(l)
             /\ Len(acc) + Len(page) = SmallerOf(a + size, Len(l))
<1> DEFINE page == Slice(l, a + 1, size)
           acc == Slice(l, 1, a)
           S == {l[i] : i \in DOMAIN l}
           last == IF a + size < Len(l) THEN a + size ELSE Len(l)
<1>1. Len(l) \in Nat /\ IsList(acc) /\ Len(acc) = SmallerOf(a, Len(l)) BY FirstItems
<1>2. size \in Nat /\ a + size \in Nat OBVIOUS
<1>3. acc \o page = Slice(l, 1, a + size) BY <1>2, NextItems
<1>4. Len(Slice(l, 1, a + size)) = SmallerOf(a + size, Len(l)) BY <1>2, FirstItems
<1>5. a + size >= Len(l) => acc \o page = l BY <1>2, <1>3, FirstItems
<1>6. l \in Seq(S) BY DEF IsList
<1>7. page \in Seq(S)
  <2>1. page = SubSeq(l, a + 1, last) BY <1>1 DEF Slice
  <2>2. DOMAIN l = 1..Len(l) BY <1>6, LenProperties
  <2>3. \A i \in a + 1..last : l[i] \in S BY <1>1, <2>2
  <2>4. last \in Int /\ a + 1 \in Int BY <1>1
  <2> HIDE DEF S, last
  <2> QED BY <2>1, <2>3, <2>4, SubSeqProperties
<1>8. acc \in Seq(S)
  <2> DEFINE m == IF a < Len(l) THEN a ELSE Len(l)
  <2>1. acc = SubSeq(l, 1, m) BY <1>1 DEF Slice
  <2>2. DOMAIN l = 1..Len(l) BY <1>6, LenProperties
  <2>3. \A i \in 1..m : l[i] \in S BY <1>1, <2>2
  <2>4. m \in Int BY <1>1
  <2> HIDE DEF S, m
  <2> QED BY <2>1, <2>3, <2>4, SubSeqProperties
<1>9. Len(acc \o page) = Len(acc) + Len(page)
  <2> HIDE DEF S, acc, page
  <2> QED BY <1>7, <1>8, ConcatProperties
<1> HIDE DEF acc, page
<1>10. Len(acc) + Len(page) = SmallerOf(a + size, Len(l)) BY <1>3, <1>4, <1>9
<1>11. Len(page) = 0 => a + size >= Len(l)
  <2>1. Len(acc) \in Nat /\ Len(acc) <= a BY <1>1 DEF SmallerOf
  <2> QED BY <1>1, <1>2, <1>10, <2>1 DEF SmallerOf
<1> QED BY <1>1, <1>3, <1>5, <1>10, <1>11 DEF acc, page

(* Binding a name again is binding it once.                                *)
LEMMA BindTwice ==
  ASSUME NEW s, NEW name, NEW v, NEW w, 1 \in DOMAIN s, "frame" \in DOMAIN s[1]
  PROVE  Bind(Bind(s, name, v), name, w) = Bind(s, name, w)
<1> DEFINE f == Binding(s[1].frame, name, v)
           a == [s[1] EXCEPT !.frame = f]
           g == Binding(s[1].frame, name, w)
<1>1. Bind(s, name, v) = [s EXCEPT ![1] = a] BY DEF Bind
<1>2. [s EXCEPT ![1] = a][1] = a BY Zenon
<1>3. a.frame = f BY Zenon
<1>4. Binding(f, name, w) = g BY DEF Binding
<1>5. Bind(Bind(s, name, v), name, w) = [[s EXCEPT ![1] = a] EXCEPT ![1] = [a EXCEPT !.frame = g]]
  BY <1>1, <1>2, <1>3, <1>4 DEF Bind
<1>6. [a EXCEPT !.frame = g] = [s[1] EXCEPT !.frame = g] BY Zenon
<1> HIDE DEF a
<1>7. [[s EXCEPT ![1] = a] EXCEPT ![1] = [s[1] EXCEPT !.frame = g]]
      = [s EXCEPT ![1] = [s[1] EXCEPT !.frame = g]]
  BY Zenon
<1>8. Bind(s, name, w) = [s EXCEPT ![1] = [s[1] EXCEPT !.frame = g]] BY DEF Bind
<1> QED BY <1>5, <1>6, <1>7, <1>8

-------------------------------------------------------------------------------
(* What holds of the stack and of the request under way.                   *)

StepOK(s) == s \in Statements /\ s.kind = "step"

LoopOK(l) ==
  /\ l = [for |-> l.for, left |-> l.left, saved |-> l.saved]
  /\ l.for \in Statements /\ l.for.kind = "for"

ActivationOK(a) ==
  /\ a = [todo |-> a.todo, loop |-> a.loop, frame |-> a.frame]
  /\ a.todo \in Seq(Statements)
  /\ a.loop # None => LoopOK(a.loop)

(* The outermost activation is no loop's, so that a loop that ends leaves  *)
(* one behind.                                                             *)
StackOK(s) ==
  /\ IsList(s) /\ s # <<>>
  /\ \A i \in DOMAIN s : ActivationOK(s[i])
  /\ s[Len(s)].loop = None

CallOK(c) ==
  /\ c = [step |-> c.step, page |-> c.page, param |-> c.param, bound |-> c.bound,
          acc |-> c.acc, attempt |-> c.attempt]
  /\ c.step # None => StepOK(c.step)

(* The pages before this one have been collected, and this one is named.   *)
Collecting(c) ==
  /\ c.page \in Nat \ {0}
  /\ c.acc = Slice(server.items[c.step.name], 1, (c.page - 1) * server.size)
  /\ c.param = IF c.page = 1 THEN None ELSE PageParam(c.step.paging, c.page)
  /\ c.bound = PageParam(c.step.paging, c.page)
  /\ c.step.paging.strategy = "none" => c.page = 1

EngineInv ==
  /\ server \in Servers /\ recipe \in Recipes
  /\ phase \in {"start", "body", "fetch", "wait", "done", "failed"}
  /\ StackOK(stack)
  /\ phase \in {"fetch", "wait"} => CallOK(call)
  /\ StepUnderWay /\ server.mode = "honest" => Collecting(call)

(* One page of an honest server: either it is the last one, and everything *)
(* has been collected, or the driver names the page after it.              *)
LEMMA PageCollected ==
  ASSUME NEW c, server \in Servers, server.mode = "honest", StepOK(c.step), Collecting(c)
  PROVE  LET acc == Collected(c, Reply(c))
             next == Advance(c, Reply(c))
         IN  /\ next = None => acc = Listed(c.step)
             /\ next # None =>
                  /\ next = PageParam(c.step.paging, c.page + 1)
                  /\ acc = Slice(server.items[c.step.name], 1, c.page * server.size)
                  /\ c.step.paging.strategy # "none"
<1> DEFINE all == server.items[c.step.name]
           size == server.size
           a == (c.page - 1) * size
           reply == Reply(c)
           paging == c.step.paging
           strategy == paging.strategy
<1>1. /\ IsList(all) /\ size \in Nat \ {0} /\ c.page \in Nat \ {0}
      /\ strategy \in {"none", "cursor", "untilEmpty", "pageWithTotal"}
      /\ paging.zero \in BOOLEAN
      /\ strategy = "cursor" => ~paging.zero
      /\ None \notin Int
  BY BodyAssumption DEF StepOK, Collecting
<1>2. a \in Nat /\ a + size = c.page * size /\ (c.page = 1 => a = 0)
  <2>1. c.page = 1 => a = 0 BY <1>1
  <2>2. c.page - 1 \in Nat /\ a \in Nat BY <1>1
  <2>3. a + size = c.page * size BY <1>1
  <2> QED BY <2>1, <2>2, <2>3
<1>3. AskedPage(c) = c.page /\ AskedSize(c) = size
  BY <1>1 DEF AskedPage, AskedSize, PageParam, Collecting
<1>4. /\ reply.items = Slice(all, a + 1, size) /\ reply.total = Len(all) /\ reply.array
      /\ reply.cursor = IF c.page * size < Len(all) THEN c.page + 1 ELSE None
  BY <1>3 DEF Reply
<1>5. c.acc = Slice(all, 1, a) BY DEF Collecting
<1>6. /\ Len(all) \in Nat
      /\ Collected(c, reply) = Slice(all, 1, a + size)
      /\ a + size >= Len(all) => Collected(c, reply) = all
      /\ Len(reply.items) = 0 => a + size >= Len(all)
      /\ Len(c.acc) + Len(reply.items) = SmallerOf(a + size, Len(all))
  <2> DEFINE page == Slice(all, a + 1, size)
             acc == Slice(all, 1, a)
  <2>0. IsList(all) /\ size \in Nat \ {0} /\ a \in Nat BY <1>1, <1>2
  <2> HIDE DEF a, all, size
  <2>1. /\ Len(all) \in Nat
        /\ acc \o page = Slice(all, 1, a + size)
        /\ a + size >= Len(all) => acc \o page = all
        /\ Len(page) = 0 => a + size >= Len(all)
        /\ Len(acc) + Len(page) = SmallerOf(a + size, Len(all))
    BY <2>0, OneMorePage
  <2>2. c.acc = acc /\ reply.items = page BY <1>4, <1>5
  <2>3. Collected(c, reply) = acc \o page BY <2>2 DEF Collected
  <2> HIDE DEF acc, page, reply
  <2> QED BY <2>1, <2>2, <2>3
<1>11. Len(c.acc) + Len(reply.items) >= reply.total => a + size >= Len(all)
  <2>1. reply.total = Len(all) BY <1>4
  <2> DEFINE counted == Len(c.acc) + Len(reply.items)
  <2>2. Len(all) \in Nat /\ counted = SmallerOf(a + size, Len(all)) BY <1>6
  <2>3. a + size \in Nat BY <1>1, <1>2
  <2> HIDE DEF a, all, size, counted
  <2>4. counted >= Len(all) => a + size >= Len(all) BY <2>2, <2>3 DEF SmallerOf
  <2> QED BY <2>1, <2>4 DEF counted
<1>12. PageParam(paging, c.page + 1) \in Int BY <1>1 DEF PageParam
<1>13. CASE strategy = "none"
  <2>1. c.page = 1 BY <1>13 DEF Collecting
  <2>2. Advance(c, reply) = None BY <1>13 DEF Advance
  <2>3. a + size = size BY <1>1, <1>2, <2>1
  <2>4. Collected(c, reply) = Listed(c.step) BY <1>6, <1>13, <2>3 DEF Listed
  <2> QED BY <2>2, <2>4
<1>14. CASE strategy = "cursor"
  <2>1. Advance(c, reply) = IF a + size < Len(all) THEN c.page + 1 ELSE None
    BY <1>2, <1>4, <1>14 DEF Advance
  <2>2. PageParam(paging, c.page + 1) = c.page + 1 BY <1>1, <1>14 DEF PageParam
  <2> QED BY <1>1, <1>2, <1>6, <1>14, <2>1, <2>2 DEF Listed
<1>15. CASE strategy = "untilEmpty"
  <2>1. Advance(c, reply) = IF Len(reply.items) = 0 THEN None ELSE PageParam(paging, c.page + 1)
    BY <1>4, <1>15 DEF Advance
  <2> QED BY <1>1, <1>2, <1>6, <1>12, <1>15, <2>1 DEF Listed
<1>16. CASE strategy = "pageWithTotal"
  <2>1. Advance(c, reply) = IF Len(reply.items) = 0 \/ Len(c.acc) + Len(reply.items) >= reply.total
                            THEN None ELSE PageParam(paging, c.page + 1)
    BY <1>4, <1>16 DEF Advance
  <2> QED BY <1>1, <1>2, <1>6, <1>11, <1>12, <1>16, <2>1 DEF Listed
<1> QED BY <1>1, <1>13, <1>14, <1>15, <1>16

-------------------------------------------------------------------------------
(* The stack.                                                              *)

LEMMA SeqIsList ==
  ASSUME NEW S, NEW s \in Seq(S)
  PROVE  IsList(s)
<1>1. Len(s) \in Nat /\ DOMAIN s = 1..Len(s) /\ s \in [1..Len(s) -> S] BY LenProperties
<1>2. s \in [1..Len(s) -> {s[i] : i \in DOMAIN s}] BY <1>1
<1> QED BY <1>1, <1>2, SeqDef DEF IsList

LEMMA StackTop ==
  ASSUME NEW s, StackOK(s)
  PROVE  /\ Len(s) \in Nat \ {0} /\ DOMAIN s = 1..Len(s) /\ 1 \in DOMAIN s
         /\ Head(s) = s[1] /\ ActivationOK(s[1])
         /\ DOMAIN s[1] = {"todo", "loop", "frame"}
<1>1. s \in Seq({s[i] : i \in DOMAIN s}) /\ s # <<>> BY DEF StackOK, IsList
<1>2. Len(s) \in Nat \ {0} /\ DOMAIN s = 1..Len(s) BY <1>1, EmptySeq, LenProperties
<1>3. 1 \in DOMAIN s /\ ActivationOK(s[1]) BY <1>2 DEF StackOK
<1>4. DOMAIN s[1] = {"todo", "loop", "frame"}
  <2> DEFINE a == s[1]
  <2>1. a = [todo |-> a.todo, loop |-> a.loop, frame |-> a.frame] BY <1>3 DEF ActivationOK
  <2> HIDE DEF a
  <2>2. DOMAIN a = {"todo", "loop", "frame"} BY <2>1
  <2> QED BY <2>2 DEF a
<1> QED BY <1>1, <1>2, <1>3, <1>4

(* Another activation on top, of the same loop.                            *)
LEMMA StackExcept ==
  ASSUME NEW s, StackOK(s), NEW a, ActivationOK(a), a.loop = s[1].loop,
         NEW t, t = [s EXCEPT ![1] = a]
  PROVE  StackOK(t)
<1> DEFINE S == {s[i] : i \in DOMAIN s} \cup {a}
<1>1. Len(s) \in Nat \ {0} /\ DOMAIN s = 1..Len(s) BY StackTop
<1>2. s \in Seq(S)
  <2>1. s \in Seq({s[i] : i \in DOMAIN s}) BY DEF StackOK, IsList
  <2>2. {s[i] : i \in DOMAIN s} \subseteq S OBVIOUS
  <2> HIDE DEF S
  <2> QED BY <2>1, <2>2, SeqMonotonic
<1>3. /\ t \in Seq(S) /\ Len(t) = Len(s)
      /\ \A j \in 1..Len(s) : t[j] = IF j = 1 THEN a ELSE s[j]
  <2>1. a \in S /\ 1 \in 1..Len(s) BY <1>1
  <2> HIDE DEF S
  <2> QED BY <1>2, <2>1, ExceptSeq
<1> HIDE DEF S
<1>4. DOMAIN t = 1..Len(s) BY <1>3, LenProperties
<1>5. IsList(t) /\ t # <<>> BY <1>1, <1>3, SeqIsList, EmptySeq
<1>6. \A i \in DOMAIN t : ActivationOK(t[i]) BY <1>1, <1>3, <1>4 DEF StackOK
<1>7. t[Len(t)].loop = None BY <1>1, <1>3 DEF StackOK
<1> QED BY <1>5, <1>6, <1>7 DEF StackOK

LEMMA StackDone ==
  ASSUME NEW s, StackOK(s), Head(s).todo # <<>>
  PROVE  StackOK(Done(s)) /\ Head(Head(s).todo) \in Statements
<1> DEFINE b == s[1]
           a == [b EXCEPT !.todo = Tail(@)]
<1>1. ActivationOK(b) /\ Head(s) = b /\ DOMAIN b = {"todo", "loop", "frame"} BY StackTop
<1>2. b.todo \in Seq(Statements) /\ b.todo # <<>> BY <1>1 DEF ActivationOK
<1>3. Head(b.todo) \in Statements /\ Tail(b.todo) \in Seq(Statements)
  BY <1>2, HeadTailProperties
<1>4. a.todo = Tail(b.todo) /\ a.loop = b.loop /\ a.frame = b.frame
      /\ a = [todo |-> a.todo, loop |-> a.loop, frame |-> a.frame]
  <2> HIDE DEF b
  <2> QED BY <1>1
<1>5. ActivationOK(a)
  <2> HIDE DEF a, b
  <2> QED BY <1>1, <1>3, <1>4 DEF ActivationOK
<1>6. Done(s) = [s EXCEPT ![1] = a] BY DEF Done
<1>7. a.loop = s[1].loop BY <1>4
<1> HIDE DEF a
<1> QED BY <1>1, <1>3, <1>5, <1>6, <1>7, StackExcept

LEMMA StackBind ==
  ASSUME NEW s, StackOK(s), NEW name, NEW value
  PROVE  StackOK(Bind(s, name, value))
<1> DEFINE b == s[1]
           a == [b EXCEPT !.frame = Binding(@, name, value)]
<1>1. ActivationOK(b) /\ DOMAIN b = {"todo", "loop", "frame"} BY StackTop
<1>2. a.todo = b.todo /\ a.loop = b.loop
      /\ a = [todo |-> a.todo, loop |-> a.loop, frame |-> a.frame]
  <2> HIDE DEF b
  <2> QED BY <1>1
<1>3. ActivationOK(a)
  <2> HIDE DEF a, b
  <2> QED BY <1>1, <1>2 DEF ActivationOK
<1>4. Bind(s, name, value) = [s EXCEPT ![1] = a] BY DEF Bind
<1>5. a.loop = s[1].loop BY <1>2
<1> HIDE DEF a
<1> QED BY <1>3, <1>4, <1>5, StackExcept

LEMMA StackPush ==
  ASSUME NEW s, StackOK(s), NEW a, ActivationOK(a)
  PROVE  StackOK(<<a>> \o s)
<1> DEFINE S == {s[i] : i \in DOMAIN s} \cup {a}
           t == <<a>> \o s
<1>1. Len(s) \in Nat \ {0} /\ DOMAIN s = 1..Len(s) BY StackTop
<1>2. s \in Seq(S)
  <2>1. s \in Seq({s[i] : i \in DOMAIN s}) BY DEF StackOK, IsList
  <2>2. {s[i] : i \in DOMAIN s} \subseteq S OBVIOUS
  <2> HIDE DEF S
  <2> QED BY <2>1, <2>2, SeqMonotonic
<1>3. <<a>> \in Seq(S) /\ Len(<<a>>) = 1 /\ <<a>>[1] = a
  <2>1. a \in S OBVIOUS
  <2> HIDE DEF S
  <2> QED BY <2>1
<1>4. /\ t \in Seq(S) /\ Len(t) = 1 + Len(s)
      /\ \A i \in 1..1 + Len(s) : t[i] = IF i <= 1 THEN <<a>>[i] ELSE s[i - 1]
  <2> HIDE DEF S
  <2> QED BY <1>2, <1>3, ConcatProperties
<1> HIDE DEF S, t
<1>5. DOMAIN t = 1..1 + Len(s) BY <1>4, LenProperties
<1>6. IsList(t) /\ t # <<>> BY <1>1, <1>4, SeqIsList, EmptySeq
<1>7. \A i \in DOMAIN t : ActivationOK(t[i])
  <2> SUFFICES ASSUME NEW i \in 1..1 + Len(s) PROVE ActivationOK(t[i]) BY <1>5
  <2>1. CASE i = 1 BY <1>3, <1>4, <2>1
  <2>2. CASE i # 1
    <3>1. i - 1 \in DOMAIN s BY <1>1, <2>2
    <3>2. t[i] = s[i - 1] BY <1>1, <1>4, <2>2
    <3> QED BY <3>1, <3>2 DEF StackOK
  <2> QED BY <2>1, <2>2
<1>8. t[Len(t)].loop = None
  <2>1. t[1 + Len(s)] = s[Len(s)] BY <1>1, <1>4
  <2> QED BY <1>4, <2>1 DEF StackOK
<1> QED BY <1>6, <1>7, <1>8 DEF StackOK, t

LEMMA StackPop ==
  ASSUME NEW s, StackOK(s), Head(s).loop # None
  PROVE  StackOK(Tail(s))
<1> DEFINE S == {s[i] : i \in DOMAIN s}
           t == Tail(s)
<1>1. Len(s) \in Nat \ {0} /\ DOMAIN s = 1..Len(s) /\ Head(s) = s[1] BY StackTop
<1>2. s \in Seq(S) /\ s # <<>> BY DEF StackOK, IsList
<1>3. Len(s) # 1 BY <1>1 DEF StackOK
<1>4. t \in Seq(S) /\ Len(t) = Len(s) - 1 /\ \A i \in 1..Len(t) : t[i] = s[i + 1]
  <2> HIDE DEF S
  <2> QED BY <1>2, HeadTailProperties
<1> HIDE DEF S, t
<1>5. DOMAIN t = 1..Len(s) - 1 BY <1>4, LenProperties
<1>6. IsList(t) /\ t # <<>> BY <1>1, <1>3, <1>4, SeqIsList, EmptySeq
<1>7. \A i \in DOMAIN t : ActivationOK(t[i])
  <2> SUFFICES ASSUME NEW i \in 1..Len(s) - 1 PROVE ActivationOK(t[i]) BY <1>5
  <2>1. i + 1 \in DOMAIN s /\ t[i] = s[i + 1] BY <1>1, <1>4
  <2> QED BY <2>1 DEF StackOK
<1>8. t[Len(t)].loop = None BY <1>1, <1>3, <1>4 DEF StackOK
<1> QED BY <1>6, <1>7, <1>8 DEF StackOK, t

-------------------------------------------------------------------------------
(* The invariant.                                                          *)

(* What a step's request carries, once it has been named.                  *)
Named(c) ==
  [step |-> c.step, page |-> c.page, param |-> c.param,
   bound |-> PageParam(c.step.paging, c.page), acc |-> c.acc, attempt |-> 0]

LEMMA RequestKeepsInv ==
  ASSUME EngineInv, NEW c, CallOK(c), StepOK(c.step),
         server.mode = "honest" => Collecting(Named(c)),
         NEW s, StackOK(s), Request(c, s)
  PROVE  EngineInv'
<1>1. server' = server /\ recipe' = recipe /\ stack' = s BY DEF Request, run
<1>2. CASE phase' = "failed"
  BY <1>1, <1>2 DEF EngineInv, StepUnderWay
<1>3. CASE phase' # "failed"
  <2>1. phase' = "fetch"
        /\ call' = [c EXCEPT !.attempt = 0, !.bound = PageParam(c.step.paging, c.page)]
    BY <1>3 DEF Request
  <2>2. call' = Named(c) BY <2>1 DEF CallOK, Named
  <2>3. CallOK(call') BY <2>2 DEF CallOK, Named
  <2>4. call'.step = c.step BY <2>2 DEF Named
  <2>5. server.mode = "honest" => Collecting(call)'
    BY <1>1, <2>2 DEF Collecting
  <2> QED BY <1>1, <2>1, <2>3, <2>4, <2>5 DEF EngineInv
<1> QED BY <1>2, <1>3

(* Statements that send no request leave a stack behind.                   *)
LEMMA WalkKeepsStack ==
  ASSUME EngineInv, Walk
  PROVE  StackOK(stack')
<1>1. StackOK(stack) /\ Head(stack) = Top BY DEF EngineInv, Top
<1>2. CASE RunEmit
  <2>1. StackOK(Done(stack)) BY <1>1, <1>2, StackDone DEF RunEmit, AtStatement
  <2> QED BY <1>2, <2>1, StackBind DEF RunEmit
<1>3. CASE EnterLoop
  <2>1. StackOK(Done(stack)) /\ Head(Top.todo) \in Statements /\ Head(Top.todo).kind = "for"
    BY <1>1, <1>3, StackDone DEF EnterLoop, AtStatement
  <2> DEFINE items == IF Head(Top.todo).over = Current THEN current
                      ELSE Lookup(Head(Top.todo).over)
  <2>2. PICK a : a = Activation(<<>>, [for |-> Head(Top.todo),
                                       left |-> Cap(items, Len(stack)), saved |-> current])
    OBVIOUS
  <2>3. ActivationOK(a) BY <2>1, <2>2 DEF ActivationOK, LoopOK, Activation
  <2>4. stack' = <<a>> \o Done(stack) BY <1>3, <2>2 DEF EnterLoop
  <2> QED BY <2>1, <2>3, <2>4, StackPush
<1>4. CASE Iterate
  <2>1. Top.loop # None /\ StackOK(Tail(stack)) BY <1>1, <1>4, StackPop DEF Iterate
  <2>2. CASE Top.loop.left = <<>> BY <1>4, <2>1, <2>2 DEF Iterate
  <2>3. CASE Top.loop.left # <<>>
    <3>1. PICK l : l = Top.loop OBVIOUS
    <3>2. LoopOK(l) BY <1>1, <2>1, <3>1, StackTop DEF ActivationOK
    <3>3. PICK m : m = [l EXCEPT !.left = Tail(@)] OBVIOUS
    <3>4. m.for = l.for /\ m = [for |-> m.for, left |-> m.left, saved |-> m.saved]
      BY <3>2, <3>3 DEF LoopOK
    <3>5. l.for.body \in Seq(Statements) BY <3>2, BodyAssumption DEF LoopOK
    <3>6. PICK f : f = Binding(<<>>, l.for.var, <<Head(l.left)>>) OBVIOUS
    <3>7. PICK a : a = [todo |-> l.for.body, loop |-> m, frame |-> f] OBVIOUS
    <3>8. ActivationOK(a) BY <3>2, <3>4, <3>5, <3>7 DEF ActivationOK, LoopOK
    <3>9. Bind(<<Activation(l.for.body, m)>>, l.for.var, <<Head(l.left)>>)[1] = a
      BY <3>6, <3>7 DEF Bind, Activation
    <3>10. stack' = <<a>> \o Tail(stack) BY <1>4, <2>3, <3>1, <3>3, <3>9 DEF Iterate
    <3> QED BY <2>1, <3>8, <3>10, StackPush
  <2> QED BY <2>2, <2>3
<1>5. CASE Finish BY <1>1, <1>5 DEF Finish
<1> QED BY <1>2, <1>3, <1>4, <1>5 DEF Walk

(* A page of an answer.                                                    *)
LEMMA AnswerKeepsInv ==
  ASSUME EngineInv, Answer
  PROVE  EngineInv'
<1>1. PICK c : c = call OBVIOUS
<1>2. /\ CallOK(c) /\ StepOK(c.step) /\ StackOK(stack) /\ server \in Servers
      /\ server.mode = "honest" => Collecting(c)
  BY <1>1 DEF Answer, EngineInv, CallOK, StepUnderWay
<1>3. PICK reply : reply = Reply(c) OBVIOUS
<1>4. PICK acc : acc = Collected(c, reply) OBVIOUS
<1>5. PICK next : next = Advance(c, reply) OBVIOUS
<1>6. PICK bound : bound = Bind(stack, c.step.name, acc) OBVIOUS
<1>7. StackOK(bound) BY <1>2, <1>6, StackBind
<1>8. CASE next = None
  <2>1. phase' = "body" /\ stack' = bound /\ server' = server /\ recipe' = recipe
    BY <1>1, <1>3, <1>4, <1>5, <1>6, <1>8 DEF Answer, run
  <2> QED BY <1>7, <2>1 DEF EngineInv, StepUnderWay
<1>9. CASE next # None
  <2>1. PICK d : d = [c EXCEPT !.page = @ + 1, !.param = next, !.acc = acc] OBVIOUS
  <2>2. Request(d, bound) BY <1>1, <1>3, <1>4, <1>5, <1>6, <1>9, <2>1 DEF Answer
  <2>3. d = [step |-> c.step, page |-> c.page + 1, param |-> next, bound |-> c.bound,
             acc |-> acc, attempt |-> c.attempt]
    BY <1>2, <2>1 DEF CallOK
  <2>4. CallOK(d) /\ StepOK(d.step) BY <1>2, <2>3 DEF CallOK
  <2>5. ASSUME server.mode = "honest" PROVE Collecting(Named(d))
    <3>1. /\ next = PageParam(c.step.paging, c.page + 1)
          /\ acc = Slice(server.items[c.step.name], 1, c.page * server.size)
          /\ c.step.paging.strategy # "none"
      BY <1>2, <1>3, <1>4, <1>5, <1>9, <2>5, PageCollected
    <3>2. PICK n : n = Named(d) OBVIOUS
    <3>3. /\ n.step = c.step /\ n.page = c.page + 1 /\ n.param = next /\ n.acc = acc
          /\ n.bound = PageParam(c.step.paging, c.page + 1)
      BY <2>3, <3>2 DEF Named
    <3>4. c.page \in Nat \ {0} /\ c.page + 1 # 1 /\ c.page + 1 - 1 = c.page
      BY <1>2, <2>5 DEF Collecting
    <3>5. n.page \in Nat \ {0} /\ n.page # 1 /\ n.page - 1 = c.page BY <3>3, <3>4
    <3> QED BY <3>1, <3>2, <3>3, <3>5 DEF Collecting
  <2> QED BY <1>7, <2>2, <2>4, <2>5, RequestKeepsInv
<1> QED BY <1>8, <1>9

LEMMA RunStepKeepsInv ==
  ASSUME EngineInv, RunStep
  PROVE  EngineInv'
<1>1. PICK step : step = Head(Top.todo) OBVIOUS
<1>2. PICK s : s = Done(stack) OBVIOUS
<1>3. StackOK(s) /\ StepOK(step)
  BY <1>1, <1>2, StackDone DEF RunStep, AtStatement, EngineInv, Top, StepOK
<1>4. PICK c : c = FirstCall(step) OBVIOUS
<1>5. c = [step |-> step, page |-> 1, param |-> None, bound |-> None, acc |-> <<>>,
           attempt |-> 0]
  BY <1>4 DEF FirstCall
<1>6. CallOK(c) /\ StepOK(c.step) BY <1>3, <1>5 DEF CallOK
<1>7. Request(c, s) BY <1>1, <1>2, <1>4 DEF RunStep
<1>8. Collecting(Named(c))
  <2>1. PICK n : n = Named(c) OBVIOUS
  <2>2. /\ n.step = step /\ n.page = 1 /\ n.param = None /\ n.acc = <<>>
        /\ n.bound = PageParam(step.paging, 1)
    BY <1>5, <2>1 DEF Named
  <2>3. IsList(server.items[step.name]) /\ server.size \in Nat
    BY <1>3, BodyAssumption DEF StepOK, EngineInv
  <2>4. (1 - 1) * server.size = 0 BY <2>3
  <2>5. Slice(server.items[step.name], 1, 0) = <<>>
    <3>1. PICK l : l = server.items[step.name] OBVIOUS
    <3>2. Len(l) \in Nat BY <2>3, <3>1, FirstItems
    <3>3. Slice(l, 1, 0) = SubSeq(l, 1, 0) BY <3>2 DEF Slice
    <3> QED BY <3>1, <3>3, SubSeqEmpty
  <2> QED BY <2>1, <2>2, <2>4, <2>5 DEF Collecting
<1> QED BY <1>3, <1>6, <1>7, <1>8, RequestKeepsInv

(* While a step is under way, its driver holds the pages before the one it *)
(* asks for (the loop of run_step).                                        *)
THEOREM EngineInvHolds == Spec => []EngineInv
<1>1. Init => EngineInv
  <2> SUFFICES ASSUME Init PROVE EngineInv OBVIOUS
  <2>1. server \in Servers /\ recipe \in Recipes /\ phase = "start" BY DEF Init
  <2>2. PICK a : a = Activation(recipe.body, None) OBVIOUS
  <2>3. ActivationOK(a) /\ a.loop = None
    BY <2>1, <2>2, BodyAssumption DEF ActivationOK, Activation
  <2>4. stack = <<a>> BY <2>2 DEF Init
  <2>5. <<a>> \in Seq({a}) /\ Len(<<a>>) = 1 /\ <<a>>[1] = a /\ <<a>> # <<>> OBVIOUS
  <2>6. DOMAIN <<a>> = {1} OBVIOUS
  <2>7. StackOK(<<a>>) BY <2>3, <2>5, <2>6, SeqIsList DEF StackOK
  <2> QED BY <2>1, <2>4, <2>7 DEF EngineInv, StepUnderWay
<1>2. EngineInv /\ [Next]_vars => EngineInv'
  <2> SUFFICES ASSUME EngineInv, [Next]_vars PROVE EngineInv' OBVIOUS
  <2>1. CASE Start
    <3>1. CASE recipe.login
      <4>1. /\ phase' = "fetch" /\ call' = [FirstCall(None) EXCEPT !.page = 0]
            /\ UNCHANGED <<run, stack>>
        BY <2>1, <3>1 DEF Start
      <4>2. call' = [step |-> None, page |-> 0, param |-> None, bound |-> None, acc |-> <<>>,
                     attempt |-> 0]
        BY <4>1 DEF FirstCall
      <4>3. CallOK(call') /\ call'.step = None BY <4>2 DEF CallOK
      <4> QED BY <4>1, <4>3 DEF EngineInv, StepUnderWay, run
    <3>2. CASE ~recipe.login
      BY <2>1, <3>2 DEF Start, EngineInv, StepUnderWay, run
    <3> QED BY <3>1, <3>2
  <2>2. CASE NoAnswer
    <3>1. CASE phase' = "failed"
      BY <2>2, <3>1 DEF NoAnswer, EngineInv, StepUnderWay, run
    <3>2. CASE phase' # "failed"
      <4>1. phase = "fetch" /\ phase' = "wait" /\ call' = NextAttempt(call) /\ UNCHANGED <<run, stack>>
        BY <2>2, <3>2 DEF NoAnswer
      <4>2. PICK c : c = call OBVIOUS
      <4>3. CallOK(c) BY <4>1, <4>2 DEF EngineInv
      <4>4. call' = [step |-> c.step, page |-> c.page, param |-> c.param, bound |-> c.bound,
                     acc |-> c.acc, attempt |-> c.attempt + 1]
        BY <4>1, <4>2, <4>3 DEF NextAttempt, CallOK
      <4>5. CallOK(call') BY <4>3, <4>4 DEF CallOK
      <4>6. StepUnderWay' => StepUnderWay BY <4>1, <4>2, <4>4 DEF StepUnderWay
      <4>7. StepUnderWay' /\ server'.mode = "honest" => Collecting(call)'
        BY <4>1, <4>2, <4>4, <4>6 DEF EngineInv, Collecting, run
      <4> QED BY <4>1, <4>5, <4>7 DEF EngineInv, run
    <3> QED BY <3>1, <3>2
  <2>3. CASE Retry
    BY <2>3 DEF Retry, EngineInv, StepUnderWay, Collecting, run
  <2>4. CASE LoggedIn
    BY <2>4 DEF LoggedIn, EngineInv, StepUnderWay, run
  <2>5. CASE Answer BY <2>5, AnswerKeepsInv
  <2>6. CASE RunStep BY <2>6, RunStepKeepsInv
  <2>7. CASE Walk
    <3>1. StackOK(stack') BY <2>7, WalkKeepsStack
    <3>2. phase' \in {"body", "done"} /\ server' = server /\ recipe' = recipe
      BY <2>7 DEF Walk, RunEmit, EnterLoop, Iterate, Finish, AtStatement, run
    <3> QED BY <3>1, <3>2 DEF EngineInv, StepUnderWay
  <2>8. CASE Abort
    BY <2>8 DEF Abort, EngineInv, StepUnderWay, run
  <2>9. CASE UNCHANGED vars
    BY <2>9 DEF vars, EngineInv, StepUnderWay, Collecting
  <2> QED BY <2>1, <2>2, <2>3, <2>4, <2>5, <2>6, <2>7, <2>8, <2>9 DEF Next
<1> QED BY <1>1, <1>2, PTL DEF Spec

-------------------------------------------------------------------------------
(* The refinement.                                                         *)

(* Sending a request shows nothing, unless it is the one too many.         *)
LEMMA RequestSeen ==
  ASSUME EngineInv, NEW c, CallOK(c), StepOK(c.step), c.step # None,
         NEW s, StackOK(s), Request(c, s)
  PROVE  /\ UNCHANGED <<run, snapshot>>
         /\ \/ SeenPhase' = "failed" /\ SeenStack' = <<>> /\ SeenCurrent' = <<>>
            \/ /\ SeenPhase' = "body"
               /\ SeenStack' = Bind(s, c.step.name, Listed(c.step))
               /\ SeenCurrent' = Listed(c.step)
<1>1. UNCHANGED <<run, snapshot>> /\ server' = server /\ stack' = s BY DEF Request, run
<1>2. CASE phase' = "failed" BY <1>1, <1>2 DEF SeenPhase, SeenStack, SeenCurrent
<1>3. CASE phase' # "failed"
  <2>1. phase' = "fetch"
        /\ call' = [c EXCEPT !.attempt = 0, !.bound = PageParam(c.step.paging, c.page)]
    BY <1>3 DEF Request
  <2>2. call' = Named(c) BY <2>1 DEF CallOK, Named
  <2>3. call'.step = c.step BY <2>2 DEF Named
  <2>4. Listed(call.step)' = Listed(c.step) BY <1>1, <2>3 DEF Listed
  <2> QED BY <1>1, <2>1, <2>3, <2>4 DEF SeenPhase, SeenStack, SeenCurrent, StepUnderWay
<1> QED BY <1>1, <1>2, <1>3

LEMMA StepIsNotNone ==
  ASSUME NEW s, StepOK(s) PROVE s # None
BY BodyAssumption DEF StepOK

(* What is seen while a step is under way, and otherwise.                  *)
LEMMA SeenInStep ==
  ASSUME phase \in {"fetch", "wait"}, call.step # None
  PROVE  /\ SeenPhase = "body"
         /\ SeenStack = Bind(stack, call.step.name, Listed(call.step))
         /\ SeenCurrent = Listed(call.step)
BY DEF SeenPhase, SeenStack, SeenCurrent, StepUnderWay

LEMMA SeenInBody ==
  ASSUME phase = "body"
  PROVE  SeenPhase = phase /\ SeenStack = stack /\ SeenCurrent = current
BY DEF SeenPhase, SeenStack, SeenCurrent, StepUnderWay

(* A page shows nothing: what it binds is bound over, the last one binds   *)
(* what was shown all the time.                                            *)
LEMMA AnswerSeen ==
  ASSUME EngineInv, Answer, server.mode = "honest"
  PROVE  UNCHANGED Atomic!vars \/ Atomic!Fail
<1>1. PICK c : c = call OBVIOUS
<1>2. /\ CallOK(c) /\ StepOK(c.step) /\ StackOK(stack) /\ server \in Servers
      /\ Collecting(c) /\ c.step # None /\ phase = "fetch"
  BY <1>1 DEF Answer, EngineInv, CallOK, StepUnderWay
<1>3. PICK reply : reply = Reply(c) OBVIOUS
<1>4. PICK acc : acc = Collected(c, reply) OBVIOUS
<1>5. PICK next : next = Advance(c, reply) OBVIOUS
<1>6. PICK bound : bound = Bind(stack, c.step.name, acc) OBVIOUS
<1>7. PICK all : all = Listed(c.step) OBVIOUS
<1>8. SeenPhase = "body" /\ SeenStack = Bind(stack, c.step.name, all) /\ SeenCurrent = all
  BY <1>1, <1>2, <1>7, SeenInStep
<1>9. CASE next = None
  <2>1. /\ phase' = "body" /\ stack' = bound /\ current' = acc
        /\ UNCHANGED <<run, snapshot>>
    BY <1>1, <1>3, <1>4, <1>5, <1>6, <1>9 DEF Answer
  <2>2. acc = all BY <1>2, <1>3, <1>4, <1>5, <1>7, <1>9, PageCollected
  <2>3. SeenPhase' = "body" /\ SeenStack' = bound /\ SeenCurrent' = acc
    BY <2>1 DEF SeenPhase, SeenStack, SeenCurrent, StepUnderWay
  <2> QED BY <1>6, <1>8, <2>1, <2>2, <2>3 DEF Atomic!vars, run
<1>10. CASE next # None
  <2>1. PICK d : d = [c EXCEPT !.page = @ + 1, !.param = next, !.acc = acc] OBVIOUS
  <2>2. Request(d, bound) BY <1>1, <1>3, <1>4, <1>5, <1>6, <1>10, <2>1 DEF Answer
  <2>3. d = [step |-> c.step, page |-> c.page + 1, param |-> next, bound |-> c.bound,
             acc |-> acc, attempt |-> c.attempt]
    BY <1>2, <2>1 DEF CallOK
  <2>4. CallOK(d) /\ d.step = c.step BY <1>2, <2>3 DEF CallOK
  <2>5. StackOK(bound) BY <1>2, <1>6, StackBind
  <2>6. /\ UNCHANGED <<run, snapshot>>
        /\ \/ SeenPhase' = "failed" /\ SeenStack' = <<>> /\ SeenCurrent' = <<>>
           \/ /\ SeenPhase' = "body"
              /\ SeenStack' = Bind(bound, c.step.name, all)
              /\ SeenCurrent' = all
    BY <1>2, <1>7, <2>2, <2>4, <2>5, RequestSeen
  <2>7. Bind(bound, c.step.name, all) = Bind(stack, c.step.name, all)
    BY <1>2, <1>6, StackTop, BindTwice
  <2> QED BY <1>8, <2>6, <2>7 DEF Atomic!vars, Atomic!Fail, Atomic!run, run
<1> QED BY <1>9, <1>10

LEMMA RunStepSeen ==
  ASSUME EngineInv, RunStep
  PROVE  Atomic!Step \/ Atomic!Fail
<1>1. PICK step : step = Head(Top.todo) OBVIOUS
<1>2. PICK s : s = Done(stack) OBVIOUS
<1>3. StackOK(s) /\ StepOK(step) /\ phase = "body"
  BY <1>1, <1>2, StackDone DEF RunStep, AtStatement, EngineInv, Top, StepOK
<1>4. PICK c : c = FirstCall(step) OBVIOUS
<1>5. c.step = step /\ CallOK(c) BY <1>3, <1>4 DEF FirstCall, CallOK
<1>6. Request(c, s) BY <1>1, <1>2, <1>4 DEF RunStep
<1>7. step # None BY <1>3, StepIsNotNone
<1>8. /\ UNCHANGED <<run, snapshot>>
      /\ \/ SeenPhase' = "failed" /\ SeenStack' = <<>> /\ SeenCurrent' = <<>>
         \/ /\ SeenPhase' = "body"
            /\ SeenStack' = Bind(s, step.name, Listed(step))
            /\ SeenCurrent' = Listed(step)
  BY <1>3, <1>5, <1>6, <1>7, RequestSeen
<1>9. SeenPhase = phase /\ SeenStack = stack /\ SeenCurrent = current
  BY <1>3, SeenInBody
<1>10. CASE SeenPhase' = "failed"
  BY <1>3, <1>8, <1>9, <1>10 DEF Atomic!Fail, Atomic!run, run
<1>11. CASE SeenPhase' # "failed"
  <2>1. Atomic!AtStatement("step") /\ Head(Atomic!Top.todo) = step
    BY <1>1, <1>9 DEF RunStep, AtStatement, Top, Atomic!AtStatement, Atomic!Top
  <2>2. Atomic!Bind(Atomic!Done(SeenStack), step.name, Atomic!Listed(step))
        = Bind(s, step.name, Listed(step))
    BY <1>2, <1>9 DEF Atomic!Bind, Atomic!Done, Atomic!Listed, Atomic!Slice, Atomic!Binding,
         Bind, Done, Listed, Slice, Binding
  <2>3. Atomic!Listed(step) = Listed(step) BY DEF Atomic!Listed, Atomic!Slice, Listed, Slice
  <2> QED BY <1>3, <1>8, <1>9, <1>11, <2>1, <2>2, <2>3 DEF Atomic!Step, Atomic!run, run
<1> QED BY <1>10, <1>11

LEMMA WalkSeen ==
  ASSUME EngineInv, Walk
  PROVE  Atomic!RunEmit \/ Atomic!EnterLoop \/ Atomic!Iterate \/ Atomic!Finish
<1>1. phase = "body" /\ phase' \in {"body", "done"}
  BY DEF Walk, RunEmit, EnterLoop, Iterate, Finish, AtStatement
<1>2. SeenPhase = phase /\ SeenStack = stack /\ SeenCurrent = current BY <1>1, SeenInBody
<1>3. SeenPhase' = phase' /\ SeenStack' = stack' /\ SeenCurrent' = current'
  BY <1>1 DEF SeenPhase, SeenStack, SeenCurrent, StepUnderWay
<1>4. /\ Atomic!Top = Top
      /\ \A kind : AtStatement(kind) => Atomic!AtStatement(kind)
      /\ \A name : Atomic!Lookup(name) = Lookup(name)
  <2>1. Atomic!Top = Top BY <1>2 DEF Top, Atomic!Top
  <2>2. \A name : Atomic!Lookup(name) = Lookup(name)
    BY <1>2, Zenon DEF Lookup, Atomic!Lookup
  <2> QED BY <1>2, <2>1, <2>2 DEF AtStatement, Atomic!AtStatement
<1>5. /\ \A s : Atomic!Done(s) = Done(s)
      /\ \A s, name, value : Atomic!Bind(s, name, value) = Bind(s, name, value)
      /\ \A todo, loop : Atomic!Activation(todo, loop) = Activation(todo, loop)
      /\ \A items, depth : Atomic!Cap(items, depth) = Cap(items, depth)
  BY DEF Done, Atomic!Done, Bind, Atomic!Bind, Binding, Atomic!Binding, Activation,
    Atomic!Activation, Cap, Atomic!Cap
<1>6. CASE RunEmit
  BY <1>2, <1>3, <1>4, <1>5, <1>6 DEF RunEmit, Atomic!RunEmit, run, Atomic!run
<1>7. CASE EnterLoop
  BY <1>2, <1>3, <1>4, <1>5, <1>7 DEF EnterLoop, Atomic!EnterLoop, run, Atomic!run
<1>8. CASE Iterate
  BY <1>2, <1>3, <1>4, <1>5, <1>8 DEF Iterate, Atomic!Iterate, run, Atomic!run
<1>9. CASE Finish
  BY <1>2, <1>3, <1>4, <1>9 DEF Finish, Atomic!Finish, run, Atomic!run
<1> QED BY <1>6, <1>7, <1>8, <1>9 DEF Walk

(* A run over an honest server is one whose steps each bind, at once, all  *)
(* that the server lists, or that fails: whatever the pagination, the page *)
(* size, the retries and the budget.                                       *)
THEOREM StepsHappenAtOnce == Spec => StepsAreAtomic
<1>1. Init /\ server.mode = "honest" => Atomic!Init
  BY DEF Init, Atomic!Init, SeenPhase, SeenStack, SeenCurrent, StepUnderWay,
    Activation, Atomic!Activation
<1>2. EngineInv /\ [Next]_vars => [server.mode = "honest" => Atomic!Next]_(Atomic!vars)
  <2> SUFFICES ASSUME EngineInv, [Next]_vars, server.mode = "honest"
               PROVE  Atomic!Next \/ UNCHANGED Atomic!vars
    OBVIOUS
  <2>1. CASE Start
    BY <2>1 DEF Start, FirstCall, Atomic!vars, SeenPhase, SeenStack, SeenCurrent,
      StepUnderWay, run
  <2>2. CASE NoAnswer
    <3>1. phase = "fetch" /\ SeenPhase = "body" BY <2>2 DEF NoAnswer, SeenPhase
    <3>2. CASE phase' = "failed"
      BY <2>2, <3>1, <3>2 DEF NoAnswer, Atomic!Next, Atomic!Fail, SeenPhase, SeenStack,
        SeenCurrent, run, Atomic!run
    <3>3. CASE phase' # "failed"
      <4>1. phase' = "wait" /\ call' = NextAttempt(call) /\ UNCHANGED <<run, stack, current, snapshot>>
        BY <2>2, <3>3 DEF NoAnswer
      <4>2. PICK c : c = call OBVIOUS
      <4>3. CallOK(c) BY <3>1, <4>2 DEF EngineInv
      <4>4. call'.step = c.step BY <4>1, <4>2, <4>3 DEF NextAttempt, CallOK
      <4>5. Listed(call.step)' = Listed(call.step) BY <4>1, <4>2, <4>4 DEF Listed, Slice, run
      <4> QED BY <3>1, <4>1, <4>2, <4>4, <4>5 DEF Atomic!vars, SeenPhase, SeenStack,
             SeenCurrent, StepUnderWay, run
    <3> QED BY <3>2, <3>3
  <2>3. CASE Retry
    BY <2>3 DEF Retry, Atomic!vars, SeenPhase, SeenStack, SeenCurrent, StepUnderWay, Listed,
      run
  <2>4. CASE LoggedIn
    BY <2>4 DEF LoggedIn, Atomic!vars, SeenPhase, SeenStack, SeenCurrent, StepUnderWay, run
  <2>5. CASE Answer BY <2>5, AnswerSeen DEF Atomic!Next
  <2>6. CASE RunStep BY <2>6, RunStepSeen DEF Atomic!Next
  <2>7. CASE Walk BY <2>7, WalkSeen DEF Atomic!Next
  <2>8. CASE Abort
    BY <2>8 DEF Abort, Atomic!Next, Atomic!Fail, SeenPhase, SeenStack, SeenCurrent, run,
      Atomic!run
  <2>9. CASE UNCHANGED vars
    BY <2>9 DEF vars, Atomic!vars, SeenPhase, SeenStack, SeenCurrent, StepUnderWay, Listed
  <2> QED BY <2>1, <2>2, <2>3, <2>4, <2>5, <2>6, <2>7, <2>8, <2>9 DEF Next
<1> QED BY <1>1, <1>2, EngineInvHolds, PTL DEF Spec, StepsAreAtomic
===============================================================================
