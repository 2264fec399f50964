--------------------------------- MODULE Engine ---------------------------------
(***************************************************************************)
(* forage-http: one run of an HTTP recipe.  The engine walks the body's    *)
(* statements, a step sends requests until its pagination driver stops,    *)
(* and the transport retries a request.                                    *)
(***************************************************************************)
EXTENDS Body

CONSTANTS
  MaxRequests, \* EngineConfig::max_requests
  MaxRetries   \* LiveTransportConfig::max_retries

ASSUME EngineAssumption == MaxRequests \in Nat /\ MaxRetries \in Nat

(* Beside "body", phase is "start", "fetch", "wait", "done" or "failed".   *)
VARIABLES
  requests, \* requests_made
  call      \* the request under way, or None

vars == <<recipe, server, sample, phase, stack, current, snapshot, requests, call>>

-------------------------------------------------------------------------------
(* The server.  An honest one serves the pages of a list that does not     *)
(* change, as long as it is asked to (`size` is also the pageSize of the   *)
(* recipe); a default one has longer pages when no pageSize is sent, a     *)
(* stuck one ignores what page it is asked for and always has more, a      *)
(* silent one has no total, a bare one serves a single item not in an      *)
(* array.                                                                  *)

(* A request names its page in the query, from the second one on, or as    *)
(* the template $page in its body, from the first one on.                  *)
AskedPage(c) ==
  LET asked == IF c.step.paging.where = "scope" THEN c.bound ELSE c.param
  IN  IF asked = None \/ server.mode = "stuck" THEN 1
      ELSE IF c.step.paging.zero THEN asked + 1 ELSE asked

(* pageSize is sent by pageWithTotal only, with the page parameter.        *)
AskedSize(c) ==
  IF server.mode = "default" /\ (c.param = None \/ c.step.paging.strategy # "pageWithTotal")
  THEN server.size + 1 ELSE server.size

Reply(c) ==
  LET all == server.items[c.step.name]
      k == AskedPage(c)
      size == AskedSize(c)
      items == Slice(all, (k - 1) * size + 1, size)
  IN  [items |-> items,
       array |-> ~(server.mode = "bare" /\ Len(items) = 1),
       total |-> IF server.mode = "silent" THEN 0
                 ELSE IF server.mode = "stuck" THEN Len(all) * MaxRequests + 1
                 ELSE Len(all),
       cursor |-> IF server.mode = "stuck" \/ k * size < Len(all)
                  THEN k + 1 ELSE None]

-------------------------------------------------------------------------------
(* Pagination: the driver's counters are the call's.                       *)

PageParamFromOne(paging, page) == page

PageParam(paging, page) == IF paging.zero THEN page - 1 ELSE page

(* PaginationDriver::advance: the next page's parameter, None to stop.     *)
(* What is not an array counts as no items, though it is collected as one. *)
Advance(c, reply) ==
  LET strategy == c.step.paging.strategy
      count == IF reply.array THEN Len(reply.items) ELSE 0
      next == PageParam(c.step.paging, c.page + 1)
  IN
  CASE strategy = "none" -> None
    [] strategy = "cursor" -> reply.cursor
    [] strategy = "untilEmpty" -> IF count = 0 THEN None ELSE next
    [] strategy = "pageWithTotal" ->
         IF count = 0 \/ Len(c.acc) + count >= reply.total THEN None ELSE next

(* The head of run_step's loop: the cap, then the request.                 *)
Request(c, s) ==
  /\ IF requests >= MaxRequests
     THEN phase' = "failed" /\ call' = None /\ UNCHANGED requests
     ELSE /\ phase' = "fetch" /\ requests' = requests + 1
          /\ call' = [c EXCEPT !.attempt = 0,
                               !.bound = PageParam(c.step.paging, c.page)]
  /\ stack' = s
  /\ UNCHANGED <<run, snapshot>>

FirstCall(step) ==
  [step |-> step, page |-> 1, param |-> None, bound |-> None, acc |-> <<>>, attempt |-> 0]

-------------------------------------------------------------------------------
(* run_inner: the session login, one fetch outside the budget.             *)
Start ==
  /\ phase = "start"
  /\ IF recipe.login
     THEN phase' = "fetch" /\ call' = [FirstCall(None) EXCEPT !.page = 0]
     ELSE phase' = "body" /\ UNCHANGED call
  /\ UNCHANGED <<run, stack, current, snapshot, requests>>

SameAttempt(c) == c
NextAttempt(c) == [c EXCEPT !.attempt = @ + 1]

(* LiveTransport::fetch, an attempt without a usable answer: 429 and 5xx   *)
(* are retried after a wait, whatever the method; other statuses and       *)
(* broken connections are not.                                             *)
NoAnswer ==
  /\ phase = "fetch"
  /\ \/ call.attempt < MaxRetries /\ phase' = "wait" /\ call' = NextAttempt(call)
     \/ phase' = "failed" /\ call' = None
  /\ UNCHANGED <<run, stack, current, snapshot, requests>>

(* The wait is over: Retry-After, or a back-off that doubles.              *)
Retry ==
  /\ phase = "wait"
  /\ phase' = "fetch"
  /\ UNCHANGED <<run, stack, current, snapshot, requests, call>>

LoggedIn ==
  /\ phase = "fetch" /\ call.step = None
  /\ phase' = "body" /\ call' = None
  /\ UNCHANGED <<run, stack, current, snapshot, requests>>

LastPage(c, reply) == reply.items
Collected(c, reply) == c.acc \o reply.items

(* A 2xx or 3xx: the page is bound, its items are collected, and the       *)
(* driver decides; at the end the name is bound to all items.              *)
Answer ==
  LET reply == Reply(call)
      next == Advance(call, reply)
      acc == Collected(call, reply)
      bound == Bind(stack, call.step.name, acc)
  IN
  /\ phase = "fetch" /\ call.step # None
  /\ current' = acc
  /\ IF next = None
     THEN /\ phase' = "body" /\ call' = None /\ stack' = bound
          /\ UNCHANGED <<run, snapshot, requests>>
     ELSE Request([call EXCEPT !.page = @ + 1, !.param = next, !.acc = acc], bound)

-------------------------------------------------------------------------------
(* run_statements.                                                         *)

RunStep ==
  /\ AtStatement("step")
  /\ Request(FirstCall(Head(Top.todo)), Done(stack))
  /\ UNCHANGED current

(* An expression that does not evaluate, or the debugger's Stop.           *)
Abort ==
  /\ phase = "body" /\ Top.todo # <<>>
  /\ phase' = "failed"
  /\ UNCHANGED <<run, stack, current, snapshot, requests, call>>

(* Statements and iterations that send no request.                         *)
Walk ==
  /\ RunEmit \/ EnterLoop \/ Iterate \/ Finish
  /\ UNCHANGED <<requests, call>>

Init ==
  /\ recipe \in Recipes /\ server \in Servers /\ sample \in Samples
  /\ phase = "start" /\ snapshot = <<>> /\ requests = 0 /\ call = None
  /\ stack = <<Activation(recipe.body, None)>>
  /\ current = <<>>

Next ==
  \/ Start \/ NoAnswer \/ Retry \/ LoggedIn \/ Answer
  \/ RunStep \/ Walk \/ Abort

(* Every request ends: the client has a time-out, and a wait is finite.    *)
Spec == Init /\ [][Next]_vars /\ WF_vars(Next)
-------------------------------------------------------------------------------
(* The engine as the author of a recipe sees it: one whose steps are       *)
(* atomic.  While a step is under way it has happened already; a run that  *)
(* failed keeps its records only.                                          *)

StepUnderWay == phase \in {"fetch", "wait"} /\ call.step # None

SeenPhase == IF phase \in {"done", "failed"} THEN phase ELSE "body"

SeenStack ==
  IF phase = "failed" THEN <<>>
  ELSE IF StepUnderWay THEN Bind(stack, call.step.name, Listed(call.step))
  ELSE stack

SeenCurrent ==
  IF phase = "failed" THEN <<>>
  ELSE IF StepUnderWay THEN Listed(call.step)
  ELSE current

Atomic == INSTANCE AtomicSteps
            WITH phase <- SeenPhase, stack <- SeenStack, current <- SeenCurrent

(* Whatever the pagination, the retries, the request budget and the login  *)
(* do, a run over an honest server is one whose steps each bind, at once   *)
(* and in order, all the items their server lists, or that fails (the      *)
(* driver of paginate.rs and the loop of run_step together).               *)
StepsAreAtomic ==
  /\ server.mode = "honest" => Atomic!Init
  /\ [][server.mode = "honest" => Atomic!Next]_(Atomic!vars)

(* A cursor that repeats, a page that never empties or a server that only  *)
(* answers 503 does not keep a run from its end.                           *)
RunEnds == <>(phase \in {"done", "failed"})
===============================================================================
