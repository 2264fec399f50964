----------------------------- MODULE AccountsProofs -----------------------------
(***************************************************************************)
(* What the hub takes back it does not accept again, for any number of     *)
(* logins, workers, flows and requests and any lifetimes, as long as no    *)
(* two requests were about to write the record of one login at once.       *)
(*                                                                         *)
(* Two facts carry the proof.  A JWT is its claims, so a refresh within    *)
(* the second of its token gives that token back; a token is therefore     *)
(* retired only in a later second than its own, and what a pending request *)
(* is about to put is younger than everything retired for its login.  And  *)
(* a pending refresh still finds the token it presented in the record, so  *)
(* it never writes over a revocation.                                      *)
(*                                                                         *)
(* The second theorem is about the rate limit, which counts in windows:    *)
(* how many arrivals a window's length can hold, wherever it starts.       *)
(***************************************************************************)
EXTENDS Accounts, TLAPS

-------------------------------------------------------------------------------
(* The inductive invariant.                                                *)

RefreshOfLogin(l) == {t \in Tokens : t.sub = l /\ t.aud = "refresh"}

UserInv ==
  /\ clock \in Nat
  /\ DOMAIN user = Logins /\ DOMAIN revoked = Logins /\ DOMAIN req = Workers
  /\ \A l \in Logins : user[l] \in {None, Random} \cup RefreshOfLogin(l)
  /\ \A l \in Logins : revoked[l] # None => revoked[l] \in Nat /\ revoked[l] <= clock

(* A token somebody was given was signed by now, and before the session of *)
(* its login was revoked.                                                  *)
Signed(t) == t \in Tokens /\ t.iat <= clock
Ended(t) == revoked[t.sub] # None => t.iat <= revoked[t.sub]

(* Retired tokens are of an earlier second.                                *)
SpentInv == \A t \in spent : t \in Tokens /\ t.iat < clock

IsRequest(r) ==
  r \in [op : {r.op}, pc : {r.pc}, from : {r.from}, flow : {r.flow}, field : {r.field},
         token : {r.token}, new : {r.new}, window : {r.window},
         at : {r.at}]

(* What a request has in hand: a token to present, and a new refresh token *)
(* once it was drawn.  A refresh within the second of its token draws that *)
(* token again.                                                            *)
RequestInv(r) ==
  /\ IsRequest(r)
  /\ r.token # None => r.token \in Tokens
  /\ r.op \notin {"refresh", "revoke"} => r.token = None
  /\ r.new # None => Signed(r.new) /\ r.new.aud = "refresh"
  /\ r.pc \in {"limit", "go"} => r.new = None
  /\ r.pc = "put" =>
       /\ r.op = "revoke" => r.token # None /\ r.new = None
       /\ r.op # "revoke" => r.new # None
       /\ r.op = "refresh" =>
            /\ r.token # None /\ r.token.aud = "refresh" /\ r.new.sub = r.token.sub
            /\ r.token.iat <= r.new.iat
            /\ r.token.iat = r.new.iat => r.token = r.new

(* A request about to put is the only one for its login: what it puts is   *)
(* younger than what was retired, and a refresh finds its token accepted.  *)
PendingInv(r) ==
  /\ r.op # "revoke" => \A t \in spent : t.sub = Owner(r) => t.iat < r.new.iat
  /\ r.op = "refresh" => user[Owner(r)] = r.token

(* The promises that two requests for one record at once would break.      *)
Unraced(r) == IF r.pc = "put" THEN PendingInv(r) ELSE r.new # None => Ended(r.new)

OneWriter == \A v, w \in Workers : v # w => Target(req[v]) \cap Target(req[w]) = {}

SessionInv ==
  /\ UserInv
  /\ SpentInv
  /\ \A t \in held : Signed(t)
  /\ \A w \in Workers : req[w] # None => RequestInv(req[w])
  /\ ~raced =>
       /\ OneWriter
       /\ \A w \in Workers : req[w] # None => Unraced(req[w])
       /\ \A t \in held : Ended(t)
       /\ \A l \in Logins : user[l] \notin spent
       /\ \A l \in Logins : revoked[l] # None => user[l] = Random

-------------------------------------------------------------------------------
(* One request moves on.                                                   *)

LEMMA ContinueMoves ==
  ASSUME UserInv, NEW w \in Workers, NEW x, Continue(w, x)
  PROVE  /\ DOMAIN req' = Workers /\ req'[w] = x /\ \A v \in Workers \ {w} : req'[v] = req[v]
         /\ raced => raced'
         /\ OneWriter /\ ~raced' => OneWriter'
<1>1. DOMAIN req' = Workers /\ req'[w] = x /\ \A v \in Workers \ {w} : req'[v] = req[v]
  BY DEF UserInv, Continue
<1>2. raced => raced'
  BY DEF Continue
<1>3. ASSUME OneWriter, ~raced' PROVE OneWriter'
  <2>1. \A v \in Workers \ {w} : Target(req[v]) \cap Target(x) = {}
    BY <1>3 DEF Continue
  <2>2. \A v \in Workers \ {w} : Target(req'[v]) = Target(req[v])
    BY <1>1
  <2>3. Target(req'[w]) = Target(x)
    BY <1>1
  <2>4. \A u, v \in Workers : u # v => Target(req'[u]) \cap Target(req'[v]) = {}
    BY <1>3, <2>1, <2>2, <2>3 DEF OneWriter
  <2> QED BY <2>4 DEF OneWriter, Target, Owner
<1> QED BY <1>1, <1>2, <1>3

(* A step of one request that leaves the records of the logins alone.      *)
LEMMA StepKeeps ==
  ASSUME SessionInv, NEW w \in Workers, NEW x, Continue(w, x), UNCHANGED <<clock, user, spent, revoked>>,
         x # None => RequestInv(x),
         ~raced' /\ x # None => Unraced(x),
         \A t \in held' \ held : Signed(t) /\ (~raced' => Ended(t))
  PROVE  SessionInv'
<1> USE DEF SessionInv
<1>1. /\ DOMAIN req' = Workers /\ req'[w] = x /\ \A v \in Workers \ {w} : req'[v] = req[v]
      /\ raced => raced'
      /\ OneWriter /\ ~raced' => OneWriter'
  BY ContinueMoves
<1>2. UserInv'
  BY <1>1 DEF UserInv
<1>3. SpentInv'
  BY DEF SpentInv
<1>4. \A t \in held' : Signed(t)'
  BY DEF Signed
<1>5. ASSUME NEW v \in Workers, req'[v] # None PROVE RequestInv(req[v])'
  <2>1. RequestInv(req'[v])
    BY <1>1, <1>5
  <2> QED BY <2>1 DEF RequestInv, IsRequest, Signed
<1>6. ASSUME ~raced', NEW v \in Workers, req'[v] # None PROVE Unraced(req[v])'
  <2>1. Unraced(req'[v])
    BY <1>1, <1>6
  <2> QED BY <2>1 DEF Unraced, PendingInv, Ended, Owner
<1>7. ~raced' => \A t \in held' : Ended(t)'
  BY <1>1 DEF Ended
<1>8. ~raced' => /\ \A l \in Logins : user'[l] \notin spent'
                 /\ \A l \in Logins : revoked'[l] # None => user'[l] = Random
  BY <1>1
<1> QED BY <1>1, <1>2, <1>3, <1>4, <1>5, <1>6, <1>7, <1>8

(* A step that leaves records, tokens and requests alone.                  *)
LEMMA SameSessions ==
  ASSUME SessionInv, UNCHANGED <<clock, user, spent, revoked, held, req, raced>>
  PROVE  SessionInv'
BY DEF SessionInv, UserInv, SpentInv, Signed, Ended, RequestInv, IsRequest, Unraced, PendingInv, OneWriter,
   Target, Owner

-------------------------------------------------------------------------------
(* Requests that arrive.                                                   *)

LEMMA Harmless ==
  ASSUME NEW x, IsRequest(x), x.token = None, x.new = None, x.pc # "put"
  PROVE  RequestInv(x) /\ Unraced(x)
BY DEF RequestInv, Unraced

LEMMA SameToken ==
  ASSUME NEW t \in Tokens, NEW u \in Tokens, t.sub = u.sub, t.iat = u.iat, t.aud = u.aud
  PROVE  t = u
BY DEF Tokens

LEMMA Signing ==
  ASSUME UserInv, NEW l \in Logins, NEW aud \in Audiences
  PROVE  LET t == SignJWT(l, aud)
         IN  t \in Tokens /\ Signed(t) /\ t # None /\ t.sub = l /\ t.iat = clock /\ t.aud = aud
BY NoneIsNoToken DEF UserInv, SignJWT, Tokens, Signed

LEMMA RefreshArrives ==
  ASSUME SessionInv, NEW t \in held, NEW w \in Workers, Continue(w, RefreshOf(t))
  PROVE  RequestInv(RefreshOf(t)) /\ (~raced' => Unraced(RefreshOf(t)))
<1> DEFINE x == RefreshOf(t)
           new == SignJWT(t.sub, "refresh")
<1>1. t \in Tokens /\ t.iat <= clock /\ t # None
  BY NoneIsNoToken DEF SessionInv, Signed
<1>2. CASE VerifyJWT(t, "refresh") /\ user[t.sub] = t
  <2>1. /\ IsRequest(x) /\ x.op = "refresh" /\ x.pc = "put" /\ x.token = t /\ x.new = new
    BY <1>2 DEF RefreshOf, Incoming, IsRequest
  <2>2. /\ t.sub \in Logins /\ t.aud = "refresh" /\ Signed(new) /\ new \in Tokens /\ new # None
        /\ new.sub = t.sub /\ new.iat = clock /\ new.aud = "refresh"
    BY <1>1, <1>2, Signing DEF SessionInv, VerifyJWT, Tokens, Audiences
  <2> HIDE DEF x, new
  <2>3. RequestInv(x)
    <3>1. t.iat = new.iat => t = new
      BY <1>1, <2>2, SameToken
    <3> QED BY <1>1, <2>1, <2>2, <3>1 DEF RequestInv
  <2>4. Unraced(x)
    <3>1. Owner(x) = t.sub
      BY <1>1, <2>1 DEF Owner
    <3> QED BY <1>1, <1>2, <2>1, <2>2, <3>1 DEF Unraced, PendingInv, SessionInv, SpentInv
  <2> QED BY <2>3, <2>4 DEF x
<1>3. CASE ~(VerifyJWT(t, "refresh") /\ user[t.sub] = t)
  <2>1. IsRequest(x) /\ x.pc = "done" /\ x.token = None /\ x.new = None
    BY <1>3 DEF RefreshOf, Incoming, IsRequest
  <2> QED BY <2>1, Harmless
<1> QED BY <1>2, <1>3

LEMMA RevokeArrives ==
  ASSUME SessionInv, NEW t \in held
  PROVE  RequestInv(RevokeOf(t)) /\ Unraced(RevokeOf(t))
<1> DEFINE x == RevokeOf(t)
<1>1. t \in Tokens /\ t # None
  BY NoneIsNoToken DEF SessionInv, Signed
<1>2. CASE IdentifyCaller(t) # None /\ user[t.sub] # None
  <2>1. IsRequest(x) /\ x.op = "revoke" /\ x.pc = "put" /\ x.token = t /\ x.new = None
    BY <1>2 DEF RevokeOf, Incoming, IsRequest
  <2> HIDE DEF x
  <2>2. RequestInv(x) /\ Unraced(x)
    BY <1>1, <2>1 DEF RequestInv, Unraced, PendingInv
  <2> QED BY <2>2 DEF x
<1>3. CASE ~(IdentifyCaller(t) # None /\ user[t.sub] # None)
  <2>1. IsRequest(x) /\ x.pc = "done" /\ x.token = None /\ x.new = None
    BY <1>3 DEF RevokeOf, Incoming, IsRequest
  <2> QED BY <2>1, Harmless
<1> QED BY <1>2, <1>3

LEMMA OthersArrive ==
  /\ \A op, from : RequestInv(Limited(op, from)) /\ Unraced(Limited(op, from))
  /\ \A f, field, from : RequestInv(PollOf(f, field, from)) /\ Unraced(PollOf(f, field, from))
  /\ \A f : RequestInv(CallbackOf(f)) /\ Unraced(CallbackOf(f))
<1>1. ASSUME NEW op, NEW from PROVE RequestInv(Limited(op, from)) /\ Unraced(Limited(op, from))
  <2> DEFINE x == Limited(op, from)
  <2>1. IsRequest(x) /\ x.pc = "limit" /\ x.token = None /\ x.new = None
    BY DEF Limited, Incoming, IsRequest
  <2> QED BY <2>1, Harmless
<1>2. ASSUME NEW f, NEW field, NEW from PROVE RequestInv(PollOf(f, field, from)) /\ Unraced(PollOf(f, field, from))
  <2> DEFINE x == PollOf(f, field, from)
  <2>1. IsRequest(x) /\ x.pc = "limit" /\ x.token = None /\ x.new = None
    BY DEF PollOf, Limited, Incoming, IsRequest
  <2> QED BY <2>1, Harmless
<1>3. ASSUME NEW f PROVE RequestInv(CallbackOf(f)) /\ Unraced(CallbackOf(f))
  <2> DEFINE x == CallbackOf(f)
  <2>1. IsRequest(x) /\ x.pc \in {"go", "done"} /\ x.token = None /\ x.new = None
    BY DEF CallbackOf, Incoming, IsRequest
  <2> QED BY <2>1, Harmless
<1> QED BY <1>1, <1>2, <1>3

LEMMA CallKeeps ==
  ASSUME SessionInv, NEW w \in Workers, Call(w) \/ CliLogin(w) \/ CliPoll(w)
  PROVE  SessionInv'
<1>1. UNCHANGED <<clock, user, spent, revoked, held>>
  BY DEF Call, CliLogin, CliPoll, kv
<1>2. PICK x : Continue(w, x) /\ RequestInv(x) /\ (~raced' => Unraced(x))
  <2>1. CASE Call(w)
    BY <2>1, OthersArrive, RefreshArrives, RevokeArrives DEF Call, Take
  <2>2. CASE CliLogin(w) \/ CliPoll(w)
    BY <2>2, OthersArrive DEF CliLogin, CliPoll, Take
  <2> QED BY <2>1, <2>2
<1> QED BY <1>1, <1>2, StepKeeps

-------------------------------------------------------------------------------
(* The handlers.                                                           *)

LEMMA InHand ==
  ASSUME SessionInv, NEW w \in Workers, req[w] # None
  PROVE  /\ RequestInv(req[w]) /\ IsRequest(req[w])
         /\ ~raced => Unraced(req[w])
         /\ \A x : Continue(w, x) /\ ~raced' => ~raced
BY ContinueMoves DEF SessionInv, RequestInv

LEMMA Edits ==
  ASSUME NEW r, RequestInv(r), r.pc \in {"limit", "go"},
         NEW x,
         \/ \E pc \in {"go", "done"} : x = [r EXCEPT !.pc = pc]
         \/ \E pc \in {"go", "done"} : x = [r EXCEPT !.pc = pc, !.window = None, !.at = None]
         \/ \E f : x = [r EXCEPT !.pc = "done", !.flow = f]
  PROVE  RequestInv(x) /\ Unraced(x)
<1>1. IsRequest(r) /\ r.new = None
  BY DEF RequestInv
<1>2. IsRequest(x) /\ x.op = r.op /\ x.token = r.token /\ x.new = r.new /\ x.pc \in {"go", "done"}
  BY <1>1 DEF IsRequest
<1> QED BY <1>1, <1>2 DEF RequestInv, Unraced

LEMMA EarlyKeeps ==
  ASSUME SessionInv, NEW w \in Workers, Limit(w) \/ OauthStart(w) \/ OauthDevice(w)
  PROVE  SessionInv'
<1> DEFINE r == req[w]
<1>1. /\ r # None /\ r.pc \in {"limit", "go"} /\ UNCHANGED <<clock, user, spent, revoked, held>>
  BY DEF Limit, OauthStart, OauthDevice
<1>2. PICK x : /\ Continue(w, x)
               /\ \/ \E pc \in {"go", "done"} : x = [r EXCEPT !.pc = pc]
                  \/ \E pc \in {"go", "done"} : x = [r EXCEPT !.pc = pc, !.window = None, !.at = None]
                  \/ \E f : x = [r EXCEPT !.pc = "done", !.flow = f]
  <2>1. CASE Limit(w)
    BY <2>1 DEF Limit
  <2>2. CASE OauthStart(w)
    BY <2>2 DEF OauthStart
  <2>3. CASE OauthDevice(w)
    BY <2>3 DEF OauthDevice
  <2> QED BY <2>1, <2>2, <2>3
<1>3. RequestInv(x) /\ Unraced(x)
  BY <1>1, <1>2, InHand, Edits
<1> QED BY <1>1, <1>2, <1>3, StepKeeps

(* A sign-in draws its token after everything that was retired.            *)
LEMMA ExchangeKeeps ==
  ASSUME SessionInv, NEW w \in Workers, OauthDevicePoll(w) \/ OauthCallback(w)
  PROVE  SessionInv'
<1> DEFINE r == req[w]
           new == SignJWT(grant[r.flow], "refresh")
<1>1. /\ r # None /\ r.pc = "go" /\ r.op \in {"poll", "callback"}
      /\ UNCHANGED <<clock, user, spent, revoked, held>> /\ RequestInv(r)
  BY InHand DEF OauthDevicePoll, OauthCallback, kv
<1>2. CASE Continue(w, [r EXCEPT !.pc = "done"])
  <2>1. RequestInv([r EXCEPT !.pc = "done"]) /\ Unraced([r EXCEPT !.pc = "done"])
    BY <1>1, Edits
  <2> QED BY <1>1, <1>2, <2>1, StepKeeps
<1>3. CASE grant[r.flow] \in Logins /\ Continue(w, [r EXCEPT !.pc = "put", !.new = new])
  <2> DEFINE x == [r EXCEPT !.pc = "put", !.new = new]
  <2>1. /\ Signed(new) /\ new # None /\ new.iat = clock /\ new.aud = "refresh"
    BY <1>3, Signing DEF SessionInv, Audiences
  <2> HIDE DEF new
  <2>2. IsRequest(x) /\ x.op = r.op /\ x.token = None /\ x.pc = "put" /\ x.new = new
    BY <1>1 DEF RequestInv, IsRequest
  <2>3. Continue(w, x)
    BY <1>3
  <2> HIDE DEF x
  <2>4. RequestInv(x) /\ Unraced(x)
    BY <1>1, <2>1, <2>2 DEF RequestInv, Unraced, PendingInv, SessionInv, SpentInv
  <2> QED BY <1>1, <2>3, <2>4, StepKeeps
<1> QED BY <1>2, <1>3 DEF OauthDevicePoll, OauthCallback, Exchange

LEMMA LeaveKeeps ==
  ASSUME SessionInv, NEW w \in Workers, Answer(w) \/ CliStarted(w) \/ CliPolled(w) \/ Lose(w)
  PROVE  SessionInv'
<1> DEFINE r == req[w]
<1>1. /\ r # None /\ Continue(w, None) /\ UNCHANGED <<clock, user, spent, revoked>>
      /\ held' = held \/ (r.pc = "done" /\ held' = held \cup Granted(r))
  BY DEF Answer, CliStarted, CliPolled, Lose, kv
<1>2. RequestInv(r) /\ (~raced' => Unraced(r))
  BY <1>1, InHand
<1>3. ASSUME NEW t \in held', t \notin held PROVE Signed(t) /\ (~raced' => Ended(t))
  <2>1. r.pc = "done" /\ r.new # None /\ (t = r.new \/ t = AccessOf(r.new))
    BY <1>1, <1>3 DEF Granted
  <2>2. Signed(r.new) /\ (~raced' => Ended(r.new))
    BY <1>2, <2>1 DEF RequestInv, Unraced
  <2>3. AccessOf(r.new) \in Tokens /\ AccessOf(r.new).sub = r.new.sub /\ AccessOf(r.new).iat = r.new.iat
    <3>1. r.new \in Tokens
      BY <2>2 DEF Signed
    <3> HIDE DEF r
    <3> QED BY <3>1 DEF AccessOf, Tokens, Audiences
  <2> QED BY <2>1, <2>2, <2>3 DEF Signed, Ended
<1> QED BY <1>1, <1>3, StepKeeps

LEMMA TickKeeps ==
  ASSUME SessionInv, Tick
  PROVE  SessionInv'
<1>1. clock \in Nat /\ clock' = clock + 1 /\ UNCHANGED <<user, spent, revoked, held, req, raced>>
  BY DEF Tick, SessionInv, UserInv, kv
<1>2. UserInv' /\ SpentInv'
  BY <1>1 DEF SessionInv, UserInv, SpentInv, Tokens
<1>3. \A t : Signed(t) => Signed(t)'
  BY <1>1 DEF Signed, Tokens
<1>4. \A t : Ended(t)' <=> Ended(t)
  BY <1>1 DEF Ended
<1>5. ASSUME NEW w \in Workers, req[w] # None PROVE RequestInv(req[w])'
  BY <1>1, <1>3, <1>5 DEF SessionInv, RequestInv, IsRequest
<1>6. ~raced' => /\ OneWriter' /\ \A w \in Workers : req'[w] # None => Unraced(req[w])'
                 /\ \A t \in held' : Ended(t)'
                 /\ \A l \in Logins : user'[l] \notin spent'
                 /\ \A l \in Logins : revoked'[l] # None => user'[l] = Random
  BY <1>1, <1>4 DEF SessionInv, OneWriter, Target, Owner, Unraced, PendingInv, Ended
<1> QED BY <1>1, <1>2, <1>3, <1>5, <1>6 DEF SessionInv

-------------------------------------------------------------------------------
(* The put.                                                                *)

LEMMA PutOwner ==
  ASSUME SessionInv, NEW r, RequestInv(r), r.pc = "put"
  PROVE  /\ Owner(r) \in Logins
         /\ r.op # "revoke" => r.new \in RefreshOfLogin(Owner(r))
         /\ r.op = "refresh" => r.token \in RefreshOfLogin(Owner(r))
BY DEF RequestInv, Owner, Signed, RefreshOfLogin, Tokens

(* What a put retires is of its login and of an earlier second.            *)
LEMMA RetiredIsOld ==
  ASSUME SessionInv, NEW r, RequestInv(r), r.pc = "put", NEW t \in Retired(r)
  PROVE  t \in Tokens /\ t.sub = Owner(r) /\ t.iat < clock /\ t # r.new
<1>1. t # r.new
  BY DEF Retired
<1>2. CASE r.op = "refresh"
  <2>1. t = r.token
    BY <1>2 DEF Retired
  <2>2. t \in RefreshOfLogin(Owner(r)) /\ r.new \in Tokens /\ r.new.iat <= clock /\ t.iat <= r.new.iat
        /\ t.iat # r.new.iat
    BY <1>1, <1>2, <2>1, PutOwner DEF RequestInv, Signed
  <2>3. t.iat \in Nat /\ r.new.iat \in Nat /\ clock \in Nat
    BY <2>2 DEF RefreshOfLogin, Tokens, SessionInv, UserInv
  <2> QED BY <1>1, <2>2, <2>3 DEF RefreshOfLogin
<1>3. CASE r.op # "refresh"
  <2>1. t = user[Owner(r)] /\ t \notin {None, Random} /\ t.iat < clock
    BY <1>3 DEF Retired
  <2>2. t \in RefreshOfLogin(Owner(r))
    BY <2>1, PutOwner DEF SessionInv, UserInv
  <2> QED BY <1>1, <2>1, <2>2 DEF RefreshOfLogin
<1> QED BY <1>2, <1>3

LEMMA PutKeeps ==
  ASSUME SessionInv, NEW w \in Workers, Put(w)
  PROVE  SessionInv'
<1> DEFINE r == req[w]
           l == Owner(r)
           x == [r EXCEPT !.pc = "done"]
<1>1. /\ r # None /\ r.pc = "put" /\ Continue(w, x) /\ UNCHANGED <<clock, held>>
      /\ user' = [user EXCEPT ![l] = Recorded(r)]
      /\ spent' = spent \cup Retired(r)
      /\ revoked' = [revoked EXCEPT ![l] = CASE r.op = "revoke" -> clock [] r.op = "refresh" -> @ [] OTHER -> None]
  BY DEF Put
<1>2. RequestInv(r) /\ IsRequest(r) /\ (~raced' => ~raced /\ Unraced(r))
  BY <1>1, InHand
<1>3. /\ l \in Logins
      /\ r.op # "revoke" => r.new \in RefreshOfLogin(l) /\ r.new.iat <= clock
      /\ r.op = "refresh" => r.token \in RefreshOfLogin(l)
      /\ r.op = "revoke" => r.new = None
  BY <1>1, <1>2, PutOwner DEF RequestInv, Signed
<1>4. \A t \in Retired(r) : t \in Tokens /\ t.sub = l /\ t.iat < clock /\ t # r.new
  BY <1>1, <1>2, RetiredIsOld
<1>5. /\ x.pc = "done" /\ x.op = r.op /\ x.new = r.new /\ x.token = r.token /\ IsRequest(x)
  BY <1>2 DEF IsRequest
<1> HIDE DEF x, l
<1>6. /\ DOMAIN req' = Workers /\ req'[w] = x /\ \A v \in Workers \ {w} : req'[v] = req[v]
      /\ OneWriter /\ ~raced' => OneWriter'
  BY <1>1, ContinueMoves DEF SessionInv
<1> HIDE DEF r
<1>7. /\ DOMAIN user' = Logins /\ DOMAIN revoked' = Logins
      /\ \A k \in Logins : k # l => user'[k] = user[k] /\ revoked'[k] = revoked[k]
      /\ user'[l] = IF r.op = "revoke" THEN Random ELSE r.new
      /\ revoked'[l] = IF r.op = "revoke" THEN clock ELSE IF r.op = "refresh" THEN revoked[l] ELSE None
  BY <1>1, <1>3 DEF SessionInv, UserInv, Recorded
<1>8. UserInv'
  BY <1>1, <1>3, <1>6, <1>7 DEF SessionInv, UserInv
<1>9. SpentInv'
  BY <1>1, <1>4 DEF SessionInv, SpentInv
<1>10. \A t : Signed(t) => Signed(t)'
  BY <1>1 DEF Signed
<1>11. ASSUME NEW v \in Workers, req'[v] # None PROVE RequestInv(req[v])'
  <2>1. CASE v = w
    <3>1. RequestInv(x)
      BY <1>1, <1>2, <1>5 DEF RequestInv
    <3> QED BY <1>6, <1>10, <2>1, <3>1 DEF RequestInv, IsRequest
  <2>2. CASE v # w
    BY <1>6, <1>10, <1>11, <2>2 DEF SessionInv, RequestInv, IsRequest
  <2> QED BY <2>1, <2>2
<1>12. ASSUME ~raced'
       PROVE  /\ \A k \in Logins : user'[k] \notin spent'
              /\ \A k \in Logins : revoked'[k] # None => user'[k] = Random
              /\ r.op # "revoke" => revoked'[l] = None
  <2>1. PendingInv(r) /\ (\A k \in Logins : user[k] \notin spent)
        /\ \A k \in Logins : revoked[k] # None => user[k] = Random
    BY <1>1, <1>2, <1>12 DEF SessionInv, Unraced
  <2>2. \A k \in Logins : k # l => user[k] \notin Retired(r)
    <3>1. \A k \in Logins : user[k] \in {None, Random} \cup RefreshOfLogin(k)
      BY DEF SessionInv, UserInv
    <3> QED BY <1>4, <3>1, NoneIsNoToken DEF RefreshOfLogin
  <2>3. \A t \in spent' : t \in Tokens
    BY <1>9 DEF SpentInv
  <2>4. r.op # "revoke" => r.new \notin spent
    BY <1>3, <2>1 DEF PendingInv, RefreshOfLogin, Tokens, l
  <2>5. user'[l] \notin spent'
    BY <1>1, <1>4, <1>7, <2>3, <2>4, NoneIsNoToken
  <2>6. r.op = "refresh" => revoked[l] = None
    BY <1>3, <2>1, NoneIsNoToken DEF PendingInv, RefreshOfLogin, l
  <2> QED BY <1>1, <1>3, <1>7, <2>1, <2>2, <2>5, <2>6
<1>13. ASSUME ~raced', NEW t, Signed(t), Ended(t) PROVE Ended(t)'
  BY <1>1, <1>7, <1>12, <1>13 DEF Signed, Ended, Tokens
<1>14. ASSUME ~raced', NEW v \in Workers, req'[v] # None PROVE Unraced(req[v])'
  <2>1. CASE v = w
    <3>1. PICK y : y = x
      OBVIOUS
    <3>2. y.new # None => Ended(y.new)'
      BY <1>3, <1>5, <1>12, <1>14, <3>1 DEF Ended, RefreshOfLogin
    <3> QED BY <1>5, <1>6, <2>1, <3>1, <3>2 DEF Unraced, Ended
  <2>2. CASE v # w
    <3>1. PICK q : q = req[v]
      OBVIOUS
    <3>2. req'[v] = q /\ q # None /\ RequestInv(q) /\ Unraced(q)
      BY <1>2, <1>6, <1>14, <2>2, <3>1 DEF SessionInv
    <3>3. CASE q.pc = "put"
      <4>1. Owner(q) # l
        BY <1>1, <1>2, <1>14, <2>2, <3>1, <3>2, <3>3 DEF SessionInv, OneWriter, Target, l, r
      <4>2. Owner(q) \in Logins
        BY <3>2, <3>3, PutOwner
      <4>3. PendingInv(q)'
        BY <1>1, <1>4, <1>7, <3>2, <3>3, <4>1, <4>2 DEF Unraced, PendingInv, Owner
      <4> QED BY <3>2, <3>3, <4>3 DEF Unraced, PendingInv, Owner
    <3>4. CASE q.pc # "put"
      BY <1>13, <1>14, <3>2, <3>4 DEF Unraced, RequestInv, Ended
    <3> QED BY <3>3, <3>4
  <2> QED BY <2>1, <2>2
<1>15. /\ \A t \in held' : Signed(t)'
       /\ ~raced' => \A t \in held' : Ended(t)'
  BY <1>1, <1>2, <1>10, <1>13 DEF SessionInv
<1>16. ~raced' => OneWriter'
  BY <1>2, <1>6 DEF SessionInv
<1> QED BY <1>8, <1>9, <1>11, <1>12, <1>14, <1>15, <1>16 DEF SessionInv

LEMMA SessionInvHolds == Spec => []SessionInv
<1>1. Init => SessionInv
  BY DEF Init, SessionInv, UserInv, SpentInv, OneWriter, Target
<1>2. SessionInv /\ [Next]_vars => SessionInv'
  <2> SUFFICES ASSUME SessionInv, [Next]_vars PROVE SessionInv'
    OBVIOUS
  <2>1. CASE UNCHANGED vars
    BY <2>1, SameSessions DEF vars, kv
  <2>2. CASE CliLogout \/ Decide
    BY <2>2, SameSessions DEF CliLogout, Decide, kv
  <2>3. CASE Next
    BY <2>2, <2>3, CallKeeps, EarlyKeeps, ExchangeKeeps, PutKeeps, LeaveKeeps, TickKeeps
    DEF Next, Handle
  <2> QED BY <2>1, <2>3
<1> QED BY <1>1, <1>2, PTL DEF Spec

(* A refresh token that was exchanged or replaced is refused from then on, *)
(* and once the access tokens of a revoked session have run out nobody     *)
(* acts for its login before it signs in again, unless two requests were   *)
(* about to write one record at once.                                      *)
THEOREM EndedSessionsStayEnded == Spec => []SessionsEnd
<1>1. SessionInv => SessionsEnd
  <2> SUFFICES ASSUME SessionInv, ~raced, NEW l \in Logins
               PROVE  /\ user[l] \notin spent
                      /\ revoked[l] # None /\ clock > revoked[l] + AccessTTL =>
                           \A t \in held : IdentifyCaller(t) # l
    BY DEF SessionsEnd
  <2>1. user[l] \notin spent
    BY DEF SessionInv
  <2>2. ASSUME revoked[l] # None, clock > revoked[l] + AccessTTL, NEW t \in held, IdentifyCaller(t) = l
        PROVE  FALSE
    <3>1. t.sub = l /\ t.aud = "access" /\ t.iat + AccessTTL >= clock
      BY <2>2, NoneIsNoToken DEF IdentifyCaller, VerifyJWT, TTL
    <3>2. t.iat \in Nat /\ t.iat <= revoked[l] /\ revoked[l] \in Nat /\ clock \in Nat
      BY <2>2, <3>1 DEF SessionInv, UserInv, Signed, Ended, Tokens
    <3> QED BY <2>2, <3>1, <3>2, AccountsAssumption
  <2> QED BY <2>1, <2>2
<1> QED BY <1>1, SessionInvHolds, PTL
-------------------------------------------------------------------------------
(* The rate limit.                                                         *)

(* Of the arrivals q a bucket let through the last k fill the window that  *)
(* started at s, with the first of them.  Whatever has a whole window's    *)
(* worth of arrivals between itself and that start is a window's length    *)
(* earlier.                                                                *)
WindowInv(q, k, s) ==
  LET first == Len(q) - k + 1
  IN  /\ k \in 1 .. MaxInWindow /\ first >= 1
      /\ q[first] = s
      /\ \A i \in DOMAIN q :
           /\ i < first => q[i] <= s
           /\ i >= first => q[i] >= s
           /\ i + MaxInWindow <= first => q[i] + WindowSec <= s

BurstOf(q) ==
  \A i \in DOMAIN q :
    i + 2 * MaxInWindow - 1 \in DOMAIN q =>
    q[i + 2 * MaxInWindow - 1] >= q[i] + WindowSec

BucketInv(b) ==
  /\ BurstOf(admitted[b])
  /\ \A i \in DOMAIN admitted[b] : admitted[b][i] <= clock
  /\ IF bucket[b] = None THEN admitted[b] = <<>>
     ELSE WindowInv(admitted[b], bucket[b].count, bucket[b].startedAt)

(* A request at its limit holds the window it found on its arrival, which  *)
(* is after all the others of its bucket.                                  *)
ArrivalInv(r) ==
  r.pc = "limit" =>
    /\ r.op \in Buckets /\ r.at \in Nat /\ r.at <= clock
    /\ \A i \in DOMAIN admitted[r.op] : admitted[r.op][i] <= r.at
    /\ \/ /\ bucket[r.op] # None /\ r.window = bucket[r.op]
          /\ r.window.startedAt <= r.at
       \/ /\ r.window = [count |-> 0, startedAt |-> r.at]
          /\ bucket[r.op] # None => bucket[r.op].startedAt + WindowSec <= r.at

RateInv ==
  ~raced =>
    /\ bucket \in [Buckets -> Windows \cup {None}] /\ admitted \in [Buckets -> Seq(Nat)]
    /\ \A b \in Buckets : BucketInv(b)
    /\ \A w \in Workers : req[w] # None => ArrivalInv(req[w])

LEMMA Appended ==
  ASSUME NEW q \in Seq(Nat), NEW t \in Nat
  PROVE  LET p == Append(q, t)
         IN  /\ p \in Seq(Nat) /\ Len(p) = Len(q) + 1 /\ p[Len(q) + 1] = t
             /\ DOMAIN p = 1 .. Len(q) + 1 /\ DOMAIN q = 1 .. Len(q) /\ Len(q) \in Nat
             /\ \A i \in 1 .. Len(q) : p[i] = q[i] /\ q[i] \in Nat
OBVIOUS

(* One more in the window that is open.                                    *)
LEMMA AnotherInTheWindow ==
  ASSUME NEW q \in Seq(Nat), NEW t \in Nat, NEW k \in Nat, NEW s \in Nat,
         WindowInv(q, k, s), BurstOf(q), s <= t, k < MaxInWindow
  PROVE  WindowInv(Append(q, t), k + 1, s) /\ BurstOf(Append(q, t))
<1> DEFINE n == Len(q)
<1>1. PICK p : p = Append(q, t)
  OBVIOUS
<1>2. /\ Len(p) = n + 1 /\ p[n + 1] = t /\ DOMAIN p = 1 .. n + 1 /\ DOMAIN q = 1 .. n /\ n \in Nat
      /\ \A i \in 1 .. n : p[i] = q[i] /\ q[i] \in Nat
  BY <1>1, Appended
<1>3. MaxInWindow \in Nat \ {0} /\ WindowSec \in Nat
  BY AccountsAssumption
<1>4. /\ k >= 1 /\ n - k + 1 >= 1 /\ q[n - k + 1] = s
      /\ \A i \in 1 .. n : /\ i < n - k + 1 => q[i] <= s
                           /\ i >= n - k + 1 => q[i] >= s
                           /\ i + MaxInWindow <= n - k + 1 => q[i] + WindowSec <= s
  BY <1>2 DEF WindowInv
<1> HIDE DEF n
<1>5. WindowInv(p, k + 1, s)
  <2>1. Len(p) - (k + 1) + 1 = n - k + 1 /\ n - k + 1 \in 1 .. n
    BY <1>2, <1>4
  <2>2. p[n - k + 1] = s
    BY <1>2, <1>4, <2>1
  <2>3. ASSUME NEW i \in 1 .. n + 1
        PROVE  /\ i < n - k + 1 => p[i] <= s
               /\ i >= n - k + 1 => p[i] >= s
               /\ i + MaxInWindow <= n - k + 1 => p[i] + WindowSec <= s
    <3>1. CASE i \in 1 .. n
      BY <1>2, <1>4, <3>1
    <3>2. CASE i = n + 1
      BY <1>2, <1>3, <2>1, <3>2
    <3> QED BY <1>2, <3>1, <3>2
  <2> QED BY <1>2, <1>3, <1>4, <2>1, <2>2, <2>3 DEF WindowInv
<1>6. BurstOf(p)
  <2> SUFFICES ASSUME NEW i \in 1 .. n + 1, i + 2 * MaxInWindow - 1 \in 1 .. n + 1
               PROVE  p[i + 2 * MaxInWindow - 1] >= p[i] + WindowSec
    BY <1>2 DEF BurstOf
  <2>1. CASE i + 2 * MaxInWindow - 1 \in 1 .. n
    <3>1. i \in 1 .. n
      BY <1>2, <1>3, <2>1
    <3>2. q[i + 2 * MaxInWindow - 1] >= q[i] + WindowSec
      BY <1>2, <2>1, <3>1 DEF BurstOf
    <3> QED BY <1>2, <2>1, <3>1, <3>2
  <2>2. CASE i + 2 * MaxInWindow - 1 = n + 1
    <3>1. i \in 1 .. n /\ i + MaxInWindow <= n - k + 1
      BY <1>2, <1>3, <2>2
    <3>2. q[i] + WindowSec <= s
      BY <1>4, <3>1
    <3> QED BY <1>2, <1>3, <2>2, <3>1, <3>2
  <2> QED BY <1>2, <1>3, <2>1, <2>2
<1> QED BY <1>1, <1>5, <1>6

(* The first of a window, when the last one is over.                       *)
LEMMA FirstOfAWindow ==
  ASSUME NEW q \in Seq(Nat), NEW t \in Nat, BurstOf(q), \A i \in DOMAIN q : q[i] <= t,
         q = <<>> \/ \E k, s \in Nat : WindowInv(q, k, s) /\ s + WindowSec <= t
  PROVE  WindowInv(Append(q, t), 1, t) /\ BurstOf(Append(q, t))
<1> DEFINE n == Len(q)
<1>1. PICK p : p = Append(q, t)
  OBVIOUS
<1>2. /\ Len(p) = n + 1 /\ p[n + 1] = t /\ DOMAIN p = 1 .. n + 1 /\ DOMAIN q = 1 .. n /\ n \in Nat
      /\ \A i \in 1 .. n : p[i] = q[i] /\ q[i] \in Nat
  BY <1>1, Appended
<1>3. MaxInWindow \in Nat \ {0} /\ WindowSec \in Nat
  BY AccountsAssumption
<1>4. q = <<>> => n = 0
  OBVIOUS
<1>5. \A k, s \in Nat : WindowInv(q, k, s) =>
        /\ k \in 1 .. MaxInWindow /\ n - k + 1 >= 1 /\ q[n - k + 1] = s
        /\ \A i \in 1 .. n : i < n - k + 1 => q[i] <= s
  BY <1>2 DEF WindowInv
<1> HIDE DEF n
<1>6. ASSUME NEW i \in 1 .. n, i + MaxInWindow <= n + 1 PROVE q[i] + WindowSec <= t
  <2>1. n # 0
    BY <1>2, <1>4
  <2>2. PICK k, s \in Nat : WindowInv(q, k, s) /\ s + WindowSec <= t
    BY <1>2, <2>1
  <2>3. /\ k \in 1 .. MaxInWindow /\ n - k + 1 >= 1 /\ q[n - k + 1] = s
        /\ i < n - k + 1 => q[i] <= s
    BY <1>5, <2>2
  <2>4. q[i] <= s
    <3>1. CASE i < n - k + 1
      BY <2>3, <3>1
    <3>2. CASE i = n - k + 1
      <4>1. q[i] = s
        BY <2>3, <3>2
      <4> QED BY <1>2, <4>1
    <3>3. i <= n - k + 1
      BY <1>2, <1>3, <1>6, <2>3
    <3> QED BY <1>2, <2>2, <2>3, <3>1, <3>2, <3>3
  <2> QED BY <1>2, <1>3, <2>2, <2>4
<1>7. WindowInv(p, 1, t)
  <2>1. ASSUME NEW i \in 1 .. n + 1
        PROVE  /\ i < n + 1 => p[i] <= t
               /\ i >= n + 1 => p[i] >= t
               /\ i + MaxInWindow <= n + 1 => p[i] + WindowSec <= t
    <3>1. CASE i \in 1 .. n
      BY <1>2, <1>6, <3>1
    <3>2. CASE i = n + 1
      BY <1>2, <1>3, <3>2
    <3> QED BY <1>2, <3>1, <3>2
  <2>2. Len(p) - 1 + 1 = n + 1 /\ n + 1 >= 1 /\ 1 \in 1 .. MaxInWindow
    BY <1>2, <1>3
  <2>3. Len(p) = n + 1 /\ p[n + 1] = t /\ DOMAIN p = 1 .. n + 1
    BY <1>2
  <2> QED BY <2>1, <2>2, <2>3 DEF WindowInv
<1>8. BurstOf(p)
  <2> SUFFICES ASSUME NEW i \in 1 .. n + 1, i + 2 * MaxInWindow - 1 \in 1 .. n + 1
               PROVE  p[i + 2 * MaxInWindow - 1] >= p[i] + WindowSec
    BY <1>2 DEF BurstOf
  <2>1. CASE i + 2 * MaxInWindow - 1 \in 1 .. n
    <3>1. i \in 1 .. n
      BY <1>2, <1>3, <2>1
    <3>2. q[i + 2 * MaxInWindow - 1] >= q[i] + WindowSec
      BY <1>2, <2>1, <3>1 DEF BurstOf
    <3> QED BY <1>2, <2>1, <3>1, <3>2
  <2>2. CASE i + 2 * MaxInWindow - 1 = n + 1
    <3>1. i \in 1 .. n /\ i + MaxInWindow <= n + 1
      BY <1>2, <1>3, <2>2
    <3> QED BY <1>2, <1>3, <1>6, <2>2, <3>1
  <2> QED BY <1>2, <1>3, <2>1, <2>2
<1> QED BY <1>1, <1>7, <1>8

LEMMA LimitArrives ==
  ASSUME SessionInv, RateInv, ~raced, NEW x, NEW op \in Buckets,
         x.op = op, x.at = clock, x.window = CurrentWindow(op)
  PROVE  ArrivalInv(x)
<1>1. /\ clock \in Nat /\ WindowSec \in Nat /\ BucketInv(op)
      /\ bucket[op] \in Windows \cup {None}
  BY AccountsAssumption DEF SessionInv, UserInv, RateInv
<1>2. CASE bucket[op] # None /\ clock - bucket[op].startedAt < WindowSec
  <2>1. x.window = bucket[op]
    BY <1>2 DEF CurrentWindow
  <2>2. bucket[op].startedAt <= clock
    <3>1. WindowInv(admitted[op], bucket[op].count, bucket[op].startedAt)
      BY <1>1, <1>2 DEF BucketInv
    <3>2. PICK n \in Nat : n = Len(admitted[op]) /\ DOMAIN admitted[op] = 1 .. n
      BY DEF RateInv
    <3>3. bucket[op].count \in Nat \ {0}
      BY <1>1, <1>2, <3>1, AccountsAssumption DEF WindowInv, Windows
    <3>4. n - bucket[op].count + 1 \in 1 .. n
      BY <3>1, <3>2, <3>3 DEF WindowInv
    <3> QED BY <1>1, <3>1, <3>2, <3>4 DEF WindowInv, BucketInv
  <2> QED BY <1>1, <1>2, <2>1, <2>2 DEF ArrivalInv, BucketInv
<1>3. CASE ~(bucket[op] # None /\ clock - bucket[op].startedAt < WindowSec)
  <2>1. x.window = [count |-> 0, startedAt |-> clock]
    BY <1>3 DEF CurrentWindow, Fresh
  <2>2. bucket[op] # None => bucket[op].startedAt + WindowSec <= clock
    BY <1>1, <1>3 DEF Windows
  <2> QED BY <1>1, <2>1, <2>2 DEF ArrivalInv, BucketInv
<1> QED BY <1>2, <1>3

(* A step of one request that leaves the counters alone.                   *)
LEMMA CountersKept ==
  ASSUME SessionInv, RateInv, NEW w \in Workers, NEW x, Continue(w, x), UNCHANGED <<clock, bucket, admitted>>,
         ~raced' /\ x # None => ArrivalInv(x)
  PROVE  RateInv'
<1>1. /\ DOMAIN req' = Workers /\ req'[w] = x /\ \A v \in Workers \ {w} : req'[v] = req[v]
      /\ raced => raced'
  BY ContinueMoves DEF SessionInv
<1>2. ~raced' => /\ bucket' \in [Buckets -> Windows \cup {None}] /\ admitted' \in [Buckets -> Seq(Nat)]
                 /\ \A b \in Buckets : BucketInv(b)'
  BY <1>1 DEF RateInv, BucketInv
<1>3. ASSUME ~raced', NEW v \in Workers, req'[v] # None PROVE ArrivalInv(req[v])'
  <2>1. ArrivalInv(req'[v])
    BY <1>1, <1>3 DEF RateInv
  <2> QED BY <2>1 DEF ArrivalInv
<1> QED BY <1>2, <1>3 DEF RateInv

LEMMA CallCounts ==
  ASSUME SessionInv, RateInv, NEW w \in Workers, Call(w) \/ CliLogin(w) \/ CliPoll(w)
  PROVE  RateInv'
<1>1. UNCHANGED <<clock, bucket, admitted>>
  BY DEF Call, CliLogin, CliPoll, kv
<1>2. PICK x : Continue(w, x) /\ (x.pc = "limit" => \E op \in Buckets : x.op = op /\ x.at = clock /\ x.window = CurrentWindow(op))
  <2>1. \A op, from : Limited(op, from).op = op /\ Limited(op, from).at = clock
                      /\ Limited(op, from).window = CurrentWindow(op)
    BY DEF Limited, Incoming
  <2>2. \A f, field, from : PollOf(f, field, from).op = "poll" /\ PollOf(f, field, from).at = clock
                            /\ PollOf(f, field, from).window = CurrentWindow("poll")
    BY DEF PollOf, Limited, Incoming
  <2>3. \A f : CallbackOf(f).pc # "limit"
    BY DEF CallbackOf, Incoming
  <2>4. \A t : RefreshOf(t).pc # "limit" /\ RevokeOf(t).pc # "limit"
    BY DEF RefreshOf, RevokeOf, Incoming
  <2>5. CASE Call(w)
    BY <2>1, <2>2, <2>3, <2>4, <2>5 DEF Call, Take, Buckets
  <2>6. CASE CliLogin(w) \/ CliPoll(w)
    BY <2>1, <2>2, <2>6 DEF CliLogin, CliPoll, Take, Buckets
  <2> QED BY <2>5, <2>6
<1>3. ~raced' => ArrivalInv(x)
  <2>1. ~raced' => ~raced
    BY <1>2, ContinueMoves DEF SessionInv
  <2>2. CASE x.pc = "limit"
    BY <1>2, <2>1, <2>2, LimitArrives
  <2> QED BY <2>2 DEF ArrivalInv
<1> QED BY <1>1, <1>2, <1>3, CountersKept

(* A request past its limit, or answered, or dead.                         *)
LEMMA OthersCount ==
  ASSUME SessionInv, RateInv, NEW w \in Workers,
         \/ OauthStart(w) \/ OauthDevice(w) \/ OauthDevicePoll(w) \/ OauthCallback(w)
         \/ Put(w) \/ Answer(w) \/ CliStarted(w) \/ CliPolled(w) \/ Lose(w)
  PROVE  RateInv'
<1> DEFINE r == req[w]
<1>1. r # None /\ UNCHANGED <<clock, bucket, admitted>>
  BY DEF OauthStart, OauthDevice, OauthDevicePoll, OauthCallback, Put, Answer, CliStarted, CliPolled, Lose, kv
<1>2. IsRequest(r)
  BY <1>1, InHand
<1>3. PICK x : /\ Continue(w, x)
               /\ \/ x = None \/ x = [r EXCEPT !.pc = "done"]
                  \/ \E f : x = [r EXCEPT !.pc = "done", !.flow = f]
                  \/ \E new : x = [r EXCEPT !.pc = "put", !.new = new]
  <2>1. CASE OauthStart(w)
    BY <2>1 DEF OauthStart
  <2>2. CASE OauthDevice(w)
    BY <2>2 DEF OauthDevice
  <2>3. CASE OauthDevicePoll(w) \/ OauthCallback(w)
    <3>1. \/ Exchange(r) = [r EXCEPT !.pc = "done"]
          \/ \E new : Exchange(r) = [r EXCEPT !.pc = "put", !.new = new]
      BY DEF Exchange
    <3> QED BY <2>3, <3>1 DEF OauthDevicePoll, OauthCallback
  <2>4. CASE Put(w)
    BY <2>4 DEF Put
  <2>5. CASE Answer(w) \/ CliStarted(w) \/ CliPolled(w) \/ Lose(w)
    BY <2>5 DEF Answer, CliStarted, CliPolled, Lose
  <2> QED BY <2>1, <2>2, <2>3, <2>4, <2>5
<1>4. x # None => x.pc # "limit"
  BY <1>2, <1>3 DEF IsRequest
<1> QED BY <1>1, <1>3, <1>4, CountersKept DEF ArrivalInv

LEMMA LimitCounts ==
  ASSUME SessionInv, RateInv, NEW w \in Workers, Limit(w)
  PROVE  RateInv'
<1> DEFINE r == req[w]
<1>1. r # None /\ r.pc = "limit" /\ UNCHANGED clock /\ IsRequest(r)
  BY InHand DEF Limit
<1>2. CASE Exhausted(r.window)
  <2>1. Continue(w, [r EXCEPT !.pc = "done", !.window = None, !.at = None]) /\ UNCHANGED <<bucket, admitted>>
    BY <1>2 DEF Limit
  <2>2. [r EXCEPT !.pc = "done", !.window = None, !.at = None].pc # "limit"
    BY <1>1 DEF IsRequest
  <2> QED BY <1>1, <2>1, <2>2, CountersKept DEF ArrivalInv
<1>3. CASE ~Exhausted(r.window)
  <2> DEFINE x == [r EXCEPT !.pc = "go", !.window = None, !.at = None]
             new == [r.window EXCEPT !.count = @ + 1]
  <2>1. /\ Continue(w, x)
        /\ bucket' = [bucket EXCEPT ![r.op] = new]
        /\ admitted' = [admitted EXCEPT ![r.op] = Append(@, r.at)]
    BY <1>3 DEF Limit
  <2>2. x.pc = "go"
    BY <1>1 DEF IsRequest
  <2> HIDE DEF x, new
  <2>3. /\ DOMAIN req' = Workers /\ req'[w] = x /\ \A v \in Workers \ {w} : req'[v] = req[v]
        /\ raced => raced'
    BY <2>1, ContinueMoves DEF SessionInv
  <2>4. ASSUME ~raced' PROVE RateInv'
    <3>1. PICK b : b = r.op
      OBVIOUS
    <3>2. PICK q : q = admitted[b]
      OBVIOUS
    <3>3. PICK t : t = r.at
      OBVIOUS
    <3>4. PICK old : old = bucket[b]
      OBVIOUS
    <3>5. /\ b \in Buckets /\ t \in Nat /\ t <= clock /\ ArrivalInv(r) /\ BucketInv(b)
          /\ \A i \in DOMAIN q : q[i] <= t
      BY <1>1, <2>3, <2>4, <3>1, <3>2, <3>3 DEF RateInv, ArrivalInv
    <3>6. q \in Seq(Nat) /\ old \in Windows \cup {None} /\ BurstOf(q) /\ clock \in Nat
          /\ IF old = None THEN q = <<>> ELSE WindowInv(q, old.count, old.startedAt)
      BY <2>3, <2>4, <3>2, <3>4, <3>5 DEF RateInv, BucketInv, SessionInv, UserInv
    <3>7. PICK p : p = Append(q, t)
      OBVIOUS
    <3>8. new \in Windows /\ WindowInv(p, new.count, new.startedAt) /\ BurstOf(p)
      <4>1. CASE old # None /\ r.window = old /\ old.startedAt <= t
        <5>1. old \in Windows /\ old.count \in Nat /\ old.startedAt \in Nat /\ old.count < MaxInWindow
          BY <1>3, <3>6, <4>1, AccountsAssumption DEF Windows, Exhausted
        <5>2. new = [count |-> old.count + 1, startedAt |-> old.startedAt]
          BY <4>1, <5>1 DEF new, Windows
        <5>3. WindowInv(p, old.count + 1, old.startedAt) /\ BurstOf(p)
          BY <3>5, <3>6, <3>7, <4>1, <5>1, AnotherInTheWindow
        <5> QED BY <5>1, <5>2, <5>3 DEF Windows
      <4>2. CASE r.window = [count |-> 0, startedAt |-> t] /\ (old # None => old.startedAt + WindowSec <= t)
        <5>1. new = [count |-> 1, startedAt |-> t]
          BY <4>2 DEF new
        <5>2. q = <<>> \/ \E k, s \in Nat : WindowInv(q, k, s) /\ s + WindowSec <= t
          BY <3>6, <4>2 DEF Windows
        <5>3. WindowInv(p, 1, t) /\ BurstOf(p)
          BY <3>5, <3>6, <3>7, <5>2, FirstOfAWindow
        <5> QED BY <3>5, <5>1, <5>3 DEF Windows
      <4> QED BY <1>1, <3>1, <3>3, <3>4, <3>5, <4>1, <4>2 DEF ArrivalInv
    <3>9. p \in Seq(Nat) /\ \A i \in DOMAIN p : p[i] <= clock
      <4>1. /\ p \in Seq(Nat) /\ p[Len(q) + 1] = t /\ DOMAIN p = 1 .. Len(q) + 1
            /\ DOMAIN q = 1 .. Len(q) /\ Len(q) \in Nat
            /\ \A i \in 1 .. Len(q) : p[i] = q[i] /\ q[i] \in Nat
        BY <3>5, <3>6, <3>7, Appended
      <4> QED BY <3>5, <3>6, <4>1
    <3>10. /\ bucket' = [bucket EXCEPT ![b] = new] /\ admitted' = [admitted EXCEPT ![b] = p]
           /\ bucket \in [Buckets -> Windows \cup {None}] /\ admitted \in [Buckets -> Seq(Nat)]
      BY <2>1, <2>3, <2>4, <3>1, <3>2, <3>3, <3>7 DEF RateInv
    <3>11. /\ bucket' \in [Buckets -> Windows \cup {None}] /\ admitted' \in [Buckets -> Seq(Nat)]
           /\ bucket'[b] = new /\ admitted'[b] = p
           /\ \A c \in Buckets \ {b} : bucket'[c] = bucket[c] /\ admitted'[c] = admitted[c]
      BY <3>5, <3>8, <3>9, <3>10
    <3>12. ASSUME NEW c \in Buckets PROVE BucketInv(c)'
      <4>1. CASE c = b
        BY <1>1, <3>8, <3>9, <3>11, <4>1, NoneIsNoWindow DEF BucketInv
      <4>2. CASE c # b
        <5>1. BucketInv(c)
          BY <2>3, <2>4 DEF RateInv
        <5> QED BY <1>1, <3>11, <4>2, <5>1 DEF BucketInv
      <4> QED BY <4>1, <4>2
    <3>13. ASSUME NEW v \in Workers, req'[v] # None PROVE ArrivalInv(req[v])'
      <4>1. CASE v = w
        BY <2>2, <2>3, <4>1 DEF ArrivalInv
      <4>2. CASE v # w
        <5>1. PICK u : u = req[v]
          OBVIOUS
        <5>2. req'[v] = u /\ u # None /\ ArrivalInv(u)
          BY <2>3, <2>4, <3>13, <4>2, <5>1 DEF RateInv
        <5>3. u.pc = "limit" => u.op # b
          BY <1>1, <2>3, <2>4, <3>1, <4>2, <5>1, <5>2 DEF SessionInv, OneWriter, Target
        <5> QED BY <1>1, <3>11, <5>2, <5>3 DEF ArrivalInv
      <4> QED BY <4>1, <4>2
    <3> QED BY <3>11, <3>12, <3>13 DEF RateInv
  <2>5. raced' => RateInv'
    BY DEF RateInv
  <2> QED BY <2>4, <2>5
<1> QED BY <1>2, <1>3

LEMMA RateInvHolds == Spec => []RateInv
<1>1. Init => RateInv
  <2> SUFFICES ASSUME Init PROVE RateInv
    OBVIOUS
  <2>1. \A b \in Buckets : bucket[b] = None /\ admitted[b] = <<>>
    BY DEF Init
  <2>2. \A b \in Buckets : BucketInv(b)
    BY <2>1 DEF BucketInv, BurstOf
  <2> QED BY <2>2 DEF Init, RateInv
<1>2. SessionInv /\ RateInv /\ [Next]_vars => RateInv'
  <2> SUFFICES ASSUME SessionInv, RateInv, [Next]_vars PROVE RateInv'
    OBVIOUS
  <2>1. CASE UNCHANGED vars \/ CliLogout \/ Decide
    BY <2>1 DEF vars, kv, CliLogout, Decide, RateInv, BucketInv, ArrivalInv
  <2>2. CASE Tick
    <3>1. clock \in Nat /\ clock' = clock + 1 /\ UNCHANGED <<bucket, admitted, req, raced>>
      BY <2>2 DEF Tick, kv, SessionInv, UserInv
    <3>2. ASSUME ~raced, NEW b \in Buckets PROVE BucketInv(b)'
      <4>1. BucketInv(b) /\ \A i \in DOMAIN admitted[b] : admitted[b][i] \in Nat
        BY <3>2 DEF RateInv
      <4> QED BY <3>1, <4>1 DEF BucketInv
    <3>3. ASSUME ~raced, NEW w \in Workers, req[w] # None PROVE ArrivalInv(req[w])'
      BY <3>1, <3>3 DEF RateInv, ArrivalInv
    <3> QED BY <3>1, <3>2, <3>3 DEF RateInv
  <2>3. CASE Next
    BY <2>1, <2>2, <2>3, CallCounts, LimitCounts, OthersCount DEF Next, Handle
  <2> QED BY <2>1, <2>3
<1> QED BY <1>1, <1>2, SessionInvHolds, PTL DEF Spec

(* Fewer than twice the limit of the requests that arrive within a         *)
(* window's length get through a rate limit, whatever the limit and the    *)
(* length, unless two requests read one counter.                           *)
THEOREM BurstsStayBounded == Spec => []BurstIsBounded
<1>1. RateInv => BurstIsBounded
  BY DEF RateInv, BucketInv, BurstOf, BurstIsBounded
<1> QED BY <1>1, RateInvHolds, PTL
===============================================================================
