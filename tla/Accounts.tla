-------------------------------- MODULE Accounts --------------------------------
(***************************************************************************)
(* Signing in to the hub: hub-api's OAuth endpoints, its tokens and its    *)
(* rate limits over the KV namespace, and the device flow of the CLI.      *)
(*                                                                         *)
(* A worker isolate runs one request; between its KV operations and its    *)
(* calls to GitHub others run.  Time is in seconds, read from one clock.   *)
(***************************************************************************)
EXTENDS Integers, FiniteSets, Sequences

CONSTANTS
  None, Random,   \* Random: the fingerprint of a value nobody was given
  Logins,         \* GitHub logins, lower case
  Workers,        \* worker isolates
  WebFlows, DeviceFlows, \* state nonces and device codes GitHub and the hub draw
  AccessTTL, RefreshTTL, StateTTL, \* lifetimes
  WindowSec, MaxInWindow, \* the rate limit, the same for every bucket here
  Interval, ExpiresIn,    \* what GitHub tells a device to do
  MaxClock,       \* bound on time
  MaxRequests,    \* bound on requests, the CLI's polls apart
  MaxLost         \* bound on requests that die or whose answer is lost

Flows == WebFlows \cup DeviceFlows

ASSUME AccountsAssumption ==
  /\ AccessTTL \in Nat /\ RefreshTTL \in Nat /\ StateTTL \in Nat
  /\ WindowSec \in Nat \ {0} /\ MaxInWindow \in Nat \ {0}
  /\ Interval \in Nat \ {0} /\ ExpiresIn \in Nat
  /\ MaxClock \in Nat /\ MaxRequests \in Nat /\ MaxLost \in Nat
  /\ WebFlows \cap DeviceFlows = {}

VARIABLES
  clock,
  names,    \* how the hub spells the fields of its JSON
  user,     \* user: the fingerprint of the refresh token it accepts, or None
  states,   \* oauth:state: when the nonce was stored, or None
  devices,  \* oauth:device: the device codes stored
  bucket,   \* rl: [count, startedAt] of each bucket, or None
  grant,    \* GitHub's side of each flow
  req,      \* the request of each worker, or None
  held,     \* the tokens the hub's callers were given
  cli,      \* run_device_flow of the CLI
  store,    \* the CLI's AuthStore: the tokens of this hub, or None
  served,   \* requests taken
  lost,     \* requests that died
  raced,    \* history: two requests were ever about to write one entry
  spent,    \* history: refresh tokens exchanged or replaced
  revoked,  \* history: when the login's session was revoked, None after a sign-in
  admitted  \* history: when the requests arrived that each limit let through

kv == <<user, states, devices, bucket>>
vars == <<clock, names, user, states, devices, bucket, grant, req, held, cli,
          store, served, lost, raced, spent, revoked, admitted>>

-------------------------------------------------------------------------------
(* Tokens.  A JWT is its claims: two of one login, audience and second are *)
(* the same string.                                                        *)

Audiences == {"access", "refresh"}
Tokens == [sub : Logins, iat : Nat, aud : Audiences]

ASSUME NoneIsNoToken == None \notin Logins \cup Tokens /\ Random \notin Tokens

TTL(aud) == IF aud = "access" THEN AccessTTL ELSE RefreshTTL

SignJWT(login, aud) == [sub |-> login, iat |-> clock, aud |-> aud]

(* exp is the last second a token is good for.                             *)
VerifyJWT(token, aud) == token.aud = aud /\ token.iat + TTL(aud) >= clock

(* The access token signed beside a refresh token.                         *)
AccessOf(token) == [token EXCEPT !.aud = "access"]

(* identifyCaller: a login for an access token, null for anything else.    *)
IdentifyCaller(token) == IF VerifyJWT(token, "access") THEN token.sub ELSE None

-------------------------------------------------------------------------------
(* Rate limits: a counter that starts again once its window is over.       *)

Buckets == {"start", "device", "poll"}
Windows == [count : Nat, startedAt : Nat]
Fresh == [count |-> 0, startedAt |-> clock]

ASSUME NoneIsNoWindow == None \notin Windows

CurrentWindow(b) ==
  IF bucket[b] # None /\ clock - bucket[b].startedAt < WindowSec
  THEN bucket[b] ELSE Fresh

(* A slip: one request too many.                                           *)
ExhaustedAbove(window) == window.count > MaxInWindow

Exhausted(window) == window.count >= MaxInWindow

-------------------------------------------------------------------------------
(* Field names.  The hub answers in camelCase; device.rs reads and writes  *)
(* snake_case, as docs/src/hub/auth.md has it.  `names` is the hub's side: *)
(* "snake" stands for a hub that follows the documentation.                *)

DeviceAnswer ==
  IF names = "camel"
  THEN {"deviceCode", "userCode", "verificationURL", "interval", "expiresIn"}
  ELSE {"device_code", "user_code", "verification_url", "interval", "expires_in"}

PollAnswer ==
  {"status"} \cup (IF names = "camel" THEN {"accessToken", "refreshToken"}
                                      ELSE {"access_token", "refresh_token"})

PollBody == IF names = "camel" THEN "deviceCode" ELSE "device_code"

DeviceStartResponse ==
  {"device_code", "user_code", "verification_url", "interval", "expires_in"}

SignsIn(r) == r.new # None /\ {"status", "access_token"} \subseteq PollAnswer

-------------------------------------------------------------------------------
(* Requests.                                                               *)

Incoming(op, from) ==
  [op |-> op, pc |-> "done", from |-> from, flow |-> None, field |-> None,
   token |-> None, new |-> None, window |-> None, at |-> None]

Limited(op, from) ==
  [Incoming(op, from) EXCEPT !.pc = "limit", !.window = CurrentWindow(op),
                             !.at = clock]

PollOf(flow, field, from) ==
  [Limited("poll", from) EXCEPT !.flow = flow, !.field = field]

(* oauthCallback up to its look-up of the state.                           *)
CallbackOf(flow) ==
  LET live == states[flow] # None /\ clock < states[flow] + StateTTL
  IN  [Incoming("callback", "api") EXCEPT !.flow = flow,
         !.pc = IF live THEN "go" ELSE "done"]

(* oauthRefresh up to the new pair of tokens.                              *)
RefreshOf(token) ==
  IF VerifyJWT(token, "refresh") /\ user[token.sub] = token
  THEN [Incoming("refresh", "api") EXCEPT !.pc = "put", !.token = token,
          !.new = SignJWT(token.sub, "refresh")]
  ELSE Incoming("refresh", "api")

(* identifyCaller and oauthRevoke up to its put.                           *)
RevokeOf(token) ==
  IF IdentifyCaller(token) # None /\ user[token.sub] # None
  THEN [Incoming("revoke", "api") EXCEPT !.pc = "put", !.token = token]
  ELSE Incoming("revoke", "api")

(* What a request is about to write: a bucket, or the record of a login.   *)
Owner(r) == IF r.token # None THEN r.token.sub ELSE r.new.sub

Target(r) ==
  CASE r # None /\ r.pc = "limit" -> {r.op}
    [] r # None /\ r.pc = "put" -> {Owner(r)}
    [] OTHER -> {}

Continue(w, r) ==
  /\ req' = [req EXCEPT ![w] = r]
  /\ raced' = (raced \/ \E v \in Workers \ {w} : Target(req[v]) \cap Target(r) # {})

Take(w, r) == req[w] = None /\ Continue(w, r)

(* A caller of the API: a browser, or a client that presents a token or a  *)
(* device code it was given.  GitHub sends a browser back with a code only *)
(* after the user agreed; the page can be loaded again.                    *)
Call(w) ==
  /\ served < MaxRequests
  /\ served' = served + 1
  /\ \/ \E op \in {"start", "device"} : Take(w, Limited(op, "api"))
     \/ \E f \in DeviceFlows, field \in {"deviceCode", "device_code"} :
          Take(w, PollOf(f, field, "api"))
     \/ \E f \in WebFlows :
          grant[f] \in Logins \cup {"used"} /\ Take(w, CallbackOf(f))
     \/ \E t \in held : Take(w, RefreshOf(t))
     \/ \E t \in held : Take(w, RevokeOf(t))
  /\ UNCHANGED <<clock, names, kv, grant, held, cli, store, lost, spent,
                 revoked, admitted>>

(* The second half of rateLimit: 429, or one more on the counter it read.  *)
Limit(w) ==
  \E r \in {req[w]} :
    /\ r # None /\ r.pc = "limit"
    /\ IF Exhausted(r.window)
       THEN /\ Continue(w, [r EXCEPT !.pc = "done", !.window = None, !.at = None])
            /\ UNCHANGED <<bucket, admitted>>
       ELSE /\ Continue(w, [r EXCEPT !.pc = "go", !.window = None, !.at = None])
            /\ bucket' = [bucket EXCEPT ![r.op] = [r.window EXCEPT !.count = @ + 1]]
            /\ admitted' = [admitted EXCEPT ![r.op] = Append(@, r.at)]
    /\ UNCHANGED <<clock, names, user, states, devices, grant, held, cli, store,
                   served, lost, spent, revoked>>

-------------------------------------------------------------------------------
(* The handlers past their first look-ups.                                 *)

(* oauthStart: the nonce goes into KV, the browser to GitHub.              *)
OauthStart(w) ==
  \E r \in {req[w]}, f \in WebFlows :
    /\ r # None /\ r.op = "start" /\ r.pc = "go"
    /\ grant[f] = None
    /\ states' = [states EXCEPT ![f] = clock]
    /\ grant' = [grant EXCEPT ![f] = "pending"]
    /\ Continue(w, [r EXCEPT !.pc = "done", !.flow = f])
    /\ UNCHANGED <<clock, names, user, devices, bucket, held, cli, store,
                   served, lost, spent, revoked, admitted>>

(* oauthDevice: GitHub draws a device code, or none.                       *)
OauthDevice(w) ==
  \E r \in {req[w]} :
    /\ r # None /\ r.op = "device" /\ r.pc = "go"
    /\ \/ \E f \in DeviceFlows :
            /\ grant[f] = None
            /\ devices' = devices \cup {f}
            /\ grant' = [grant EXCEPT ![f] = "pending"]
            /\ Continue(w, [r EXCEPT !.pc = "done", !.flow = f])
       \/ /\ Continue(w, [r EXCEPT !.pc = "done"])
          /\ UNCHANGED <<devices, grant>>
    /\ UNCHANGED <<clock, names, user, states, bucket, held, cli, store,
                   served, lost, spent, revoked, admitted>>

(* GitHub gives an access token once for a flow somebody agreed to; the    *)
(* hub fetches the profile and signs its own pair.                         *)
Exchange(r) ==
  IF grant[r.flow] \in Logins
  THEN [r EXCEPT !.pc = "put", !.new = SignJWT(grant[r.flow], "refresh")]
  ELSE [r EXCEPT !.pc = "done"]

GrantAfter(f) ==
  IF grant[f] \in Logins THEN [grant EXCEPT ![f] = "used"] ELSE grant

(* oauthDevicePoll: 400 for a body without the field it reads; then        *)
(* whatever GitHub says of the code.  The stored code is not looked at.    *)
OauthDevicePoll(w) ==
  \E r \in {req[w]} :
    /\ r # None /\ r.op = "poll" /\ r.pc = "go"
    /\ IF r.field # PollBody
       THEN Continue(w, [r EXCEPT !.pc = "done"]) /\ UNCHANGED grant
       ELSE Continue(w, Exchange(r)) /\ grant' = GrantAfter(r.flow)
    /\ UNCHANGED <<clock, names, kv, held, cli, store, served, lost, spent,
                   revoked, admitted>>

(* oauthCallback: the nonce is deleted, then the code exchanged.           *)
OauthCallback(w) ==
  \E r \in {req[w]} :
    /\ r # None /\ r.op = "callback" /\ r.pc = "go"
    /\ states' = [states EXCEPT ![r.flow] = None]
    /\ Continue(w, Exchange(r))
    /\ grant' = GrantAfter(r.flow)
    /\ UNCHANGED <<clock, names, user, devices, bucket, held, cli, store,
                   served, lost, spent, revoked, admitted>>

(* The put that ends upsertUser, oauthRefresh and oauthRevoke, whatever    *)
(* the record holds by now.                                                *)
(* A slip: a refresh that forgets to rotate the fingerprint.               *)
RecordedKept(r) ==
  CASE r.op = "revoke" -> Random [] r.op = "refresh" -> r.token [] OTHER -> r.new

Recorded(r) == IF r.op = "revoke" THEN Random ELSE r.new

(* The refresh tokens that end with a put: the one presented, or the one   *)
(* the record held until then if it is of an earlier second.               *)
Retired(r) ==
  LET old == user[Owner(r)]
  IN  (IF r.op = "refresh" THEN {r.token}
       ELSE IF old \notin {None, Random} /\ old.iat < clock THEN {old} ELSE {})
      \ {r.new}

Put(w) ==
  \E r \in {req[w]} :
    /\ r # None /\ r.pc = "put"
    /\ user' = [user EXCEPT ![Owner(r)] = Recorded(r)]
    /\ devices' = IF r.op = "poll" THEN devices \ {r.flow} ELSE devices
    /\ spent' = spent \cup Retired(r)
    /\ revoked' = [revoked EXCEPT ![Owner(r)] =
                     CASE r.op = "revoke" -> clock
                       [] r.op = "refresh" -> @
                       [] OTHER -> None]
    /\ Continue(w, [r EXCEPT !.pc = "done"])
    /\ UNCHANGED <<clock, names, states, bucket, grant, held, cli, store,
                   served, lost, admitted>>

(* The tokens a finished request hands out.                                *)
Granted(r) == IF r.new = None THEN {} ELSE {r.new, AccessOf(r.new)}

Answer(w) ==
  \E r \in {req[w]} :
    /\ r # None /\ r.pc = "done" /\ r.from = "api"
    /\ held' = held \cup Granted(r)
    /\ Continue(w, None)
    /\ UNCHANGED <<clock, names, kv, grant, cli, store, served, lost, spent,
                   revoked, admitted>>

-------------------------------------------------------------------------------
(* The CLI: run_device_flow and do_auth.                                   *)

Idle == [pc |-> "ended", flow |-> None, until |-> 0, wake |-> 0]

(* A slip: the loop never looks at its deadline.                           *)
LoopHeadForever(flow, deadline) ==
  [pc |-> "sleeping", flow |-> flow, until |-> deadline, wake |-> clock + Interval]

(* The head of the loop: past the deadline it gives up, else it sleeps.    *)
LoopHead(flow, deadline) ==
  IF clock > deadline THEN Idle
  ELSE [pc |-> "sleeping", flow |-> flow, until |-> deadline,
        wake |-> clock + Interval]

(* AuthStore::write: one file per hub, replaced whole.                     *)
AuthTokens(r) == Granted(r)

CliLogin(w) ==
  /\ cli.pc = "ended"
  /\ served < MaxRequests
  /\ served' = served + 1
  /\ Take(w, Limited("device", "cli"))
  /\ cli' = [Idle EXCEPT !.pc = "waiting"]
  /\ UNCHANGED <<clock, names, kv, grant, held, store, lost, spent, revoked,
                 admitted>>

(* start_device's answer: not a DeviceStartResponse is an error.           *)
CliStarted(w) ==
  \E r \in {req[w]} :
    /\ r # None /\ r.pc = "done" /\ r.from = "cli" /\ r.op = "device"
    /\ cli' = IF r.flow # None /\ DeviceStartResponse \subseteq DeviceAnswer
              THEN LoopHead(r.flow, clock + ExpiresIn) ELSE Idle
    /\ Continue(w, None)
    /\ UNCHANGED <<clock, names, kv, grant, held, store, served, lost,
                   spent, revoked, admitted>>

CliPoll(w) ==
  /\ cli.pc = "sleeping" /\ cli.wake <= clock
  /\ Take(w, PollOf(cli.flow, "device_code", "cli"))
  /\ cli' = [cli EXCEPT !.pc = "waiting"]
  /\ UNCHANGED <<clock, names, kv, grant, held, store, served, lost, spent,
                 revoked, admitted>>

(* poll_device's answer: "ok" with an access token signs in, everything    *)
(* else (202, 400, 429) is polled again.                                   *)
CliPolled(w) ==
  \E r \in {req[w]} :
    /\ r # None /\ r.pc = "done" /\ r.from = "cli" /\ r.op = "poll"
    /\ IF SignsIn(r)
       THEN cli' = Idle /\ store' = AuthTokens(r)
       ELSE cli' = LoopHead(cli.flow, cli.until) /\ UNCHANGED store
    /\ held' = held \cup Granted(r)
    /\ Continue(w, None)
    /\ UNCHANGED <<clock, names, kv, grant, served, lost, spent, revoked,
                   admitted>>

(* Logout: the local file goes, the hub is not told.                       *)
CliLogout ==
  /\ cli.pc = "ended" /\ store # None
  /\ store' = None
  /\ UNCHANGED <<clock, names, kv, grant, req, held, cli, served, lost,
                 spent, revoked, raced, admitted>>

-------------------------------------------------------------------------------
(* The world around.                                                       *)

(* A request dies where it is, or its answer does not arrive: the CLI ends *)
(* with a transport error.                                                 *)
Lose(w) ==
  \E r \in {req[w]} :
    /\ r # None /\ lost < MaxLost
    /\ lost' = lost + 1
    /\ Continue(w, None)
    /\ cli' = IF r.from = "cli" THEN Idle ELSE cli
    /\ UNCHANGED <<clock, names, kv, grant, held, store, served, spent,
                   revoked, admitted>>

(* Somebody agrees on GitHub, or refuses, or lets the code expire.         *)
Decide ==
  \E f \in Flows, answer \in Logins \cup {"refused"} :
    /\ grant[f] = "pending"
    /\ grant' = [grant EXCEPT ![f] = answer]
    /\ UNCHANGED <<clock, names, kv, req, held, cli, store, served, lost,
                   spent, revoked, raced, admitted>>

Tick ==
  /\ clock < MaxClock
  /\ clock' = clock + 1
  /\ UNCHANGED <<names, kv, grant, req, held, cli, store, served, lost,
                 spent, revoked, raced, admitted>>

Init ==
  /\ clock = 0
  /\ names \in {"camel", "snake"}
  /\ user = [l \in Logins |-> None]
  /\ states = [f \in WebFlows |-> None]
  /\ devices = {}
  /\ bucket = [b \in Buckets |-> None]
  /\ grant = [f \in Flows |-> None]
  /\ req = [w \in Workers |-> None]
  /\ held = {} /\ cli = Idle /\ store = None
  /\ served = 0 /\ lost = 0 /\ raced = FALSE
  /\ spent = {} /\ revoked = [l \in Logins |-> None]
  /\ admitted = [b \in Buckets |-> <<>>]

Handle(w) ==
  \/ Limit(w) \/ OauthStart(w) \/ OauthDevice(w) \/ OauthDevicePoll(w)
  \/ OauthCallback(w) \/ Put(w)
  \/ Answer(w) \/ CliStarted(w) \/ CliPolled(w)

Next ==
  \/ \E w \in Workers :
       Call(w) \/ Handle(w) \/ CliLogin(w) \/ CliPoll(w) \/ Lose(w)
  \/ CliLogout \/ Decide \/ Tick

(* The runtime goes on with every request, time passes, and the CLI polls  *)
(* once its sleep is over.                                                 *)
Fairness ==
  /\ WF_vars(Tick)
  /\ \A w \in Workers : WF_vars(Handle(w))
  /\ WF_vars(\E w \in Workers : CliPoll(w))

Spec == Init /\ [][Next]_vars /\ Fairness

-------------------------------------------------------------------------------
(* Properties.                                                             *)

(* What the hub took back it does not accept again: a refresh token that   *)
(* was exchanged or replaced is refused from then on, and once the access  *)
(* tokens of a revoked session have run out nobody acts for that login     *)
(* until it signs in again.  Two requests that race for the record break   *)
(* both: oauthRefresh and oauthRevoke write whatever became of what they   *)
(* read.                                                                   *)
SessionsEnd ==
  ~raced =>
    \A l \in Logins :
      /\ user[l] \notin spent
      /\ revoked[l] # None /\ clock > revoked[l] + AccessTTL =>
           \A t \in held : IdentifyCaller(t) # l

(* The window of rateLimit starts with the first request after the last    *)
(* one ended, so WindowSec seconds can hold the end of one and the whole   *)
(* of the next, but never the start of the first: fewer than 2 * max       *)
(* requests of a bucket that arrive within them are let through, unless    *)
(* two of them read one counter.                                           *)
BurstIsBounded ==
  ~raced =>
    \A b \in Buckets : \A i \in DOMAIN admitted[b] :
      i + 2 * MaxInWindow - 1 \in DOMAIN admitted[b] =>
      admitted[b][i + 2 * MaxInWindow - 1] >= admitted[b][i] + WindowSec

(* forage auth login ends, whatever GitHub and the hub answer: signed in,  *)
(* with an error, or at its deadline (run_device_flow), if that is not     *)
(* beyond the bound on time.                                               *)
SignInEnds ==
  cli.pc # "ended" /\ cli.until + Interval <= MaxClock
    ~> cli.pc = "ended" \/ cli.until + Interval > MaxClock
===============================================================================
