------------------------------- MODULE MCAccounts -------------------------------
(***************************************************************************)
(* Sign-in on a small instance.  A behaviour is about sessions, one        *)
(* request at a time or two, or about one rate limit.                      *)
(***************************************************************************)
EXTENDS Accounts

VARIABLE about

mcvars == <<vars, about>>

MaxServed == CASE about = "limits" -> 6 [] about = "sessions" -> 4 [] OTHER -> 2

(* The requests of each kind of behaviour.                                 *)
InMode(r) ==
  r # None =>
    CASE about = "limits" -> r.op = "poll" /\ r.field = PollBody
      [] about = "sessions" -> r.op \in {"start", "callback", "refresh", "revoke"}
      [] about = "devices" -> r.op \in {"device", "poll"} /\ (r.from = "api" => names = "camel")

MCInit ==
  /\ Init
  /\ about \in {"sessions", "devices", "limits"}
  /\ about # "devices" => names = "camel"

MCNext ==
  /\ Next
  /\ UNCHANGED about
  /\ served' <= MaxServed
  /\ ~raced'
  /\ about = "limits" => grant' = grant
  /\ \A w \in Workers : InMode(req'[w])

MCSpec == MCInit /\ [][MCNext]_mcvars /\ Fairness
===============================================================================
