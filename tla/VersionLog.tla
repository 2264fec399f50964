------------------------------ MODULE VersionLog ------------------------------
(***************************************************************************)
(* What deploying promises to those who load a deployed version: a log of  *)
(* versions per recipe, published whole, in increasing order, for good.    *)
(***************************************************************************)
EXTENDS Integers

CONSTANTS Names, Modules

VARIABLE log   \* the published versions with their linked modules

Entry == [name : Names, version : Nat, module : Modules]

Init == log = {}

(* One entry at a time, newer than every earlier one of its name.          *)
Publish(entry) ==
  /\ entry \in Entry
  /\ \A e \in log : e.name = entry.name => e.version < entry.version
  /\ log' = log \cup {entry}

(* Written over what was added, so that Nat need not be enumerated.        *)
Next == \E entry \in log' \ log : Publish(entry)

Spec == Init /\ [][Next]_log
===============================================================================
