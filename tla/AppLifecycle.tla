---------------------------- MODULE AppLifecycle ----------------------------
(***************************************************************************)
(* What the supervisor promises of every App, without its tasks, channels  *)
(* and tokens: an App serves one change key at a time, the key was the     *)
(* wanted one when the App was prepared for it, a new key is only served   *)
(* after the old one is gone, and a served key is given up only because    *)
(* something failed or because a different one was wanted.                 *)
(***************************************************************************)
EXTENDS Naturals

CONSTANTS
  Apps,
  Keys,        \* the change keys an App can have
  NoKey,       \* held by an App that is off
  IsWanted(_)  \* does a key ask for the App to run

VARIABLES
  want,        \* the key the current config gives each App
  mode,        \* off, preparing, on or leaving
  held,        \* the key it is prepared for, or serves
  failures     \* how many unforced failures there have been

vars == <<want, mode, held, failures>>

Init ==
  /\ want \in [Apps -> Keys]
  /\ mode = [a \in Apps |-> "off"]
  /\ held = [a \in Apps |-> NoKey]
  /\ failures = 0

(* Any edit of the config, wanted by whoever makes it. *)
Edit ==
  /\ want' \in [Apps -> Keys]
  /\ UNCHANGED <<mode, held, failures>>

Prepare(a) ==
  /\ mode[a] = "off" /\ IsWanted(want[a])
  /\ mode' = [mode EXCEPT ![a] = "preparing"]
  /\ held' = [held EXCEPT ![a] = want[a]]
  /\ UNCHANGED <<want, failures>>

Serve(a) ==
  /\ mode[a] = "preparing"
  /\ mode' = [mode EXCEPT ![a] = "on"]
  /\ UNCHANGED <<want, held, failures>>

(* The only way to be told to stop. *)
Leave(a) ==
  /\ mode[a] \in {"preparing", "on"}
  /\ want[a] # held[a]
  /\ mode' = [mode EXCEPT ![a] = "leaving"]
  /\ UNCHANGED <<want, held, failures>>

TurnOff(a) ==
  /\ mode' = [mode EXCEPT ![a] = "off"]
  /\ held' = [held EXCEPT ![a] = NoKey]
  /\ UNCHANGED want

Stop(a) == mode[a] = "leaving" /\ TurnOff(a) /\ UNCHANGED failures

(* It cannot be prepared with this key, or it failed on its own. *)
GiveUp(a) == mode[a] = "preparing" /\ TurnOff(a) /\ UNCHANGED failures
Fail(a) == mode[a] # "off" /\ TurnOff(a) /\ failures' = failures + 1

(* A failure that does not take the App down: an action handler's. *)
Survive == failures' = failures + 1 /\ UNCHANGED <<want, mode, held>>

Next ==
  \/ Edit
  \/ Survive
  \/ \E a \in Apps :
       Prepare(a) \/ Serve(a) \/ Leave(a) \/ Stop(a) \/ GiveUp(a) \/ Fail(a)

Spec == Init /\ [][Next]_vars
=============================================================================
