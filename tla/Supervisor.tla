----------------------------- MODULE Supervisor -----------------------------
(***************************************************************************)
(* The per-App lifecycle supervisor of the console host                    *)
(* (crates/larkstack/src/supervisor.rs) with the parts of the control      *)
(* plane it drives: the config watch channel, the status table, the action *)
(* registry (crates/larkstack-core/src/lib.rs) and the live state slot of  *)
(* an App's ingress router (crates/lark-kit/src/slot.rs).                  *)
(*                                                                         *)
(* For every App four kinds of task run side by side: the supervisor task  *)
(* itself, the run task and the action task of a generation, and whoever   *)
(* edits the config or dispatches an action.  A generation is one instance *)
(* that `App::build` returned.  Its name is a member of Gens and is free   *)
(* again once nothing refers to it, as the address of a dropped Arc is.    *)
(*                                                                         *)
(* The supervisor task holds a clone of the ControlPlane, hence of the     *)
(* watch sender, so its receiver never sees the channel closed: the        *)
(* Shutdown outcome of the code has no action here.                        *)
(***************************************************************************)
EXTENDS Naturals, FiniteSets

CONSTANTS
  Apps,        \* names of the supervised Apps
  Refs,        \* names of [lark-apps.<ref>] entries
  Creds,       \* what such an entry holds
  Revs,        \* everything else an App's own section holds
  Docs,        \* the config documents that get written
  Gens,        \* names of instances
  None,        \* no section, no reference, no entry, no instance
  MaxEdits,    \* bound: config writes
  MaxFaults,   \* bound: crashes, panics and build failures the config does not cause
  MaxQueued    \* bound: envelopes in one action channel

Section == [enabled : BOOLEAN, lark_app : Refs \cup {None}, rev : Revs]
Document == [section : [Apps -> Section \cup {None}],
             lark    : [Refs -> Creds \cup {None}]]
Keys == [section : Section \cup {None}, lark : Creds \cup {None}]

ASSUME NoneAssumption == None \notin Refs \cup Creds \cup Gens \cup Section
ASSUME DocsAssumption == Docs # {} /\ Docs \subseteq Document
ASSUME BoundsAssumption == MaxEdits \in Nat /\ MaxFaults \in Nat /\ MaxQueued \in Nat

InitialDelay == 1    \* seconds
MaxDelay == 60

VARIABLES
  config,      \* the watch channel's current document ...
  version,     \* ... and its version
  status,      \* the status table; None before the first write
  sender,      \* action registry: the generation whose channel is registered
  slot,        \* the generation whose state the ingress router serves, or None
  pc,          \* where the supervisor task stands
  seen,        \* version its receiver has marked as seen
  key,         \* the ChangeKey it computed last
  backoff,     \* Backoff.current
  wait,        \* history: last backoff delay since a config-driven restart, or 0
  inst,        \* the instance it holds
  task,        \* state of each generation's run task
  cancelled,   \* generations whose CancellationToken is cancelled
  actor,       \* state of each generation's action task
  aborted,     \* generations whose action task was told to abort
  inbox,       \* envelopes queued in each generation's action channel
  faults       \* unforced failures so far

planeVars == <<config, version>>
supVars   == <<pc, seen, key, backoff, wait, inst, status>>
runVars   == <<task, cancelled, slot>>
actVars   == <<sender, actor, aborted, inbox>>
vars      == <<planeVars, supVars, runVars, actVars, faults>>

-----------------------------------------------------------------------------
(* The change key: what a config change is diffed against for one App.     *)

ChangeKey(doc, a) ==
  LET s == doc.section[a]
  IN [section |-> s,
      lark    |-> IF s # None /\ s.lark_app # None THEN doc.lark[s.lark_app] ELSE None]

Enabled(k) == k.section # None /\ k.section.enabled

(* Building fails for certain when the section names an unregistered entry. *)
Resolves(k) == k.section.lark_app # None => k.lark # None

-----------------------------------------------------------------------------
TypeOK ==
  /\ config \in Document /\ version \in Nat
  /\ status \in [Apps -> {None, "starting", "running", "errored", "stopped"}]
  /\ sender \in [Apps -> Gens \cup {None}]
  /\ slot \in [Apps -> Gens \cup {None}]
  /\ pc \in [Apps -> {"top", "disabled", "building", "built", "serving",
                      "compare", "stopping", "backoff"}]
  /\ seen \in [Apps -> Nat]
  /\ key \in [Apps -> Keys]
  /\ backoff \in [Apps -> InitialDelay..MaxDelay]
  /\ wait \in [Apps -> 0..MaxDelay]
  /\ inst \in [Apps -> Gens \cup {None}]
  /\ task \in [Apps -> [Gens -> {"none", "spawned", "running", "ended"}]]
  /\ cancelled \in [Apps -> SUBSET Gens]
  /\ actor \in [Apps -> [Gens -> {"none", "idle", "busy"}]]
  /\ aborted \in [Apps -> SUBSET Gens]
  /\ inbox \in [Apps -> [Gens -> Nat]]
  /\ faults \in Nat

Init ==
  /\ config \in Docs /\ version = 0
  /\ status = [a \in Apps |-> None]
  /\ sender = [a \in Apps |-> None]
  /\ slot = [a \in Apps |-> None]
  /\ pc = [a \in Apps |-> "top"]
  /\ seen = [a \in Apps |-> 0]
  /\ key = [a \in Apps |-> [section |-> None, lark |-> None]]
  /\ backoff = [a \in Apps |-> InitialDelay]
  /\ wait = [a \in Apps |-> 0]
  /\ inst = [a \in Apps |-> None]
  /\ task = [a \in Apps |-> [g \in Gens |-> "none"]]
  /\ cancelled = [a \in Apps |-> {}]
  /\ actor = [a \in Apps |-> [g \in Gens |-> "none"]]
  /\ aborted = [a \in Apps |-> {}]
  /\ inbox = [a \in Apps |-> [g \in Gens |-> 0]]
  /\ faults = 0

-----------------------------------------------------------------------------
(* The control plane: a config write, and an action dispatched.            *)

(* ControlPlane::set_config: send_replace bumps the version even when the  *)
(* document is the one already there.                                      *)
SetConfig(doc) ==
  /\ version < MaxEdits
  /\ config' = doc
  /\ version' = version + 1
  /\ UNCHANGED <<supVars, runVars, actVars, faults>>

(* ControlPlane::dispatch, accepted.  It is refused, with no effect, when  *)
(* no channel is registered (404) or the receiver is gone (503).           *)
Dispatch(a) ==
  /\ sender[a] # None
  /\ actor[a][sender[a]] # "none"
  /\ inbox[a][sender[a]] < MaxQueued
  /\ inbox' = [inbox EXCEPT ![a][sender[a]] = @ + 1]
  /\ UNCHANGED <<planeVars, supVars, runVars, sender, actor, aborted, faults>>

-----------------------------------------------------------------------------
(* The supervisor task.                                                    *)

Goto(a, from, to) == pc[a] = from /\ pc' = [pc EXCEPT ![a] = to]
MarkSeen(a) == seen' = [seen EXCEPT ![a] = version]
SetStatus(a, s) == status' = [status EXCEPT ![a] = s]
Changed(a) == seen[a] # version

(* Mutant: the delay doubles without a cap. *)
StartUncappedWait(a) ==
  /\ wait' = [wait EXCEPT ![a] = backoff[a]]
  /\ backoff' = [backoff EXCEPT ![a] = 2 * @]

(* Backoff::next, and the wait that follows. *)
StartWait(a) ==
  /\ wait' = [wait EXCEPT ![a] = backoff[a]]
  /\ backoff' = [backoff EXCEPT ![a] = IF 2 * @ < MaxDelay THEN 2 * @ ELSE MaxDelay]

(* Dropping the finished run task's handle, its token and the instance. *)
ReleaseRun(a) ==
  /\ task' = [task EXCEPT ![a][inst[a]] = "none"]
  /\ cancelled' = [cancelled EXCEPT ![a] = @ \ {inst[a]}]
  /\ inst' = [inst EXCEPT ![a] = None]
  /\ UNCHANGED slot

(* Mutant: the JoinHandle is dropped, which detaches the task. *)
DetachActions(a) == aborted' = aborted

(* action_task.abort(): nothing is left to abort if the task has died. *)
AbortActions(a) ==
  aborted' = [aborted EXCEPT ![a] = @ \cup {g \in {inst[a]} : actor[a][g] # "none"}]

(* Top of the loop: borrow_and_update, compute the key, report stopped or  *)
(* starting.  An edit between the read and the status write touches        *)
(* neither, so the two are one step.                                       *)
ObserveDisabled(a) ==
  /\ ~ Enabled(ChangeKey(config, a))
  /\ Goto(a, "top", "disabled")
  /\ key' = [key EXCEPT ![a] = ChangeKey(config, a)]
  /\ MarkSeen(a) /\ SetStatus(a, "stopped")
  /\ UNCHANGED <<planeVars, backoff, wait, inst, runVars, actVars, faults>>

ObserveEnabled(a) ==
  /\ Enabled(ChangeKey(config, a))
  /\ Goto(a, "top", "building")
  /\ key' = [key EXCEPT ![a] = ChangeKey(config, a)]
  /\ MarkSeen(a) /\ SetStatus(a, "starting")
  /\ UNCHANGED <<planeVars, backoff, wait, inst, runVars, actVars, faults>>

WakeDisabled(a) ==
  /\ Changed(a)
  /\ Goto(a, "disabled", "top")
  /\ MarkSeen(a)
  /\ wait' = [wait EXCEPT ![a] = 0]
  /\ UNCHANGED <<planeVars, status, key, backoff, inst, runVars, actVars, faults>>

Unused(a) ==
  {g \in Gens \ {inst[a], sender[a], slot[a]} :
     task[a][g] = "none" /\ actor[a][g] = "none"}

(* app.build returned Ok: backoff.reset, then status running. *)
BuildOk(a) ==
  /\ Goto(a, "building", "built")
  /\ Resolves(key[a])
  /\ \E g \in Unused(a) : inst' = [inst EXCEPT ![a] = g]
  /\ backoff' = [backoff EXCEPT ![a] = InitialDelay]
  /\ SetStatus(a, "running")
  /\ UNCHANGED <<planeVars, seen, key, wait, runVars, actVars, faults>>

(* Mutant: a build error parks the App until the next edit. *)
BuildFailsForGood(a) ==
  /\ Goto(a, "building", "disabled")
  /\ IF Resolves(key[a]) THEN faults < MaxFaults /\ faults' = faults + 1
                         ELSE UNCHANGED faults
  /\ SetStatus(a, "errored") /\ StartWait(a)
  /\ UNCHANGED <<planeVars, seen, key, inst, runVars, actVars>>

(* app.build returned Err: a dangling reference, or any other reason. *)
BuildFails(a) ==
  /\ Goto(a, "building", "backoff")
  /\ IF Resolves(key[a]) THEN faults < MaxFaults /\ faults' = faults + 1
                         ELSE UNCHANGED faults
  /\ SetStatus(a, "errored") /\ StartWait(a)
  /\ UNCHANGED <<planeVars, seen, key, inst, runVars, actVars>>

(* Mutant: a fresh subscription marks the current version seen. *)
RunGenerationResubscribed(a) ==
  /\ Goto(a, "built", "serving")
  /\ sender' = [sender EXCEPT ![a] = inst[a]]
  /\ actor' = [actor EXCEPT ![a][inst[a]] = "idle"]
  /\ task' = [task EXCEPT ![a][inst[a]] = "spawned"]
  /\ MarkSeen(a)
  /\ UNCHANGED <<planeVars, status, key, backoff, wait, inst, cancelled, slot,
                 aborted, inbox, faults>>

(* register_actions replaces the sender, then run_generation spawns both   *)
(* tasks.  A dispatch between the two already lands in the new channel.    *)
RunGeneration(a) ==
  /\ Goto(a, "built", "serving")
  /\ sender' = [sender EXCEPT ![a] = inst[a]]
  /\ actor' = [actor EXCEPT ![a][inst[a]] = "idle"]
  /\ task' = [task EXCEPT ![a][inst[a]] = "spawned"]
  /\ UNCHANGED <<planeVars, status, seen, key, backoff, wait, inst, cancelled, slot,
                 aborted, inbox, faults>>

(* select!: the run task ended first.  Outcome::Crashed. *)
Crashed(a) ==
  /\ pc[a] = "serving" /\ task[a][inst[a]] = "ended"
  /\ Goto(a, "serving", "backoff")
  /\ AbortActions(a) /\ ReleaseRun(a)
  /\ SetStatus(a, "errored") /\ StartWait(a)
  /\ UNCHANGED <<planeVars, seen, key, sender, actor, inbox, faults>>

(* select!: config_rx.changed() first.  It marks the version seen; the     *)
(* document is read afterwards, and may be a later one.                    *)
NoticeChange(a) ==
  /\ Changed(a)
  /\ Goto(a, "serving", "compare")
  /\ MarkSeen(a)
  /\ UNCHANGED <<planeVars, status, key, backoff, wait, inst, runVars, actVars, faults>>

IgnoreChange(a) ==
  /\ ChangeKey(config, a) = key[a]
  /\ Goto(a, "compare", "serving")
  /\ UNCHANGED <<planeVars, status, seen, key, backoff, wait, inst, runVars, actVars,
                 faults>>

(* Mutant: restarts on every config change, whatever its key. *)
BeginRestartAlways(a) ==
  /\ Goto(a, "compare", "stopping")
  /\ AbortActions(a)
  /\ cancelled' = [cancelled EXCEPT ![a] = @ \cup {inst[a]}]
  /\ UNCHANGED <<planeVars, status, seen, key, backoff, wait, inst, task, slot,
                 sender, actor, inbox, faults>>

(* Outcome::Restart: abort the action task, cancel the run task. *)
BeginRestart(a) ==
  /\ ChangeKey(config, a) # key[a]
  /\ Goto(a, "compare", "stopping")
  /\ AbortActions(a)
  /\ cancelled' = [cancelled EXCEPT ![a] = @ \cup {inst[a]}]
  /\ UNCHANGED <<planeVars, status, seen, key, backoff, wait, inst, task, slot,
                 sender, actor, inbox, faults>>

(* Mutant: cancels the run task without awaiting it. *)
FinishRestartAtOnce(a) ==
  /\ Goto(a, "stopping", "top")
  /\ inst' = [inst EXCEPT ![a] = None]
  /\ wait' = [wait EXCEPT ![a] = 0]
  /\ UNCHANGED <<planeVars, status, seen, key, backoff, runVars, actVars, faults>>

(* run_task.await returned: back to the top of the loop. *)
FinishRestart(a) ==
  /\ pc[a] = "stopping" /\ task[a][inst[a]] = "ended"
  /\ Goto(a, "stopping", "top")
  /\ ReleaseRun(a)
  /\ wait' = [wait EXCEPT ![a] = 0]
  /\ UNCHANGED <<planeVars, status, seen, key, backoff, actVars, faults>>

(* wait_or_shutdown: the sleep ends, or a config change cuts it short. *)
BackoffExpires(a) ==
  /\ Goto(a, "backoff", "top")
  /\ UNCHANGED <<planeVars, status, seen, key, backoff, wait, inst, runVars, actVars,
                 faults>>

BackoffCutShort(a) ==
  /\ Changed(a)
  /\ Goto(a, "backoff", "top")
  /\ MarkSeen(a)
  /\ wait' = [wait EXCEPT ![a] = 0]
  /\ UNCHANGED <<planeVars, status, key, backoff, inst, runVars, actVars, faults>>

Supervise(a) ==
  \/ ObserveDisabled(a) \/ ObserveEnabled(a) \/ WakeDisabled(a)
  \/ BuildOk(a) \/ BuildFails(a) \/ RunGeneration(a)
  \/ Crashed(a) \/ NoticeChange(a) \/ IgnoreChange(a)
  \/ BeginRestart(a) \/ FinishRestart(a)
  \/ BackoffExpires(a) \/ BackoffCutShort(a)

-----------------------------------------------------------------------------
(* A generation's run task: Instance::run holds a SlotGuard while it runs. *)

Publish(a, g) ==
  /\ task[a][g] = "spawned"
  /\ task' = [task EXCEPT ![a][g] = "running"]
  /\ slot' = [slot EXCEPT ![a] = g]
  /\ UNCHANGED <<planeVars, supVars, cancelled, actVars, faults>>

(* Mutant: no guard, so the slot keeps the ended generation's state. *)
EndRunKeepingSlot(a, g) ==
  /\ task[a][g] = "running"
  /\ task' = [task EXCEPT ![a][g] = "ended"]
  /\ UNCHANGED <<planeVars, supVars, cancelled, slot, actVars>>

(* The future ends: the guard's drop empties the slot, whatever is in it,  *)
(* before the task's result can be awaited.                                *)
EndRun(a, g) ==
  /\ task[a][g] = "running"
  /\ task' = [task EXCEPT ![a][g] = "ended"]
  /\ slot' = [slot EXCEPT ![a] = None]
  /\ UNCHANGED <<planeVars, supVars, cancelled, actVars>>

(* It returns because its token was cancelled ... *)
StopRun(a, g) == g \in cancelled[a] /\ EndRun(a, g) /\ UNCHANGED faults

(* ... or on its own: it returned Ok or Err, or panicked. *)
FailRun(a, g) == faults < MaxFaults /\ EndRun(a, g) /\ faults' = faults + 1

-----------------------------------------------------------------------------
(* A generation's action task.  abort() takes effect when the task next    *)
(* yields, so an action already being polled may go on after it.           *)

Receive(a, g) ==
  /\ actor[a][g] = "idle" /\ inbox[a][g] > 0
  /\ actor' = [actor EXCEPT ![a][g] = "busy"]
  /\ inbox' = [inbox EXCEPT ![a][g] = @ - 1]
  /\ UNCHANGED <<planeVars, supVars, runVars, sender, aborted, faults>>

HandleAction(a, g) ==
  /\ actor[a][g] = "busy"
  /\ actor' = [actor EXCEPT ![a][g] = "idle"]
  /\ UNCHANGED <<planeVars, supVars, runVars, sender, aborted, inbox, faults>>

(* The task's future is dropped with its receiver and what is queued in it *)
(* because it was aborted ...                                              *)
EndActor(a, g) ==
  /\ actor[a][g] # "none"
  /\ actor' = [actor EXCEPT ![a][g] = "none"]
  /\ inbox' = [inbox EXCEPT ![a][g] = 0]
  /\ aborted' = [aborted EXCEPT ![a] = @ \ {g}]
  /\ UNCHANGED <<planeVars, supVars, runVars, sender>>

DropActor(a, g) == g \in aborted[a] /\ EndActor(a, g) /\ UNCHANGED faults

(* ... or because a handler panicked: nothing supervises the action task. *)
ActionPanics(a, g) ==
  /\ actor[a][g] = "busy" /\ faults < MaxFaults
  /\ EndActor(a, g)
  /\ faults' = faults + 1

-----------------------------------------------------------------------------
RunTask(a, g) == Publish(a, g) \/ StopRun(a, g) \/ FailRun(a, g)
ActionTask(a, g) ==
  Receive(a, g) \/ HandleAction(a, g) \/ DropActor(a, g) \/ ActionPanics(a, g)

Next ==
  \/ \E doc \in Docs : SetConfig(doc)
  \/ \E a \in Apps : Dispatch(a) \/ Supervise(a)
  \/ \E a \in Apps, g \in Gens : RunTask(a, g) \/ ActionTask(a, g)

(* The runtime schedules every task that can run; a run loop honours its   *)
(* token (the Instance contract); nobody has to edit, dispatch or fail.    *)
Fairness ==
  /\ \A a \in Apps : WF_vars(Supervise(a))
  /\ \A a \in Apps, g \in Gens :
       WF_vars(Publish(a, g)) /\ WF_vars(StopRun(a, g)) /\ WF_vars(DropActor(a, g))

Spec == Init /\ [][Next]_vars /\ Fairness

-----------------------------------------------------------------------------
(* Safety.                                                                 *)

(* At most one generation of an App is alive, it is the one the supervisor *)
(* holds, and none is while the next one is awaited, built or put off:     *)
(* run_generation awaits the run task on every path.                       *)
OneGeneration ==
  \A a \in Apps, g \in Gens :
    task[a][g] # "none" => g = inst[a] /\ pc[a] \in {"serving", "compare", "stopping"}

(* The ingress router serves the state of the generation that runs, and of *)
(* no other: the drop of an old SlotGuard never clears a newer state.      *)
SlotIsLive ==
  \A a \in Apps, g \in Gens : slot[a] = g <=> task[a][g] = "running"

(* No wakeup is lost.  A supervisor that has seen the last config version  *)
(* and is not about to look again acts on the key that config has, however *)
(* edits fell between its reads, the build and the select.                 *)
NoLostEdit ==
  \A a \in Apps :
    seen[a] = version /\ pc[a] \in {"disabled", "building", "built", "serving", "backoff"}
      => key[a] = ChangeKey(config, a)

(* The console never reports an App stopped, errored or starting while one *)
(* of its generations still runs or serves webhooks.                       *)
StatusHonest ==
  \A a \in Apps : status[a] # "running" =>
    slot[a] = None /\ \A g \in Gens : task[a][g] \in {"none", "ended"}

(* Actions go to the current generation: while it serves, its channel is   *)
(* the registered one and no abort meant for another reaches its action    *)
(* task; an action task of any other generation was told to abort.         *)
ActionRouting ==
  \A a \in Apps :
    /\ pc[a] \in {"serving", "compare"} =>
         sender[a] = inst[a] /\ inst[a] \notin aborted[a]
    /\ \A g \in Gens : actor[a][g] # "none" /\ g \notin aborted[a] =>
         g = inst[a] /\ pc[a] \in {"serving", "compare"}

(* An App is never told to stop by edits that leave its own section and    *)
(* the [lark-apps] entry it references alone (supervisor.rs:6-8).          *)
ForeignEditsHarmless ==
  \A a \in Apps :
    (\A d1, d2 \in Docs : ChangeKey(d1, a) = ChangeKey(d2, a)) => cancelled[a] = {}

-----------------------------------------------------------------------------
(* Refinement: every App has the life AppLifecycle allows it.              *)

ModeOf(a) ==
  IF pc[a] \in {"building", "built"} THEN "preparing"
  ELSE IF inst[a] = None \/ task[a][inst[a]] = "ended" THEN "off"
  ELSE IF inst[a] \in cancelled[a] THEN "leaving"
  ELSE IF task[a][inst[a]] = "spawned" THEN "preparing" ELSE "on"

Life == INSTANCE AppLifecycle WITH
  NoKey    <- None,
  IsWanted <- Enabled,
  want     <- [a \in Apps |-> ChangeKey(config, a)],
  mode     <- [a \in Apps |-> ModeOf(a)],
  held     <- [a \in Apps |-> IF ModeOf(a) = "off" THEN None ELSE key[a]],
  failures <- faults

(* The supervisor, its tasks and channels implement that lifecycle.        *)
ImplementsLifecycle == Life!Spec

-----------------------------------------------------------------------------
(* Liveness.                                                               *)

Settled(a) ==
  LET k == ChangeKey(config, a)
  IN IF ~ Enabled(k)
       THEN /\ status[a] = "stopped" /\ slot[a] = None
            /\ sender[a] # None => actor[a][sender[a]] = "none"
     ELSE IF Resolves(k)
       THEN status[a] = "running" /\ slot[a] # None /\ key[a] = k
       ELSE status[a] \in {"starting", "errored"} /\ slot[a] = None

(* Once edits and failures cease, every App ends up as the config says and *)
(* stays so: off and refusing actions, serving its current key, or, when   *)
(* it names an unregistered Lark app, retried and down.                    *)
Settles == <>[](\A a \in Apps : Settled(a))

-----------------------------------------------------------------------------
(* What the comment on Backoff says (supervisor.rs:186), "Exponential      *)
(* backoff for crash/build-error restarts, capped at 60s": a crash restart *)
(* that follows another one, with no config edit between, waits longer.    *)
CrashBackoffGrows ==
  [][\A a \in Apps : pc[a] = "serving" /\ pc'[a] = "backoff" /\ wait[a] > 0
       => wait'[a] = MaxDelay \/ wait'[a] >= 2 * wait[a]]_vars

=============================================================================
