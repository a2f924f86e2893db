-------------------------- MODULE StandupSchedule --------------------------
(***************************************************************************)
(* The daily triggers of the standup App and the life of a generation of   *)
(* it: a WebSocket command bot and one task per job, each of which sleeps  *)
(* until its configured time, reloads the settings and fires               *)
(* (apps/automations/standup/src/trigger/scheduler.rs, runtime/run.rs).    *)
(*                                                                         *)
(* Time is counted in slots, DayLength of them to a day; a trigger is due  *)
(* as its slot begins, so whatever else happens in that slot is later.     *)
(* StandupProofs extends this module and StandupDocs: no name is in both.  *)
(***************************************************************************)
EXTENDS Naturals, FiniteSets

CONSTANTS
  Jobs,         \* announce, remind-evening, remind-morning, urgent
  Schedules,    \* settings an admin can save
  Defaults,     \* the built-in settings, taken when the saved ones cannot be read
  DayLength,    \* slots in a day
  LastSlot,     \* bound: slots
  MaxRun,       \* bound: slots one flow operation takes
  MaxSaves,     \* bound: settings saved
  MaxRestarts,  \* bound: config edits of [standup], and runs that end on their own
  MaxMisreads   \* bound: reads of the settings that fail

(* zone is how many slots the timezone is ahead of UTC. *)
Schedule == [zone : 0..DayLength - 1,
             trigger : [Jobs -> [enabled : BOOLEAN, at : 0..DayLength - 1]]]

ASSUME SchedulesAssumption ==
  /\ Schedules # {} /\ Schedules \cup {Defaults} \subseteq Schedule
  /\ \A j \in Jobs : Defaults.trigger[j].enabled
ASSUME TimesAssumption ==
  /\ DayLength \in Nat \ {0} /\ {LastSlot, MaxRun, MaxSaves, MaxRestarts, MaxMisreads} \subseteq Nat
  /\ MaxRun < DayLength

VARIABLES
  now,        \* the current slot, in UTC
  settings,   \* the standup settings blob
  chat,       \* whether [standup] names a chat and a folder
  run,        \* where serve_with_bot of the current generation stands
  ready,      \* whether its config named a chat and a folder
  cancelled,  \* whether its token is cancelled
  bot,        \* whether its command bot listens
  leaked,     \* command bots of earlier generations that still listen
  task,       \* where each job's task stands
  wake,       \* when its current sleep ends
  shots,      \* history: how often each job fired in each slot
  misread,    \* history: the slots in which each job failed to read the settings
  calm,       \* history: first slot that no restart touches any more
  edited,     \* history: slot of the last edit of the settings
  saves, restarts

genVars == <<run, ready, cancelled, bot, leaked>>
marks == <<shots, misread>>
jobVars == <<task, wake, marks>>
scheduleVars == <<now, settings, chat, genVars, jobVars, calm, edited, saves, restarts>>

Slots == 0..LastSlot

ScheduleTypeOK ==
  /\ now \in Slots
  /\ settings \in Schedules
  /\ chat \in BOOLEAN /\ ready \in BOOLEAN /\ cancelled \in BOOLEAN /\ bot \in BOOLEAN
  /\ run \in {"down", "lookup", "starting", "up"}
  /\ leaked \in Nat
  /\ task \in [Jobs -> {"off", "load", "poll", "wait", "reload", "fire", "pause"}]
  /\ wake \in [Jobs -> Nat]
  /\ shots \in [Jobs \X Slots -> Nat] /\ misread \subseteq Jobs \X Slots
  /\ calm \in Nat /\ edited \in Slots /\ saves \in Nat /\ restarts \in Nat

ScheduleInit ==
  /\ now = 0
  /\ settings \in Schedules
  /\ chat \in BOOLEAN
  /\ run = "down" /\ ready = FALSE /\ cancelled = FALSE /\ bot = FALSE /\ leaked = 0
  /\ task = [j \in Jobs |-> "off"]
  /\ wake = [j \in Jobs |-> 0]
  /\ shots = [x \in Jobs \X Slots |-> 0] /\ misread = {}
  /\ calm = 0 /\ edited = 0 /\ saves = 0 /\ restarts = 0

Max2(x, y) == IF x < y THEN y ELSE x
Disturb(slot) == calm' = Max2(calm, slot)

-----------------------------------------------------------------------------
(* A generation: StandupInstance::run, that is serve_with_bot.             *)

(* The supervisor builds and runs it, at once or after a backoff.          *)
Start ==
  /\ run = "down"
  /\ run' = "lookup" /\ ready' = chat /\ cancelled' = FALSE
  /\ UNCHANGED <<now, settings, chat, bot, leaked, jobVars, calm, edited, saves, restarts>>

(* bot_open_id: the command bot is spawned only if it can be looked up.    *)
LookUpBot ==
  /\ run = "lookup"
  /\ run' = "starting"
  /\ bot' \in BOOLEAN
  /\ UNCHANGED <<now, settings, chat, ready, cancelled, leaked, jobVars, calm, edited, saves, restarts>>

(* scheduler::run spawns the job tasks ... *)
SpawnJobs ==
  /\ run = "starting" /\ ready
  /\ run' = "up"
  /\ task' = [j \in Jobs |-> "load"]
  /\ Disturb(now + 1)
  /\ UNCHANGED <<now, settings, chat, ready, cancelled, bot, leaked, wake, marks, edited, saves, restarts>>

(* ... or returns at once, and serve_with_bot after it.  The token is      *)
(* dropped but not cancelled: the command bot listens on.                  *)
ReturnAtOnce ==
  /\ run = "starting" /\ ~ ready
  /\ cancelled \/ restarts < MaxRestarts
  /\ restarts' = IF cancelled THEN restarts ELSE restarts + 1
  /\ run' = "down"
  /\ bot' = FALSE
  /\ leaked' = IF bot /\ ~ cancelled THEN leaked + 1 ELSE leaked
  /\ UNCHANGED <<now, settings, chat, ready, cancelled, jobVars, calm, edited, saves>>

(* The operator edits [standup]; a running generation is cancelled.        *)
Reconfigure ==
  /\ restarts < MaxRestarts /\ restarts' = restarts + 1
  /\ chat' \in BOOLEAN
  /\ cancelled' = (run # "down")
  /\ UNCHANGED <<now, settings, run, ready, bot, leaked, jobVars, calm, edited, saves>>

BotStops ==
  /\ bot /\ cancelled
  /\ bot' = FALSE
  /\ UNCHANGED <<now, settings, chat, run, ready, cancelled, leaked, jobVars, calm, edited, saves, restarts>>

(* Every job task has been awaited.                                        *)
Retire ==
  /\ run = "up" /\ \A j \in Jobs : task[j] = "off"
  /\ run' = "down" /\ bot' = FALSE
  /\ Disturb(now + 1)
  /\ UNCHANGED <<now, settings, chat, ready, cancelled, leaked, jobVars, edited, saves, restarts>>

-----------------------------------------------------------------------------
(* One job's task: run_trigger.                                            *)

Move(j, from, to) == task[j] = from /\ task' = [task EXCEPT ![j] = to]
StayWith == <<now, settings, chat, genVars, calm, edited, saves, restarts>>

StartOfDay(slot, zone) == ((slot + zone) \div DayLength) * DayLength

(* Mutant: the configured time is read as UTC. *)
NextInUtc(j, s) ==
  LET target == StartOfDay(now, 0) + s.trigger[j].at
  IN IF target <= now THEN target + DayLength ELSE target

(* Mutant: a time that has just come counts as still ahead. *)
NextOrNow(j, s) ==
  LET target == StartOfDay(now, s.zone) + s.trigger[j].at
  IN (IF target < now + s.zone THEN target + DayLength ELSE target) - s.zone

(* duration_until: the next time the job's local time comes.               *)
NextFire(j, s) ==
  LET target == StartOfDay(now, s.zone) + s.trigger[j].at
  IN (IF target <= now + s.zone THEN target + DayLength ELSE target) - s.zone

(* settings::load answers a failed read with Settings::default.            *)
ReadFails(j) == Cardinality(misread) < MaxMisreads /\ misread' = misread \cup {<<j, now>>}

LoadEnabled(j) ==
  /\ settings.trigger[j].enabled
  /\ Move(j, "load", "wait")
  /\ wake' = [wake EXCEPT ![j] = NextFire(j, settings)]
  /\ UNCHANGED <<StayWith, marks>>

LoadDisabled(j) ==
  /\ ~ settings.trigger[j].enabled
  /\ Move(j, "load", "poll")
  /\ UNCHANGED <<StayWith, wake, marks>>

(* The job sleeps until its built-in time, also one that is switched off   *)
(* and looks again after its poll.                                         *)
LoadDefaults(j) ==
  /\ task[j] \in {"load", "poll"} /\ task' = [task EXCEPT ![j] = "wait"]
  /\ ReadFails(j)
  /\ wake' = [wake EXCEPT ![j] = NextFire(j, Defaults)]
  /\ UNCHANGED <<StayWith, shots>>

(* DISABLED_POLL, which is shorter than a slot, is over.  Looking again    *)
(* while nothing has changed is left out.                                  *)
Poll(j) ==
  /\ settings.trigger[j].enabled
  /\ Move(j, "poll", "load")
  /\ UNCHANGED <<StayWith, wake, marks>>

Wake(j) ==
  /\ now >= wake[j]
  /\ Move(j, "wait", "reload")
  /\ UNCHANGED <<StayWith, wake, marks>>

(* After the sleep the settings are read again, for the switch, the        *)
(* wording and the date, but the time is not looked at.  The built-in      *)
(* settings have every job on.                                             *)
Fire(j) ==
  /\ \/ settings.trigger[j].enabled /\ UNCHANGED misread
     \/ ReadFails(j)
  /\ Move(j, "reload", "fire")
  /\ shots' = [shots EXCEPT ![<<j, now>>] = @ + 1]
  /\ wake' = [wake EXCEPT ![j] = now]
  /\ UNCHANGED StayWith

SwitchedOff(j) ==
  /\ ~ settings.trigger[j].enabled
  /\ Move(j, "reload", "load")
  /\ UNCHANGED <<StayWith, wake, marks>>

(* The flow operation returns, Ok or Err, and a pause of 5 s follows.      *)
Finish(j) ==
  /\ Move(j, "fire", "pause")
  /\ UNCHANGED <<StayWith, wake, marks>>

Again(j) ==
  /\ Move(j, "pause", "load")
  /\ UNCHANGED <<StayWith, wake, marks>>

(* Mutant: a disabled job does not look at the token. *)
LeaveUnlessPolling(j) ==
  /\ cancelled /\ task[j] \in {"wait", "pause"}
  /\ task' = [task EXCEPT ![j] = "off"]
  /\ UNCHANGED <<StayWith, wake, marks>>

(* The token is looked at in the three sleeps only.                        *)
Leave(j) ==
  /\ cancelled /\ task[j] \in {"poll", "wait", "pause"}
  /\ task' = [task EXCEPT ![j] = "off"]
  /\ UNCHANGED <<StayWith, wake, marks>>

-----------------------------------------------------------------------------
(* put_settings of the standup App. *)
PutSettings ==
  /\ saves < MaxSaves /\ saves' = saves + 1
  /\ \E s \in Schedules \ {settings} : settings' = s
  /\ edited' = now
  /\ UNCHANGED <<now, chat, genVars, jobVars, calm, restarts>>

(* Timers are prompt: a slot does not end before what was due in it has    *)
(* been done, but for a poll that an edit in this very slot is to wake and *)
(* a flow that goes on for up to MaxRun slots.                             *)
Prompt(j) ==
  \/ task[j] = "off"
  \/ task[j] = "poll" /\ (~ settings.trigger[j].enabled \/ edited = now) /\ ~ cancelled
  \/ task[j] = "wait" /\ wake[j] > now /\ ~ cancelled
  \/ task[j] = "fire" /\ now < wake[j] + MaxRun

Tick ==
  /\ now < LastSlot
  /\ \A j \in Jobs : Prompt(j)
  /\ now' = now + 1
  /\ IF run = "up" /\ ~ cancelled THEN UNCHANGED calm ELSE Disturb(now + 2)
  /\ UNCHANGED <<settings, chat, genVars, jobVars, edited, saves, restarts>>

Job(j) ==
  \/ LoadEnabled(j) \/ LoadDisabled(j) \/ LoadDefaults(j) \/ Poll(j) \/ Wake(j) \/ Fire(j)
  \/ SwitchedOff(j) \/ Finish(j) \/ Again(j) \/ Leave(j)

Generation == Start \/ LookUpBot \/ SpawnJobs \/ ReturnAtOnce \/ BotStops \/ Retire

ScheduleNext == Generation \/ Reconfigure \/ PutSettings \/ Tick \/ \E j \in Jobs : Job(j)

ScheduleFairness ==
  /\ WF_scheduleVars(Generation) /\ WF_scheduleVars(Tick)
  /\ \A j \in Jobs : WF_scheduleVars(Job(j))

ScheduleSpec == ScheduleInit /\ [][ScheduleNext]_scheduleVars /\ ScheduleFairness

-----------------------------------------------------------------------------
(* Slots of the local day that holds slot t. *)
DayOf(t) == LET z == settings.zone IN {u \in Slots : StartOfDay(u, z) = StartOfDay(t, z)}

(* Nothing that can still move job j is near slot u: no restart, and for a *)
(* day and a flow before it no edit and no failed read.                    *)
Calm(j, u) ==
  /\ u >= calm
  /\ saves > 0 => u > edited + DayLength + MaxRun
  /\ \A m \in Slots : <<j, m>> \in misread => u > m + DayLength + MaxRun

(* On a day that no restart disturbs and that the day before left without  *)
(* an edit or a failed read, an enabled job fires once its time has come,  *)
(* in that slot and in no other of the day, and no other job fires.  An    *)
(* edit takes up to a day to settle, and a flow more: a job sleeps on for  *)
(* its old time, as it does for the built-in time after a failed read.     *)
Punctual ==
  run = "up" /\ ~ cancelled =>
    \A j \in Jobs : (\A u \in DayOf(now) : Calm(j, u)) =>
      \A u \in DayOf(now) : u < now =>
        shots[<<j, u>>] =
          IF settings.trigger[j].enabled
               /\ u + settings.zone = StartOfDay(u, settings.zone) + settings.trigger[j].at
            THEN 1 ELSE 0

(* A job that is switched off while it sleeps is quiet from the next slot  *)
(* on, although it still wakes at its time, but where the read that was to *)
(* show it the switch failed.                                              *)
OffIsOff ==
  \A j \in Jobs, u \in Slots :
    u > edited /\ ~ settings.trigger[j].enabled /\ <<j, u>> \notin misread => shots[<<j, u>>] = 0

(* A job fires when its time comes and stays quiet when it is off, as far  *)
(* as it could read its settings.                                          *)
FiringInv == ScheduleTypeOK /\ Punctual /\ OffIsOff

(* A read that failed within the day before slot u may have set it.        *)
Missed(j, u) == \E m \in Slots : <<j, m>> \in misread /\ m < u /\ u <= m + DayLength

(* However often the App is restarted, while the settings stay as they are *)
(* no job fires twice in a slot, nor twice in a day unless it had slept    *)
(* for the built-in time after a failed read before one of the two.        *)
NotTwiceADay ==
  saves = 0 => \A j \in Jobs : \A u, v \in Slots :
    shots[<<j, u>>] > 0 /\ shots[<<j, v>>] > 0 /\ v \in DayOf(u) =>
      shots[<<j, u>>] = 1 /\ (u = v \/ Missed(j, u) \/ Missed(j, v))

(* A stop always gets through: a generation whose config is edited ends,   *)
(* whatever its jobs and its bot were at.                                  *)
StopsWhenTold == cancelled ~> run = "down" \/ ~ cancelled

-----------------------------------------------------------------------------
(* What the comment in run_trigger says (trigger/scheduler.rs:129):        *)
(* "Reload after waking so edits made during the wait (time, templates, a  *)
(* toggle-off) are honored".                                               *)
FiresAsConfigured ==
  [][\A j \in Jobs : task[j] = "reload" /\ task'[j] = "fire"
       => now + settings.zone = StartOfDay(now, settings.zone) + settings.trigger[j].at]_scheduleVars

(* What the comment on serve_with_bot says (runtime/run.rs:28): "Both the  *)
(* WS task and the scheduler honor `cancel` so a restart doesn't leak      *)
(* them".                                                                  *)
NoLeakedBot == leaked = 0
=============================================================================
