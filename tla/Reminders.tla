------------------------------ MODULE Reminders ------------------------------
(***************************************************************************)
(* The due-date reminder scheduler of the linear App: a pass scans the     *)
(* issues due around today, picks the cadence tier that applies to each,   *)
(* and sends it unless the ledger has it                                   *)
(* (apps/integrations/linear/src/{scheduler,domain/reminders}.rs and       *)
(* db/{due_reminders,settings}).                                           *)
(*                                                                         *)
(* At most one generation of the App runs (OneGeneration of Supervisor),   *)
(* so there is one pass at a time.  A stop is only honoured in the sleep   *)
(* between passes and the next generation begins with a pass, so a restart *)
(* of the App is one of the ways in which the sleep ends.                  *)
(***************************************************************************)
EXTENDS LinearApp, Integers, FiniteSets

CONSTANTS
  Deadlines,    \* due dates an issue can get, as days
  Cadences,     \* settings an admin can save
  Default,      \* Settings::default, also what an unreadable row reads as
  LastDay,      \* bound: days
  TooFar,       \* days past which calendar arithmetic panics
  MaxEdits,     \* bound: settings saved
  MaxMoves,     \* bound: due dates changed
  MaxFaults     \* bound: crashes and failed calls

(* zone is how many days the configured timezone is ahead just now. *)
Cadence == [on : BOOLEAN, leads : SUBSET Nat, cap : Nat, zone : 0..1]

ASSUME CadencesAssumption ==
  /\ \A c \in Cadences \cup {Default} :
       /\ c.on \in BOOLEAN /\ c.leads \subseteq Nat /\ IsFiniteSet(c.leads)
       /\ c.cap \in Nat /\ c.zone \in 0..1
ASSUME DeadlinesAssumption == Deadlines \subseteq Nat /\ IsFiniteSet(Deadlines)
ASSUME NoneAssumption == None \notin Int \cup Issues
ASSUME FiguresAssumption == {LastDay, TooFar, MaxEdits, MaxMoves, MaxFaults} \subseteq Nat

VARIABLES
  day,       \* today, in UTC
  due,       \* each open issue's due date, or None
  settings,  \* the settings row
  ledger,    \* linear_due_reminders: <<issue, due date, tier>>
  pc,        \* where the scheduler stands
  loaded,    \* the settings its pass goes by
  today,     \* the date its pass goes by
  todo,      \* <<issue, due date>> the pass has yet to look at
  current,   \* the <<issue, due date, tier>> it is sending, or None
  told,      \* history: reminders that reached somebody
  missed,    \* history: reminders that were sent and reached nobody
  repeats,   \* history: how many of them had been sent before
  edits, moves, faults

envVars       == <<day, due, settings, edits, moves>>
passVars      == <<loaded, today, todo>>
remindersVars == <<envVars, ledger, pc, passVars, current, told, missed, repeats, faults>>

Reminder == Issues \X Deadlines \X Int

RemindersTypeOK ==
  /\ day \in 0..LastDay
  /\ due \in [Issues -> Deadlines \cup {None}]
  /\ settings \in Cadences \cup {Default} /\ loaded \in Cadences \cup {Default}
  /\ ledger \subseteq Reminder
  /\ pc \in {"load", "fetch", "scan", "send", "record", "sleep", "down"}
  /\ today \in Int
  /\ todo \subseteq Issues \X Deadlines
  /\ current \in Reminder \cup {None}
  /\ told \subseteq Reminder /\ missed \subseteq Reminder
  /\ repeats \in Nat /\ edits \in Nat /\ moves \in Nat /\ faults \in Nat

RemindersInit ==
  /\ day = 0
  /\ due \in [Issues -> Deadlines \cup {None}]
  /\ settings \in Cadences \cup {Default}
  /\ ledger = {}
  /\ pc = "load" /\ loaded = Default /\ today = 0 /\ todo = {} /\ current = None
  /\ told = {} /\ missed = {} /\ repeats = 0 /\ edits = 0 /\ moves = 0 /\ faults = 0

-----------------------------------------------------------------------------
(* reminders::current_tier *)

Least(S) == CHOOSE x \in S : \A y \in S : x <= y

(* Mutant: every threshold passed so far qualifies, the largest wins. *)
FirstTier(days, c) ==
  LET reached == {l \in c.leads : days <= l}
  IN IF days >= 0
       THEN IF reached = {} THEN None ELSE CHOOSE x \in reached : \A y \in reached : y <= x
       ELSE IF -days <= c.cap THEN days ELSE None

CurrentTier(days, c) ==
  LET reached == {l \in c.leads : days <= l}
  IN IF days >= 0 THEN IF reached = {} THEN None ELSE Least(reached)
     ELSE IF -days <= c.cap THEN days ELSE None

Local(c) == day + c.zone    \* today_in

-----------------------------------------------------------------------------
(* run_scheduler.                                                          *)

MayFail == faults < MaxFaults /\ faults' = faults + 1

(* settings::load, which never fails: an unreadable row is the default.    *)
Load ==
  /\ pc = "load"
  /\ \/ loaded' = settings /\ UNCHANGED faults
     \/ loaded' = Default /\ MayFail
  /\ pc' = IF loaded'.on THEN "fetch" ELSE "sleep"
  /\ UNCHANGED <<envVars, ledger, today, todo, current, told, missed, repeats>>

(* run_pass fixes today and asks Linear for what is due around it.         *)
Overflows(c) == c.cap > TooFar \/ \E l \in c.leads : l > TooFar

Window(c, t) ==
  LET span == IF c.leads = {} THEN 0 ELSE CHOOSE x \in c.leads : \A y \in c.leads : y <= x
  IN t - c.cap .. t + span

Fetch ==
  /\ pc = "fetch" /\ ~ Overflows(loaded)
  /\ today' = Local(loaded)
  /\ todo' = {<<i, due[i]>> : i \in {j \in Issues : due[j] \in Window(loaded, Local(loaded))}}
  /\ pc' = "scan"
  /\ UNCHANGED <<envVars, ledger, loaded, current, told, missed, repeats, faults>>

FetchFails ==
  /\ pc = "fetch" /\ ~ Overflows(loaded) /\ MayFail
  /\ pc' = "sleep"
  /\ UNCHANGED <<envVars, ledger, passVars, current, told, missed, repeats>>

(* A panic in the date arithmetic ends the run task. *)
FetchPanics ==
  /\ pc = "fetch" /\ Overflows(loaded)
  /\ pc' = "down"
  /\ UNCHANGED <<envVars, ledger, passVars, current, told, missed, repeats, faults>>

TierOf(x) == CurrentTier(x[2] - today, loaded)

(* Mutant: nothing is looked up before sending. *)
PickWithoutLookup ==
  /\ pc = "scan"
  /\ \E x \in todo :
       /\ todo' = todo \ {x}
       /\ TierOf(x) # None
       /\ current' = <<x[1], x[2], TierOf(x)>>
  /\ pc' = "send"
  /\ UNCHANGED <<envVars, ledger, loaded, today, told, missed, repeats, faults>>

(* One issue of the pass: a tier applies and already_sent says no ...      *)
Pick ==
  /\ pc = "scan"
  /\ \E x \in todo :
       /\ todo' = todo \ {x}
       /\ TierOf(x) # None /\ <<x[1], x[2], TierOf(x)>> \notin ledger
       /\ current' = <<x[1], x[2], TierOf(x)>>
  /\ pc' = "send"
  /\ UNCHANGED <<envVars, ledger, loaded, today, told, missed, repeats, faults>>

(* ... or it is passed over, a failed lookup counting as sent.             *)
PassOver ==
  /\ pc = "scan"
  /\ \E x \in todo :
       /\ todo' = todo \ {x}
       /\ IF TierOf(x) = None \/ <<x[1], x[2], TierOf(x)>> \in ledger
            THEN UNCHANGED faults ELSE MayFail
  /\ UNCHANGED <<envVars, ledger, pc, loaded, today, current, told, missed, repeats>>

(* Mutant: the pass ends at the first reminder it has sent. *)
SendAndStop ==
  /\ pc = "send"
  /\ told' = told \cup {current}
  /\ repeats' = IF current \in told THEN repeats + 1 ELSE repeats
  /\ pc' = "sleep"
  /\ UNCHANGED <<envVars, ledger, passVars, current, missed, faults>>

(* send_reminder: a DM to the assignee, and to subscribers as configured.  *)
Send ==
  /\ pc = "send"
  /\ told' = told \cup {current}
  /\ repeats' = IF current \in told THEN repeats + 1 ELSE repeats
  /\ pc' = "record"
  /\ UNCHANGED <<envVars, ledger, passVars, current, missed, faults>>

(* No bot, nobody to tell, or Lark refuses: dm_many logs it at most, and   *)
(* the reminder is recorded like any other.                                *)
SendInVain ==
  /\ pc = "send" /\ MayFail
  /\ missed' = missed \cup {current}
  /\ pc' = "record"
  /\ UNCHANGED <<envVars, ledger, passVars, current, told, repeats>>

(* due_reminders::record; a failure is only logged.                        *)
Record ==
  /\ pc = "record"
  /\ \/ ledger' = ledger \cup {current} /\ UNCHANGED faults
     \/ UNCHANGED ledger /\ MayFail
  /\ pc' = "scan" /\ current' = None
  /\ UNCHANGED <<envVars, passVars, told, missed, repeats>>

EndPass ==
  /\ pc = "scan" /\ todo = {}
  /\ pc' = "sleep"
  /\ UNCHANGED <<envVars, ledger, passVars, current, told, missed, repeats, faults>>

(* Mutant: nothing restarts a run task that panicked. *)
WakeFromSleep ==
  /\ pc = "sleep"
  /\ pc' = "load"
  /\ UNCHANGED <<envVars, ledger, passVars, current, told, missed, repeats, faults>>

(* The check interval passes, or the App restarts; after a panic the       *)
(* supervisor's backoff passes.                                            *)
Wake ==
  /\ pc \in {"sleep", "down"}
  /\ pc' = "load"
  /\ UNCHANGED <<envVars, ledger, passVars, current, told, missed, repeats, faults>>

RemindersCrash ==
  /\ MayFail
  /\ pc' = "load" /\ todo' = {} /\ current' = None
  /\ UNCHANGED <<envVars, ledger, loaded, today, told, missed, repeats>>

-----------------------------------------------------------------------------
(* Around it: midnight passes, an admin saves settings (put_settings), an  *)
(* issue is rescheduled or closed in Linear.                               *)

World == <<ledger, pc, passVars, current, told, missed, repeats, faults>>

NewDay == day < LastDay /\ day' = day + 1 /\ UNCHANGED <<due, settings, edits, moves, World>>

PutSettings ==
  /\ edits < MaxEdits /\ edits' = edits + 1
  /\ \E c \in Cadences : settings' = c
  /\ UNCHANGED <<day, due, moves, World>>

Reschedule ==
  /\ moves < MaxMoves /\ moves' = moves + 1
  /\ \E i \in Issues, d \in Deadlines \cup {None} : due' = [due EXCEPT ![i] = d]
  /\ UNCHANGED <<day, settings, edits, World>>

Scheduler ==
  \/ Load \/ Fetch \/ FetchFails \/ FetchPanics
  \/ Pick \/ PassOver \/ Send \/ SendInVain \/ Record \/ EndPass \/ Wake

RemindersNext == Scheduler \/ RemindersCrash \/ NewDay \/ PutSettings \/ Reschedule

(* The scheduler's task goes on whenever it can. *)
RemindersSpec == RemindersInit /\ [][RemindersNext]_remindersVars /\ WF_remindersVars(Scheduler)

-----------------------------------------------------------------------------
(* Nobody is nagged: a tier is only ever told again for the crash or the   *)
(* failed insert that kept it out of the ledger, and once for each.        *)
RepeatsExplained == repeats <= faults

(* The nudges of one deadline come in order, each nearer to it than the    *)
(* one before, also when the due date moves away and back and when         *)
(* midnight passes in the middle of a pass: unless an admin changes the    *)
(* cadence, or a fault hides the ledger, none comes twice or late.         *)
DeadlineNears ==
  [][edits = 0 /\ faults = 0 /\ pc = "send" /\ pc' = "record"
       => \A r \in told : r[1] = current[1] /\ r[2] = current[2] => current[3] < r[3]]_remindersVars

(* An issue first seen late gets its current threshold, never a backlog of *)
(* the earlier ones (domain/reminders.rs:28-31): no threshold lies between *)
(* the deadline's distance and the tier sent for it.                       *)
NoBacklog ==
  pc \in {"send", "record"} =>
    LET days == current[2] - today IN
      IF days < 0 THEN current[3] = days
      ELSE /\ current[3] \in loaded.leads /\ days <= current[3]
           /\ \A l \in loaded.leads : days <= l => current[3] <= l

(* Whatever a pass sends is the one tier due, and the ledger has none that *)
(* was not sent before, to somebody or in vain.                            *)
PassInv == RemindersTypeOK /\ NoBacklog /\ ledger \subseteq told \cup missed

(* When days, edits and faults end, every open issue that some tier of the *)
(* saved cadence applies to has it in the ledger, and was told of it unless*)
(* its sending was the one in vain: failed passes are made up for, and so  *)
(* is a spell of settings no date arithmetic can bear; a reminder that     *)
(* reached nobody is not.                                                  *)
AllReminded ==
  <>[](settings.on /\ ~ Overflows(settings) =>
         \A i \in Issues :
           LET tier == CurrentTier(due[i] - Local(settings), settings)
               reminder == <<i, due[i], tier>>
           IN due[i] # None /\ tier # None => reminder \in ledger \cap (told \cup missed))

-----------------------------------------------------------------------------
(* What the module comment says (domain/reminders.rs:7): "then dedupes so  *)
(* each tier fires at most once per deadline".                             *)
TierOncePerDeadline ==
  [][pc = "send" /\ pc' = "record" => current \notin told]_remindersVars
=============================================================================
