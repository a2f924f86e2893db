# A verification of larkstack

larkstack is a host ("the console") for small Lark integrations and automations,
"Apps". It supervises one instance of each App, gives it a config section, a store,
a database and a webhook route, and shows its log and its state to an operator. This
directory holds TLA+ models of its stateful parts, what TLC checks of them and what
TLAPS proves of them. Paths below are relative to the repository's root.

    tlc -config MCSupervisor.cfg MCSupervisor    # a run; PROJECT.json lists them all
    tlapm SupervisorProofs.tla                   # proofs; likewise ConfigStoreProofs,
                                                 # EventLogProofs, LinearProofs,
                                                 # StandupProofs, MinutesProofs,
                                                 # WebhooksProofs and HostProofs

`PROJECT.json` maps each definition to the lines it models, lists the runs, the
hazards they are for, and for each property a plausible bug that breaks it.

## The system

Everything runs on one multithreaded tokio runtime. What interleaves: a supervisor
task per App, the run task and action task of its current generation, HTTP handlers,
detached tasks the Apps spawn (debounce timers, WebSocket clients, meeting pipelines),
the persistence task of the event log, and one stream per connected browser.

| Component (code) | State | Operations | What is hard | What makes it correct |
|---|---|---|---|---|
| App supervisor (`crates/larkstack/src/supervisor.rs`) | its receiver's seen version, the change key, the backoff, the generation it holds | build, run, restart on a changed key, back off after a crash | edits between its reads; cancelling and awaiting; who is told to abort | one generation at a time, no edit lost, convergence on the config |
| Control plane (`crates/larkstack-core/src/lib.rs`) | config watch channel, status table, action registry, event channel, id counter | set_config, dispatch, register_actions, emit | shared by every task, each piece with its own lock | honest status, actions reach the live generation |
| Live slot (`crates/lark-kit/src/slot.rs`) | state the webhook route serves | publish, drop, extract | an old guard's drop against a new publish | serves exactly what runs |
| Config editing (`crates/larkstack/src/routes/{config,lark_apps,console_auth,mod}.rs`) | document in memory, `config.toml` | seven edits, each read - edit - write file - publish | no lock; in-place file write; crash between steps | memory and file agree, acknowledged bindings resolve |
| Event log (`tracing_layer.rs`, `store.rs`, `routes/events.rs`) | id counter, broadcast channel, `events` table | draw, send, insert, trim, replay, stream | ids and sends are two steps, inserts and trims too; lag; reconnects; restarts | no collision, no repetition, every gap explained |
| Linear debounce (`linear/src/domain/debounce.rs`, `routes/webhook.rs`) | map of pending updates, one timer task each | upsert, cancel, take, send | a due timer cannot be cancelled; restarts and crashes; cards are best effort | nothing lost, repeated or stranded on the way to Lark; merging is faithful |
| Linear reminders (`linear/src/scheduler.rs`, `domain/reminders.rs`, `db/due_reminders`) | ledger of sent tiers, settings row | a pass: fetch, pick, send, record | each call may fail; crash between send and record; midnight in a pass | no nagging without a fault, every tier tried in the end |
| Standup schedule (`standup/src/trigger/scheduler.rs`, `runtime/run.rs`) | a task per job, a command bot | sleep, reload, fire, stop | edits while asleep; timezones; restarts at the trigger; a failed read of the settings gives the defaults | punctual, once a day, quiet when off, stoppable |
| Standup documents (`standup/src/flow.rs`, `lark/doc.rs`, `trigger/{commands,actions}.rs`) | the day's document, in Lark | find or create, fill, who is missing | several callers; a document half made | one usable document a day |
| Minutes (`minutes/src/{pipeline,events,run,actions}.rs`) | temp files, permits | download, extract, transcribe, publish, clean up | shared file names; detached pipelines; actions take no permit | one digest a meeting from its own files |
| Migrations, boot (`crates/larkstack-core/src/db.rs`, `larkstack/src/lib.rs`) | tracking table, tables; who is supervised | apply each pending one in a transaction; boot, drain, exit | failure or crash part-way; another release; one App's tables against another's | the tables are what the tracking table says; a broken App takes down only itself |
| Routing (`crates/lark-kit/src/routing`) | one document of rules in the state store | validate, replace, destinations of (subject, event) | overlap of rules, fallback; used long after it was checked | a deduplicated union, never addressed to nobody |
| GitHub, GitLab (`apps/integrations/{github,gitlab}/src`) | the generation's secret and bot | authenticate, parse, load the document, deliver card after card | document or generation replaced in the middle; one card of several refused | one request goes by one document, and is answered |
| Console sign-in (`routes/oauth.rs`) | signed cookies in one jar, the signing key's file, the live config | login, callback, session, logout | tabs share the jar; the config is read anew at each step; restarts | refusals have a cause; sessions outlive restarts |
| State and metrics stores, X, cards, dashboard | none of their own, or single SQL statements | | | |

How they interact. A config edit replaces the document in the watch channel, which
wakes every supervisor; each compares its App's change key and restarts its App or
not. A generation publishes its state in the live slot, from which webhook handlers
take it; a handler keeps the state it took, and so do the tasks it spawns, past the
end of the generation. Anything that logs draws an id and sends on the event channel,
the persistence task included.

## The models

One module per component, its `MC` module with the values TLC needs, its `.cfg`.

**Supervisor** - the supervisor task step by step (`pc` is the await it stands at),
the run and action task of each generation, the config channel (`config`, `version`
and the `seen` version of each receiver), the status table, the action registry
(`sender`) and its channels (`inbox`), and the slot. A generation's name is free again
when nothing refers to it, as the address of a dropped Arc is, which is what makes
`inst` and `slot` worth comparing. `tokio::select!` is a choice between enabled arms.
`changed()` marks a version seen, and the document is read in a later step: an edit may
fall between. `abort()` marks the task; it ends at its next yield, so an action already
being handled may run past it. The Shutdown outcome has no action: the supervisor holds
a clone of the watch sender, so the channel never closes.

**AppLifecycle** - what the supervisor promises, without tasks, channels or tokens: an
App is prepared for the key wanted at that moment, serves one key at a time, takes up
a new one only after it has been off, and gives a key up only because another one is
wanted or something failed. `Supervisor!ImplementsLifecycle` is the refinement; `mode`
is computed from the supervisor's position, the run task's state and its token.

**ConfigStore** - the document as four small maps, the file as that or `Malformed` or
`Truncated`, and up to two requests in flight, each step of a handler an action. The
in-place `fs::write` is an open that truncates and a write from offset 0; when another
writer got in between, the longer text's tail may stay and the file may hold anything: either
text, none that parses, or by accident a third document.

**EventLog** - the id counter, the broadcast channel as the sequence of everything sent
and a position for each receiver, the persistence task and one browser that follows,
loses and resumes its stream. `persist` is two statements that are committed one by one, with
the connection's mutex held over both: `Insert` and `Trim`, each of which may fail or be
cut off by a crash. A restart draws ids from above the highest stored one, or from 1 when the
query for it fails, since `max_id` takes an error for an empty table; `misnumbered` is the
history of that.

**Debounce** - the map of each generation, and each update's timer task with the entry
it took. An entry carries the history of what was merged into it, against which the
fields the card is made from are checked. A handler keeps the generation it took from
the slot, so a timer may be armed in a map no new request reaches. A card may reach nobody:
the routing names no destination, there is no bot, or Lark refuses it (`CardRefused`); `deliver`
logs that and the entry is gone.

**LinearApp** - the constants the two models of the linear App, Debounce and Reminders, share.

**Reminders** - days, two issues, the ledger and a pass over the window, with a failure
possible at every call and a crash anywhere. History variables count what was sent
before, and hold what was sent in vain: `notify` only logs a DM that fails, and the pass
records its tier all the same.

**StandupSchedule** - a read of the settings that fails yields the defaults, all jobs on at their
built-in times, both before the sleep (`LoadDefaults`) and after it (`Fire`); `misread` records where.
Time is in slots, three to a local day; job tasks, the command bot,
and generations that the supervisor restarts. A slot ends only when what was due in it
has been done, which is what prompt timers mean. A flow operation takes less than a day
(`TimesAssumption`): one that took longer would miss the next day's time, since the task
sleeps again only when it has returned.

**StandupDocs** - a call is one operation of `flow.rs` made by a job, a console action
or a chat command; `pc` is the request to Lark it makes next: load the settings, list the
folder, list the group, create the document, insert the table, name its rows, then
announce, read the rows, message, escalate. The day's documents are a sequence in the
order of their creation, a row the person and the cells filled. Members fill cells and an
admin changes title or group between any two requests; any request may fail; a restart
aborts actions but not jobs, a crash everything. `known` is how many documents a call had
been shown when it looked, which is what tells a race from a second look.

**Minutes** - a run is one call of `process_meeting`. An event spawns it as a detached
task that takes a permit of its generation's semaphore and outlives the generation; the
action runs it inside the action task, which a restart aborts, without a permit. The two
temp files of a meeting are shared by name. A file is the run that created it, and an open
file stays with the run that opened it when the name is removed or taken by another, as
in the file system. An ffmpeg child whose parent was aborted may write on, since nothing
kills it. The errors of the clean-up's two removals are ignored (`Remains`), so a run may end well
and leave a file. Configuration is resolved over environment, `[app]` and inline values. The
document is written in batches of `Batch` at an index, so that its order is a
result of the arithmetic and not of the model.

**Routing** - the pure part: matching of a subject, `Destinations` of an event (union over
the rules that match, defaults if none does, duplicates dropped, in order), user map and
label lookup, and what `validate` lets through. `IsRouteOf` is the reference, stated by
which destinations are in the result and in what order they first occur. The loops over
rules and destinations are functions from the number of rounds.

**Webhooks** - extends Routing with the GitHub and GitLab handlers. A request takes the live
state, is authenticated against that generation's secret, has its event conditions tested,
loads the document once, and sends its cards one after the other, group cards first.
Meanwhile `Put` replaces the document, a restart brings another generation (with another
secret, or unbuildable), and the process may die.

**Migrations**, **SignIn**, **Host** - Migrations has the loop over the Apps' pending
migrations, each in a transaction (run, compare the tables touched with the App's namespace,
record, commit), over releases that change what is declared. The tracking table is the sequence
of its rows, each with what its migration did as history, since a table may be dropped by one
migration and made again by a later one. SignIn has one browser with several tabs: login puts a
handshake in the jar, the operator approves at Lark, the callback checks and removes whatever
handshake the jar then holds, exchanges the code, reads the config again and answers with a
session; each request judges the session with the config of that moment. `load_session_key`
draws and writes a new key whenever it cannot read a good one, whether there is none or the
read fails (`LoadKeyUnread`), and goes on with it when it cannot be written; `lost` are the
keys given up so. Host composes them along `Larkstack::run`: open stores, migrate, load or make
the signing key, serve, drain, exit, and a crash or an upgrade anywhere between. An open event
stream (`watching`) is a request in flight without an end of its own: the graceful shutdown
waits until the browser closes it.

## What is checked

| Run | Shows | Bounds |
|---|---|---|
| Supervisor | one generation, honest status and slot, no lost edit, actions to the live generation; refinement of AppLifecycle; convergence | one App, two instance names, two edits out of seven documents, two unforced failures, one queued action |
| ConfigStore | file and memory agree after a write that ran alone; bindings resolve | one App, one Lark app with two credentials, two requests in flight, three in all, one crash or file error |
| EventLog | ids never collide, a trim leaves the newest rows, a stream repeats nothing and its gaps have causes, it catches up | two threads, four ids, channel of 2, replay of 1, table of 3, one fault (a failed statement or read, a restart, a dropped connection) |
| Debounce | nothing lost, repeated or stranded; merging is faithful; everything sent or refused | three webhooks of one issue and one of another, two generations, one crash or refused card |
| Reminders | no nagging without a fault, deadlines come nearer, everything sent or tried in vain | two issues, four days, two deadlines, five cadences, one edit, one rescheduling, one fault |
| StandupSchedule | punctual, once a day, off is off, but for failed reads; stoppable | one job, eight slots of which three make a day, three schedules, one edit, one failed read, two restarts |
| StandupDocs | second documents come of overlapping lookups only, half-made ones of failures; reminders go to the empty rows; every call ends | two calls out of a menu of a job, an action and a chat command, two members, two columns, one edit or cell, one fault |
| Minutes | permits and files are given back; an unshared run hears its own recording; the transcript is in order; every event ends | two runs of one meeting, its recording and another, two chunks, no or three segments in batches of two, one permit, two generations, one fault (a file that stays among them) or crash |
| Webhooks | one request, one document, against the reference; no card to nobody; every request answered | two requests out of three for the App, four documents of which one is refused, one PUT, a restart with another secret, one crash or failing call |
| Host | tables agree with the tracking table; refusals explained; sessions survive; the host comes up, or waits for a stream | two Apps, two releases, five migrations of which one cannot run, one drops a foreign table and one makes a dropped table again, two tabs, one account, four configs, one event stream, one stop, one fault, one edit, one tick of the clock |

Why this much is enough. The races here are between two parties: a supervisor and an
editor, an old generation and a new one, two requests, two timers, two calls on one
document, two runs on one file, two tabs. Two of each are there, and one more step than
the race needs where it is cheap (three requests, three updates of an issue). The
supervisors of two Apps share nothing but the config they read and the proofs hold for any
number of Apps; one is run. Documents of two days never meet, nor do the files of two
meetings (the names are made from the meeting). Three segments at a batch of two are a full batch and a
rest. The sizes of the event log keep the code's order (replay < channel < table) and let
four ids overflow the channel and the table. Failures are budgeted, and the
properties that exclude them say so.

Fairness. A task that can run does (the runtime schedules it), timers fire, a run loop
ends after its token is cancelled (the contract of `Instance::run`), an aborted task is
dropped. Nobody has to edit, send a webhook, dispatch or fail, and no external call has
to succeed: `AllReminded` and `Settles` rest on the failure budget instead. In Debounce only
the tasks together are fair, which is enough, since each has few steps. In the
Supervisor an App's handler need not return; in StandupSchedule a flow operation does. In
StandupDocs, Minutes, Webhooks and Host every request to a service is answered, with
success or an error. That is trust in the services and not in the code: the HTTP clients
there set no timeout, so a peer that neither answers nor closes keeps its task
for good, and in Minutes its permit. In Host somebody starts the process again, and callbacks
in flight end. No browser has to close its event stream, so draining need not end: `BootsAnyway`
has that as its second outcome, and says what holds otherwise.

Runs expected to be violated show a line of documentation the code does not keep
(`findings` in PROJECT.json):

- `ConfigStoreRest`: "leaving the rest of the config untouched" - the toggle of an App has read the
  document when the upsert of a Lark app publishes, and then publishes its own copy: the entry
  is gone again. The run has structured edits only.
- `StandupBots`: "a restart doesn't leak them" - the command bot of an App without a
  chat is never cancelled.

Four more such statements are defined in the modules and refuted by TLC when named in a
cfg of their run, but are not runs of the project:

- `Supervisor!CrashBackoffGrows` ("exponential backoff for crash restarts"): the backoff is
  reset by the build that precedes the crash.
- `EventLog!EmissionOrder` ("id ordering matches emission order"): not between two threads.
- `Reminders!TierOncePerDeadline` ("at most once per deadline"): a crash between send and
  record.
- `StandupSchedule!FiresAsConfigured` ("edits made during the wait (time, ...) are
  honored"): the switch is, the time is not.

Observations made while modelling, which the models carry without a property or whose cost the
properties name as an exception:

- `put_console_auth` checks the entry on one read of the config and writes from another; a
  delete in between leaves a binding to nothing, which the gate takes for no sign-in.
- `updatedFrom.assigneeId` that is null reads as "not changed", so a first assignee is not
  messaged (`debounce.rs:13` says that any change counts).
- The routing document's user map is not validated: an entry may have an empty email.
- A redelivered webhook is delivered again; of two consoles that save the routing
  document, the last wins.
- A settings read that fails falls back to the default title, and the call then finds or
  makes another document.
- A migration that drops and recreates another App's table leaves the set of table names as
  it was and passes the namespace check.
- Graceful shutdown (`larkstack/src/lib.rs:239-241`) waits for open event streams, which have no end
  of their own: a host stopped with the console open in a browser need never exit.
- `db.rs:82-84` says the supervisor surfaces a failing migration "with backoff"; the host leaves such
  an App out for the whole boot (`lib.rs:192-200`) and never tries again.
- `load_session_key` replaces a good `session.key` it fails to read (`oauth.rs:543-550`), which
  ends every session for good although nothing was lost.
- `EventStore::max_id` takes a failing query for an empty table (`store.rs:118-120`; the comment at 112
  has None for an empty one): ids begin at 1 again, the inserts fail on their keys, and
  streams take the new events for ones already replayed.
- Cards and DMs of the linear App are best effort: an update whose card is refused is told to
  nobody, and a reminder that reaches nobody is recorded and never made up for.
- A failed read of the standup settings switches every job on at the built-in times until the next read.
- `Config::load` of the routing does not check what it reads, so `StoredInv` is about documents that
  passed today's check; a load that fails is an empty document, and the webhook is answered 200
  with nothing sent.

## What is proved

For every value of the constants - any number of Apps, instance names, documents,
requests, calls, runs, tabs - and every bound, from the named assumptions of the modules
and nothing else.

`SupervisorProofs`: the type invariant, `OneGeneration`, `SlotIsLive`, `NoLostEdit`,
`StatusHonest`, `ActionRouting`, and that an App whose key no written document changes
is never told to stop (`ForeignEditsHarmless`). The argument is one inductive
invariant, `IInv`: those five properties, the types, and `Bookkeeping`, which the
supervisor task keeps of its own locals. It holds a generation exactly at the positions
where it uses one, and its status is then "running"; it has not seen a version that was
never published; an abort is only pending on a task that lives; a generation just built
has no action task yet. The last two matter because names are reused: without them an
abort could outlive its task and hit the name's next bearer. `SlotIsLive` needs
`OneGeneration`, since a guard's drop empties the slot whatever is in it, and
`StatusHonest` needs both.

`Refinement`, in the same module: `Spec => ImplementsLifecycle`. On top of `IInv` the mapping
needs `Tokens`: no instance is held where none is used, the instance that is served or
stopped has a run task, and only the one being stopped has its token cancelled. From
these, `SuperviseMoves`, `RunMoves` and `ActionsStill` say which of six effects a step
has on its App's life and that it has none on another's, and `MovesAreLife` that an
effect is a step of `AppLifecycle`.

`ConfigStoreProofs`: the type invariant, `DiskAgrees` and `AckedBindResolves`. The
invariant adds `Guarded` (a request past its guard still has in its own document what
the guard saw, so nothing another request does to memory can undo it) and `Alone`
(while the last write to begin is clean, one request is in the file, and the file holds
what that request has done to it so far). `clean` leaves out crashes, failures and overlapping
writes, so `DiskAgrees` says nothing of the file those leave. `DiskAgrees` follows at publication, where
`Alone` says the file is the document that memory is about to become.

`LinearProofs`, of Debounce: `PendingInv` and `MergeFaithful`. `PlacesInv` says where an update
is: an accepted one that was not lost is in exactly one place, an entry of one map, the hands
of one timer, a card that was sent or one that was refused. Upsert and take move an entry and
never copy it, so exactly one place stays one place although a due timer and a cancelling
upsert may both run. `MergeFaithful` is by one fact about `Merge`: appending an update to an
entry's history changes its lines, status, person to tell and actor as the definition of each
over the history says.

`EventLogProofs`: `StoreInv`, `NeverTwice` and `GapExplained`. `LogInv` adds to the types,
`NoIdCollision` and `Retained` that every id drawn, sent or stored is below the counter
(`BelowInv`), that an id is in one hand or sent once (`OnceInv`), and that what the persister
has yet to read was not stored before (`NewInv`); the last is what a restart re-establishes by
starting above the greatest stored id. What compares with stored ids holds unless the boot is
`misnumbered`, and is established anew by the next one that is not. `NeverTwice` adds where a
delivered id came from: the replay, up to the last replayed id, or the part of the channel the
client is past (`FreshInv`). `GapExplained` adds, for a boot that learnt its ids, `FollowInv`:
stored ids are of an earlier boot or were received in this one (`OriginInv`), each event the
persister received is stored, at hand, skipped or trimmed (`FateInv`), and each event the
client is past was delivered or has one of the reasons (`GapInv`). The proof did not go through
for the reasons first given: a whole table of higher ids can be inserted before an event held
up between its id and its send, which is trimmed at once and lost to a client that reconnects.
The run is too small for it (it takes as many held-up threads as the table is longer than the
channel); the reason is now named. `MaxIs` (a finite set of numbers has a greatest) is proved
from the well-foundedness of strict inclusion, and what "ORDER BY id LIMIT n" returns from a
number's rank in a set, which is how `Ascending` is defined.

`LinearProofs`, of Reminders: `PassInv` (whatever is sent is the one tier due),
`RepeatsExplained` and the action property `DeadlineNears`. The repetitions are counted against
a debt: `Owed` are the reminders sent that are neither in the ledger nor on their way to it,
and `DebtInv` says that those and the repetitions together are no more than the faults. For
`DeadlineNears`, `CalmInv` says that without edits and faults every reminder sent is recorded
and was the tier of a day no later than today; the nearer the deadline the smaller the tier
(`TierFalls`), so a new one is below all before it.

`StandupProofs`, of StandupDocs: `TwinsExplained` from `LookedFirst` (a call about to create
has a title none of the documents it was shown has, and there are at least as many now);
`WholeOrExplained` from `CallInv`, which says that a call has made no document before it
knows the group, makes one at most, has the people it was told each once, and is past
naming the rows only with a row for each of them; `ReminderInv` from `TalkInv`, on top of these. The
rows of a document name each member once (`RowsInv`), and a call that has read them has told,
or has yet on its list, only members in whose row it saw nothing, each once; the empty rows
of others are no more than the faults (`TellInv`).

`StandupProofs`, of StandupSchedule (it extends both modules of the App, which share no name):
`FiringInv` and `NotTwiceADay`, from `SchedulesAssumption` and `TimesAssumption`. `ScheduleInv`
says of each job what it has not missed (`Covered`) up to the slot its task sleeps for or may
be busy until, that a shot was due or an edit came after its task had gone to sleep
(`ShotInv`), and that a task is off only where its generation is ending (`RunInv`). A restart
makes the current slot one that it touched, an edit everything up to a day and a flow ahead,
and a failed read the same for its job. Local days are `(t + zone) \div DayLength`: `DaysApart`
and `DueApart` (a time comes once a day) and `NextFireIs` (`duration_until` gives the first
slot from now in which it comes) are proved for any zone and length of day.

`MinutesProofs`: `DocInOrder`, `RunInv`, `OwnRecording`. `BaseInv` has types, jobs and the
document as an initial part of what it will be; `PermitInv` ties permits to the event runs at
work of each generation. Files take three steps. `FilesInv`: every name that is taken has a run
that has yet to remove it, one that failed and never will, or one whose removal failed
(`kept`). `NamesInv` and `AloneInv`: a file under a meeting's name, and a file a run has open,
belong to a run of that meeting, and of two runs (or orphaned children) that use a meeting's
files at once both are on record as sharing. `FindsInv`: so what a run that is not on record
reads at each step is what it wrote before, whatever was there when it began.

`WebhooksProofs`: the theorem `RoutesInReadingOrder`, that `DestinationsFor` meets its
reference definition for every routing document, subject and event, and `StoredInv` and
`RoutedByOneVersion`. A loop is a function defined by recursion from its rounds; `PushAllRuns`
and `DestinationsForRuns` prove of each that it is defined and typed after every number of
rounds, by the least round for which that fails (`Smallest`, from the well-foundedness of the
order of numbers, since induction takes an operator for its parameter). `Told(out, ps, P)` is
what the loops keep: the list `out` names the destinations of the places `P` read so far, each
by the first place `ps[i]` that does, in the order of those places; `PushTold` is the step.
`HookInv` then says of a request that the documents it has seen are valid ones, that the
present one is among them until it loads, and that what it sent and what it has left are the
cards one of them makes of it; an edit changes none of its parts. The address in every group
card follows from `RoutedAddressed`: a destination a valid document gives has one.

`HostProofs`: `SessionSurvives` and `RefusalExplained`. `KeyInv` says whatever is signed was
signed with the key the next boot will find, unless that key is one of `lost`, and
`Regular` follows a login nothing has come in the way of: the handshake it carries is its
own and names the configuration it began under. `BootInv`: an open transaction is the work of
the next migration on the database as it is (`BootingInv`), and `CommitSchema` compares
the tables before and after with what the rows say; the namespace check is what keeps
another App's tables out of it. The property speaks of the rows in their order: as first stated, over
the set of recorded migrations, it was false of a table that is dropped and then made anew,
as the proof attempt showed and the run, which now has such a migration, confirms.

## What is only model-checked

Liveness (`Settles`, `CatchesUp`, `EventuallySent`, `AllReminded`,
`StopsWhenTold`, `EveryCallEnds`, `EveryEventEnds`, `EveryHookAnswered`,
`BootsAnyway`): fairness and ENABLED are out of the prover's reach. Every safety invariant
and every action property that a passing run checks is also proved. Where a proof needed the order
of a selection, the model says it by rank or by a function over the rounds of a loop instead of by
a library sort, filter or fold, which the prover cannot look into: `Ascending` of EventLog,
`Missing` of StandupDocs, `DestinationsFor` and `AlertLabels` of Webhooks.

## What is not modelled

- Formatting, parsing and wording: cards, messages, transcripts, overlays of configuration
  files. A message is its recipient and its kind.
- Cryptography: a signature verifies when the key is the one it was made with.
- The local speech-to-text backend (whisper.cpp, behind a feature). The hosted one reads
  the file and returns segments or an error.
- Daylight-saving gaps in `local_instant`; comment webhooks of Linear, which share no
  state with the debounced ones; the X App, which keeps none at all.
- The state and metrics stores as such: every call is one SQL statement under a mutex, an
  atomic read or write in the models that use it.
- The dashboard, the build tasks and generated code.

Where an external service takes part (Lark, Linear, the disk), its call succeeds or fails,
reads of settings and files and the clean-up of files included, and nothing else is assumed of
it; SQLite's transactions are all or nothing.

What could come next: comment webhooks in Debounce; the redelivery of webhooks.
