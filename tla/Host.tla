-------------------------------- MODULE Host --------------------------------
(***************************************************************************)
(* The host from boot to shutdown (Larkstack::run in                       *)
(* crates/larkstack/src/lib.rs): stores and configuration, the migrations  *)
(* of every App, the session key, then the routes, among them the console's*)
(* sign-in.  Composes Migrations and SignIn; the Apps' own lives are in    *)
(* Supervisor, the event log's recovery in EventLog.                       *)
(***************************************************************************)
EXTENDS Migrations, SignIn

CONSTANTS
  MaxStops,  \* bound: shutdowns and crashes
  MaxFaults, \* bound: failures of the disk and of Lark, and denials
  MaxEdits,  \* bound: edits of the configuration
  MaxNow     \* bound: the clock

ASSUME HostBoundsAssumption == {MaxStops, MaxFaults, MaxEdits, MaxNow} \subseteq Nat

VARIABLES
  host,      \* "down", "opening", "migrating", "key", "serving", "draining"
  watching,  \* some browser has an event stream open
  stops, faults, edits

hostVars == <<host, watching, stops, faults, edits>>
vars == <<migrationVars, signInVars, hostVars>>

Init ==
  /\ MigrationsInit /\ SignInInit
  /\ host = "down" /\ watching = FALSE /\ stops = 0 /\ faults = 0 /\ edits = 0

TypeOK ==
  /\ MigrationsTypeOK /\ SignInTypeOK
  /\ host \in {"down", "opening", "migrating", "key", "serving", "draining"}
  /\ watching \in BOOLEAN

Quiet == UNCHANGED <<watching, stops, faults, edits>>
Fault == faults < MaxFaults /\ faults' = faults + 1 /\ UNCHANGED <<watching, stops, edits>>

(* The process is started.                                                 *)
Start ==
  /\ host = "down" /\ host' = "opening"
  /\ Quiet /\ UNCHANGED <<migrationVars, signInVars>>

(* Data directory, event store, configuration (the default one where there *)
(* is no file) and stores are opened.                                      *)
OpenStores ==
  /\ host = "opening" /\ host' = "migrating"
  /\ BeginMigrations /\ Quiet /\ UNCHANGED signInVars

(* An error on the way up ends run, and with it the process.               *)
BootFails ==
  /\ host \in {"opening", "key"} /\ Fault /\ host' = "down"
  /\ StopMigrations /\ UNCHANGED signInVars

Migrate ==
  /\ host = "migrating" /\ (Skip \/ Up \/ Commit \/ Reject \/ Supervise)
  /\ Quiet /\ UNCHANGED <<host, signInVars>>

MigrationFault ==
  /\ host = "migrating" /\ Fault /\ DiskFails
  /\ UNCHANGED <<host, signInVars>>

Migrated ==
  /\ host = "migrating" /\ queue = <<>> /\ host' = "key"
  /\ Quiet /\ UNCHANGED <<migrationVars, signInVars>>

(* The key, the router and the listener.                                   *)
Serve ==
  /\ host = "key" /\ UNCHANGED migrationVars
  /\ \/ LoadKey /\ Quiet /\ host' = "serving"
     \/ (LoadKeyUnread \/ LoadKeyUnkept) /\ Fault /\ host' = "serving"

ServeCutShort ==
  /\ host = "key" /\ KeyCutShort /\ Fault /\ host' = "down"
  /\ StopMigrations

Receive ==
  /\ host = "serving" /\ \E l \in Logins : Login(l) \/ Callback(l)
  /\ Quiet /\ UNCHANGED <<migrationVars, host>>

(* A callback already received goes on while the host shuts down.          *)
Finish ==
  /\ host \in {"serving", "draining"} /\ \E l \in Logins : Exchange(l)
  /\ Quiet /\ UNCHANGED <<migrationVars, host>>

(* What the browser does, whether or not the host is there.                *)
Browse ==
  /\ \E l \in Logins : Redirected(l) \/ Answered(l) \/ \E a \in Accounts : Decide(l, a)
  /\ Quiet /\ UNCHANGED <<migrationVars, host>>

Misfortune ==
  /\ \E l \in Logins : Decide(l, None) \/ LarkFails(l)
  /\ Fault /\ UNCHANGED <<migrationVars, host>>

SignOut ==
  /\ host = "serving" /\ Logout
  /\ Quiet /\ UNCHANGED <<migrationVars, host>>

Edit ==
  /\ host = "serving" /\ edits < MaxEdits /\ edits' = edits + 1
  /\ \E c \in Configs : Configure(c)
  /\ UNCHANGED <<migrationVars, host, watching, stops, faults>>

TimePasses ==
  /\ now < MaxNow /\ Tick
  /\ Quiet /\ UNCHANGED <<migrationVars, host>>

(* A callback sent to a host that is not listening.                        *)
Unheard ==
  /\ host # "serving"
  /\ \E l \in Logins : stage[l] = "back" /\ Dropped({l})
  /\ Quiet /\ UNCHANGED <<migrationVars, host>>

(* GET /api/events: a stream that ends when the browser goes away, and not *)
(* before, or with the process.                                            *)
Watch ==
  /\ host = "serving" /\ LetIn /\ ~ watching /\ watching' = TRUE
  /\ UNCHANGED <<migrationVars, signInVars, host, stops, faults, edits>>

Unwatch ==
  /\ watching /\ watching' = FALSE
  /\ UNCHANGED <<migrationVars, signInVars, host, stops, faults, edits>>

Exchanging == {l \in Logins : stage[l] = "exchange"}

InFlight == watching \/ Exchanging # {}

(* A signal: the listener closes, requests in flight are finished.         *)
Shutdown ==
  /\ host = "serving" /\ stops < MaxStops /\ host' = "draining"
  /\ stops' = stops + 1
  /\ UNCHANGED <<migrationVars, signInVars, watching, faults, edits>>

Exit ==
  /\ host = "draining" /\ ~ InFlight /\ host' = "down"
  /\ StopMigrations /\ Quiet /\ UNCHANGED signInVars

Crash ==
  /\ host # "down" /\ stops < MaxStops /\ stops' = stops + 1
  /\ host' = "down" /\ watching' = FALSE /\ StopMigrations /\ Dropped(Exchanging)
  /\ UNCHANGED <<faults, edits>>

Install ==
  /\ host = "down" /\ Upgrade
  /\ Quiet /\ UNCHANGED <<host, signInVars>>

Boot == Start \/ OpenStores \/ Migrate \/ Migrated \/ Serve \/ Exit

Next ==
  \/ Boot \/ BootFails \/ MigrationFault \/ ServeCutShort
  \/ Receive \/ Finish \/ Browse \/ Misfortune \/ SignOut \/ Edit \/ TimePasses \/ Unheard
  \/ Watch \/ Unwatch \/ Shutdown \/ Crash \/ Install

(* Whoever runs the host starts it again; Lark's answers come, and with    *)
(* them the callbacks end.  Nothing makes a browser close its stream.      *)
Fairness == WF_vars(Boot) /\ WF_vars(Finish)

Spec == Init /\ [][Next]_vars /\ Fairness

-----------------------------------------------------------------------------
(* SignIn.SessionLasts of the host that serves.                            *)
SessionSurvives == SessionLasts(host = "serving")

(* What a boot finds in the database is what the migrations it records     *)
(* have left there (Migrations.SchemaAsRecorded).                          *)
BootInv == TypeOK /\ SchemaAsRecorded

(* The host comes up whatever its Apps' migrations do, and with every      *)
(* healthy App but those the disk failed in this boot; unless it was told  *)
(* to stop and waits for a browser that does not close its stream.         *)
UpAgain ==
  /\ host = "serving"
  /\ \A a \in ToSet(Apps) : Healthy(a) => a \in supervised \cup unlucky

BootsAnyway == <>[] UpAgain \/ <>[](host = "draining" /\ watching)
=============================================================================
