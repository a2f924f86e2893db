------------------------------ MODULE EventLog ------------------------------
(***************************************************************************)
(* The console's event log: ids are drawn from one counter and events are  *)
(* broadcast by whichever thread logged (crates/larkstack-core/src/lib.rs, *)
(* tracing_layer.rs), one task copies the broadcast into SQLite            *)
(* (crates/larkstack/src/lib.rs, store.rs), and a browser follows it over  *)
(* SSE, first from the store and then live (routes/events.rs).             *)
(*                                                                         *)
(* An event is its id.  The broadcast channel keeps the last Buffer events *)
(* of this boot; a receiver is the number of them it is past.              *)
(***************************************************************************)
EXTENDS Integers, FiniteSets, Sequences, SequencesExt, FiniteSetsExt

CONSTANTS
  Threads,      \* threads that log
  Persister,    \* the persistence task, which logs its own failures
  NoId,         \* no id
  Buffer,       \* EVENT_BUFFER
  Backfill,     \* BACKFILL_LIMIT
  Retention,    \* RETENTION_CAP
  MaxId,        \* bound: ids drawn
  MaxFaults     \* bound: failed statements, restarts and dropped connections

ASSUME SizesAssumption ==
  /\ {Buffer, Backfill, Retention} \subseteq Nat \ {0} /\ {MaxId, MaxFaults} \subseteq Nat
  /\ Backfill < Buffer /\ Buffer < Retention
ASSUME NamesAssumption == Persister \notin Threads /\ NoId \notin Nat

VARIABLES
  nextId,       \* Inner.next_id
  misnumbered,  \* history: this boot did not learn which ids the store has
  drawn,        \* id a thread has drawn and not yet sent, or NoId
  sent,         \* events broadcast since boot, in order
  rows,         \* ids in the events table
  pos,          \* the persister's receiver
  holding,      \* event the persister is inserting, or NoId
  trimming,     \* it has inserted one, and still holds the connection to trim
  mustWarn,     \* it has a failure or a lag to log
  skipped,      \* history: events of this boot it will never store
  untrimmed,    \* history: no trim has come through since the last insert
  client,       \* the SSE client
  faults

vars == <<nextId, misnumbered, drawn, sent, rows, pos, holding, trimming, mustWarn, skipped,
          untrimmed, client, faults>>
logVars == <<nextId, misnumbered, drawn, sent>>
tableVars == <<rows, trimming, untrimmed>>
perVars == <<tableVars, pos, holding, mustWarn, skipped>>

Ids == 1..MaxId
Oldest == Max({0, Len(sent) - Buffer})   \* events the channel no longer holds

(* The client: its connection, its place in the broadcast, what is still   *)
(* to be replayed, what this connection gave it so far.                    *)
Away(last) == [at |-> "away", last |-> last, since |-> NoId, from |-> 0, pos |-> 0,
               backlog |-> <<>>, replayed |-> 0, got |-> <<>>, told |-> FALSE]

TypeOK ==
  /\ nextId \in 1..MaxId + 1 /\ misnumbered \in BOOLEAN
  /\ drawn \in [Threads \cup {Persister} -> Ids \cup {NoId}]
  /\ sent \in Seq(Ids)
  /\ rows \subseteq Ids
  /\ pos \in 0..Len(sent)
  /\ holding \in Ids \cup {NoId}
  /\ trimming \in BOOLEAN /\ untrimmed \in BOOLEAN
  /\ mustWarn \in BOOLEAN /\ skipped \subseteq Ids
  /\ faults \in 0..MaxFaults

Init ==
  /\ nextId = 1 /\ misnumbered = FALSE
  /\ drawn = [t \in Threads \cup {Persister} |-> NoId]
  /\ sent = <<>>
  /\ rows = {} /\ trimming = FALSE /\ untrimmed = FALSE
  /\ pos = 0 /\ holding = NoId /\ mustWarn = FALSE /\ skipped = {}
  /\ client = Away(NoId)
  /\ faults = 0

-----------------------------------------------------------------------------
(* ControlLayer::on_event: draw an id, then send.                          *)

NextEventId(t) ==
  /\ nextId <= MaxId /\ drawn[t] = NoId
  /\ t = Persister => mustWarn
  /\ drawn' = [drawn EXCEPT ![t] = nextId]
  /\ nextId' = nextId + 1
  /\ mustWarn' = (mustWarn /\ t # Persister)
  /\ UNCHANGED <<misnumbered, sent, tableVars, pos, holding, skipped, client, faults>>

Emit(t) ==
  /\ drawn[t] # NoId
  /\ sent' = Append(sent, drawn[t])
  /\ drawn' = [drawn EXCEPT ![t] = NoId]
  /\ UNCHANGED <<nextId, misnumbered, perVars, client, faults>>

-----------------------------------------------------------------------------
(* spawn_persistence: receive, insert, trim; on failure log and go on.     *)

PersisterIdle == holding = NoId /\ ~ trimming /\ ~ mustWarn /\ drawn[Persister] = NoId

Receive ==
  /\ PersisterIdle /\ pos < Len(sent) /\ pos >= Oldest
  /\ holding' = sent[pos + 1]
  /\ pos' = pos + 1
  /\ UNCHANGED <<logVars, tableVars, mustWarn, skipped, client, faults>>

ReceiveLagged ==
  /\ PersisterIdle /\ pos < Oldest
  /\ pos' = Oldest
  /\ mustWarn' = TRUE
  /\ skipped' = skipped \cup {sent[i] : i \in pos + 1..Oldest}
  /\ UNCHANGED <<logVars, tableVars, holding, client, faults>>

(* EventStore::persist, two statements that are committed one by one.      *)
Insert ==
  /\ holding # NoId /\ holding \notin rows
  /\ rows' = rows \cup {holding}
  /\ holding' = NoId
  /\ trimming' = TRUE /\ untrimmed' = TRUE
  /\ UNCHANGED <<logVars, pos, mustWarn, skipped, client, faults>>

(* The INSERT fails: on its primary key, or for a reason of the disk's. *)
InsertFails ==
  /\ holding # NoId
  /\ holding \in rows \/ faults < MaxFaults
  /\ faults' = IF holding \in rows THEN faults ELSE faults + 1
  /\ holding' = NoId /\ mustWarn' = TRUE
  /\ skipped' = skipped \cup {holding}
  /\ UNCHANGED <<logVars, tableVars, pos, client>>

(* DELETE ... WHERE id <= MAX(id) - RETENTION_CAP *)
Newest(ids) == {i \in ids : i > Max(ids) - Retention}

(* Mutant: id < instead of id <=, the window is one row too wide. *)
TrimBelow ==
  /\ trimming /\ trimming' = FALSE
  /\ rows' = {i \in rows : i >= Max(rows) - Retention} /\ untrimmed' = FALSE
  /\ UNCHANGED <<logVars, pos, holding, mustWarn, skipped, client, faults>>

Trim ==
  /\ trimming /\ trimming' = FALSE
  /\ rows' = Newest(rows) /\ untrimmed' = FALSE
  /\ UNCHANGED <<logVars, pos, holding, mustWarn, skipped, client, faults>>

(* The event is stored, and the log says it was not. *)
TrimFails ==
  /\ trimming /\ trimming' = FALSE
  /\ faults < MaxFaults /\ faults' = faults + 1
  /\ mustWarn' = TRUE
  /\ UNCHANGED <<logVars, rows, untrimmed, pos, holding, skipped, client>>

(* Mutant: boot does not advance the id counter past the store. *)
RestartFromOne ==
  /\ faults < MaxFaults /\ faults' = faults + 1
  /\ nextId' = 1 /\ misnumbered' = FALSE
  /\ drawn' = [t \in Threads \cup {Persister} |-> NoId]
  /\ sent' = <<>>
  /\ pos' = 0 /\ holding' = NoId /\ mustWarn' = FALSE /\ skipped' = {} /\ trimming' = FALSE
  /\ client' = Away(client.last)
  /\ UNCHANGED <<rows, untrimmed>>

(* Larkstack::run: the process dies, and the next one draws ids above the  *)
(* highest one stored.  EventStore::max_id takes a query that fails for an *)
(* empty table.                                                            *)
MaxStored == IF rows = {} THEN NoId ELSE Max(rows)

Restart ==
  /\ faults < MaxFaults /\ faults' = faults + 1
  /\ \/ nextId' = (IF MaxStored = NoId THEN 1 ELSE MaxStored + 1) /\ misnumbered' = FALSE
     \/ rows # {} /\ nextId' = 1 /\ misnumbered' = TRUE
  /\ drawn' = [t \in Threads \cup {Persister} |-> NoId]
  /\ sent' = <<>>
  /\ pos' = 0 /\ holding' = NoId /\ mustWarn' = FALSE /\ skipped' = {} /\ trimming' = FALSE
  /\ client' = Away(client.last)
  /\ UNCHANGED <<rows, untrimmed>>

-----------------------------------------------------------------------------
(* GET /api/events.                                                        *)

(* Subscribe first.  A reconnecting EventSource sends the last id it got;  *)
(* a fresh page sends none.                                                *)
Subscribe ==
  /\ client.at = "away"
  /\ \E since \in {NoId, client.last} :
       client' = [Away(client.last) EXCEPT !.at = "subscribed", !.since = since,
                                           !.from = Len(sent), !.pos = Len(sent)]
  /\ UNCHANGED <<logVars, perVars, faults>>

(* ORDER BY id: the n-th is the one with n up to it. *)
Ascending(ids) ==
  [n \in 1..Cardinality(ids) |-> CHOOSE x \in ids : Cardinality({y \in ids : y <= x}) = n]
FirstOf(s) == SubSeq(s, 1, Min({Backfill, Len(s)}))
LastOf(s) == SubSeq(s, Max({1, Len(s) - Backfill + 1}), Len(s))

(* EventStore::since and EventStore::recent *)
Replay(since) ==
  IF since = NoId THEN LastOf(Ascending(rows))
                  ELSE FirstOf(Ascending({i \in rows : i > since}))

(* Mutant: the live part subscribes only once the store has been read. *)
ReadThenSubscribe ==
  /\ client.at = "subscribed" /\ ~ trimming
  /\ LET replay == Replay(client.since)
     IN client' = [client EXCEPT !.at = "streaming", !.backlog = replay, !.pos = Len(sent),
                                 !.replayed = IF replay = <<>> THEN 0 ELSE Last(replay)]
  /\ UNCHANGED <<logVars, perVars, faults>>

(* Then read the store, and remember the last id it gave.  The connection  *)
(* is behind a mutex, which the persister keeps from insert to trim.       *)
ReadBackfill ==
  /\ client.at = "subscribed" /\ ~ trimming
  /\ LET replay == Replay(client.since)
     IN client' = [client EXCEPT !.at = "streaming", !.backlog = replay,
                                 !.replayed = IF replay = <<>> THEN 0 ELSE Last(replay)]
  /\ UNCHANGED <<logVars, perVars, faults>>

(* A store that cannot be read is an empty history. *)
ReadFails ==
  /\ client.at = "subscribed" /\ ~ trimming
  /\ faults < MaxFaults /\ faults' = faults + 1
  /\ client' = [client EXCEPT !.at = "streaming"]
  /\ UNCHANGED <<logVars, perVars>>

Give(c, id) == [c EXCEPT !.got = Append(@, id), !.last = id]

SendHistory ==
  /\ client.at = "streaming" /\ client.backlog # <<>>
  /\ client' = [Give(client, Head(client.backlog)) EXCEPT !.backlog = Tail(@)]
  /\ UNCHANGED <<logVars, perVars, faults>>

(* Mutant: the overlap of history and live part is not filtered. *)
SendLiveUnfiltered ==
  /\ client.at = "streaming" /\ client.backlog = <<>>
  /\ client.pos < Len(sent) /\ client.pos >= Oldest
  /\ client' = Give([client EXCEPT !.pos = @ + 1], sent[client.pos + 1])
  /\ UNCHANGED <<logVars, perVars, faults>>

(* The live part begins when the history is through.  An event that is not *)
(* past the last replayed id is taken for one that was in the history.     *)
SendLive ==
  /\ client.at = "streaming" /\ client.backlog = <<>>
  /\ client.pos < Len(sent) /\ client.pos >= Oldest
  /\ LET id == sent[client.pos + 1]
         c  == [client EXCEPT !.pos = @ + 1]
     IN client' = IF id <= client.replayed THEN c ELSE Give(c, id)
  /\ UNCHANGED <<logVars, perVars, faults>>

(* Mutant: the client is told, but the receiver stays where it was. *)
SendLaggedInPlace ==
  /\ client.at = "streaming" /\ client.backlog = <<>>
  /\ client.pos < Oldest
  /\ client' = [client EXCEPT !.told = TRUE]
  /\ UNCHANGED <<logVars, perVars, faults>>

SendLagged ==
  /\ client.at = "streaming" /\ client.backlog = <<>>
  /\ client.pos < Oldest
  /\ client' = [client EXCEPT !.pos = Oldest, !.told = TRUE]
  /\ UNCHANGED <<logVars, perVars, faults>>

Disconnect ==
  /\ client.at # "away"
  /\ faults < MaxFaults /\ faults' = faults + 1
  /\ client' = Away(client.last)
  /\ UNCHANGED <<logVars, perVars>>

-----------------------------------------------------------------------------
Store == Receive \/ ReceiveLagged \/ Insert \/ InsertFails \/ Trim \/ TrimFails
Stream == ReadBackfill \/ ReadFails \/ SendHistory \/ SendLive \/ SendLagged
Warn == NextEventId(Persister) \/ Emit(Persister)

Next ==
  \/ \E t \in Threads : NextEventId(t) \/ Emit(t)
  \/ Warn \/ Store \/ Restart
  \/ Subscribe \/ Stream \/ Disconnect

(* Tasks that can run do, and a thread that drew an id goes on to send it. *)
Fairness ==
  /\ \A t \in Threads : WF_vars(Emit(t))
  /\ WF_vars(Warn) /\ WF_vars(Store) /\ WF_vars(Stream)

Spec == Init /\ [][Next]_vars /\ Fairness

-----------------------------------------------------------------------------
(* No insert can fail on its key: every id on its way to the store is one  *)
(* the store does not have, over restarts and whatever was lost in them,   *)
(* as long as the boot could ask the store which ids it has.               *)
NoIdCollision == ~ misnumbered =>
  LET underway == {holding} \cup {sent[i] : i \in pos + 1..Len(sent)} \cup Range(drawn)
  IN rows \cap (underway \cup nextId..MaxId) = {}

(* Once a trim has come through, whatever crashes and failed trims had     *)
(* left before it, no row is older than the newest Retention ids.          *)
Retained == ~ untrimmed => \A i \in rows : i > Max(rows) - Retention

(* What the store relies on and keeps: no insert on a key it has, and      *)
(* after a trim the newest ids only.                                       *)
StoreInv == TypeOK /\ NoIdCollision /\ Retained

(* One connection never delivers an event twice, although the history and  *)
(* the live part overlap.                                                  *)
NeverTwice == client.got \in Seq(Ids) /\ IsInjective(client.got)

(* Overlapping them loses nothing by itself.  A client that was not told   *)
(* it lagged misses, of the events sent since it subscribed, only one that *)
(* a higher id overtook on its way to the channel, one the persister had   *)
(* to skip, one whose id the client says it has (a crash lost that event,  *)
(* and the id was drawn again), one that the replay of a fresh page, full  *)
(* to its limit, was already past, or one a whole table of higher ids had  *)
(* pushed out of the store before it was read (which takes as many threads *)
(* held up between drawing an id and sending it as the table is longer     *)
(* than the channel).  A read of the store that fails is no cause: the     *)
(* live part then gives all of them.  In a boot that did not learn which   *)
(* ids the store has nothing of this holds: what it sends is taken for     *)
(* what was replayed.                                                      *)
GapExplained ==
  ~ misnumbered /\ ~ client.told /\ client.at = "streaming" /\ client.backlog = <<>> =>
    \A i \in client.from + 1..client.pos :
      \/ sent[i] \in Range(client.got)
      \/ \E j \in 1..i - 1 : sent[j] > sent[i]
      \/ sent[i] \in skipped
      \/ client.since # NoId /\ sent[i] <= client.since
      \/ client.since = NoId
           /\ Cardinality({k \in Range(sent) : k > sent[i]}) >= Backfill
      \/ \E j \in 1..Len(sent) : sent[j] >= sent[i] + Retention

(* When logging stops, everything sent has been stored, or was dropped by  *)
(* a lag or an error that the log itself reports, and an open stream has   *)
(* caught up with the channel.                                             *)
CatchesUp ==
  <>[](/\ PersisterIdle \/ nextId > MaxId
       /\ PersisterIdle => pos = Len(sent)
       /\ client.at # "away" => client.at = "streaming" /\ client.pos = Len(sent))

-----------------------------------------------------------------------------
(* What the comment on emit says (larkstack-core/src/lib.rs:149): "Build   *)
(* the event with Self::next_event_id so id ordering matches emission      *)
(* order".                                                                 *)
EmissionOrder == \A i, j \in 1..Len(sent) : i < j => sent[i] < sent[j]
=============================================================================
