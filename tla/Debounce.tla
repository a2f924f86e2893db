------------------------------ MODULE Debounce ------------------------------
(***************************************************************************)
(* Linear issue webhooks, from the request to the Lark cards: updates of   *)
(* one issue are merged in a map until a window passes without another one *)
(* (apps/integrations/linear/src/domain/debounce.rs, routes/webhook.rs).   *)
(*                                                                         *)
(* Every update spawns a detached timer task that owns the state of the    *)
(* generation its request came in on, map included.  Timers outlive a      *)
(* restart of the App; nothing outlives the process.  Comment webhooks,    *)
(* which take no part in the window, are left out.                         *)
(***************************************************************************)
EXTENDS LinearApp, Naturals, FiniteSets, Sequences, Functions

CONSTANTS
  Updates,     \* issue webhooks that pass the signature check
  Users,       \* Linear users, each with an email
  Lines,       \* change lines a card can carry
  Webhook,     \* what each of them says
  Gens,        \* generations of the App, 1..n
  Unchanged,   \* the payload's updatedFrom does not name the assignee
  MaxMishaps   \* bound: process crashes and cards that nobody takes

(* created tells a create from an update; was is the assignee updatedFrom  *)
(* gives, who may be nobody; moved says that it gives a state.             *)
Webhooks == [issue : Issues, created : BOOLEAN, moved : BOOLEAN, lines : SUBSET Lines,
             was : Users \cup {None, Unchanged}, assignee : Users \cup {None},
             actor : Users \cup {None}]

ASSUME WebhookAssumption == Webhook \in [Updates -> Webhooks]
ASSUME NamesAssumption == None \notin Users \cup Updates /\ Unchanged \notin Users \cup {None}
ASSUME BoundsAssumption == Gens = 1..Cardinality(Gens) /\ 1 \in Gens /\ MaxMishaps \in Nat

(* A PendingUpdate.  An update's timer has the update's name.  shown is    *)
(* the update whose snapshot of the issue the card shows, merged is        *)
(* history: every update that went in, in order.                           *)
Entry == [created : BOOLEAN, moved : BOOLEAN, lines : SUBSET Lines, dm : Users \cup {None},
          actor : Users \cup {None}, shown : Updates, timer : Updates, merged : Seq(Updates)]

ASSUME NoEntryIsNone == None \notin Entry

VARIABLES
  live,      \* generation the webhook route serves
  home,      \* generation whose state an update's request holds, or None
  map,       \* each generation's DebounceMap
  timer,     \* each update's timer task
  taken,     \* the PendingUpdate a timer took out of the map, or None
  sent,      \* history: issue cards posted, each as the entry it was made from
  refused,   \* history: those that reached no chat
  lost,      \* history: updates a crash wiped out
  crashes

vars == <<live, home, map, timer, taken, sent, refused, lost, crashes>>

Stages == {"none", "accepted", "asleep", "due", "card", "direct", "done"}

TypeOK ==
  /\ live \in Gens
  /\ home \in [Updates -> Gens \cup {None}]
  /\ map \in [Gens -> [Issues -> Entry \cup {None}]]
  /\ timer \in [Updates -> Stages]
  /\ taken \in [Updates -> Entry \cup {None}]
  /\ sent \subseteq Entry /\ refused \subseteq Entry
  /\ lost \subseteq Updates /\ crashes \in Nat

NoEntries == [g \in Gens |-> [i \in Issues |-> None]]

Init ==
  /\ live = 1
  /\ home = [u \in Updates |-> None]
  /\ map = NoEntries
  /\ timer = [u \in Updates |-> "none"]
  /\ taken = [u \in Updates |-> None]
  /\ sent = {} /\ refused = {} /\ lost = {} /\ crashes = 0

-----------------------------------------------------------------------------
(* DebounceMap::upsert.                                                    *)

IssueOf(u) == Webhook[u].issue

(* The assignee is DMed on a create, and on an update whose updatedFrom    *)
(* names a previous one: a null there reads as if it were absent.          *)
DmOf(u) ==
  LET w == Webhook[u]
  IN IF w.created \/ w.was \in Users THEN w.assignee ELSE None

Fresh(u) ==
  [created |-> Webhook[u].created, moved |-> ~ Webhook[u].created /\ Webhook[u].moved,
   lines |-> IF Webhook[u].created THEN {} ELSE Webhook[u].lines,
   dm |-> DmOf(u), actor |-> Webhook[u].actor, shown |-> u, timer |-> u, merged |-> <<u>>]

Or(new, old) == IF new # None THEN new ELSE old

(* Mutant: whether the status changed is taken from the last update only.  *)
MergeForgetsMove(old, u) ==
  LET new == Fresh(u)
  IN [new EXCEPT !.created = @ \/ old.created, !.lines = @ \cup old.lines,
                 !.dm = Or(@, old.dm), !.actor = Or(@, old.actor),
                 !.merged = old.merged \o @]

Merge(old, u) ==
  LET new == Fresh(u)
  IN [new EXCEPT !.created = @ \/ old.created, !.moved = @ \/ old.moved,
                 !.lines = @ \cup old.lines, !.dm = Or(@, old.dm),
                 !.actor = Or(@, old.actor), !.merged = old.merged \o @]

-----------------------------------------------------------------------------
(* webhook_handler: the extractor takes the live state, the handler merges *)
(* the update into that state's map and spawns the timer.                  *)
Accept(u) ==
  /\ timer[u] = "none"
  /\ timer' = [timer EXCEPT ![u] = "accepted"]
  /\ home' = [home EXCEPT ![u] = live]
  /\ UNCHANGED <<live, map, taken, sent, refused, lost, crashes>>

Schedule(u) ==
  LET g == home[u] i == IssueOf(u)
  IN /\ timer[u] = "accepted"
     /\ map' = [map EXCEPT ![g][i] = IF @ = None THEN Fresh(u) ELSE Merge(@, u)]
     /\ timer' = [timer EXCEPT ![u] = "asleep"]
     /\ UNCHANGED <<live, home, taken, sent, refused, lost, crashes>>

(* The timer task selects between its sleep and cancel_rx, which resolves  *)
(* when the entry that holds the other end is replaced or taken.           *)
Pending(u) == map[home[u]][IssueOf(u)]
Superseded(u) == Pending(u) # None => Pending(u).timer # u

(* Mutant: an expired sleep is taken for a cancellation. *)
ElapseCancelled(u) ==
  /\ timer[u] = "asleep"
  /\ timer' = [timer EXCEPT ![u] = "done"]
  /\ UNCHANGED <<live, home, map, taken, sent, refused, lost, crashes>>

Elapse(u) ==
  /\ timer[u] = "asleep"
  /\ timer' = [timer EXCEPT ![u] = "due"]
  /\ UNCHANGED <<live, home, map, taken, sent, refused, lost, crashes>>

Cancelled(u) ==
  /\ timer[u] = "asleep" /\ Superseded(u)
  /\ timer' = [timer EXCEPT ![u] = "done"]
  /\ UNCHANGED <<live, home, map, taken, sent, refused, lost, crashes>>

(* Mutant: the entry is read but stays in the map. *)
TakeCopy(u) ==
  /\ timer[u] = "due"
  /\ timer' = [timer EXCEPT ![u] = IF Pending(u) = None THEN "done" ELSE "card"]
  /\ taken' = [taken EXCEPT ![u] = Pending(u)]
  /\ UNCHANGED <<live, home, map, sent, refused, lost, crashes>>

(* DebounceMap::take: whatever is there, by whichever timer. *)
Take(u) ==
  /\ timer[u] = "due"
  /\ timer' = [timer EXCEPT ![u] = IF Pending(u) = None THEN "done" ELSE "card"]
  /\ taken' = [taken EXCEPT ![u] = Pending(u)]
  /\ map' = [map EXCEPT ![home[u]][IssueOf(u)] = None]
  /\ UNCHANGED <<live, home, sent, refused, lost, crashes>>

-----------------------------------------------------------------------------
(* send_debounced: the card first, to the destinations the live config     *)
(* routes it to ...                                                        *)
SendCard(u) ==
  /\ timer[u] = "card"
  /\ sent' = sent \cup {taken[u]}
  /\ timer' = [timer EXCEPT ![u] = "direct"]
  /\ UNCHANGED <<live, home, map, taken, refused, lost, crashes>>

Mishaps == crashes + Cardinality(refused)

(* ... which may be none, or there is no bot, or Lark refuses them all:    *)
(* deliver logs that and goes on, and nobody keeps the entry ...           *)
CardRefused(u) ==
  /\ timer[u] = "card" /\ Mishaps < MaxMishaps
  /\ refused' = refused \cup {taken[u]}
  /\ timer' = [timer EXCEPT ![u] = "direct"]
  /\ UNCHANGED <<live, home, map, taken, sent, lost, crashes>>

(* ... then the assignee's DM and the fan-out to subscribers, best effort  *)
(* as well, whatever became of the card.                                   *)
SendDirect(u) ==
  /\ timer[u] = "direct"
  /\ timer' = [timer EXCEPT ![u] = "done"]
  /\ taken' = [taken EXCEPT ![u] = None]
  /\ UNCHANGED <<live, home, map, sent, refused, lost, crashes>>

-----------------------------------------------------------------------------
(* The supervisor builds the next generation, with a map of its own. *)
Rebuild ==
  /\ live + 1 \in Gens
  /\ live' = live + 1
  /\ UNCHANGED <<home, map, timer, taken, sent, refused, lost, crashes>>

(* Entries nobody has sent yet: in a map, or taken for the cards.          *)
Unsent == {map[g][i] : g \in Gens, i \in Issues}
            \cup {taken[u] : u \in {v \in Updates : timer[v] = "card"}}

Crash ==
  /\ Mishaps < MaxMishaps /\ crashes' = crashes + 1
  /\ lost' = lost \cup {u \in Updates : timer[u] = "accepted"}
                  \cup {u \in Updates : \E e \in Unsent \ {None} : u \in Range(e.merged)}
  /\ map' = NoEntries
  /\ timer' = [u \in Updates |-> IF timer[u] = "none" THEN "none" ELSE "done"]
  /\ taken' = [u \in Updates |-> None]
  /\ UNCHANGED <<live, home, sent, refused>>

TimerTask(u) ==
  Elapse(u) \/ Cancelled(u) \/ Take(u) \/ SendCard(u) \/ CardRefused(u) \/ SendDirect(u)

Next ==
  \/ \E u \in Updates : Accept(u) \/ Schedule(u) \/ TimerTask(u)
  \/ Rebuild \/ Crash

(* As long as a handler or a timer can go on, one does, which is all that  *)
(* is needed: each takes a few steps in all.  No one has to send a webhook.*)
Fairness == WF_vars(\E u \in Updates : Schedule(u) \/ TimerTask(u))

Spec == Init /\ [][Next]_vars /\ Fairness

-----------------------------------------------------------------------------
Groups == (Unsent \ {None}) \cup sent \cup refused

(* No update is dropped or offered twice: each one that was merged is in   *)
(* exactly one entry, still in a map, on its way out, sent or refused,     *)
(* whichever timers raced for it and whichever generation they belong to.  *)
ExactlyOnce ==
  \A u \in Updates : timer[u] \notin {"none", "accepted"} =>
    IF u \in lost THEN \A e \in Groups : u \notin Range(e.merged)
    ELSE \E e \in Groups : \A f \in Groups : u \in Range(f.merged) <=> f = e

(* Every pending entry has a timer that will take it, unless another does  *)
(* first: cancelling an old timer never leaves the merged entry stranded.  *)
TimerArmed ==
  \A g \in Gens, i \in Issues :
    LET e == map[g][i]
    IN e # None => home[e.timer] = g /\ IssueOf(e.timer) = i /\ timer[e.timer] \in {"asleep", "due"}

(* No update is stranded, dropped or offered twice.                        *)
PendingInv == TypeOK /\ ExactlyOnce /\ TimerArmed

(* What a notification says is what the updates in it say together: the    *)
(* last snapshot, a create if any was, every change line, the last DM and  *)
(* the last known actor, whatever the order they were merged in.           *)
LastKnown(said, m, value) ==
  \/ value = None /\ \A k \in 1..Len(m) : said[m[k]] = None
  \/ value # None /\ \E k \in 1..Len(m) :
       said[m[k]] = value /\ \A j \in k + 1..Len(m) : said[m[j]] = None

DmSaid == [u \in Updates |-> DmOf(u)]
ActorSaid == [u \in Updates |-> Webhook[u].actor]

Faithful(e) ==
  LET m == e.merged
      Changing == {u \in Range(m) : ~ Webhook[u].created}
  IN /\ e.shown = m[Len(m)]
     /\ e.created <=> \E u \in Range(m) : Webhook[u].created
     /\ e.moved <=> \E u \in Changing : Webhook[u].moved
     /\ e.lines = UNION {Webhook[u].lines : u \in Changing}
     /\ LastKnown(DmSaid, m, e.dm) /\ LastKnown(ActorSaid, m, e.actor)
     /\ \A u, v \in Range(m) : IssueOf(u) = IssueOf(v)

MergeFaithful == \A e \in Groups : Faithful(e)

(* Every update taken in goes out on a card in the end, unless the process *)
(* died with it: no restart, race of timers or merge stalls it.  The card  *)
(* is posted, or it is the one that reached nobody: it is not offered      *)
(* again, and what it said is in no later one.                             *)
EventuallySent ==
  \A u \in Updates :
    timer[u] = "accepted" ~> u \in lost \/ \E e \in sent \cup refused : u \in Range(e.merged)
=============================================================================
