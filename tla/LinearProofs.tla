---------------------------- MODULE LinearProofs ----------------------------
(***************************************************************************)
(* The linear App.  What the Debounce run checks of four webhooks, proved  *)
(* for any number of webhooks, issues, generations, crashes and cards that *)
(* reach nobody: no update is stranded, dropped or offered twice, and      *)
(* merging is faithful.  And what the Reminders run checks of two issues   *)
(* over four days, for any issues, deadlines and cadences, any number of   *)
(* days, edits and faults.                                                 *)
(***************************************************************************)
EXTENDS Debounce, Reminders, FiniteSetTheorems, SequenceTheorems, WellFoundedInduction, TLAPS

(* Where an update that has been merged is: in an entry of a map, on its   *)
(* way out with a timer, or offered to its destinations.                   *)
InMap(u, g, i) == map[g][i] # None /\ u \in Range(map[g][i].merged)
InCard(u, v) == timer[v] = "card" /\ u \in Range(taken[v].merged)
InOffer(u, e) == e \in sent \cup refused /\ u \in Range(e.merged)

Nowhere(u) ==
  /\ \A g \in Gens, i \in Issues : ~ InMap(u, g, i)
  /\ \A v \in Updates : ~ InCard(u, v)
  /\ \A e \in Entry : ~ InOffer(u, e)

Somewhere(u) ==
  \/ \E g \in Gens, i \in Issues : InMap(u, g, i)
  \/ \E v \in Updates : InCard(u, v)
  \/ \E e \in Entry : InOffer(u, e)

AtOnePlace(u) ==
  /\ \A g, h \in Gens, i, j \in Issues : InMap(u, g, i) /\ InMap(u, h, j) => g = h /\ i = j
  /\ \A v, w \in Updates : InCard(u, v) /\ InCard(u, w) => v = w
  /\ \A e, f \in Entry : InOffer(u, e) /\ InOffer(u, f) => e = f
  /\ \A g \in Gens, i \in Issues, v \in Updates : ~ (InMap(u, g, i) /\ InCard(u, v))
  /\ \A g \in Gens, i \in Issues, e \in Entry : ~ (InMap(u, g, i) /\ InOffer(u, e))
  /\ \A v \in Updates, e \in Entry : ~ (InCard(u, v) /\ InOffer(u, e))

Placed(u) ==
  /\ timer[u] \in {"none", "accepted"} \/ u \in lost => Nowhere(u)
  /\ timer[u] \notin {"none", "accepted"} /\ u \notin lost => Somewhere(u)
  /\ AtOnePlace(u)
  /\ u \in lost => timer[u] = "done"

(* A webhook that was accepted has a home, a timer on its way out an entry.*)
TasksInv ==
  \A u \in Updates : /\ timer[u] # "none" => home[u] \in Gens
                     /\ timer[u] \in {"card", "direct"} => taken[u] # None

PlacesInv == TypeOK /\ TasksInv /\ TimerArmed /\ \A u \in Updates : Placed(u)

-----------------------------------------------------------------------------
LEMMA FreshEntry ==
  ASSUME NEW u \in Updates
  PROVE  Fresh(u) \in Entry /\ Fresh(u).timer = u /\ Range(Fresh(u).merged) = {u}
<1>1. Webhook[u] \in Webhooks
  BY WebhookAssumption
<1>2. DmOf(u) \in Users \cup {None}
  BY <1>1 DEF DmOf, Webhooks
<1>3. <<u>> \in Seq(Updates) /\ Range(<<u>>) = {u}
  BY DEF Range
<1>4. QED
  BY <1>1, <1>2, <1>3 DEF Fresh, Entry, Webhooks

LEMMA MergedEntry ==
  ASSUME NEW u \in Updates, NEW old \in Entry
  PROVE  /\ Merge(old, u) \in Entry /\ Merge(old, u).timer = u
         /\ Range(Merge(old, u).merged) = Range(old.merged) \cup {u}
<1>1. Fresh(u) \in Entry /\ Fresh(u).timer = u /\ Fresh(u).merged = <<u>>
  BY FreshEntry DEF Fresh
<1>2. old.merged \in Seq(Updates)
  BY DEF Entry
<1>3. old.merged \o <<u>> \in Seq(Updates)
      /\ Range(old.merged \o <<u>>) = Range(old.merged) \cup {u}
  <2>1. Len(old.merged \o <<u>>) = Len(old.merged) + 1 /\ Len(old.merged) \in Nat
    BY <1>2
  <2>2. \A k \in 1..Len(old.merged) : (old.merged \o <<u>>)[k] = old.merged[k]
    BY <1>2
  <2>3. (old.merged \o <<u>>)[Len(old.merged) + 1] = u
    BY <1>2
  <2>4. old.merged \o <<u>> \in Seq(Updates)
    BY <1>2
  <2>5. DOMAIN old.merged = 1..Len(old.merged)
        /\ DOMAIN (old.merged \o <<u>>) = 1..Len(old.merged) + 1
    BY <1>2, <2>1, <2>4
  <2>6. QED
    BY <2>1, <2>2, <2>3, <2>4, <2>5 DEF Range
<1>4. QED
  BY <1>1, <1>2, <1>3 DEF Merge, Entry, Or

LEMMA TypeNext ==
  ASSUME TypeOK, TasksInv, [Next]_vars
  PROVE  TypeOK' /\ TasksInv'
<1>1. CASE UNCHANGED vars
  BY <1>1 DEF vars, TypeOK, TasksInv
<1>2. ASSUME NEW u \in Updates, Accept(u) PROVE TypeOK' /\ TasksInv'
  BY <1>2 DEF Accept, TypeOK, TasksInv, Stages
<1>3. ASSUME NEW u \in Updates, Schedule(u) PROVE TypeOK' /\ TasksInv'
  <2>1. home[u] \in Gens /\ IssueOf(u) \in Issues
    BY <1>3, WebhookAssumption DEF Schedule, TasksInv, IssueOf, Webhooks
  <2>2. map' \in [Gens -> [Issues -> Entry \cup {None}]]
    BY <1>3, <2>1, FreshEntry, MergedEntry DEF Schedule, TypeOK
  <2>3. QED
    BY <1>3, <2>2 DEF Schedule, TypeOK, TasksInv, Stages
<1>4. ASSUME NEW u \in Updates, Elapse(u) \/ Cancelled(u) PROVE TypeOK' /\ TasksInv'
  BY <1>4 DEF Elapse, Cancelled, TypeOK, TasksInv, Stages
<1>5. ASSUME NEW u \in Updates, Take(u) PROVE TypeOK' /\ TasksInv'
  <2>1. home[u] \in Gens /\ IssueOf(u) \in Issues
    BY <1>5, WebhookAssumption DEF Take, TasksInv, IssueOf, Webhooks
  <2>2. QED
    BY <1>5, <2>1 DEF Take, Pending, TypeOK, TasksInv, Stages
<1>6. ASSUME NEW u \in Updates, SendCard(u) \/ CardRefused(u) PROVE TypeOK' /\ TasksInv'
  <2>1. taken[u] \in Entry
    BY <1>6 DEF SendCard, CardRefused, TypeOK, TasksInv
  <2>2. QED
    BY <1>6, <2>1 DEF SendCard, CardRefused, TypeOK, TasksInv, Stages
<1>7. ASSUME NEW u \in Updates, SendDirect(u) PROVE TypeOK' /\ TasksInv'
  BY <1>7 DEF SendDirect, TypeOK, TasksInv, Stages
<1>8. CASE Rebuild
  BY <1>8 DEF Rebuild, TypeOK, TasksInv
<1>9. CASE Crash
  <2>1. lost' \subseteq Updates
    <3>1. \A e \in Entry : Range(e.merged) \subseteq Updates
      BY DEF Entry, Range
    <3>2. \A p \in Gens \X Issues : map[p[1]][p[2]] # None => map[p[1]][p[2]] \in Entry
      BY DEF TypeOK
    <3>3. \A v \in Updates : timer[v] = "card" => taken[v] \in Entry
      BY DEF TypeOK, TasksInv
    <3>4. QED
      BY <1>9, <3>1, <3>2, <3>3 DEF Crash, TypeOK
  <2>2. crashes' \in Nat
    BY <1>9 DEF Crash, TypeOK
  <2>3. QED
    BY <1>9, <2>1, <2>2 DEF Crash, NoEntries, TypeOK, TasksInv, Stages
<1>10. QED
  BY <1>1, <1>2, <1>3, <1>4, <1>5, <1>6, <1>7, <1>8, <1>9 DEF Next, TimerTask

LEMMA ArmedNext ==
  ASSUME TypeOK, TasksInv, TimerArmed, [Next]_vars
  PROVE  TimerArmed'
<1>1. CASE UNCHANGED vars
  BY <1>1 DEF vars, TimerArmed
<1>2. ASSUME NEW u \in Updates, Accept(u) PROVE TimerArmed'
  BY <1>2 DEF Accept, TypeOK, TimerArmed, Entry
<1>3. ASSUME NEW u \in Updates, Schedule(u) PROVE TimerArmed'
  <2>1. home[u] \in Gens /\ IssueOf(u) \in Issues
    BY <1>3, WebhookAssumption DEF Schedule, TasksInv, IssueOf, Webhooks
  <2>2. /\ \A g \in Gens, i \in Issues : g # home[u] \/ i # IssueOf(u) => map'[g][i] = map[g][i]
        /\ map'[home[u]][IssueOf(u)].timer = u
    BY <1>3, <2>1, FreshEntry, MergedEntry DEF Schedule, TypeOK
  <2>3. /\ timer'[u] = "asleep" /\ UNCHANGED home
        /\ \A v \in Updates \ {u} : timer'[v] = timer[v]
    BY <1>3 DEF Schedule, TypeOK
  <2>4. \A g \in Gens, i \in Issues : map[g][i] # None => map[g][i].timer \in Updates
    BY DEF TypeOK, Entry
  <2>5. QED
    BY <2>1, <2>2, <2>3, <2>4 DEF TimerArmed
<1>4. ASSUME NEW u \in Updates, Elapse(u) \/ Cancelled(u) PROVE TimerArmed'
  BY <1>4 DEF Elapse, Cancelled, Superseded, Pending, TypeOK, TimerArmed, Entry
<1>5. ASSUME NEW u \in Updates, Take(u) PROVE TimerArmed'
  <2>1. home[u] \in Gens /\ IssueOf(u) \in Issues
    BY <1>5, WebhookAssumption DEF Take, TasksInv, IssueOf, Webhooks
  <2>2. /\ \A g \in Gens, i \in Issues : g # home[u] \/ i # IssueOf(u) => map'[g][i] = map[g][i]
        /\ map'[home[u]][IssueOf(u)] = None
    BY <1>5, <2>1 DEF Take, TypeOK
  <2>3. UNCHANGED home /\ \A v \in Updates \ {u} : timer'[v] = timer[v]
    BY <1>5 DEF Take, TypeOK
  <2>4. \A g \in Gens, i \in Issues : map[g][i] # None => map[g][i].timer \in Updates
    BY DEF TypeOK, Entry
  <2>5. QED
    BY <2>1, <2>2, <2>3, <2>4 DEF TimerArmed
<1>6. ASSUME NEW u \in Updates, SendCard(u) \/ CardRefused(u) \/ SendDirect(u) PROVE TimerArmed'
  <2>1. /\ timer[u] \in {"card", "direct"} /\ UNCHANGED <<map, home>>
        /\ \A v \in Updates \ {u} : timer'[v] = timer[v]
    BY <1>6 DEF SendCard, CardRefused, SendDirect, TypeOK
  <2>2. \A g \in Gens, i \in Issues : map[g][i] # None => map[g][i].timer \in Updates
    BY DEF TypeOK, Entry
  <2>3. QED
    BY <2>1, <2>2 DEF TimerArmed
<1>7. CASE Rebuild
  BY <1>7 DEF Rebuild, TimerArmed
<1>8. CASE Crash
  BY <1>8 DEF Crash, NoEntries, TimerArmed
<1>9. QED
  BY <1>1, <1>2, <1>3, <1>4, <1>5, <1>6, <1>7, <1>8 DEF Next, TimerTask

-----------------------------------------------------------------------------
(* Places.  A step that changes what is held where only for the updates of *)
(* one entry, by moving that entry, keeps them all placed.                 *)

(* Nothing an update's place depends on changes.                           *)
LEMMA PlaceKept ==
  ASSUME NEW u \in Updates, Placed(u),
         u \in lost' <=> u \in lost, u \in lost => timer'[u] = "done",
         timer'[u] \in {"none", "accepted"} <=> timer[u] \in {"none", "accepted"},
         \A g \in Gens, i \in Issues : InMap(u, g, i)' <=> InMap(u, g, i),
         \A v \in Updates : InCard(u, v)' <=> InCard(u, v),
         \A e \in Entry : InOffer(u, e)' <=> InOffer(u, e)
  PROVE  Placed(u)'
<1>1. (Nowhere(u)' <=> Nowhere(u)) /\ (Somewhere(u)' <=> Somewhere(u))
  BY DEF Nowhere, Somewhere
<1>2. AtOnePlace(u)'
  BY DEF Placed, AtOnePlace
<1>3. QED
  BY <1>1, <1>2 DEF Placed

LEMMA PlacesNext ==
  ASSUME PlacesInv, [Next]_vars, NEW x \in Updates
  PROVE  Placed(x)'
<1>a. TypeOK /\ TasksInv /\ Placed(x)
  BY DEF PlacesInv
<1>1. CASE UNCHANGED vars
  BY <1>1, <1>a, PlaceKept DEF vars, InMap, InCard, InOffer, Placed
<1>2. ASSUME NEW u \in Updates, Accept(u) PROVE Placed(x)'
  <2>1. \A v \in Updates : timer'[v] = "card" <=> timer[v] = "card"
    BY <1>2, <1>a DEF Accept, TypeOK
  <2>2. timer'[x] \in {"none", "accepted"} <=> timer[x] \in {"none", "accepted"}
    BY <1>2, <1>a DEF Accept, TypeOK
  <2>3. QED
    <3>1. x \in lost => timer'[x] = "done"
      BY <1>2, <1>a DEF Accept, TypeOK, Placed
    <3>2. UNCHANGED <<map, taken, sent, refused, lost>>
      BY <1>2 DEF Accept
    <3>3. QED
      BY <1>a, <2>1, <2>2, <3>1, <3>2, PlaceKept DEF InMap, InCard, InOffer
<1>3. ASSUME NEW u \in Updates, Schedule(u) PROVE Placed(x)'
  <2> DEFINE g == home[u]
             i == IssueOf(u)
  <2>1. g \in Gens /\ i \in Issues
    BY <1>3, <1>a, WebhookAssumption DEF Schedule, TasksInv, IssueOf, Webhooks
  <2>2. \A h \in Gens, j \in Issues : h # g \/ j # i => map'[h][j] = map[h][j]
    BY <1>3, <1>a, <2>1 DEF Schedule, TypeOK
  <2>3. map'[g][i] = IF map[g][i] = None THEN Fresh(u) ELSE Merge(map[g][i], u)
    BY <1>3, <1>a, <2>1 DEF Schedule, TypeOK
  <2>4. map'[g][i] \in Entry \cup {None}
    BY <1>3, <1>a, <2>1, TypeNext DEF TypeOK
  <2>5. /\ map'[g][i] # None
        /\ Range(map'[g][i].merged) =
             {u} \cup (IF map[g][i] = None THEN {} ELSE Range(map[g][i].merged))
    <3>1. CASE map[g][i] = None
      BY <2>3, <3>1, FreshEntry, NoEntryIsNone
    <3>2. CASE map[g][i] # None
      <4>1. map[g][i] \in Entry
        BY <1>a, <2>1, <3>2 DEF TypeOK
      <4>2. /\ Merge(map[g][i], u) \in Entry
            /\ Range(Merge(map[g][i], u).merged) = Range(map[g][i].merged) \cup {u}
        BY <4>1, MergedEntry
      <4>3. QED
        BY <2>3, <3>2, <4>2, NoEntryIsNone
    <3>3. QED
      BY <3>1, <3>2
  <2>6. /\ timer[u] = "accepted" /\ timer'[u] = "asleep" /\ UNCHANGED <<taken, sent, refused, lost>>
        /\ \A v \in Updates \ {u} : timer'[v] = timer[v]
    BY <1>3, <1>a DEF Schedule, TypeOK
  <2>7. /\ \A h \in Gens, j \in Issues :
              InMap(x, h, j)' <=> InMap(x, h, j) \/ (x = u /\ h = g /\ j = i)
        /\ \A v \in Updates : InCard(x, v)' <=> InCard(x, v)
        /\ \A e \in Entry : InOffer(x, e)' <=> InOffer(x, e)
    BY <2>1, <2>2, <2>5, <2>6 DEF InMap, InCard, InOffer
  <2>8. CASE x # u
    <3>1. x \in lost => timer'[x] = "done"
      BY <1>a, <2>6, <2>8 DEF Placed
    <3>2. QED
      BY <1>a, <2>6, <2>7, <2>8, <3>1, PlaceKept
  <2>9. CASE x = u
    <3>1. Nowhere(u) /\ u \notin lost
      BY <1>a, <2>6, <2>9 DEF Placed
    <3>2. QED
      BY <1>a, <2>1, <2>6, <2>7, <2>9, <3>1 DEF Placed, Nowhere, Somewhere, AtOnePlace
  <2>10. QED
    BY <2>8, <2>9
<1>4. ASSUME NEW u \in Updates, Elapse(u) \/ Cancelled(u) PROVE Placed(x)'
  <2>1. /\ timer[u] = "asleep" /\ timer'[u] \in {"due", "done"} /\ UNCHANGED <<map, taken, sent, refused, lost>>
        /\ \A v \in Updates \ {u} : timer'[v] = timer[v]
    BY <1>4, <1>a DEF Elapse, Cancelled, TypeOK
  <2>2. \A v \in Updates : timer'[v] = "card" <=> timer[v] = "card"
    BY <2>1
  <2>3. x \in lost => timer'[x] = "done"
    BY <1>a, <2>1 DEF Placed
  <2>4. QED
    BY <1>a, <2>1, <2>2, <2>3, PlaceKept DEF InMap, InCard, InOffer
<1>5. ASSUME NEW u \in Updates, Take(u) PROVE Placed(x)'
  <2> DEFINE g == home[u]
             i == IssueOf(u)
  <2>1. g \in Gens /\ i \in Issues
    BY <1>5, <1>a, WebhookAssumption DEF Take, TasksInv, IssueOf, Webhooks
  <2>2. /\ \A h \in Gens, j \in Issues : h # g \/ j # i => map'[h][j] = map[h][j]
        /\ map'[g][i] = None
    BY <1>5, <1>a, <2>1 DEF Take, TypeOK
  <2>3. /\ timer[u] = "due" /\ UNCHANGED <<sent, refused, lost>>
        /\ timer'[u] = IF map[g][i] = None THEN "done" ELSE "card"
        /\ taken'[u] = map[g][i]
        /\ \A v \in Updates \ {u} : timer'[v] = timer[v] /\ taken'[v] = taken[v]
    BY <1>5, <1>a DEF Take, Pending, TypeOK
  <2>4. /\ \A h \in Gens, j \in Issues :
              InMap(x, h, j)' <=> InMap(x, h, j) /\ ~ (h = g /\ j = i)
        /\ \A v \in Updates : InCard(x, v)' <=> InCard(x, v) \/ (v = u /\ InMap(x, g, i))
        /\ \A e \in Entry : InOffer(x, e)' <=> InOffer(x, e)
        /\ ~ InCard(x, u)
    BY <2>1, <2>2, <2>3 DEF InMap, InCard, InOffer
  <2>5. /\ x \in lost => timer'[x] = "done"
        /\ timer'[x] \in {"none", "accepted"} <=> timer[x] \in {"none", "accepted"}
    BY <1>a, <2>3 DEF Placed
  <2>6. CASE ~ InMap(x, g, i)
    BY <1>a, <2>3, <2>4, <2>5, <2>6, PlaceKept
  <2>7. CASE InMap(x, g, i)
    <3>1. AtOnePlace(x)'
      BY <1>a, <2>1, <2>4, <2>7 DEF Placed, AtOnePlace
    <3>2. Somewhere(x)' /\ ~ Nowhere(x)
      BY <2>1, <2>4, <2>7 DEF Somewhere, Nowhere
    <3>3. QED
      BY <1>a, <2>3, <2>5, <3>1, <3>2 DEF Placed
  <2>8. QED
    BY <2>6, <2>7
<1>6. ASSUME NEW u \in Updates, SendCard(u) \/ CardRefused(u) PROVE Placed(x)'
  <2>1. /\ timer[u] = "card" /\ timer'[u] = "direct" /\ UNCHANGED <<map, taken, lost>>
        /\ sent' \cup refused' = sent \cup refused \cup {taken[u]} /\ taken[u] \in Entry
        /\ \A v \in Updates \ {u} : timer'[v] = timer[v]
    BY <1>6, <1>a DEF SendCard, CardRefused, TypeOK, TasksInv
  <2>2. /\ \A h \in Gens, j \in Issues : InMap(x, h, j)' <=> InMap(x, h, j)
        /\ \A v \in Updates : InCard(x, v)' <=> InCard(x, v) /\ v # u
        /\ \A e \in Entry : InOffer(x, e)' <=> InOffer(x, e) \/ (e = taken[u] /\ InCard(x, u))
    BY <2>1 DEF InMap, InCard, InOffer
  <2>3. /\ x \in lost => timer'[x] = "done"
        /\ timer'[x] \in {"none", "accepted"} <=> timer[x] \in {"none", "accepted"}
    BY <1>a, <2>1 DEF Placed
  <2>4. CASE ~ InCard(x, u)
    BY <1>a, <2>1, <2>2, <2>3, <2>4, PlaceKept
  <2>5. CASE InCard(x, u)
    <3>1. AtOnePlace(x)'
      BY <1>a, <2>1, <2>2, <2>5 DEF Placed, AtOnePlace
    <3>2. Somewhere(x)' /\ ~ Nowhere(x)
      BY <2>1, <2>2, <2>5 DEF Somewhere, Nowhere
    <3>3. QED
      BY <1>a, <2>1, <2>3, <3>1, <3>2 DEF Placed
  <2>6. QED
    BY <2>4, <2>5
<1>7. ASSUME NEW u \in Updates, SendDirect(u) PROVE Placed(x)'
  <2>1. /\ timer[u] = "direct" /\ timer'[u] = "done" /\ UNCHANGED <<map, sent, refused, lost>>
        /\ \A v \in Updates \ {u} : timer'[v] = timer[v] /\ taken'[v] = taken[v]
    BY <1>7, <1>a DEF SendDirect, TypeOK
  <2>2. x \in lost => timer'[x] = "done"
    BY <1>a, <2>1 DEF Placed
  <2>3. QED
    BY <1>a, <2>1, <2>2, PlaceKept DEF InMap, InCard, InOffer
<1>8. CASE Rebuild
  BY <1>8, <1>a, PlaceKept DEF Rebuild, InMap, InCard, InOffer, Placed
<1>9. CASE Crash
  <2>1. /\ timer'[x] = IF timer[x] = "none" THEN "none" ELSE "done"
        /\ UNCHANGED <<sent, refused>>
        /\ x \in lost' <=> \/ x \in lost \/ timer[x] = "accepted"
                          \/ \E e \in Unsent \ {None} : x \in Range(e.merged)
    BY <1>9 DEF Crash
  <2>2. /\ \A g \in Gens, i \in Issues : ~ InMap(x, g, i)'
        /\ \A v \in Updates : ~ InCard(x, v)'
        /\ \A e \in Entry : InOffer(x, e)' <=> InOffer(x, e)
    BY <1>9 DEF Crash, NoEntries, InMap, InCard, InOffer
  <2>3. AtOnePlace(x)'
    BY <1>a, <2>2 DEF Placed, AtOnePlace
  <2>4. (\E e \in Unsent \ {None} : x \in Range(e.merged)) <=>
          \/ \E g \in Gens, i \in Issues : InMap(x, g, i)
          \/ \E v \in Updates : InCard(x, v)
    BY <1>a DEF Unsent, InMap, InCard, TasksInv
  <2>5. CASE x \in lost'
    <3>1. timer[x] # "none" /\ Nowhere(x)'
      BY <1>a, <2>1, <2>2, <2>4, <2>5 DEF Placed, Nowhere, AtOnePlace
    <3>2. QED
      BY <2>1, <2>3, <2>5, <3>1 DEF Placed
  <2>6. CASE x \notin lost'
    <3>1. timer[x] = "none" => Nowhere(x)'
      BY <1>a, <2>2 DEF Placed, Nowhere
    <3>2. timer[x] # "none" => Somewhere(x)'
      BY <1>a, <2>1, <2>2, <2>4, <2>6 DEF Placed, Somewhere
    <3>3. QED
      BY <2>1, <2>3, <2>6, <3>1, <3>2 DEF Placed
  <2>7. QED
    BY <2>5, <2>6
<1>10. QED
  BY <1>1, <1>2, <1>3, <1>4, <1>5, <1>6, <1>7, <1>8, <1>9 DEF Next, TimerTask

LEMMA PlacesExactlyOnce == PlacesInv => ExactlyOnce
<1> SUFFICES ASSUME PlacesInv, NEW u \in Updates, timer[u] \notin {"none", "accepted"}
             PROVE  IF u \in lost THEN \A e \in Groups : u \notin Range(e.merged)
                    ELSE \E e \in Groups : \A f \in Groups : u \in Range(f.merged) <=> f = e
  BY DEF ExactlyOnce
<1>1. TypeOK /\ TasksInv /\ Placed(u)
  BY DEF PlacesInv
<1>2. ASSUME NEW e
      PROVE  e \in Groups /\ u \in Range(e.merged) <=>
               \/ \E g \in Gens, i \in Issues : InMap(u, g, i) /\ e = map[g][i]
               \/ \E v \in Updates : InCard(u, v) /\ e = taken[v]
               \/ e \in Entry /\ InOffer(u, e)
  BY <1>1 DEF Groups, Unsent, InMap, InCard, InOffer, TasksInv, TypeOK
<1>3. CASE u \in lost
  BY <1>1, <1>2, <1>3 DEF Placed, Nowhere
<1>4. CASE u \notin lost
  <2>1. \E e : e \in Groups /\ u \in Range(e.merged)
    BY <1>1, <1>2, <1>4 DEF Placed, Somewhere
  <2>2. \A e, f : /\ e \in Groups /\ u \in Range(e.merged)
                 /\ f \in Groups /\ u \in Range(f.merged) => e = f
    BY <1>1, <1>2 DEF Placed, AtOnePlace
  <2>3. QED
    BY <1>4, <2>1, <2>2
<1>5. QED
  BY <1>3, <1>4

(* No webhook that was taken in is stranded, dropped or offered twice:     *)
(* whichever timers race, and whichever generation their maps belong to,   *)
(* each is in one entry that has a timer, on its way out, sent or refused, *)
(* unless the process died with it (DebounceMap::upsert and take).         *)
THEOREM PendingInvHolds == Spec => []PendingInv
<1>1. Init => PlacesInv
  BY BoundsAssumption DEF Init, NoEntries, PlacesInv, TypeOK, Stages, TasksInv, TimerArmed, Placed, Nowhere,
     AtOnePlace, InMap, InCard, InOffer
<1>2. PlacesInv /\ [Next]_vars => PlacesInv'
  BY TypeNext, ArmedNext, PlacesNext DEF PlacesInv
<1>3. PlacesInv => PendingInv
  BY PlacesExactlyOnce DEF PlacesInv, PendingInv
<1>4. QED
  BY <1>1, <1>2, <1>3, PTL DEF Spec

-----------------------------------------------------------------------------
(* What the cards say.                                                     *)

LEMMA LastKnownAppended ==
  ASSUME NEW said \in [Updates -> Users \cup {None}], NEW m \in Seq(Updates),
         NEW value, NEW u \in Updates, LastKnown(said, m, value)
  PROVE  LastKnown(said, m \o <<u>>, Or(said[u], value))
<1> DEFINE n == m \o <<u>>
<1>1. /\ Len(n) = Len(m) + 1 /\ Len(m) \in Nat /\ n[Len(m) + 1] = u
      /\ \A k \in 1..Len(m) : n[k] = m[k]
  OBVIOUS
<1> HIDE DEF n
<1>2. CASE said[u] # None
  <2>1. Len(n) \in 1..Len(n) /\ \A j \in Len(n) + 1..Len(n) : FALSE
    BY <1>1
  <2>2. QED
    BY <1>1, <1>2, <2>1 DEF LastKnown, Or, n
<1>3. CASE said[u] = None
  <2>1. CASE value = None
    BY <1>1, <1>3, <2>1 DEF LastKnown, Or, n
  <2>2. CASE value # None
    <3>1. PICK k \in 1..Len(m) : said[m[k]] = value
                                /\ \A j \in k + 1..Len(m) : said[m[j]] = None
      BY <2>2 DEF LastKnown
    <3>2. k \in 1..Len(n) /\ said[n[k]] = value
      BY <1>1, <3>1
    <3>3. \A j \in k + 1..Len(n) : said[n[j]] = None
      BY <1>1, <1>3, <3>1
    <3>4. QED
      BY <1>3, <2>2, <3>2, <3>3 DEF LastKnown, Or, n
  <2>3. QED
    BY <2>1, <2>2
<1>4. QED
  BY <1>2, <1>3

LEMMA Says ==
  DmSaid \in [Updates -> Users \cup {None}] /\ ActorSaid \in [Updates -> Users \cup {None}]
BY WebhookAssumption DEF DmSaid, ActorSaid, DmOf, Webhooks

LEMMA FreshFaithful == ASSUME NEW u \in Updates PROVE Faithful(Fresh(u))
<1> DEFINE m == <<u>>
<1>1. Len(m) = 1 /\ m[1] = u /\ Range(m) = {u}
  BY DEF Range
<1>2. Webhook[u] \in Webhooks
  BY WebhookAssumption
<1>3. \A said : LastKnown(said, m, said[u])
  BY <1>1 DEF LastKnown
<1>4. LastKnown(DmSaid, m, DmOf(u)) /\ LastKnown(ActorSaid, m, Webhook[u].actor)
  BY <1>3 DEF DmSaid, ActorSaid
<1>5. LET e == Fresh(u)
      IN /\ e.merged = m /\ e.shown = u /\ e.created = Webhook[u].created
         /\ e.moved = (~ Webhook[u].created /\ Webhook[u].moved)
         /\ e.lines = IF Webhook[u].created THEN {} ELSE Webhook[u].lines
         /\ e.dm = DmOf(u) /\ e.actor = Webhook[u].actor
  BY DEF Fresh
<1> HIDE DEF m
<1>6. Webhook[u].created \in BOOLEAN /\ Webhook[u].moved \in BOOLEAN
  BY <1>2 DEF Webhooks
<1> DEFINE e == Fresh(u)
<1> HIDE DEF e
<1>7. /\ e.shown = m[Len(m)]
      /\ e.created <=> \E v \in Range(m) : Webhook[v].created
      /\ e.moved <=> \E v \in Range(m) : ~ Webhook[v].created /\ Webhook[v].moved
      /\ \A v, w \in Range(m) : IssueOf(v) = IssueOf(w)
  BY <1>1, <1>5, <1>6 DEF e
<1>8. e.lines = UNION {Webhook[v].lines : v \in {w \in Range(m) : ~ Webhook[w].created}}
  BY <1>1, <1>5, <1>6 DEF e
<1>9. e.merged = m /\ LastKnown(DmSaid, m, e.dm) /\ LastKnown(ActorSaid, m, e.actor)
  BY <1>4, <1>5 DEF e
<1>10. QED
  BY <1>7, <1>8, <1>9 DEF Faithful, e

LEMMA MergedFaithful ==
  ASSUME NEW u \in Updates, NEW old \in Entry, Faithful(old),
         \A v \in Range(old.merged) : IssueOf(v) = IssueOf(u)
  PROVE  Faithful(Merge(old, u))
<1> DEFINE m == old.merged
           n == m \o <<u>>
           e == Merge(old, u)
<1>1. m \in Seq(Updates)
  BY DEF Entry
<1>2. Len(n) = Len(m) + 1 /\ n[Len(n)] = u
  BY <1>1
<1>3. Range(n) = Range(m) \cup {u} /\ e.merged = n
  BY MergedEntry DEF Merge, Fresh
<1>4. Webhook[u] \in Webhooks
  BY WebhookAssumption
<1>5. /\ e.shown = u
      /\ e.created = (Webhook[u].created \/ old.created)
      /\ e.moved = ((~ Webhook[u].created /\ Webhook[u].moved) \/ old.moved)
      /\ e.lines = (IF Webhook[u].created THEN {} ELSE Webhook[u].lines) \cup old.lines
      /\ e.dm = Or(DmSaid[u], old.dm) /\ e.actor = Or(ActorSaid[u], old.actor)
  BY DEF Merge, Fresh, DmSaid, ActorSaid
<1>6. LastKnown(DmSaid, n, e.dm) /\ LastKnown(ActorSaid, n, e.actor)
  BY <1>1, <1>5, Says, LastKnownAppended DEF Faithful
<1> HIDE DEF e, n, m
<1>7. /\ e.created <=> \E v \in Range(n) : Webhook[v].created
      /\ e.moved <=> \E v \in Range(n) : ~ Webhook[v].created /\ Webhook[v].moved
      /\ \A v, w \in Range(n) : IssueOf(v) = IssueOf(w)
  BY <1>3, <1>5 DEF Faithful, m
<1>8. e.lines = UNION {Webhook[v].lines : v \in {w \in Range(n) : ~ Webhook[w].created}}
  BY <1>3, <1>5 DEF Faithful, m
<1>9. QED
  BY <1>2, <1>3, <1>5, <1>6, <1>7, <1>8 DEF Faithful, e

(* Every entry says what its updates say, and is where its issue's go.     *)
SaysInv ==
  /\ \A g \in Gens, i \in Issues : map[g][i] # None =>
       Faithful(map[g][i]) /\ \A u \in Range(map[g][i].merged) : IssueOf(u) = i
  /\ \A u \in Updates : timer[u] = "card" => Faithful(taken[u])
  /\ \A e \in sent \cup refused : Faithful(e)

LEMMA SaysNext ==
  ASSUME TypeOK, TasksInv, SaysInv, [Next]_vars
  PROVE  SaysInv'
<1> USE DEF SaysInv
<1>a. \A e : Faithful(e)' <=> Faithful(e)
  BY DEF Faithful, LastKnown, DmSaid, ActorSaid, DmOf, IssueOf
<1>1. CASE UNCHANGED vars
  BY <1>1 DEF vars
<1>2. ASSUME NEW u \in Updates, Accept(u) PROVE SaysInv'
  BY <1>2 DEF Accept, TypeOK
<1>3. ASSUME NEW u \in Updates, Schedule(u) PROVE SaysInv'
  <2> DEFINE g == home[u]
             i == IssueOf(u)
  <2>1. g \in Gens /\ i \in Issues
    BY <1>3, WebhookAssumption DEF Schedule, TasksInv, IssueOf, Webhooks
  <2>2. /\ \A h \in Gens, j \in Issues : h # g \/ j # i => map'[h][j] = map[h][j]
        /\ map'[g][i] = IF map[g][i] = None THEN Fresh(u) ELSE Merge(map[g][i], u)
    BY <1>3, <2>1 DEF Schedule, TypeOK
  <2>3. Faithful(map'[g][i]) /\ \A v \in Range(map'[g][i].merged) : IssueOf(v) = i
    <3>1. CASE map[g][i] = None
      BY <2>2, <3>1, FreshFaithful, FreshEntry
    <3>2. CASE map[g][i] # None
      <4>1. map[g][i] \in Entry
        BY <2>1, <3>2 DEF TypeOK
      <4>2. Faithful(map[g][i]) /\ \A v \in Range(map[g][i].merged) : IssueOf(v) = i
        BY <2>1, <3>2
      <4>3. Faithful(Merge(map[g][i], u))
            /\ Range(Merge(map[g][i], u).merged) = Range(map[g][i].merged) \cup {u}
        BY <4>1, <4>2, MergedFaithful, MergedEntry
      <4>4. QED
        BY <2>2, <3>2, <4>2, <4>3
    <3>3. QED
      BY <3>1, <3>2
  <2>4. /\ timer'[u] = "asleep" /\ UNCHANGED <<taken, sent, refused>>
        /\ \A v \in Updates \ {u} : timer'[v] = timer[v]
    BY <1>3 DEF Schedule, TypeOK
  <2>5. QED
    BY <2>1, <2>2, <2>3, <2>4
<1>4. ASSUME NEW u \in Updates, Elapse(u) \/ Cancelled(u) PROVE SaysInv'
  BY <1>4 DEF Elapse, Cancelled, TypeOK
<1>5. ASSUME NEW u \in Updates, Take(u) PROVE SaysInv'
  <2> DEFINE g == home[u]
             i == IssueOf(u)
  <2>1. g \in Gens /\ i \in Issues
    BY <1>5, WebhookAssumption DEF Take, TasksInv, IssueOf, Webhooks
  <2>2. /\ \A h \in Gens, j \in Issues : h # g \/ j # i => map'[h][j] = map[h][j]
        /\ map'[g][i] = None
    BY <1>5, <2>1 DEF Take, TypeOK
  <2>3. /\ UNCHANGED <<sent, refused>> /\ taken'[u] = map[g][i]
        /\ timer'[u] = "card" => map[g][i] # None
        /\ \A v \in Updates \ {u} : timer'[v] = timer[v] /\ taken'[v] = taken[v]
    BY <1>5 DEF Take, Pending, TypeOK
  <2>4. QED
    BY <2>1, <2>2, <2>3
<1>6. ASSUME NEW u \in Updates, SendCard(u) \/ CardRefused(u) \/ SendDirect(u) PROVE SaysInv'
  BY <1>6 DEF SendCard, CardRefused, SendDirect, TypeOK
<1>7. CASE Rebuild
  BY <1>7 DEF Rebuild
<1>8. CASE Crash
  BY <1>8 DEF Crash, NoEntries
<1>9. QED
  BY <1>1, <1>2, <1>3, <1>4, <1>5, <1>6, <1>7, <1>8 DEF Next, TimerTask

(* A notification merged from any number of webhooks, in whatever order    *)
(* they came and whichever timers they had, says what they say together:   *)
(* the last snapshot, every change, the last DM and the last known actor   *)
(* (DebounceMap::upsert).                                                  *)
THEOREM MergeFaithfulHolds == Spec => []MergeFaithful
<1> DEFINE IInv == TypeOK /\ TasksInv /\ SaysInv
<1>1. Init => IInv
  BY BoundsAssumption DEF Init, NoEntries, TypeOK, Stages, TasksInv, SaysInv
<1>2. IInv /\ [Next]_vars => IInv'
  BY TypeNext, SaysNext
<1>3. IInv => MergeFaithful
  BY DEF SaysInv, MergeFaithful, Groups, Unsent
<1>4. QED
  BY <1>1, <1>2, <1>3, PTL DEF Spec

-----------------------------------------------------------------------------
(* What current_tier picks.                                                *)

LEMMA LeastIs ==
  ASSUME NEW S \in SUBSET Nat, S # {}
  PROVE  Least(S) \in S /\ \A y \in S : Least(S) <= y
<1>1. PICK m \in S : \A y \in S : ~ (<<y, m>> \in OpToRel(<, Nat))
  BY NatLessThanWellFounded, WFMin, Zenon
<1>2. \A y \in S : ~ (y < m)
  BY <1>1 DEF OpToRel
<1>3. \A y \in S : m <= y
  BY <1>2
<1>4. QED
  BY <1>3 DEF Least

(* A threshold is the nearest one ahead of the deadline's distance; past   *)
(* the deadline the tier is the distance itself.                           *)
LEMMA TierIs ==
  ASSUME NEW c \in Cadences \cup {Default}, NEW days \in Int, CurrentTier(days, c) # None
  PROVE  LET tier == CurrentTier(days, c)
         IN /\ tier \in Int /\ days <= tier
            /\ IF days < 0 THEN tier = days /\ -days <= c.cap
               ELSE tier \in c.leads /\ \A l \in c.leads : days <= l => tier <= l
<1> DEFINE reached == {l \in c.leads : days <= l}
<1>1. c.leads \subseteq Nat /\ c.cap \in Nat
  BY CadencesAssumption
<1>2. CASE days < 0
  <2>1. CurrentTier(days, c) = days /\ -days <= c.cap
    BY <1>2 DEF CurrentTier
  <2>2. QED
    BY <1>2, <2>1
<1>3. CASE ~ (days < 0)
  <2>1. days >= 0
    BY <1>3
  <2>2. reached # {} /\ CurrentTier(days, c) = Least(reached)
    BY <2>1 DEF CurrentTier
  <2>3. Least(reached) \in reached /\ \A l \in reached : Least(reached) <= l
    <3>1. reached \in SUBSET Nat
      BY <1>1
    <3>2. QED
      BY <2>2, <3>1, LeastIs
  <2>4. QED
    BY <1>1, <1>3, <2>2, <2>3
<1>4. QED
  BY <1>2, <1>3

(* The nearer the deadline, the smaller the tier.                          *)
LEMMA TierFalls ==
  ASSUME NEW c \in Cadences \cup {Default}, NEW d \in Int, NEW e \in Int, d <= e,
         CurrentTier(d, c) # None, CurrentTier(e, c) # None
  PROVE  CurrentTier(d, c) <= CurrentTier(e, c)
<1>1. c.leads \subseteq Nat
  BY CadencesAssumption
<1> DEFINE s == CurrentTier(d, c)
           t == CurrentTier(e, c)
<1>2. /\ s \in Int /\ d <= s
      /\ IF d < 0 THEN s = d ELSE s \in c.leads /\ \A l \in c.leads : d <= l => s <= l
  BY TierIs
<1>3. /\ t \in Int /\ e <= t
      /\ IF e < 0 THEN t = e ELSE t \in c.leads /\ \A l \in c.leads : e <= l => t <= l
  BY TierIs
<1> HIDE DEF s, t
<1>4. s <= t
  BY <1>1, <1>2, <1>3
<1>5. QED
  BY <1>4 DEF s, t

-----------------------------------------------------------------------------
(* Whatever a pass sends is the one tier due.                              *)

(* A pass that sends or records has a reminder in hand, and what it is     *)
(* about to record was sent, to somebody or in vain.                       *)
InHand ==
  /\ pc \in {"send", "record"} => current \in Reminder
  /\ pc = "record" => current \in told \cup missed

PassIInv == PassInv /\ InHand

LEMMA WindowIsDays ==
  ASSUME NEW c, NEW t, NEW d, d \in Window(c, t)
  PROVE  d \in Int
BY DEF Window

LEMMA PassInit == RemindersInit => PassIInv
BY FiguresAssumption DEF RemindersInit, PassIInv, PassInv, RemindersTypeOK, NoBacklog, InHand

LEMMA PassNext == PassIInv /\ [RemindersNext]_remindersVars => PassIInv'
<1> SUFFICES ASSUME PassIInv, [RemindersNext]_remindersVars PROVE PassIInv'
  OBVIOUS
<1> USE DEF envVars, passVars, World
<1>a. /\ RemindersTypeOK /\ NoBacklog /\ InHand
      /\ faults \in Nat /\ MaxFaults \in Nat /\ LastDay \in Nat
      /\ \A c \in Cadences \cup {Default} : c.zone \in Int
      /\ Deadlines \subseteq Int
  BY FiguresAssumption, CadencesAssumption, DeadlinesAssumption
     DEF PassIInv, PassInv, RemindersTypeOK
<1>1. CASE Load
  BY <1>1, <1>a DEF Load, MayFail, PassIInv, PassInv, RemindersTypeOK, NoBacklog, InHand
<1>2. CASE Fetch
  <2>1. today' \in Int
    BY <1>2, <1>a DEF Fetch, Local, RemindersTypeOK
  <2>2. todo' \subseteq Issues \X Deadlines
    <3>1. \A j \in Issues : due[j] \in Window(loaded, Local(loaded)) => due[j] \in Deadlines
      BY <1>a, WindowIsDays, NoneAssumption DEF RemindersTypeOK
    <3>2. QED
      BY <1>2, <3>1 DEF Fetch
  <2>3. QED
    BY <1>2, <1>a, <2>1, <2>2 DEF Fetch, PassIInv, PassInv, RemindersTypeOK, NoBacklog, InHand
<1>3. CASE FetchFails \/ FetchPanics \/ EndPass \/ Wake
  BY <1>3, <1>a DEF FetchFails, FetchPanics, EndPass, Wake, MayFail,
                    PassIInv, PassInv, RemindersTypeOK, NoBacklog, InHand
<1>4. CASE Pick
  <2>1. PICK x \in todo : /\ todo' = todo \ {x} /\ TierOf(x) # None
                          /\ current' = <<x[1], x[2], TierOf(x)>>
    BY <1>4 DEF Pick
  <2>2. x[1] \in Issues /\ x[2] \in Deadlines /\ x[2] - today \in Int
    <3>1. x \in Issues \X Deadlines /\ today \in Int
      BY <1>a DEF RemindersTypeOK
    <3>2. x[1] \in Issues /\ x[2] \in Deadlines
      BY <3>1
    <3>3. today \in Int /\ x[2] \in Int
      BY <1>a, <3>1, <3>2
    <3>4. QED
      BY <3>2, <3>3
  <2>3. /\ TierOf(x) \in Int
        /\ LET days == x[2] - today IN
           IF days < 0 THEN TierOf(x) = days
           ELSE /\ TierOf(x) \in loaded.leads /\ days <= TierOf(x)
                /\ \A l \in loaded.leads : days <= l => TierOf(x) <= l
    BY <1>a, <2>1, <2>2, TierIs DEF TierOf, RemindersTypeOK
  <2>4. /\ current' \in Reminder /\ current'[1] = x[1] /\ current'[2] = x[2]
        /\ current'[3] = TierOf(x)
    BY <2>1, <2>2, <2>3 DEF Reminder
  <2>5. /\ pc' = "send"
        /\ UNCHANGED <<envVars, ledger, loaded, today, told, missed, repeats, faults>>
    BY <1>4 DEF Pick
  <2>6. RemindersTypeOK'
    BY <1>a, <2>1, <2>4, <2>5 DEF RemindersTypeOK
  <2>7. NoBacklog'
    BY <2>3, <2>4, <2>5 DEF NoBacklog
  <2>8. QED
    BY <2>4, <2>5, <2>6, <2>7 DEF PassIInv, PassInv, InHand
<1>5. CASE PassOver
  BY <1>5, <1>a DEF PassOver, MayFail, PassIInv, PassInv, RemindersTypeOK, NoBacklog, InHand
<1>6. CASE Send
  BY <1>6, <1>a DEF Send, PassIInv, PassInv, RemindersTypeOK, NoBacklog, InHand
<1>v. CASE SendInVain
  BY <1>v, <1>a DEF SendInVain, MayFail, PassIInv, PassInv, RemindersTypeOK, NoBacklog, InHand
<1>7. CASE Record
  BY <1>7, <1>a DEF Record, MayFail, PassIInv, PassInv, RemindersTypeOK, NoBacklog, InHand
<1>8. CASE RemindersCrash
  BY <1>8, <1>a DEF RemindersCrash, MayFail, PassIInv, PassInv, RemindersTypeOK, NoBacklog, InHand
<1>9. CASE NewDay \/ PutSettings \/ Reschedule
  BY <1>9, <1>a DEF NewDay, PutSettings, Reschedule, PassIInv, PassInv,
                  RemindersTypeOK, NoBacklog, InHand
<1>10. CASE UNCHANGED remindersVars
  BY <1>10 DEF remindersVars, PassIInv, PassInv, RemindersTypeOK, NoBacklog, InHand
<1>11. QED
  BY <1>1, <1>2, <1>3, <1>4, <1>5, <1>6, <1>v, <1>7, <1>8, <1>9, <1>10 DEF RemindersNext, Scheduler

LEMMA PassInvariance == RemindersSpec => []PassIInv
BY PassInit, PassNext, PTL DEF RemindersSpec

(* Whatever a pass sends is the tier of its day that no threshold comes    *)
(* before (current_tier, run_pass), and the ledger has only reminders that *)
(* were sent, to somebody or in vain (record).                             *)
THEOREM PassInvHolds == RemindersSpec => []PassInv
<1>1. PassIInv => PassInv
  BY DEF PassIInv
<1>2. QED
  BY <1>1, PassInvariance, PTL
-----------------------------------------------------------------------------
(* Every repetition has a fault of its own: what was sent and is not in    *)
(* the ledger is owed to one, and is the only thing that may be repeated.  *)

OnRecord == ledger \cup IF pc = "record" THEN {current} ELSE {}
Owed == told \ OnRecord

DebtInv ==
  /\ IsFiniteSet(told)
  /\ repeats + Cardinality(Owed) <= faults
  /\ pc = "send" => current \notin ledger

LEMMA OneMore ==
  ASSUME NEW S, IsFiniteSet(S), NEW x, NEW T \in SUBSET (S \cup {x})
  PROVE  IsFiniteSet(T) /\ Cardinality(T) \in Nat /\ Cardinality(T) <= Cardinality(S) + 1
<1>1. IsFiniteSet(S \cup {x}) /\ Cardinality(S) \in Nat
      /\ Cardinality(S \cup {x}) <= Cardinality(S) + 1
  <2>1. /\ IsFiniteSet(S \cup {x}) /\ Cardinality(S) \in Nat
        /\ Cardinality(S \cup {x}) \in {Cardinality(S), Cardinality(S) + 1}
    BY FS_AddElement, FS_CardinalityType
  <2>2. QED
    BY <2>1
<1>2. /\ IsFiniteSet(T) /\ Cardinality(T) <= Cardinality(S \cup {x})
      /\ Cardinality(T) \in Nat /\ Cardinality(S \cup {x}) \in Nat
  BY <1>1, FS_Subset, FS_CardinalityType
<1>3. QED
  BY <1>1, <1>2

LEMMA DebtInit == RemindersInit => DebtInv
<1> SUFFICES ASSUME RemindersInit PROVE DebtInv
  OBVIOUS
<1>1. told = {} /\ Owed = {} /\ repeats = 0 /\ faults = 0 /\ pc = "load"
  BY DEF RemindersInit, Owed
<1>2. QED
  BY <1>1, FS_EmptySet DEF DebtInv

LEMMA DebtNext == PassIInv /\ DebtInv /\ [RemindersNext]_remindersVars => DebtInv'
<1> SUFFICES ASSUME PassIInv, DebtInv, [RemindersNext]_remindersVars PROVE DebtInv'
  OBVIOUS
<1> USE DEF envVars, passVars, World
<1>a. /\ repeats \in Nat /\ faults \in Nat /\ IsFiniteSet(told) /\ IsFiniteSet(Owed)
      /\ Cardinality(Owed) \in Nat /\ repeats + Cardinality(Owed) <= faults
      /\ pc = "send" => current \notin ledger
  <2>1. IsFiniteSet(told) /\ Owed \subseteq told
    BY DEF DebtInv, Owed
  <2>2. IsFiniteSet(Owed) /\ Cardinality(Owed) \in Nat
    BY <2>1, FS_Subset, FS_CardinalityType
  <2>3. QED
    BY <2>1, <2>2 DEF DebtInv, PassIInv, PassInv, RemindersTypeOK
<1>1. ASSUME UNCHANGED <<told, repeats, ledger>>, faults' \in Nat, faults <= faults',
             (pc # "record" /\ pc' # "record") \/ UNCHANGED <<pc, current>>,
             pc' = "send" => current' \notin ledger'
      PROVE  DebtInv'
  <2>1. Owed' = Owed
    BY <1>1 DEF Owed, OnRecord
  <2>2. QED
    BY <1>1, <1>a, <2>1 DEF DebtInv
<1>2. CASE Load \/ Fetch \/ FetchFails \/ FetchPanics \/ PassOver \/ EndPass \/ Wake
  <2>1. faults' \in Nat /\ faults <= faults'
    <3>1. faults' = faults \/ faults' = faults + 1
      BY <1>2 DEF Load, Fetch, FetchFails, FetchPanics, PassOver, EndPass, Wake, MayFail
    <3>2. QED
      BY <1>a, <3>1
  <2>2. UNCHANGED <<told, repeats, ledger>> /\ pc # "record" /\ pc' \notin {"record", "send"}
    BY <1>2 DEF Load, Fetch, FetchFails, FetchPanics, PassOver, EndPass, Wake
  <2>3. QED
    BY <1>1, <2>1, <2>2
<1>3. CASE Pick
  <2>1. /\ UNCHANGED <<told, repeats, ledger, faults>> /\ pc = "scan" /\ pc' = "send"
        /\ current' \notin ledger
    BY <1>3 DEF Pick
  <2>2. QED
    BY <1>1, <1>a, <2>1
<1>4. CASE Send
  <2>1. /\ pc = "send" /\ pc' = "record" /\ told' = told \cup {current}
        /\ repeats' = IF current \in told THEN repeats + 1 ELSE repeats
        /\ UNCHANGED <<ledger, current, faults>>
    BY <1>4 DEF Send
  <2>2. IsFiniteSet(told')
    BY <1>a, <2>1, FS_AddElement
  <2>3. Owed = told \ ledger /\ Owed' = Owed \ {current}
    BY <2>1 DEF Owed, OnRecord
  <2>4. CASE current \in told
    <3>1. current \in Owed
      BY <1>a, <2>1, <2>3, <2>4
    <3>2. Cardinality(Owed') = Cardinality(Owed) - 1
      BY <1>a, <2>3, <3>1, FS_RemoveElement
    <3>3. QED
      BY <1>a, <2>1, <2>2, <2>4, <3>2 DEF DebtInv
  <2>5. CASE current \notin told
    <3>1. Owed' = Owed
      BY <2>3, <2>5
    <3>2. QED
      BY <1>a, <2>1, <2>2, <2>5, <3>1 DEF DebtInv
  <2>6. QED
    BY <2>4, <2>5
<1>5. ASSUME UNCHANGED <<told, repeats>>, ledger \subseteq ledger', faults' = faults + 1,
             pc' \notin {"send", "record"}
      PROVE  DebtInv'
  <2>1. Owed' \in SUBSET (Owed \cup {current})
    BY <1>5 DEF Owed, OnRecord
  <2>2. Cardinality(Owed)' \in Nat /\ Cardinality(Owed)' <= Cardinality(Owed) + 1
    BY <1>a, <2>1, OneMore
  <2>3. QED
    BY <1>a, <1>5, <2>2 DEF DebtInv
<1>v. CASE SendInVain
  <2>1. /\ pc = "send" /\ pc' = "record" /\ faults' = faults + 1
        /\ UNCHANGED <<told, repeats, ledger, current>>
    BY <1>v DEF SendInVain, MayFail
  <2>2. Owed' \in SUBSET (Owed \cup {current})
    BY <2>1 DEF Owed, OnRecord
  <2>3. Cardinality(Owed)' \in Nat /\ Cardinality(Owed)' <= Cardinality(Owed) + 1
    BY <1>a, <2>2, OneMore
  <2>4. QED
    BY <1>a, <2>1, <2>3 DEF DebtInv
<1>6. CASE Record
  <2>1. pc = "record" /\ pc' = "scan" /\ UNCHANGED <<told, repeats>>
    BY <1>6 DEF Record
  <2>2. CASE ledger' = ledger \cup {current} /\ UNCHANGED faults
    <3>1. Owed' = Owed
      BY <2>1, <2>2 DEF Owed, OnRecord
    <3>2. QED
      BY <1>a, <2>1, <2>2, <3>1 DEF DebtInv
  <2>3. CASE UNCHANGED ledger /\ MayFail
    BY <1>5, <2>1, <2>3 DEF MayFail
  <2>4. QED
    BY <1>6, <2>2, <2>3 DEF Record
<1>7. CASE RemindersCrash
  BY <1>5, <1>7 DEF RemindersCrash, MayFail
<1>8. CASE NewDay \/ PutSettings \/ Reschedule \/ UNCHANGED remindersVars
  <2>1. UNCHANGED <<told, repeats, ledger, faults, pc, current>>
    BY <1>8 DEF NewDay, PutSettings, Reschedule, remindersVars
  <2>2. QED
    BY <1>1, <1>a, <2>1
<1>9. QED
  BY <1>2, <1>3, <1>4, <1>v, <1>6, <1>7, <1>8 DEF RemindersNext, Scheduler

(* Nobody is nagged: every reminder that was sent again was kept out of    *)
(* the ledger by a crash or a failed insert of its own (already_sent,      *)
(* record).                                                                *)
THEOREM RepeatsExplainedHolds == RemindersSpec => []RepeatsExplained
<1> DEFINE IInv == PassIInv /\ DebtInv
<1>1. RemindersInit => IInv
  BY PassInit, DebtInit
<1>2. IInv /\ [RemindersNext]_remindersVars => IInv'
  BY PassNext, DebtNext
<1>3. IInv => RepeatsExplained
  <2> SUFFICES ASSUME PassIInv, DebtInv PROVE repeats <= faults
    BY DEF RepeatsExplained
  <2>1. Cardinality(Owed) \in Nat /\ repeats \in Nat /\ faults \in Nat
    <3>1. IsFiniteSet(Owed)
      BY FS_Subset DEF DebtInv, Owed
    <3>2. QED
      BY <3>1, FS_CardinalityType DEF PassIInv, PassInv, RemindersTypeOK
  <2>2. QED
    BY <2>1 DEF DebtInv
<1>4. QED
  BY <1>1, <1>2, <1>3, PTL DEF RemindersSpec

-----------------------------------------------------------------------------
(* As long as nobody changes the cadence and nothing fails, every reminder *)
(* sent is in the ledger, and was the tier of a day no later than today.   *)

SentOn(r, t) == r[3] = CurrentTier(r[2] - t, settings)

CalmInv ==
  edits = 0 /\ faults = 0 =>
    /\ pc # "load" => loaded = settings
    /\ today <= Local(settings)
    /\ told \subseteq OnRecord
    /\ \A r \in told : \E t \in Int : t <= today /\ SentOn(r, t)
    /\ pc = "send" => SentOn(current, today) /\ current \notin ledger

LEMMA CalmInit == RemindersInit => CalmInv
<1> SUFFICES ASSUME RemindersInit PROVE CalmInv
  OBVIOUS
<1>1. day = 0 /\ today = 0 /\ settings.zone \in 0..1 /\ told = {} /\ pc = "load"
  BY CadencesAssumption DEF RemindersInit
<1>2. QED
  BY <1>1 DEF CalmInv, Local

LEMMA CalmNext == PassIInv /\ CalmInv /\ [RemindersNext]_remindersVars => CalmInv'
<1> SUFFICES ASSUME PassIInv, CalmInv, [RemindersNext]_remindersVars, edits' = 0, faults' = 0
             PROVE  CalmInv'
  BY DEF CalmInv
<1> USE DEF envVars, passVars, World
<1>a. /\ edits \in Nat /\ faults \in Nat /\ today \in Int /\ day \in Int
      /\ settings.zone \in Int /\ settings \in Cadences \cup {Default}
      /\ loaded \in Cadences \cup {Default}
  BY CadencesAssumption, FiguresAssumption DEF PassIInv, PassInv, RemindersTypeOK
<1>b. ~ MayFail /\ edits = 0 /\ faults = 0 /\ UNCHANGED <<edits, faults, settings>>
  <2>1. ~ MayFail
    BY <1>a DEF MayFail
  <2>2. ~ PutSettings
    BY <1>a DEF PutSettings
  <2>3. UNCHANGED <<edits, settings>>
    BY <2>2 DEF RemindersNext, Scheduler, Load, Fetch, FetchFails, FetchPanics, Pick, PassOver,
                Send, SendInVain, Record, EndPass, Wake, RemindersCrash, NewDay, Reschedule, remindersVars
  <2>4. UNCHANGED faults
    BY <2>1, <2>2 DEF RemindersNext, Scheduler, Load, Fetch, FetchFails, FetchPanics, Pick, PassOver,
                      Send, SendInVain, Record, EndPass, Wake, RemindersCrash, NewDay, Reschedule, remindersVars
  <2>5. QED
    BY <2>1, <2>3, <2>4
<1>c. /\ pc # "load" => loaded = settings
      /\ today <= Local(settings)
      /\ told \subseteq OnRecord
      /\ \A r \in told : \E t \in Int : t <= today /\ SentOn(r, t)
      /\ pc = "send" => SentOn(current, today) /\ current \notin ledger
  BY <1>b DEF CalmInv
<1>d. \A r, t : SentOn(r, t)' <=> r[3] = CurrentTier(r[2] - t, settings)
  BY <1>b DEF SentOn
<1>1. ASSUME UNCHANGED <<told, ledger, today>>, day' \in Int, day <= day',
             (pc # "record" /\ pc' # "record") \/ UNCHANGED <<pc, current>>,
             pc' # "load" => loaded' = settings, pc' # "send" \/ UNCHANGED <<pc, current>>
      PROVE  CalmInv'
  <2>1. OnRecord' = OnRecord
    BY <1>1 DEF OnRecord
  <2>2. today' <= Local(settings)'
    BY <1>a, <1>b, <1>c, <1>1 DEF Local
  <2>3. QED
    BY <1>b, <1>c, <1>1, <2>1, <2>2 DEF CalmInv, SentOn
<1>2. CASE Load \/ FetchFails \/ FetchPanics \/ PassOver \/ EndPass \/ Wake
  <2>1. UNCHANGED <<told, ledger, today, day>> /\ pc # "record" /\ pc' \notin {"record", "send"}
    BY <1>2 DEF Load, FetchFails, FetchPanics, PassOver, EndPass, Wake
  <2>2. pc' # "load" => loaded' = settings
    BY <1>2, <1>b, <1>c DEF Load, FetchFails, FetchPanics, PassOver, EndPass, Wake
  <2>3. QED
    BY <1>1, <1>a, <2>1, <2>2
<1>3. CASE Fetch
  <2>1. /\ pc = "fetch" /\ pc' = "scan" /\ today' = Local(settings)
        /\ UNCHANGED <<told, ledger, loaded, day, settings>>
    BY <1>3, <1>c DEF Fetch
  <2>2. today <= today' /\ today' \in Int /\ today' <= Local(settings)'
    BY <1>a, <1>b, <1>c, <2>1 DEF Local
  <2>3. \A r \in told : \E t \in Int : t <= today' /\ SentOn(r, t)'
    BY <1>a, <1>c, <1>d, <2>2 DEF SentOn
  <2>4. OnRecord' = OnRecord
    BY <2>1 DEF OnRecord
  <2>5. QED
    BY <1>b, <1>c, <2>1, <2>2, <2>3, <2>4 DEF CalmInv
<1>4. CASE Pick
  <2>1. PICK x \in todo : /\ <<x[1], x[2], TierOf(x)>> \notin ledger
                          /\ current' = <<x[1], x[2], TierOf(x)>>
    BY <1>4 DEF Pick
  <2>2. /\ pc = "scan" /\ pc' = "send"
        /\ UNCHANGED <<told, ledger, loaded, today, day, settings>>
    BY <1>4 DEF Pick
  <2>3. SentOn(current, today)'
    BY <1>b, <1>c, <2>1, <2>2 DEF SentOn, TierOf
  <2>4. OnRecord' = OnRecord
    BY <2>2 DEF OnRecord
  <2>5. \A r \in told : \E t \in Int : t <= today /\ SentOn(r, t)'
    BY <1>c, <1>d DEF SentOn
  <2>6. QED
    BY <1>b, <1>c, <2>1, <2>2, <2>3, <2>4, <2>5 DEF CalmInv, Local
<1>5. CASE Send
  <2>1. /\ pc = "send" /\ pc' = "record" /\ told' = told \cup {current}
        /\ UNCHANGED <<ledger, loaded, today, day, settings, current>>
    BY <1>5 DEF Send
  <2>2. told' \subseteq OnRecord'
    BY <1>c, <2>1 DEF OnRecord
  <2>3. \A r \in told' : \E t \in Int : t <= today /\ SentOn(r, t)'
    BY <1>a, <1>c, <1>d, <2>1 DEF SentOn
  <2>4. QED
    BY <1>b, <1>c, <2>1, <2>2, <2>3 DEF CalmInv, Local
<1>6. CASE Record
  <2>1. /\ pc = "record" /\ pc' = "scan" /\ ledger' = ledger \cup {current}
        /\ UNCHANGED <<told, loaded, today, day, settings>>
    BY <1>6, <1>b DEF Record
  <2>2. OnRecord' = OnRecord
    BY <2>1 DEF OnRecord
  <2>3. \A r \in told : \E t \in Int : t <= today /\ SentOn(r, t)'
    BY <1>c, <1>d DEF SentOn
  <2>4. QED
    BY <1>b, <1>c, <2>1, <2>2, <2>3 DEF CalmInv, Local
<1>7. CASE RemindersCrash \/ SendInVain
  BY <1>7, <1>b DEF RemindersCrash, SendInVain
<1>8. CASE NewDay \/ PutSettings \/ Reschedule \/ UNCHANGED remindersVars
  <2>1. /\ UNCHANGED <<told, ledger, today, pc, current, loaded>>
        /\ day' \in Int /\ day <= day'
    BY <1>8, <1>a DEF NewDay, PutSettings, Reschedule, remindersVars
  <2>2. QED
    BY <1>1, <1>c, <2>1
<1>9. QED
  BY <1>2, <1>3, <1>4, <1>5, <1>6, <1>7, <1>8 DEF RemindersNext, Scheduler

(* The nudges of a deadline come in order, each nearer to it than the one  *)
(* before, over any reschedulings and midnights, unless an admin changes   *)
(* the cadence or something fails (run_pass, current_tier).                *)
THEOREM DeadlineNearsHolds == RemindersSpec => DeadlineNears
<1> DEFINE IInv == PassIInv /\ CalmInv
           Step == edits = 0 /\ faults = 0 /\ pc = "send" /\ pc' = "record"
                     => \A r \in told : r[1] = current[1] /\ r[2] = current[2] => current[3] < r[3]
<1>1. RemindersInit => IInv
  BY PassInit, CalmInit
<1>2. IInv /\ [RemindersNext]_remindersVars => IInv'
  BY PassNext, CalmNext
<1>3. IInv => Step
  <2> SUFFICES ASSUME PassIInv, CalmInv, edits = 0, faults = 0, pc = "send",
                      NEW r \in told, r[1] = current[1], r[2] = current[2]
               PROVE  current[3] < r[3]
    OBVIOUS
  <2>1. /\ told \subseteq ledger /\ current \notin ledger
        /\ SentOn(current, today) /\ \E t \in Int : t <= today /\ SentOn(r, t)
    BY DEF CalmInv, OnRecord
  <2>2. /\ r \in Reminder /\ current \in Reminder /\ today \in Int
        /\ settings \in Cadences \cup {Default}
    BY DEF PassIInv, PassInv, RemindersTypeOK, InHand
  <2>3. PICK t \in Int : t <= today /\ SentOn(r, t)
    BY <2>1
  <2>4. /\ r[2] \in Int /\ r[3] \in Int /\ current[3] \in Int
        /\ r = <<r[1], r[2], r[3]>> /\ current = <<current[1], current[2], current[3]>>
    <3>1. /\ r[2] \in Deadlines /\ r[3] \in Int /\ current[3] \in Int
          /\ r = <<r[1], r[2], r[3]>> /\ current = <<current[1], current[2], current[3]>>
      BY <2>2 DEF Reminder
    <3>2. QED
      BY <3>1, DeadlinesAssumption
  <2>5. None \notin Int
    BY NoneAssumption
  <2>6. CurrentTier(r[2] - today, settings) <= CurrentTier(r[2] - t, settings)
    <3>1. r[2] - today \in Int /\ r[2] - t \in Int /\ r[2] - today <= r[2] - t
      BY <2>2, <2>3, <2>4
    <3>2. /\ CurrentTier(r[2] - today, settings) = current[3]
          /\ CurrentTier(r[2] - t, settings) = r[3]
      BY <2>1, <2>3 DEF SentOn
    <3>3. /\ CurrentTier(r[2] - today, settings) # None
          /\ CurrentTier(r[2] - t, settings) # None
      BY <2>4, <2>5, <3>2
    <3>4. QED
      BY <2>2, <3>1, <3>3, TierFalls
  <2>7. current[3] <= r[3]
    BY <2>1, <2>3, <2>6 DEF SentOn
  <2>8. current[3] # r[3]
    BY <2>1, <2>4
  <2>9. QED
    BY <2>4, <2>7, <2>8
<1>4. IInv => [Step]_remindersVars
  BY <1>3
<1>5. QED
  BY <1>1, <1>2, <1>4, PTL DEF RemindersSpec, DeadlineNears
=============================================================================
