------------------------------ MODULE Routing ------------------------------
(***************************************************************************)
(* The notification routing every webhook integration shares               *)
(* (crates/lark-kit/src/routing): the console's document of rules and the  *)
(* destinations it gives a subject and an event.                           *)
(*                                                                         *)
(* A path is the sequence of its segments, "" being << "" >>, so that the  *)
(* prefix test of matcher.rs on "base/" is a prefix of segments.           *)
(***************************************************************************)
EXTENDS Naturals, Sequences, SequencesExt

CONSTANTS
  Paths,       \* repository and project paths
  Events,      \* event names, of every App
  Targets,     \* chats, open_ids and emails
  Usernames,   \* accounts at GitHub and GitLab
  Labels,      \* issue labels, as written
  Lower,       \* their lower case
  Blank        \* an address that is empty once trimmed

ASSUME LowerAssumption == Lower \in [Labels -> Labels] /\ \A l \in Labels : Lower[Lower[l]] = Lower[l]
ASSUME PathsAssumption == Paths \subseteq Seq(STRING) \ {<<>>}
ASSUME BlankAssumption == Blank \notin Targets

EmptyPath == << "" >>

Patterns == [kind : {"any"}] \cup [kind : {"under", "exact"}, path : Paths \cup {EmptyPath}]
Destinations == [kind : {"chat", "dm"}, target : Targets \cup {Blank}]
Rules == [match : Patterns, events : SUBSET Events, destinations : Seq(Destinations)]
Configs == [rules : Seq(Rules), defaults : Seq(Destinations), labels : SUBSET Labels,
            users : Seq([username : Usernames, email : Targets \cup {Blank}])]

EmptyConfig == [rules |-> <<>>, defaults |-> <<>>, labels |-> {}, users |-> <<>>]

-----------------------------------------------------------------------------

Matches(pattern, subject) ==
  \/ pattern.kind = "any"
  \/ pattern.kind = "under" /\ IsPrefix(pattern.path, subject)
  \/ pattern.kind = "exact" /\ pattern.path = subject

(* push_unique: what is in the list already is not pushed again.           *)
PushUnique(dest) ==
  [out \in Seq(Destinations) |-> IF dest \in ToSet(out) THEN out ELSE Append(out, dest)]

PushAll(out, dests) ==
  LET pushed[n \in 0..Len(dests)] ==
        IF n = 0 THEN out ELSE PushUnique(dests[n])[pushed[n - 1]]
  IN  pushed[Len(dests)]

Allows(rule, event) == rule.events = {} \/ event \in rule.events

(* Rule after rule, those for the subject and the event push theirs; the   *)
(* defaults are for a subject no rule matches, whatever the event.         *)
DestinationsFor(c, subject, event) ==
  LET routed[n \in 0..Len(c.rules)] ==
        IF n = 0 THEN <<>>
        ELSE IF Matches(c.rules[n].match, subject) /\ Allows(c.rules[n], event)
          THEN PushAll(routed[n - 1], c.rules[n].destinations)
          ELSE routed[n - 1]
  IN  IF \E n \in DOMAIN c.rules : Matches(c.rules[n].match, subject)
        THEN routed[Len(c.rules)]
        ELSE PushAll(<<>>, c.defaults)

(* The email the first entry for the account gives, as a list of one.      *)
LarkEmail(c, username) ==
  LET mine == {n \in DOMAIN c.users : c.users[n].username = username}
  IN  IF mine = {} THEN <<>> ELSE << c.users[Min(mine)].email >>

IsAlertLabel(c, label) == \E l \in c.labels : Lower[l] = Lower[label]

(* What the console may store: validate_for.  The emails of the user map   *)
(* are not looked at, nor is the path of "/*", which is not empty.         *)
Addressed(dests) == \A i \in DOMAIN dests : dests[i].target # Blank

(* Mutant: the default destinations go unchecked.                          *)
ValidRules(c, spec) ==
  /\ \A i \in DOMAIN c.rules :
       /\ c.rules[i].events \subseteq spec.events
       /\ Addressed(c.rules[i].destinations)
  /\ spec.userMap \/ c.users = <<>>
  /\ spec.alertLabels \/ c.labels = {}

Valid(c, spec) ==
  /\ \A i \in DOMAIN c.rules :
       /\ ~(c.rules[i].match.kind = "exact" /\ c.rules[i].match.path = EmptyPath)
       /\ c.rules[i].events \subseteq spec.events
       /\ Addressed(c.rules[i].destinations)
  /\ Addressed(c.defaults)
  /\ spec.userMap \/ c.users = <<>>
  /\ spec.alertLabels \/ c.labels = {}

-----------------------------------------------------------------------------

(* The reference: the places of the document that name a destination for   *)
(* the event, in reading order; every destination once, by its first place.*)
Places(c, subject, event) ==
  LET concerned == {i \in DOMAIN c.rules : Matches(c.rules[i].match, subject)}
      named     == {i \in concerned : Allows(c.rules[i], event)}
  IN  IF concerned = {}
        THEN {[at |-> <<0, j>>, dest |-> c.defaults[j]] : j \in DOMAIN c.defaults}
        ELSE UNION {{[at |-> <<i, j>>, dest |-> c.rules[i].destinations[j]] :
                      j \in DOMAIN c.rules[i].destinations} : i \in named}

Before(a, b) == a[1] < b[1] \/ (a[1] = b[1] /\ a[2] < b[2])

IsRouteOf(out, c, subject, event) ==
  LET places == Places(c, subject, event)
      firsts == {p \in places : \A q \in places : q.dest = p.dest => ~ Before(q.at, p.at)}
  IN  /\ ToSet(out) = {p.dest : p \in firsts} /\ Len(out) = Cardinality(firsts)
      /\ \A i, j \in DOMAIN out : i < j =>
           \E p, q \in firsts : p.dest = out[i] /\ q.dest = out[j] /\ Before(p.at, q.at)
=============================================================================
