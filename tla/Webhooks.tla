------------------------------ MODULE Webhooks ------------------------------
(***************************************************************************)
(* GitHub and GitLab webhooks, from the request to the Lark cards          *)
(* (apps/integrations/github/src, gitlab/src): a request takes the live    *)
(* state of its App, is authenticated against that state, loads the        *)
(* routing document once and sends its cards one after the other.          *)
(*                                                                         *)
(* Meanwhile the console replaces the document, a restart brings an App    *)
(* another generation, with another secret or bot, and the process dies.   *)
(* A request in flight keeps the state of the generation it took.          *)
(***************************************************************************)
EXTENDS Routing

CONSTANTS
  Hooks,       \* requests
  Menu,        \* what a request may carry
  Built,       \* the state each generation of an App was built with
  Docs,        \* routing documents, by name
  Text,        \* what each of them says, valid or not
  Stored,      \* those an earlier console may have left each App
  Secrets,
  None,        \* no state, no document, no secret, no label
  MaxEdits,    \* bound: PUTs
  MaxFaults    \* bound: failed reads, writes and sends, and crashes

Apps == {"github", "gitlab"}

(* A kind has the name its event is routed under.                          *)
(* state is the one field a handler tests beside the action: a merge, a    *)
(* conclusion, a severity, a status, or whether a push has commits.        *)
Requests ==
  [app : Apps, key : Secrets \cup {None},       \* what signed the body
   token : Secrets \cup {None}, recent : BOOLEAN,
   parses : {"no", "outside", "whole"},         \* how far the body is what serde expects
   kind : STRING, action : STRING, state : STRING, subject : Paths \cup {EmptyPath},
   reviewers : Seq(Usernames), assignees : Seq(Usernames),
   previous : SUBSET Labels, current : Seq(Labels)]

(* AppState: secret is GitHub's webhook_secret or GitLab's signing_secret, *)
(* token GitLab's webhook_token.                                           *)
States == [secret : Secrets \cup {None}, token : Secrets \cup {None}, bot : BOOLEAN]

ASSUME MenuAssumption == Menu \subseteq Requests
ASSUME SecretAssumption == None \notin Secrets
ASSUME BoundsAssumption == MaxEdits \in Nat /\ MaxFaults \in Nat

(* ROUTING_SPEC of each App, features SOURCE_WITH_ALERTS.                  *)
RoutingSpec(a) ==
  [events |-> IF a = "github"
                THEN {"pull_request", "issues", "workflow_run", "secret_scanning", "dependabot"}
                ELSE {"merge_request", "issue", "pipeline", "note", "push"},
   userMap |-> TRUE, alertLabels |-> TRUE]

(* App::build fails without a secret to check requests against.            *)
Startable(a, s) == s.secret # None \/ (a = "gitlab" /\ s.token # None)

Generations(a) == {n \in DOMAIN Built[a] : Startable(a, Built[a][n])}

ASSUME BuiltAssumption ==
  /\ DOMAIN Built = Apps
  /\ \A a \in Apps : Built[a] \in Seq(States) /\ 1 \in Generations(a)
ASSUME DocsAssumption == None \notin Docs /\ Text \in [Docs -> Configs]
ASSUME StoredAssumption ==
  \A a \in Apps : \A d \in Stored[a] : d \in Docs /\ Valid(Text[d], RoutingSpec(a))

VARIABLES
  app,      \* the App in question: two Apps share neither document nor state
  gen,      \* number of its generation, the last one built
  live,     \* the generation whose state is in the slot, or None
  store,    \* its routing document, or None before the first PUT
  req,      \* what each request carries, None until it comes in
  phase,    \* where each request stands
  home,     \* the generation whose state a request holds
  todo,     \* the cards it has yet to send, from the document it loaded
  sent,     \* the cards a request tried to send, in order
  status,   \* what it was answered, 0 before
  seen,     \* history: the documents in the store since it came in
  edits, faults

vars == <<app, gen, live, store, req, phase, home, todo, sent, status, seen, edits, faults>>

Phases == {"none", "taken", "checked", "sending", "answered", "lost"}
Cards == [card : {"group", "dm"}, dest : Destinations, label : Labels \cup {None}]

(* What is in the store passed the check of its App.                       *)
TypeOK ==
  /\ app \in Apps
  /\ gen \in DOMAIN Built[app] /\ live \in Generations(app) \cup {None}
  /\ store # None => store \in Docs /\ Valid(Text[store], RoutingSpec(app))
  /\ phase \in [Hooks -> Phases]
  /\ req \in [Hooks -> Menu \cup {None}]
  /\ home \in [Hooks -> Generations(app) \cup {None}]
  /\ todo \in [Hooks -> Seq(Cards)] /\ sent \in [Hooks -> Seq(Cards)]
  /\ seen \in [Hooks -> SUBSET (Docs \cup {None})]
  /\ status \in [Hooks -> {0, 200, 400, 401, 503}]
  /\ edits \in 0..MaxEdits /\ faults \in 0..MaxFaults

Document(d) == IF d = None THEN EmptyConfig ELSE Text[d]

Init ==
  /\ app \in Apps /\ store \in Stored[app] \cup {None}
  /\ gen = 1 /\ live = 1
  /\ req = [h \in Hooks |-> None] /\ phase = [h \in Hooks |-> "none"]
  /\ home = [h \in Hooks |-> None]
  /\ todo = [h \in Hooks |-> <<>>] /\ sent = [h \in Hooks |-> <<>>]
  /\ status = [h \in Hooks |-> 0] /\ seen = [h \in Hooks |-> {}]
  /\ edits = 0 /\ faults = 0

-----------------------------------------------------------------------------
(* What a handler makes of a request.                                      *)

(* verify_github_signature; authenticate, where a signature, once one can  *)
(* be checked, decides alone.                                              *)
Authentic(r, s) ==
  CASE r.app = "github" -> r.key = s.secret
    [] r.app = "gitlab" /\ s.secret # None /\ r.key # None -> r.key = s.secret /\ r.recent
    [] OTHER -> r.token # None /\ r.token = s.token

(* Label changes that count.  GitHub names the one label that was added;   *)
(* GitLab gives the labels before and after.                               *)
AlertLabels(r, c) ==
  {n \in DOMAIN r.current : /\ r.app = "github" \/ r.current[n] \notin r.previous
                            /\ IsAlertLabel(c, r.current[n])}

PullRequest(r) ==
  /\ r.kind = "pull_request"
  /\ \/ r.action = "opened"
     \/ r.action = "review_requested" /\ r.reviewers # <<>>
     \/ r.action = "closed" /\ r.state = "merged"

GitHubAlert(r) ==
  /\ r.parses = "whole"
  /\ \/ r.kind = "workflow_run" /\ r.action = "completed" /\ r.state = "failure"
     \/ r.kind = "secret_scanning" /\ r.action = "created"
     \/ r.kind = "dependabot" /\ r.action = "created" /\ r.state \in {"high", "critical"}

GitLabNews(r) ==
  \/ r.kind = "merge_request" /\ r.action \in {"open", "reopen", "merge"}
  \/ r.kind = "pipeline" /\ r.state = "failed"
  \/ r.kind = "note"
  \/ r.kind = "push" /\ r.state = "commits"

LabelNews(r, c) ==
  /\ r.kind = "issue" \/ (r.kind = "issues" /\ r.action = "labeled")
  /\ AlertLabels(r, c) # {}

Announced(r, c) ==
  \/ LabelNews(r, c)
  \/ r.app = "github" /\ (PullRequest(r) \/ GitHubAlert(r))
  \/ r.app = "gitlab" /\ GitLabNews(r)

(* Whom a pull request or a merge request, and nothing else, is also for.  *)
(* GitHub names one reviewer in the action; GitLab's assignees stand in    *)
(* for reviewers.                                                          *)
Reviewers(r) ==
  CASE r.kind = "pull_request" /\ r.action = "review_requested" -> r.reviewers
    [] r.kind = "merge_request" /\ r.action \in {"open", "reopen"} ->
         IF r.reviewers = <<>> THEN r.assignees ELSE r.reviewers
    [] OTHER -> <<>>

Card(kind, dests, label) ==
  [i \in DOMAIN dests |-> [card |-> kind, dest |-> dests[i], label |-> label]]

DirectTo(r, c) ==
  LET emails == FlattenSeq([i \in DOMAIN Reviewers(r) |-> LarkEmail(c, Reviewers(r)[i])])
  IN  [i \in DOMAIN emails |-> [kind |-> "dm", target |-> emails[i]]]

(* Every card of the request, in the order it is sent.                     *)
CardsOf(r, c) ==
  IF ~ Announced(r, c) THEN <<>>
  ELSE Card("group", DestinationsFor(c, r.subject, r.kind),
            IF LabelNews(r, c) THEN r.current[Min(AlertLabels(r, c))] ELSE None)
       \o Card("dm", DirectTo(r, c), None)

-----------------------------------------------------------------------------
(* The request's way through webhook_handler.                              *)

Answer(h, code) ==
  /\ phase' = [phase EXCEPT ![h] = "answered"]
  /\ status' = [status EXCEPT ![h] = code]

(* Live: the state in the slot, or a 503.                                  *)
Arrive(h, r) ==
  /\ phase[h] = "none" /\ r.app = app
  /\ req' = [req EXCEPT ![h] = r]
  /\ IF live = None
       THEN Answer(h, 503) /\ UNCHANGED home
       ELSE /\ home' = [home EXCEPT ![h] = live]
            /\ phase' = [phase EXCEPT ![h] = "taken"]
            /\ UNCHANGED status
  /\ seen' = [seen EXCEPT ![h] = {store}]
  /\ UNCHANGED <<app, gen, live, store, todo, sent, edits, faults>>

(* Signature, then body.  A body GitLab's probe takes but the event's type *)
(* does not is a 400 all the same, after the document was loaded.          *)
Check(h) ==
  LET r == req[h]
  IN /\ phase[h] = "taken"
     /\ CASE ~ Authentic(r, Built[app][home[h]]) -> Answer(h, 401)
          [] Authentic(r, Built[app][home[h]]) /\ r.parses = "no" -> Answer(h, 400)
          [] OTHER -> phase' = [phase EXCEPT ![h] = "checked"] /\ UNCHANGED status
     /\ UNCHANGED <<app, gen, live, store, req, home, todo, sent, seen, edits, faults>>

Accept(h, c) ==
  IF app = "gitlab" /\ req[h].parses # "whole"
    THEN Answer(h, 400) /\ UNCHANGED todo
    ELSE /\ todo' = [todo EXCEPT ![h] = CardsOf(req[h], c)]
         /\ phase' = [phase EXCEPT ![h] = "sending"]
         /\ UNCHANGED status

(* Config::load.  A store that fails routes nothing, without an error.     *)
Load(h) ==
  /\ phase[h] = "checked"
  /\ \/ Accept(h, Document(store)) /\ UNCHANGED faults
     \/ faults < MaxFaults /\ faults' = faults + 1 /\ Accept(h, EmptyConfig)
  /\ UNCHANGED <<app, gen, live, store, req, home, sent, seen, edits>>

(* Mutant: the destinations are looked up again after every card. *)
DeliverReloading(h) ==
  LET all == CardsOf(req[h], Document(store))
  IN /\ phase[h] = "sending" /\ todo[h] # <<>>
     /\ sent' = [sent EXCEPT ![h] = Append(@, todo[h][1])]
     /\ todo' = [todo EXCEPT ![h] = SubSeq(all, Len(sent'[h]) + 1, Len(all))]
     /\ UNCHANGED <<app, gen, live, store, req, phase, home, status, seen, edits, faults>>

(* Mutant: a card Lark refuses is sent again. *)
DeliverInsisting(h) ==
  /\ phase[h] = "sending" /\ todo[h] # <<>>
  /\ \/ /\ sent' = [sent EXCEPT ![h] = Append(@, todo[h][1])]
        /\ todo' = [todo EXCEPT ![h] = Tail(@)]
        /\ UNCHANGED faults
     \/ faults' = MaxFaults - faults /\ UNCHANGED <<sent, todo>>
  /\ UNCHANGED <<app, gen, live, store, req, phase, home, status, seen, edits>>

(* deliver: one card to one destination.  Without a bot, or when Lark      *)
(* refuses, a warning, and on to the next.                                 *)
Deliver(h) ==
  /\ phase[h] = "sending" /\ todo[h] # <<>>
  /\ sent' = [sent EXCEPT ![h] = Append(@, todo[h][1])]
  /\ todo' = [todo EXCEPT ![h] = Tail(@)]
  /\ UNCHANGED <<app, gen, live, store, req, phase, home, status, seen, edits, faults>>

Finish(h) ==
  /\ phase[h] = "sending" /\ todo[h] = <<>>
  /\ Answer(h, 200)
  /\ UNCHANGED <<app, gen, live, store, req, home, todo, sent, seen, edits, faults>>

-----------------------------------------------------------------------------
(* RoutingApi::replace: the document as a whole, when it is valid and the  *)
(* store takes it.                                                         *)
Put(d) ==
  /\ edits < MaxEdits /\ edits' = edits + 1
  /\ Valid(Text[d], RoutingSpec(app))
  /\ store' = d
  /\ seen' = [h \in Hooks |-> IF phase[h] \in {"taken", "checked"}
                                THEN seen[h] \cup {d} ELSE seen[h]]
  /\ UNCHANGED <<app, gen, live, req, phase, home, todo, sent, status, faults>>

(* A run ends, and the guard empties the slot; the next generation, when   *)
(* it can be built, publishes its own state.                               *)
Stop ==
  /\ live # None /\ live' = None
  /\ UNCHANGED <<app, gen, store, req, phase, home, todo, sent, status, seen, edits, faults>>

Start ==
  /\ live = None /\ gen + 1 \in DOMAIN Built[app]
  /\ gen' = gen + 1
  /\ live' = IF gen' \in Generations(app) THEN gen' ELSE None
  /\ UNCHANGED <<app, store, req, phase, home, todo, sent, status, seen, edits, faults>>

(* The process dies: requests in flight go unanswered, and the App starts  *)
(* again from the same configuration.                                      *)
Crash ==
  /\ faults < MaxFaults /\ faults' = faults + 1
  /\ phase' = [h \in Hooks |-> IF phase[h] \in {"taken", "checked", "sending"}
                                 THEN "lost" ELSE phase[h]]
  /\ live' = IF gen \in Generations(app) THEN gen ELSE None
  /\ UNCHANGED <<app, gen, store, req, home, todo, sent, status, seen, edits>>

Handle(h) == Check(h) \/ Load(h) \/ Deliver(h) \/ Finish(h)

Next ==
  \/ \E h \in Hooks : (\E r \in Menu : Arrive(h, r)) \/ Handle(h)
  \/ Stop \/ Start \/ Crash
  \/ \E d \in Docs : Put(d)

(* A handler that can go on does.                                          *)
Fairness == \A h \in Hooks : WF_vars(Handle(h))

Spec == Init /\ [][Next]_vars /\ Fairness

-----------------------------------------------------------------------------
DestsOf(cards) == [i \in DOMAIN cards |-> cards[i].dest]

(* The cards of a request go where one document sends them, the group      *)
(* cards first and the reviewers' DMs after them, and that document was    *)
(* the current one at some moment between its arrival and its load: an     *)
(* edit applies to the next request without a restart, and never to half   *)
(* of one.  A 200 after a card tells that no destination of that document  *)
(* was left out.  (A request whose Config::load failed sends nothing and   *)
(* gets its 200 too; of it this says nothing.)                             *)
RoutedByOneVersion ==
  \A h \in Hooks : sent[h] # <<>> =>
    LET cards  == sent[h] \o todo[h]
        n      == Cardinality({i \in DOMAIN cards : cards[i].card = "group"})
        group  == SubSeq(cards, 1, n)
        direct == SubSeq(cards, n + 1, Len(cards))
    IN /\ \A i \in 1..n : cards[i].card = "group"
       /\ \E d \in seen[h] :
            /\ IsRouteOf(DestsOf(group), Document(d), req[h].subject, req[h].kind)
            /\ DestsOf(direct) = DirectTo(req[h], Document(d))
       /\ status[h] = 200 => todo[h] = <<>>

(* No group card is for nobody: the check at the console covers all that   *)
(* a request may be routed to later.                                       *)
NeverToNobody ==
  \A h \in Hooks : \A i \in DOMAIN sent[h] :
    sent[h][i].card = "group" => sent[h][i].dest.target # Blank

(* The stored document is one its App accepts, and has an address for each *)
(* group card that is routed by it.  Config::load does not check it again: *)
(* documents stored earlier are taken to have passed today's check.        *)
StoredInv == TypeOK /\ NeverToNobody

(* Every request is answered, whatever Lark makes of its cards, unless the *)
(* process dies first.                                                     *)
EveryHookAnswered == \A h \in Hooks : phase[h] = "taken" ~> phase[h] \in {"answered", "lost"}
=============================================================================
