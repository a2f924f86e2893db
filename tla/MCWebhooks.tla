----------------------------- MODULE MCWebhooks -----------------------------
(* Instances of Webhooks for TLC: two requests out of a menu for each App, *)
(* documents whose rules overlap, a second generation with another secret  *)
(* (GitLab) or one that cannot be built (GitHub).                          *)
EXTENDS Webhooks

Api == <<"acme", "api">>
Web == <<"acme", "web">>
Acme == <<"acme">>
MCPaths == {Api, Web, Acme}
MCLower == [l \in Labels |-> IF l = "Bug" THEN "bug" ELSE l]

Chat(c) == [kind |-> "chat", target |-> c]
Dm(u) == [kind |-> "dm", target |-> u]
To(match, events, dests) == [match |-> match, events |-> events, destinations |-> dests]
All == [kind |-> "any"]
Under(p) == [kind |-> "under", path |-> p]
Just(p) == [kind |-> "exact", path |-> p]

Doc(rules, defaults) ==
  [rules |-> rules, defaults |-> defaults, labels |-> {"bug"},
   users |-> << [username |-> "ann", email |-> "ann@"], [username |-> "ann", email |-> "bob@"] >>]

Overlap(events) ==
  Doc(<< To(All, {}, << Chat("ops"), Dm("ann@"), Chat("ops") >>),
         To(Under(Acme), events, << Dm("ann@"), Chat("dev") >>) >>, << Chat("dev") >>)
Fallback == Doc(<< To(Just(Web), {}, << Chat("dev") >>) >>, << Chat("ops"), Chat("dev"), Chat("ops") >>)

MCDocs == {"hub", "lab", "fallback", "nobody"}
MCText ==
  [d \in MCDocs |->
    CASE d = "hub" -> Overlap({"pull_request"})
      [] d = "lab" -> Overlap({"issue"})
      [] d = "fallback" -> Fallback
      [] d = "nobody" -> Doc(<<>>, << Chat(Blank) >>)]
MCStored == [a \in Apps |-> {IF a = "github" THEN "hub" ELSE "lab"}]

MCBuilt ==
  [a \in Apps |->
    IF a = "github"
      THEN << [secret |-> "k1", token |-> None, bot |-> TRUE],
              [secret |-> None, token |-> None, bot |-> TRUE] >>
      ELSE << [secret |-> None, token |-> "k1", bot |-> TRUE],
              [secret |-> "k2", token |-> "k1", bot |-> FALSE] >>]

Plain(a, kind, action, state) ==
  [app |-> a, key |-> IF a = "github" THEN "k1" ELSE None,
   token |-> IF a = "gitlab" THEN "k1" ELSE None, recent |-> TRUE, parses |-> "whole",
   kind |-> kind, action |-> action, state |-> state, subject |-> Api,
   reviewers |-> <<>>, assignees |-> <<>>, previous |-> {}, current |-> <<>>]

MCMenu ==
  {[Plain("github", "pull_request", "review_requested", "") EXCEPT !.reviewers = <<"ann">>],
   [Plain("github", "issues", "labeled", "") EXCEPT !.current = <<"Bug">>],
   [Plain("github", "workflow_run", "completed", "failure") EXCEPT !.subject = Web],
   [Plain("gitlab", "merge_request", "open", "") EXCEPT !.assignees = <<"ann", "eve">>, !.key = "k2"],
   [Plain("gitlab", "issue", "open", "") EXCEPT !.assignees = <<"ann">>, !.previous = {"bug"}, !.current = <<"bug", "late", "Bug">>],
   [Plain("gitlab", "pipeline", "", "failed") EXCEPT !.parses = "outside", !.key = "k1"]}
=============================================================================
