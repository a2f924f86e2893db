------------------------------- MODULE MCHost -------------------------------
(***************************************************************************)
(* Two Apps and two releases: the first has an App with a migration that   *)
(* cannot run, the second corrects it and adds one that drops the other    *)
(* App's table; the other App drops a table and makes it anew.  Two tabs   *)
(* sign in with an account whose second address is on one list, spelt      *)
(* otherwise, and which is not on the other.                               *)
(***************************************************************************)
EXTENDS Host

CONSTANT ann

MCApps == <<"linear", "x">>

MCReleases == <<"v1", "v2">>

MCDeclared ==
  LET M(n, d, m, r) == [name |-> n, drops |-> d, makes |-> m, runs |-> r]
      first == M("m0001", {}, {"linear_a"}, TRUE)
      bad == M("m0001", {}, {"x_a"}, FALSE)
  IN [v1 |-> [linear |-> <<first>>, x |-> <<bad>>],
      v2 |-> [linear |-> <<first, M("m0002", {"linear_a"}, {"linear_b", "sqlite_sequence"}, TRUE),
                         M("m0003", {}, {"linear_a"}, TRUE)>>,
              x |-> <<[bad EXCEPT !.runs = TRUE], M("m0002", {"linear_b"}, {"x_b"}, TRUE)>>]]

MCTables == {"linear_a", "linear_b", "x_a", "x_b", "sqlite_sequence", "_larkstack_migrations"}
MCPrefixed == [linear |-> {"linear_a", "linear_b"}, x |-> {"x_a", "x_b"}]

MCAddresses == {"ann@corp", "ann@home", "Ann@Home", "eve@corp", " ", ""}
MCLower == [x \in MCAddresses |-> CASE x = "Ann@Home" -> "ann@home" [] x = " " -> "" [] OTHER -> x]
MCEmailsOf == [a \in {ann} |-> {"ann@corp", "Ann@Home"}]

MCConfigs ==
  LET C(b, a, s, id) == [bound |-> b, admins |-> a, redirect |-> "", scope |-> s,
                         apps |-> [main |-> id]]
  IN {C("main", {}, "unset", "empty"), C("main", {"ann@home", " "}, "unset", "cli_a"),
      C("main", {"eve@corp"}, "identity", "cli_a"), C("main", {}, "unset", "cli_b")}
=============================================================================
