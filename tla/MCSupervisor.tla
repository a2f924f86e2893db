---------------------------- MODULE MCSupervisor ----------------------------
(***************************************************************************)
(* An instance of Supervisor for TLC: "standup" is switched on and off,    *)
(* and bound to the Lark app "main" or not.                                *)
(***************************************************************************)
EXTENDS Supervisor

MCRefs == {"main"}
MCCreds == {"k1", "k2"}
MCRevs == {"r"}

On(ref)  == [enabled |-> TRUE, lark_app |-> ref, rev |-> "r"]
Off(ref) == [enabled |-> FALSE, lark_app |-> ref, rev |-> "r"]

Doc(s, entry) ==
  [section |-> [a \in Apps |-> s],
   lark    |-> [r \in MCRefs |-> entry]]

(* Switched off, absent, on but bound to an entry that is missing, present *)
(* or rotated, and on with credentials of its own.                         *)
MCDocs ==
  {Doc(Off("main"), "k1"), Doc(None, "k1"), Doc(On("main"), None),
   Doc(On("main"), "k1"), Doc(On("main"), "k2"), Doc(On(None), "k1"), Doc(On(None), "k2")}
=============================================================================
