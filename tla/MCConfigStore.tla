--------------------------- MODULE MCConfigStore ---------------------------
(* Instances of ConfigStore for TLC: one App and one Lark app.             *)
EXTENDS ConfigStore, TLC

MCDoc(on, ref, entry) ==
  [enabled |-> [a \in Apps |-> on], bound |-> [a \in Apps |-> ref],
   lark |-> [r \in Refs |-> entry], console |-> None]

(* An installation with everything in place, and one with nothing. *)
MCBodies == {MCDoc(TRUE, "main", "k1"), MCDoc(FALSE, None, None)}

(* Nobody but the structured editors: no request PUTs a whole document. *)
MCStructuredNext == Next /\ \A w \in Writers : req'[w].op # "put"
MCStructured == Init /\ [][MCStructuredNext]_vars

MCSymmetry == Permutations(Writers)
=============================================================================
