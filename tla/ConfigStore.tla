---------------------------- MODULE ConfigStore ----------------------------
(***************************************************************************)
(* The console's config.toml: the copy every request reads (the control    *)
(* plane's watch channel), the file under the data directory, and the      *)
(* handlers that edit both (crates/larkstack/src/routes).                  *)
(*                                                                         *)
(* A structured edit reads the whole document from memory, changes one     *)
(* part of it, writes the whole document to the file and only then         *)
(* replaces the one in memory.  Handlers run on several threads and take   *)
(* no lock, so each of these steps interleaves with those of any other     *)
(* request.  Comments and layout of the document are left out.             *)
(***************************************************************************)
EXTENDS Naturals, FiniteSets

CONSTANTS
  Apps,         \* registered Apps
  Refs,         \* names of [lark-apps.<ref>] entries
  Creds,        \* what such an entry holds
  Bodies,       \* documents an operator may PUT whole
  Writers,      \* requests that can be in flight together
  None,         \* no reference, no entry
  Malformed,    \* text that does not parse
  Truncated,    \* the file between open and write
  MaxEdits,     \* bound: requests submitted
  MaxFaults     \* bound: crashes and failed file operations

Document == [enabled : [Apps -> BOOLEAN],
             bound   : [Apps -> Refs \cup {None}],
             lark    : [Refs -> Creds \cup {None}],
             console : Refs \cup {None}]

(* What an empty file means to every reader. *)
Blank == [enabled |-> [a \in Apps |-> FALSE], bound |-> [a \in Apps |-> None],
          lark |-> [r \in Refs |-> None], console |-> None]

Text == Document \cup {Malformed}

Requests ==
       [op : {"put"}, body : Bodies]
  \cup [op : {"enable"}, app : Apps, on : BOOLEAN]
  \cup [op : {"bind"}, app : Apps, ref : Refs \cup {None}]
  \cup [op : {"upsert"}, ref : Refs, cred : Creds]
  \cup [op : {"delete", "signin"}, ref : Refs]
  \cup [op : {"signout"}]

ASSUME BodiesAssumption == Bodies # {} /\ Bodies \subseteq Document
ASSUME MarkersAssumption ==
  None \notin Refs \cup Creds /\ Malformed # Truncated /\ {Malformed, Truncated} \cap Document = {}
ASSUME BoundsAssumption == MaxEdits \in Nat /\ MaxFaults \in Nat

VARIABLES
  mem,      \* ControlPlane's current document
  file,     \* what config.toml holds
  pc,       \* where each request stands
  req,      \* the request
  doc,      \* the document it is going to write
  clean,    \* history: the last write to start began and went on alone, and did not fail
  edits, faults

vars == <<mem, file, pc, req, doc, clean, edits, faults>>

NoRequest == [op |-> "none"]

TypeOK ==
  /\ mem \in Text
  /\ file \in Text \cup {Truncated}
  /\ pc \in [Writers -> {"idle", "read", "reread", "open", "write", "publish"}]
  /\ req \in [Writers -> Requests \cup {NoRequest}]
  /\ doc \in [Writers -> Document]
  /\ clean \in BOOLEAN
  /\ edits \in Nat /\ faults \in Nat

Init ==
  /\ mem \in Bodies /\ file = mem
  /\ pc = [w \in Writers |-> "idle"]
  /\ req = [w \in Writers |-> NoRequest]
  /\ doc = [w \in Writers |-> Blank]
  /\ clean = TRUE
  /\ edits = 0 /\ faults = 0

-----------------------------------------------------------------------------
(* What one edit does to a document, and when it is refused.               *)

Edit(r, d) ==
  CASE r.op = "put"     -> r.body
    [] r.op = "enable"  -> [d EXCEPT !.enabled[r.app] = r.on]
    [] r.op = "bind"    -> [d EXCEPT !.bound[r.app] = r.ref]
    [] r.op = "upsert"  -> [d EXCEPT !.lark[r.ref] = r.cred]
    [] r.op = "delete"  -> [d EXCEPT !.lark[r.ref] = None]
    [] r.op = "signin"  -> [d EXCEPT !.console = r.ref]
    [] r.op = "signout" -> [d EXCEPT !.console = None]

Registered(ref, t) == t # Malformed /\ t.lark[ref] # None

(* Documents d and e differ at most in whether App a is enabled.           *)
SameBut(a, d, e) ==
  /\ e.bound = d.bound /\ e.lark = d.lark /\ e.console = d.console
  /\ \A b \in Apps \ {a} : e.enabled[b] = d.enabled[b]

-----------------------------------------------------------------------------
Goto(w, from, to) == pc[w] = from /\ pc' = [pc EXCEPT ![w] = to]

(* A request arrives.  Upserting a Lark app awaits a live credential test  *)
(* before anything is read; that wait is the time spent at "read".         *)
Submit(w, r) ==
  /\ edits < MaxEdits
  /\ Goto(w, "idle", "read")
  /\ req' = [req EXCEPT ![w] = r]
  /\ edits' = edits + 1
  /\ UNCHANGED <<mem, file, doc, clean, faults>>

(* The request ends in an error before it has touched the file.            *)
Refuse(w) ==
  /\ pc' = [pc EXCEPT ![w] = "idle"]
  /\ req' = [req EXCEPT ![w] = NoRequest]
  /\ UNCHANGED <<mem, file, doc, clean, edits>>

(* Mutant: a binding is written without looking the entry up. *)
AdmitsAnyRef(r, t) ==
  CASE r.op = "put" -> TRUE
    [] r.op \in {"delete", "signin"} -> Registered(r.ref, t)
    [] OTHER -> t # Malformed

(* Whether the guard of a request lets it pass on document t.              *)
Admits(r, t) ==
  CASE r.op = "put" -> TRUE
    [] r.op = "bind" -> t # Malformed /\ (r.ref # None => Registered(r.ref, t))
    [] r.op \in {"delete", "signin"} -> Registered(r.ref, t)
    [] OTHER -> t # Malformed

TakeDocument(w, from) ==
  /\ Goto(w, from, "open")
  /\ doc' = [doc EXCEPT ![w] = Edit(req[w], mem)]
  /\ UNCHANGED <<mem, file, req, clean, edits, faults>>

(* One read of the config serves both the guard and the document.          *)
Read(w) ==
  /\ req[w].op # "signin" /\ Admits(req[w], mem)
  /\ TakeDocument(w, "read")

(* put_console_auth reads the config twice, once for each.                 *)
CheckSignIn(w) ==
  /\ req[w].op = "signin" /\ Admits(req[w], mem)
  /\ Goto(w, "read", "reread")
  /\ UNCHANGED <<mem, file, req, doc, clean, edits, faults>>

RereadForSignIn(w) == mem # Malformed /\ TakeDocument(w, "reread")

RefuseRead(w) ==
  /\ \/ pc[w] = "read" /\ ~ Admits(req[w], mem)
     \/ pc[w] = "reread" /\ mem = Malformed
  /\ Refuse(w) /\ UNCHANGED faults

(* The credential test failed, or the raw body is not TOML. *)
RefuseInput(w) ==
  /\ pc[w] = "read" /\ req[w].op \in {"upsert", "put"}
  /\ Refuse(w) /\ UNCHANGED faults

(* fs::write is an open that truncates, then a write.                      *)
InFile(w) == pc[w] \in {"write", "publish"}

OpenFile(w) ==
  /\ Goto(w, "open", "write")
  /\ file' = Truncated
  /\ clean' = (\A v \in Writers : ~ InFile(v))
  /\ UNCHANGED <<mem, req, doc, edits, faults>>

(* Each writer writes from offset 0 of its own handle.  If another one got *)
(* in after this one truncated, what it wrote past this one's end stays:   *)
(* the two texts together may be this one's, a third document, or no TOML. *)
WriteFile(w) ==
  /\ Goto(w, "write", "publish")
  /\ file' \in IF file \in {Truncated, doc[w]} THEN {doc[w]} ELSE Text
  /\ UNCHANGED <<mem, req, doc, clean, edits, faults>>

(* Mutant: an error of fs::write is ignored. *)
FailOpenIgnored(w) ==
  /\ Goto(w, "open", "publish") /\ faults < MaxFaults
  /\ faults' = faults + 1
  /\ UNCHANGED <<mem, file, req, doc, clean, edits>>

(* The open fails and the file is as it was; or the write does, and it is  *)
(* left truncated.  Either way memory keeps what it had.                   *)
FailOpen(w) ==
  /\ pc[w] = "open" /\ faults < MaxFaults
  /\ Refuse(w) /\ faults' = faults + 1

FailWrite(w) ==
  /\ Goto(w, "write", "idle") /\ faults < MaxFaults
  /\ req' = [req EXCEPT ![w] = NoRequest]
  /\ clean' = FALSE /\ faults' = faults + 1
  /\ UNCHANGED <<mem, file, doc, edits>>

(* set_config, then the 200. *)
Publish(w) ==
  /\ Goto(w, "publish", "idle")
  /\ mem' = doc[w]
  /\ req' = [req EXCEPT ![w] = NoRequest]
  /\ UNCHANGED <<file, doc, clean, edits, faults>>

(* Mutant: a file found between open and write is not read as empty text. *)
RestartVerbatim ==
  /\ faults < MaxFaults /\ faults' = faults + 1
  /\ mem' = file
  /\ pc' = [w \in Writers |-> "idle"]
  /\ req' = [w \in Writers |-> NoRequest]
  /\ clean' = TRUE
  /\ UNCHANGED <<file, doc, edits>>

(* The process dies and boots again: load_or_create_config takes the text  *)
(* as it finds it, valid or not.                                           *)
Restart ==
  /\ faults < MaxFaults /\ faults' = faults + 1
  /\ mem' = IF file = Truncated THEN Blank ELSE file
  /\ pc' = [w \in Writers |-> "idle"]
  /\ req' = [w \in Writers |-> NoRequest]
  /\ clean' = TRUE
  /\ UNCHANGED <<file, doc, edits>>

Handle(w) ==
  \/ Read(w) \/ CheckSignIn(w) \/ RereadForSignIn(w)
  \/ RefuseRead(w) \/ RefuseInput(w)
  \/ OpenFile(w) \/ WriteFile(w) \/ FailOpen(w) \/ FailWrite(w) \/ Publish(w)

Next ==
  \/ Restart
  \/ \E w \in Writers : Handle(w) \/ \E r \in Requests : Submit(w, r)

Spec == Init /\ [][Next]_vars

-----------------------------------------------------------------------------
(* Binding an App to a Lark app is only acknowledged with the entry there: *)
(* guard and document come from one read, so no concurrent delete, raw PUT *)
(* or restart gets between them (config.rs:166-175).                       *)
AckedBindResolves ==
  [][\A w \in Writers :
       pc[w] = "publish" /\ pc'[w] = "idle" /\ UNCHANGED faults
         /\ req[w].op = "bind" /\ req[w].ref # None
         => Registered(req[w].ref, mem')]_vars

(* A restart gives back the config everybody was using: after a write that *)
(* no other one overlapped and that did not fail, file and memory agree    *)
(* whenever no request stands between them, whatever happened before it.   *)
DiskAgrees ==
  clean /\ (\A w \in Writers : ~ InFile(w)) =>
    mem = IF file = Truncated THEN Blank ELSE file

(* What the comment on set_app_enabled says (routes/config.rs:78-80):      *)
(* "writing just [<app>].enabled and leaving the rest of the config        *)
(* (comments and all) untouched".                                          *)
RestUntouched ==
  [][\A w \in Writers :
       pc[w] = "publish" /\ pc'[w] = "idle" /\ UNCHANGED faults
         /\ req[w].op = "enable" /\ mem # Malformed
         => SameBut(req[w].app, mem, mem')]_vars
=============================================================================
