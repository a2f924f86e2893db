-------------------------- MODULE ConfigStoreProofs --------------------------
(***************************************************************************)
(* What ConfigStore's run checks of two requests, proved for every number  *)
(* of requests, Apps, entries and credentials and for every bound.         *)
(***************************************************************************)
EXTENDS ConfigStore, TLAPS

(* A request past its guard still has what the guard saw. *)
Guarded ==
  \A w \in Writers :
    /\ pc[w] # "idle" => req[w] \in Requests
    /\ pc[w] = "reread" => req[w].op = "signin"
    /\ pc[w] \in {"open", "write", "publish"} /\ req[w].op = "bind" /\ req[w].ref # None =>
         doc[w].lark[req[w].ref] # None

(* While the write to the file is clean, one request is in it, and the     *)
(* file holds what that request has done to it.                            *)
Alone ==
  clean =>
    /\ \A v, w \in Writers : InFile(v) /\ InFile(w) => v = w
    /\ \A w \in Writers :
         /\ pc[w] = "write" => file = Truncated
         /\ pc[w] = "publish" => file = doc[w]

IInv == TypeOK /\ Guarded /\ Alone /\ DiskAgrees

-----------------------------------------------------------------------------
(* An edit that a guard admits makes a document of a document. *)
LEMMA EditType ==
  ASSUME NEW r \in Requests, NEW d \in Text, r.op = "put" \/ d # Malformed
  PROVE  Edit(r, d) \in Document
<1>1. CASE r.op = "put"
  <2>1. r.body \in Bodies
    BY <1>1 DEF Requests
  <2>2. Edit(r, d) = r.body
    BY <1>1 DEF Edit
  <2>3. QED
    BY <2>1, <2>2, BodiesAssumption
<1>2. CASE r.op # "put"
  <2>1. d \in Document
    BY <1>2 DEF Text
  <2>2. CASE r.op = "enable"
    <3>1. r.app \in Apps /\ r.on \in BOOLEAN
      BY <2>2 DEF Requests
    <3>2. Edit(r, d) = [d EXCEPT !.enabled[r.app] = r.on]
      BY <2>2 DEF Edit
    <3>3. QED
      BY <2>1, <3>1, <3>2 DEF Document
  <2>3. CASE r.op = "bind"
    <3>1. r.app \in Apps /\ r.ref \in Refs \cup {None}
      BY <2>3 DEF Requests
    <3>2. Edit(r, d) = [d EXCEPT !.bound[r.app] = r.ref]
      BY <2>3 DEF Edit
    <3>3. QED
      BY <2>1, <3>1, <3>2 DEF Document
  <2>4. CASE r.op = "upsert"
    <3>1. r.ref \in Refs /\ r.cred \in Creds
      BY <2>4 DEF Requests
    <3>2. Edit(r, d) = [d EXCEPT !.lark[r.ref] = r.cred]
      BY <2>4 DEF Edit
    <3>3. QED
      BY <2>1, <3>1, <3>2 DEF Document
  <2>5. CASE r.op = "delete"
    <3>1. r.ref \in Refs
      BY <2>5 DEF Requests
    <3>2. Edit(r, d) = [d EXCEPT !.lark[r.ref] = None]
      BY <2>5 DEF Edit
    <3>3. QED
      BY <2>1, <3>1, <3>2 DEF Document
  <2>6. CASE r.op = "signin"
    <3>1. r.ref \in Refs
      BY <2>6 DEF Requests
    <3>2. Edit(r, d) = [d EXCEPT !.console = r.ref]
      BY <2>6 DEF Edit
    <3>3. QED
      BY <2>1, <3>1, <3>2 DEF Document
  <2>7. CASE r.op = "signout"
    <3>1. Edit(r, d) = [d EXCEPT !.console = None]
      BY <2>7 DEF Edit
    <3>2. QED
      BY <2>1, <3>1 DEF Document
  <2>8. r.op \in {"enable", "bind", "upsert", "delete", "signin", "signout"}
    BY <1>2 DEF Requests
  <2>9. QED
    BY <2>2, <2>3, <2>4, <2>5, <2>6, <2>7, <2>8
<1>3. QED
  BY <1>1, <1>2

(* Whatever a guard but that of a PUT admits is a document, and an entry   *)
(* it has looked up is in it.                                              *)
LEMMA Admitted ==
  ASSUME NEW r \in Requests, NEW d \in Text, Admits(r, d)
  PROVE  /\ r.op = "put" \/ d # Malformed
         /\ r.op = "bind" /\ r.ref # None => Edit(r, d).lark[r.ref] # None
<1>1. r.op \in {"put", "enable", "bind", "upsert", "delete", "signin", "signout"}
  BY DEF Requests
<1>2. CASE r.op = "bind"
  <2>1. d # Malformed /\ (r.ref # None => d.lark[r.ref] # None)
    BY <1>2 DEF Admits, Registered
  <2>2. Edit(r, d).lark = d.lark
    BY <1>2, <2>1 DEF Edit, Text, Document
  <2>3. QED
    BY <1>2, <2>1, <2>2
<1>3. CASE r.op \in {"delete", "signin"}
  BY <1>3 DEF Admits, Registered
<1>4. CASE r.op \in {"enable", "upsert", "signout"}
  BY <1>4 DEF Admits
<1>5. QED
  BY <1>1, <1>2, <1>3, <1>4

-----------------------------------------------------------------------------
(* The initial states satisfy the invariant. *)
LEMMA InitInv == Init => IInv
<1> SUFFICES ASSUME Init PROVE IInv
  OBVIOUS
<1>1. mem \in Document /\ Blank \in Document
  BY BodiesAssumption DEF Init, Blank, Document
<1>2. TypeOK
  BY <1>1 DEF Init, TypeOK, Text
<1>3. Guarded /\ Alone
  BY DEF Init, Guarded, Alone, InFile
<1>4. DiskAgrees
  <2>1. file # Truncated
    BY <1>1, MarkersAssumption DEF Init
  <2>2. QED
    BY <2>1 DEF Init, DiskAgrees
<1>5. QED
  BY <1>2, <1>3, <1>4 DEF IInv

(* A request reads the config and makes its document of it: the file, the  *)
(* memory and the requests that are in the file are as they were.          *)
LEMMA TakeInv ==
  ASSUME NEW w \in Writers, NEW from \in {"read", "reread"}, IInv,
         TakeDocument(w, from), Edit(req[w], mem) \in Document,
         req[w].op = "bind" /\ req[w].ref # None => Edit(req[w], mem).lark[req[w].ref] # None
  PROVE  IInv'
<1> USE DEF IInv, TakeDocument, Goto
<1>1. /\ pc' = [pc EXCEPT ![w] = "open"] /\ pc[w] = from
      /\ doc' = [doc EXCEPT ![w] = Edit(req[w], mem)]
  OBVIOUS
<1>2. TypeOK'
  BY <1>1 DEF TypeOK
<1>3. Guarded'
  BY <1>1 DEF TypeOK, Guarded
<1>4. \A v \in Writers : InFile(v)' <=> InFile(v)
  BY <1>1 DEF TypeOK, InFile
<1>5. \A v \in Writers : InFile(v) => pc'[v] = pc[v] /\ doc'[v] = doc[v]
  BY <1>1 DEF TypeOK, InFile
<1>6. Alone'
  <2>1. \A v \in Writers : pc'[v] \in {"write", "publish"} => InFile(v)
    BY <1>4 DEF InFile
  <2>2. QED
    BY <1>4, <1>5, <2>1 DEF Alone
<1>7. DiskAgrees'
  BY <1>4 DEF DiskAgrees
<1>8. QED
  BY <1>2, <1>3, <1>6, <1>7

(* A request that leaves without having reached the file. *)
LEMMA RefuseInv ==
  ASSUME NEW w \in Writers, IInv, Refuse(w), ~ InFile(w), faults' \in Nat
  PROVE  IInv'
<1> USE DEF IInv, Refuse
<1>1. pc' = [pc EXCEPT ![w] = "idle"] /\ req' = [req EXCEPT ![w] = NoRequest]
  OBVIOUS
<1>2. TypeOK'
  BY <1>1 DEF TypeOK
<1>3. Guarded'
  BY <1>1 DEF TypeOK, Guarded
<1>4. \A v \in Writers : InFile(v)' <=> InFile(v)
  BY <1>1 DEF TypeOK, InFile
<1>5. \A v \in Writers : pc'[v] \in {"write", "publish"} => pc'[v] = pc[v]
  BY <1>1 DEF TypeOK
<1>6. Alone' /\ DiskAgrees'
  BY <1>4, <1>5 DEF Alone, DiskAgrees
<1>7. QED
  BY <1>2, <1>3, <1>6

(* Every step of a request preserves the invariant. *)
LEMMA HandleInv ==
  ASSUME NEW w \in Writers, IInv, Handle(w)
  PROVE  IInv'
<1> USE DEF IInv
<1>1. CASE Read(w)
  <2>1. pc[w] = "read" /\ req[w] \in Requests /\ mem \in Text
    BY <1>1 DEF Read, TakeDocument, Goto, Guarded, TypeOK
  <2>2. Admits(req[w], mem)
    BY <1>1 DEF Read
  <2>3. /\ req[w].op = "put" \/ mem # Malformed
        /\ req[w].op = "bind" /\ req[w].ref # None => Edit(req[w], mem).lark[req[w].ref] # None
    BY <2>1, <2>2, Admitted
  <2>4. Edit(req[w], mem) \in Document
    BY <2>1, <2>3, EditType
  <2>5. TakeDocument(w, "read")
    BY <1>1 DEF Read
  <2>6. QED
    BY <2>3, <2>4, <2>5, TakeInv
<1>2. CASE CheckSignIn(w)
  <2>1. req[w].op = "signin" /\ pc[w] = "read" /\ pc' = [pc EXCEPT ![w] = "reread"]
    BY <1>2 DEF CheckSignIn, Goto
  <2>2. UNCHANGED <<mem, file, req, doc, clean, edits, faults>>
    BY <1>2 DEF CheckSignIn
  <2>3. TypeOK'
    BY <2>1, <2>2 DEF TypeOK
  <2>4. Guarded'
    BY <2>1, <2>2 DEF TypeOK, Guarded
  <2>5. \A v \in Writers : InFile(v)' <=> InFile(v)
    BY <2>1 DEF TypeOK, InFile
  <2>6. \A v \in Writers : pc'[v] \in {"write", "publish"} => pc'[v] = pc[v]
    BY <2>1 DEF TypeOK
  <2>7. Alone' /\ DiskAgrees'
    BY <2>2, <2>5, <2>6 DEF Alone, DiskAgrees
  <2>8. QED
    BY <2>3, <2>4, <2>7
<1>3. CASE RereadForSignIn(w)
  <2>1. TakeDocument(w, "reread") /\ mem # Malformed
    BY <1>3 DEF RereadForSignIn
  <2>2. req[w] \in Requests /\ req[w].op = "signin" /\ mem \in Text
    BY <2>1 DEF TakeDocument, Goto, Guarded, TypeOK
  <2>3. Edit(req[w], mem) \in Document
    BY <2>1, <2>2, EditType
  <2>4. QED
    BY <2>1, <2>2, <2>3, TakeInv
<1>4. CASE RefuseRead(w)
  <2>1. Refuse(w) /\ faults' = faults /\ pc[w] \in {"read", "reread"}
    BY <1>4 DEF RefuseRead
  <2>2. ~ InFile(w) /\ faults' \in Nat
    BY <2>1 DEF InFile, TypeOK
  <2>3. QED
    BY <2>1, <2>2, RefuseInv
<1>5. CASE RefuseInput(w)
  <2>1. Refuse(w) /\ faults' = faults /\ pc[w] = "read"
    BY <1>5 DEF RefuseInput
  <2>2. ~ InFile(w) /\ faults' \in Nat
    BY <2>1 DEF InFile, TypeOK
  <2>3. QED
    BY <2>1, <2>2, RefuseInv
<1>6. CASE FailOpen(w)
  <2>1. Refuse(w) /\ faults' = faults + 1 /\ pc[w] = "open"
    BY <1>6 DEF FailOpen
  <2>2. ~ InFile(w) /\ faults' \in Nat
    BY <2>1 DEF InFile, TypeOK
  <2>3. QED
    BY <2>1, <2>2, RefuseInv
<1>7. CASE OpenFile(w)
  <2>1. /\ pc[w] = "open" /\ pc' = [pc EXCEPT ![w] = "write"]
        /\ file' = Truncated /\ clean' = (\A v \in Writers : ~ InFile(v))
        /\ UNCHANGED <<mem, req, doc, edits, faults>>
    BY <1>7 DEF OpenFile, Goto
  <2>2. TypeOK'
    BY <2>1 DEF TypeOK
  <2>3. Guarded'
    BY <2>1 DEF TypeOK, Guarded
  <2>4. InFile(w)'
    BY <2>1 DEF TypeOK, InFile
  <2>5. clean' => \A v \in Writers : pc'[v] \in {"write", "publish"} => v = w /\ pc'[v] = "write"
    BY <2>1 DEF TypeOK, InFile
  <2>6. Alone'
    BY <2>1, <2>5 DEF Alone, InFile
  <2>7. QED
    BY <2>2, <2>3, <2>4, <2>6 DEF DiskAgrees
<1>8. CASE WriteFile(w)
  <2>1. /\ pc[w] = "write" /\ pc' = [pc EXCEPT ![w] = "publish"]
        /\ UNCHANGED <<mem, req, doc, clean, edits, faults>>
    BY <1>8 DEF WriteFile, Goto
  <2>2. /\ file' \in {doc[w]} \cup Text
        /\ file = Truncated => file' = doc[w]
    BY <1>8 DEF WriteFile
  <2>3. TypeOK'
    BY <2>1, <2>2 DEF TypeOK, Text
  <2>4. Guarded'
    BY <2>1 DEF TypeOK, Guarded
  <2>5. InFile(w) /\ InFile(w)' /\ \A v \in Writers : InFile(v)' <=> InFile(v)
    BY <2>1 DEF TypeOK, InFile
  <2>6. Alone'
    <3> SUFFICES ASSUME clean PROVE Alone'
      BY <2>1 DEF Alone
    <3>1. file' = doc[w]
      BY <2>1, <2>2 DEF Alone
    <3>2. \A v \in Writers : pc'[v] \in {"write", "publish"} => v = w /\ pc'[v] = "publish"
      BY <2>1, <2>5 DEF TypeOK, InFile, Alone
    <3>3. QED
      BY <2>1, <3>1, <3>2 DEF Alone, InFile
  <2>7. QED
    BY <2>3, <2>4, <2>5, <2>6 DEF DiskAgrees
<1>9. CASE FailWrite(w)
  <2>1. /\ pc' = [pc EXCEPT ![w] = "idle"] /\ req' = [req EXCEPT ![w] = NoRequest]
        /\ clean' = FALSE /\ faults' = faults + 1
        /\ UNCHANGED <<mem, file, doc, edits>>
    BY <1>9 DEF FailWrite, Goto
  <2>2. TypeOK'
    <3>1. clean' \in BOOLEAN
      BY <2>1
    <3>2. /\ pc' \in [Writers -> {"idle", "read", "reread", "open", "write", "publish"}]
          /\ req' \in [Writers -> Requests \cup {NoRequest}]
          /\ faults' \in Nat
      BY <2>1 DEF TypeOK
    <3>3. QED
      BY <2>1, <3>1, <3>2 DEF TypeOK
  <2>3. Guarded'
    BY <2>1 DEF TypeOK, Guarded
  <2>4. QED
    BY <2>1, <2>2, <2>3 DEF Alone, DiskAgrees
<1>10. CASE Publish(w)
  <2>1. /\ pc[w] = "publish" /\ pc' = [pc EXCEPT ![w] = "idle"]
        /\ req' = [req EXCEPT ![w] = NoRequest] /\ mem' = doc[w]
        /\ UNCHANGED <<file, doc, clean, edits, faults>>
    BY <1>10 DEF Publish, Goto
  <2>2. TypeOK'
    BY <2>1 DEF TypeOK, Text
  <2>3. Guarded'
    BY <2>1 DEF TypeOK, Guarded
  <2>4. \A v \in Writers : pc'[v] \in {"write", "publish"} => pc'[v] = pc[v]
    BY <2>1 DEF TypeOK
  <2>5. Alone'
    BY <2>1, <2>4 DEF Alone, InFile
  <2>6. DiskAgrees'
    <3>1. clean => file = doc[w]
      BY <2>1 DEF Alone
    <3>2. doc[w] # Truncated
      BY MarkersAssumption DEF TypeOK
    <3>3. QED
      BY <2>1, <3>1, <3>2 DEF DiskAgrees
  <2>7. QED
    BY <2>2, <2>3, <2>5, <2>6
<1>11. QED
  BY <1>1, <1>2, <1>3, <1>4, <1>5, <1>6, <1>7, <1>8, <1>9, <1>10 DEF Handle

(* A request that arrives. *)
LEMMA SubmitInv ==
  ASSUME NEW w \in Writers, NEW r \in Requests, IInv, Submit(w, r)
  PROVE  IInv'
<1> USE DEF IInv
<1>1. /\ pc[w] = "idle" /\ pc' = [pc EXCEPT ![w] = "read"]
      /\ req' = [req EXCEPT ![w] = r] /\ edits' = edits + 1
      /\ UNCHANGED <<mem, file, doc, clean, faults>>
  BY DEF Submit, Goto
<1>2. TypeOK'
  BY <1>1 DEF TypeOK
<1>3. Guarded'
  BY <1>1 DEF TypeOK, Guarded
<1>4. \A v \in Writers : InFile(v)' <=> InFile(v)
  BY <1>1 DEF TypeOK, InFile
<1>5. \A v \in Writers : pc'[v] \in {"write", "publish"} => pc'[v] = pc[v]
  BY <1>1 DEF TypeOK
<1>6. Alone' /\ DiskAgrees'
  BY <1>1, <1>4, <1>5 DEF Alone, DiskAgrees
<1>7. QED
  BY <1>2, <1>3, <1>6

(* A crash and the boot after it. *)
LEMMA RestartInv == IInv /\ Restart => IInv'
<1> SUFFICES ASSUME IInv, Restart PROVE IInv'
  OBVIOUS
<1> USE DEF IInv
<1>1. /\ pc' = [w \in Writers |-> "idle"] /\ req' = [w \in Writers |-> NoRequest]
      /\ mem' = IF file = Truncated THEN Blank ELSE file
      /\ clean' = TRUE /\ faults' = faults + 1 /\ UNCHANGED <<file, doc, edits>>
  BY DEF Restart
<1>2. Blank \in Document
  BY DEF Blank, Document
<1>3. TypeOK'
  BY <1>1, <1>2 DEF TypeOK, Text
<1>4. Guarded' /\ Alone'
  BY <1>1 DEF Guarded, Alone, InFile
<1>5. DiskAgrees'
  BY <1>1 DEF DiskAgrees
<1>6. QED
  BY <1>3, <1>4, <1>5

LEMMA NextInv == IInv /\ [Next]_vars => IInv'
<1> SUFFICES ASSUME IInv, [Next]_vars PROVE IInv'
  OBVIOUS
<1>1. CASE Restart
  BY <1>1, RestartInv
<1>2. CASE \E w \in Writers : Handle(w)
  BY <1>2, HandleInv
<1>3. CASE \E w \in Writers : \E r \in Requests : Submit(w, r)
  BY <1>3, SubmitInv
<1>4. CASE UNCHANGED vars
  BY <1>4 DEF vars, IInv, TypeOK, Guarded, Alone, DiskAgrees, InFile
<1>5. QED
  BY <1>1, <1>2, <1>3, <1>4 DEF Next

THEOREM Invariance == Spec => []IInv
  BY InitInv, NextInv, PTL DEF Spec

-----------------------------------------------------------------------------
(* Every reachable state has its types: in particular what a request is    *)
(* about to write is always a whole document, never the malformed text     *)
(* another request or an operator left in memory (routes/config.rs).       *)
THEOREM TypeCorrect == Spec => []TypeOK
<1>1. IInv => TypeOK
  BY DEF IInv
<1>2. QED
  BY <1>1, Invariance, PTL

(* The file and the config in memory agree after a clean write, for any    *)
(* number of requests (routes/config.rs, routes/credentials.rs).           *)
THEOREM DiskAgreesHolds == Spec => []DiskAgrees
<1>1. IInv => DiskAgrees
  BY DEF IInv
<1>2. QED
  BY <1>1, Invariance, PTL

(* A binding that is acknowledged resolves in the config it is written in. *)
THEOREM BindResolves == Spec => AckedBindResolves
<1> DEFINE Resolves(w) ==
      pc[w] = "publish" /\ pc'[w] = "idle" /\ UNCHANGED faults
        /\ req[w].op = "bind" /\ req[w].ref # None
        => Registered(req[w].ref, mem')
<1>1. IInv /\ [Next]_vars => [\A w \in Writers : Resolves(w)]_vars
  <2> SUFFICES ASSUME IInv, Next, NEW w \in Writers,
                      pc[w] = "publish", pc'[w] = "idle", UNCHANGED faults,
                      req[w].op = "bind", req[w].ref # None
               PROVE  Registered(req[w].ref, mem')
    OBVIOUS
  <2>1. TypeOK /\ Guarded
    BY DEF IInv
  <2>2. Publish(w)
    <3>1. ~ Restart
      BY <2>1 DEF Restart, TypeOK
    <3>2. PICK v \in Writers : Handle(v) \/ \E r \in Requests : Submit(v, r)
      BY <3>1 DEF Next
    <3>3. pc' = [pc EXCEPT ![v] = pc'[v]]
      BY <3>2, <2>1 DEF Handle, Read, CheckSignIn, RereadForSignIn, TakeDocument, RefuseRead,
        RefuseInput, Refuse, OpenFile, WriteFile, FailOpen, FailWrite, Publish, Submit, Goto, TypeOK
    <3>4. v = w
      BY <2>1, <3>3 DEF TypeOK
    <3>5. QED
      BY <3>2, <3>4, <2>1 DEF Handle, Read, CheckSignIn, RereadForSignIn, TakeDocument, RefuseRead,
        RefuseInput, Refuse, OpenFile, WriteFile, FailOpen, FailWrite, Submit, Goto, TypeOK
  <2>3. mem' = doc[w] /\ doc[w] \in Document
    BY <2>1, <2>2 DEF Publish, TypeOK
  <2>4. doc[w].lark[req[w].ref] # None
    BY <2>1 DEF Guarded
  <2>5. QED
    BY <2>3, <2>4, MarkersAssumption DEF Registered
<1>2. QED
  BY <1>1, Invariance, PTL DEF Spec, AckedBindResolves
=============================================================================
