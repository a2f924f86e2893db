-------------------------- MODULE SupervisorProofs --------------------------
(***************************************************************************)
(* What Supervisor's runs check on one App, proved for every set of Apps,  *)
(* generations and documents and for every bound.                          *)
(***************************************************************************)
EXTENDS Supervisor, TLAPS

(* What the supervisor task keeps true of its own locals; none of the      *)
(* safety properties is inductive without it.                              *)
Holding == {"built", "serving", "compare", "stopping"}
Bookkeeping ==
  \A a \in Apps :
    /\ pc[a] \in Holding => inst[a] \in Gens /\ status[a] = "running"
    /\ seen[a] <= version
    /\ \A g \in aborted[a] : actor[a][g] # "none"
    /\ pc[a] = "built" => actor[a][inst[a]] = "none"

IInv ==
  /\ TypeOK /\ Bookkeeping
  /\ OneGeneration /\ SlotIsLive /\ NoLostEdit /\ StatusHonest /\ ActionRouting

-----------------------------------------------------------------------------
(* The change key of a document is a key. *)
LEMMA ChangeKeyType ==
  ASSUME NEW doc \in Document, NEW a \in Apps
  PROVE  ChangeKey(doc, a) \in Keys
<1> DEFINE s == doc.section[a]
<1>1. s \in Section \cup {None}
  BY DEF Document
<1>2. s # None => s.lark_app \in Refs \cup {None}
  BY <1>1 DEF Section
<1>3. s # None /\ s.lark_app # None => doc.lark[s.lark_app] \in Creds \cup {None}
  BY <1>2 DEF Document
<1>4. QED
  BY <1>1, <1>3 DEF ChangeKey, Keys

(* Doubling with the cap stays within the delays the code knows. *)
LEMMA NextDelay ==
  ASSUME NEW d \in InitialDelay..MaxDelay
  PROVE  /\ (IF 2 * d < MaxDelay THEN 2 * d ELSE MaxDelay) \in InitialDelay..MaxDelay
         /\ d \in 0..MaxDelay
BY DEF InitialDelay, MaxDelay

LEMMA TypeInit == Init => TypeOK
<1> SUFFICES ASSUME Init PROVE TypeOK
  OBVIOUS
<1>1. config \in Document
  BY DocsAssumption DEF Init
<1>2. [section |-> None, lark |-> None] \in Keys
  BY DEF Keys
<1>3. QED
  BY <1>1, <1>2 DEF Init, TypeOK, InitialDelay, MaxDelay

(* Every step keeps every variable in its type.  A step that uses inst[a]  *)
(* as a generation needs Bookkeeping for that.                             *)
LEMMA TypeNext == TypeOK /\ Bookkeeping /\ [Next]_vars => TypeOK'
<1> SUFFICES ASSUME TypeOK, Bookkeeping, [Next]_vars PROVE TypeOK'
  OBVIOUS
<1> USE DEF TypeOK, planeVars, supVars, runVars, actVars
<1>1. ASSUME NEW doc \in Docs, SetConfig(doc) PROVE TypeOK'
  BY <1>1, DocsAssumption DEF SetConfig
<1>2. ASSUME NEW a \in Apps, Dispatch(a) PROVE TypeOK'
  BY <1>2 DEF Dispatch
<1>3. ASSUME NEW a \in Apps, Supervise(a) PROVE TypeOK'
  <2>1. CASE ObserveDisabled(a)
    BY <2>1, ChangeKeyType DEF ObserveDisabled, Goto, MarkSeen, SetStatus
  <2>2. CASE ObserveEnabled(a)
    BY <2>2, ChangeKeyType DEF ObserveEnabled, Goto, MarkSeen, SetStatus
  <2>3. CASE WakeDisabled(a)
    BY <2>3 DEF WakeDisabled, Goto, MarkSeen, MaxDelay
  <2>4. CASE BuildOk(a)
    BY <2>4 DEF BuildOk, Goto, SetStatus, Unused, InitialDelay, MaxDelay
  <2>5. CASE BuildFails(a)
    BY <2>5, NextDelay DEF BuildFails, Goto, SetStatus, StartWait
  <2>6. CASE RunGeneration(a)
    BY <2>6 DEF RunGeneration, Goto, Bookkeeping, Holding
  <2>7. CASE Crashed(a)
    BY <2>7, NextDelay DEF Crashed, Goto, AbortActions, ReleaseRun, SetStatus, StartWait, Bookkeeping, Holding
  <2>8. CASE NoticeChange(a)
    BY <2>8 DEF NoticeChange, Goto, MarkSeen
  <2>9. CASE IgnoreChange(a)
    BY <2>9 DEF IgnoreChange, Goto
  <2>10. CASE BeginRestart(a)
    BY <2>10 DEF BeginRestart, Goto, AbortActions, Bookkeeping, Holding
  <2>11. CASE FinishRestart(a)
    BY <2>11 DEF FinishRestart, Goto, ReleaseRun, MaxDelay, Bookkeeping, Holding
  <2>12. CASE BackoffExpires(a)
    BY <2>12 DEF BackoffExpires, Goto
  <2>13. CASE BackoffCutShort(a)
    BY <2>13 DEF BackoffCutShort, Goto, MarkSeen, MaxDelay
  <2>14. QED
    BY <1>3, <2>1, <2>2, <2>3, <2>4, <2>5, <2>6, <2>7, <2>8, <2>9, <2>10, <2>11, <2>12, <2>13 DEF Supervise
<1>4. ASSUME NEW a \in Apps, NEW g \in Gens, RunTask(a, g) PROVE TypeOK'
  <2>1. CASE Publish(a, g)
    BY <2>1 DEF Publish
  <2>2. CASE StopRun(a, g)
    BY <2>2 DEF StopRun, EndRun
  <2>3. CASE FailRun(a, g)
    BY <2>3 DEF FailRun, EndRun
  <2>4. QED
    BY <1>4, <2>1, <2>2, <2>3 DEF RunTask
<1>5. ASSUME NEW a \in Apps, NEW g \in Gens, ActionTask(a, g) PROVE TypeOK'
  <2>1. CASE Receive(a, g)
    BY <2>1 DEF Receive
  <2>2. CASE HandleAction(a, g)
    BY <2>2 DEF HandleAction
  <2>3. CASE DropActor(a, g)
    BY <2>3 DEF DropActor, EndActor
  <2>4. CASE ActionPanics(a, g)
    BY <2>4 DEF ActionPanics, EndActor
  <2>5. QED
    BY <1>5, <2>1, <2>2, <2>3, <2>4 DEF ActionTask
<1>6. CASE UNCHANGED vars
  BY <1>6 DEF vars
<1>7. QED
  BY <1>1, <1>2, <1>3, <1>4, <1>5, <1>6 DEF Next

-----------------------------------------------------------------------------
(* Every step keeps the inductive invariant. *)
LEMMA SafetyNext == IInv /\ TypeOK' /\ [Next]_vars => IInv'
<1> DEFINE Inv == /\ Bookkeeping /\ OneGeneration /\ SlotIsLive
                  /\ NoLostEdit /\ StatusHonest /\ ActionRouting
<1> SUFFICES ASSUME IInv, TypeOK', [Next]_vars PROVE Inv'
  BY DEF IInv
<1> USE DEF IInv, TypeOK, Bookkeeping, Holding, OneGeneration, SlotIsLive, NoLostEdit,
            StatusHonest, ActionRouting, planeVars, supVars, runVars, actVars
<1>1. ASSUME NEW doc \in Docs, SetConfig(doc) PROVE Inv'
  BY <1>1 DEF SetConfig
<1>2. ASSUME NEW a \in Apps, Dispatch(a) PROVE Inv'
  BY <1>2 DEF Dispatch
<1>3. ASSUME NEW a \in Apps, Supervise(a) PROVE Inv'
  <2>1. CASE ObserveDisabled(a)
    BY <2>1 DEF ObserveDisabled, Goto, MarkSeen, SetStatus
  <2>2. CASE ObserveEnabled(a)
    BY <2>2 DEF ObserveEnabled, Goto, MarkSeen, SetStatus
  <2>3. CASE WakeDisabled(a)
    BY <2>3 DEF WakeDisabled, Goto, MarkSeen, Changed
  <2>4. CASE BuildOk(a)
    BY <2>4 DEF BuildOk, Goto, SetStatus, Unused
  <2>5. CASE BuildFails(a)
    BY <2>5 DEF BuildFails, Goto, SetStatus, StartWait
  <2>6. CASE RunGeneration(a)
    BY <2>6 DEF RunGeneration, Goto
  <2>7. CASE Crashed(a)
    BY <2>7 DEF Crashed, Goto, AbortActions, ReleaseRun, SetStatus, StartWait
  <2>8. CASE NoticeChange(a)
    BY <2>8 DEF NoticeChange, Goto, MarkSeen, Changed
  <2>9. CASE IgnoreChange(a)
    BY <2>9 DEF IgnoreChange, Goto
  <2>10. CASE BeginRestart(a)
    BY <2>10 DEF BeginRestart, Goto, AbortActions
  <2>11. CASE FinishRestart(a)
    BY <2>11 DEF FinishRestart, Goto, ReleaseRun
  <2>12. CASE BackoffExpires(a)
    BY <2>12 DEF BackoffExpires, Goto
  <2>13. CASE BackoffCutShort(a)
    BY <2>13 DEF BackoffCutShort, Goto, MarkSeen, Changed
  <2>14. QED
    BY <1>3, <2>1, <2>2, <2>3, <2>4, <2>5, <2>6, <2>7, <2>8, <2>9, <2>10, <2>11, <2>12, <2>13 DEF Supervise
<1>4. ASSUME NEW a \in Apps, NEW g \in Gens, RunTask(a, g) PROVE Inv'
  <2>1. CASE Publish(a, g)
    BY <2>1, NoneAssumption DEF Publish
  <2>2. CASE StopRun(a, g)
    BY <2>2, NoneAssumption DEF StopRun, EndRun
  <2>3. CASE FailRun(a, g)
    BY <2>3, NoneAssumption DEF FailRun, EndRun
  <2>4. QED
    BY <1>4, <2>1, <2>2, <2>3 DEF RunTask
<1>5. ASSUME NEW a \in Apps, NEW g \in Gens, ActionTask(a, g) PROVE Inv'
  <2>1. CASE Receive(a, g)
    BY <2>1 DEF Receive
  <2>2. CASE HandleAction(a, g)
    BY <2>2 DEF HandleAction
  <2>3. CASE DropActor(a, g)
    BY <2>3 DEF DropActor, EndActor
  <2>4. CASE ActionPanics(a, g)
    BY <2>4 DEF ActionPanics, EndActor
  <2>5. QED
    BY <1>5, <2>1, <2>2, <2>3, <2>4 DEF ActionTask
<1>6. CASE UNCHANGED vars
  BY <1>6 DEF vars
<1>7. QED
  BY <1>1, <1>2, <1>3, <1>4, <1>5, <1>6 DEF Next

-----------------------------------------------------------------------------
LEMMA SafetyInit == Init => IInv
<1> SUFFICES ASSUME Init PROVE IInv
  OBVIOUS
<1>1. TypeOK
  BY TypeInit
<1>2. QED
  BY <1>1, NoneAssumption DEF Init, IInv, Bookkeeping, Holding, OneGeneration, SlotIsLive,
     NoLostEdit, StatusHonest, ActionRouting

(* The inductive invariant holds in every reachable state. *)
THEOREM Invariance == Spec => []IInv
<1>1. IInv /\ [Next]_vars => IInv'
  BY TypeNext, SafetyNext DEF IInv
<1>2. QED
  BY SafetyInit, <1>1, PTL DEF Spec

(* Every variable keeps its type, whatever the Apps, documents and bounds. *)
THEOREM TypeCorrect == Spec => []TypeOK
BY Invariance, PTL DEF IInv

(* No App ever has two generations alive, nor one while the next is built. *)
THEOREM OneGenerationHolds == Spec => []OneGeneration
BY Invariance, PTL DEF IInv

(* Webhooks are served from the running generation and from no other. *)
THEOREM SlotIsLiveHolds == Spec => []SlotIsLive
BY Invariance, PTL DEF IInv

(* No config edit is lost between the supervisor's reads of the channel. *)
THEOREM NoLostEditHolds == Spec => []NoLostEdit
BY Invariance, PTL DEF IInv

(* Nothing runs behind a status other than running. *)
THEOREM StatusHonestHolds == Spec => []StatusHonest
BY Invariance, PTL DEF IInv

(* Actions reach the generation that serves. *)
THEOREM ActionRoutingHolds == Spec => []ActionRouting
BY Invariance, PTL DEF IInv

-----------------------------------------------------------------------------
(* Every key a supervisor acts on is the key of a document that was written. *)
KeyFromDocs ==
  /\ config \in Docs
  /\ \A a \in Apps : pc[a] # "top" => \E d \in Docs : key[a] = ChangeKey(d, a)
  /\ ForeignEditsHarmless

LEMMA KeyFromDocsNext == TypeOK /\ KeyFromDocs /\ [Next]_vars => KeyFromDocs'
<1> SUFFICES ASSUME TypeOK, KeyFromDocs, [Next]_vars PROVE KeyFromDocs'
  OBVIOUS
<1> USE DEF TypeOK, KeyFromDocs, ForeignEditsHarmless, planeVars, supVars, runVars, actVars
<1>1. ASSUME NEW doc \in Docs, SetConfig(doc) PROVE KeyFromDocs'
  BY <1>1 DEF SetConfig
<1>2. ASSUME NEW a \in Apps, Dispatch(a) PROVE KeyFromDocs'
  BY <1>2 DEF Dispatch
<1>3. ASSUME NEW a \in Apps, Supervise(a) PROVE KeyFromDocs'
  <2>1. CASE ObserveDisabled(a) \/ ObserveEnabled(a)
    <3>1. key'[a] = ChangeKey(config, a) /\ UNCHANGED <<config, cancelled>>
      BY <2>1 DEF ObserveDisabled, ObserveEnabled
    <3>2. \A b \in Apps : b # a => key'[b] = key[b] /\ (pc'[b] # "top" => pc[b] # "top")
      BY <2>1 DEF ObserveDisabled, ObserveEnabled, Goto
    <3>3. QED
      BY <3>1, <3>2
  <2>2. CASE WakeDisabled(a) \/ BackoffExpires(a) \/ BackoffCutShort(a)
    BY <2>2 DEF WakeDisabled, BackoffExpires, BackoffCutShort, Goto
  <2>3. CASE BuildOk(a) \/ BuildFails(a) \/ RunGeneration(a)
    BY <2>3 DEF BuildOk, BuildFails, RunGeneration, Goto
  <2>4. CASE Crashed(a)
    BY <2>4 DEF Crashed, Goto, ReleaseRun
  <2>5. CASE NoticeChange(a) \/ IgnoreChange(a)
    BY <2>5 DEF NoticeChange, IgnoreChange, Goto
  <2>6. CASE BeginRestart(a)
    \* Both keys are keys of written documents, so for an App whose key no
    \* document changes they cannot differ.
    <3>1. PICK d \in Docs : key[a] = ChangeKey(d, a)
      BY <2>6 DEF BeginRestart, Goto
    <3>2. ~ \A d1, d2 \in Docs : ChangeKey(d1, a) = ChangeKey(d2, a)
      BY <2>6, <3>1 DEF BeginRestart
    <3>3. \A b \in Apps : b # a => cancelled'[b] = cancelled[b]
      BY <2>6 DEF BeginRestart
    <3>4. UNCHANGED <<config, key>> /\ \A b \in Apps : pc'[b] # "top" => pc[b] # "top"
      BY <2>6 DEF BeginRestart, Goto
    <3>5. QED
      BY <3>2, <3>3, <3>4
  <2>7. CASE FinishRestart(a)
    BY <2>7 DEF FinishRestart, Goto, ReleaseRun
  <2>8. QED
    BY <1>3, <2>1, <2>2, <2>3, <2>4, <2>5, <2>6, <2>7 DEF Supervise
<1>4. ASSUME NEW a \in Apps, NEW g \in Gens, RunTask(a, g) PROVE KeyFromDocs'
  BY <1>4 DEF RunTask, Publish, StopRun, FailRun, EndRun
<1>5. ASSUME NEW a \in Apps, NEW g \in Gens, ActionTask(a, g) PROVE KeyFromDocs'
  BY <1>5 DEF ActionTask, Receive, HandleAction, DropActor, ActionPanics, EndActor
<1>6. CASE UNCHANGED vars
  BY <1>6 DEF vars
<1>7. QED
  BY <1>1, <1>2, <1>3, <1>4, <1>5, <1>6 DEF Next

(* Edits that never change an App's key never make the supervisor stop it. *)
THEOREM ForeignEditsHarmlessHolds == Spec => []ForeignEditsHarmless
<1>1. Init => KeyFromDocs
  BY DEF Init, KeyFromDocs, ForeignEditsHarmless
<1>2. QED
  BY <1>1, TypeCorrect, KeyFromDocsNext, PTL DEF Spec, KeyFromDocs


-----------------------------------------------------------------------------
(* Every step of the supervisor, its run tasks and its action tasks is a   *)
(* step of AppLifecycle or leaves it as it is, under the mapping that      *)
(* Supervisor gives, for every value of its constants.                     *)

(* What the mapping needs of the supervisor beyond its own properties: it  *)
(* holds an instance only where it uses one, the instance it awaits has a  *)
(* run task, and only the run task it is stopping has its token cancelled. *)
Tokens ==
  \A a \in Apps :
    /\ pc[a] \notin Holding => inst[a] = None
    /\ pc[a] \in Holding \ {"built"} => task[a][inst[a]] # "none"
    /\ \A g \in cancelled[a] : pc[a] = "stopping" /\ g = inst[a]

HeldOf(a) == IF ModeOf(a) = "off" THEN None ELSE key[a]

Full == IInv /\ Tokens

LEMMA TokensInit == Init => Tokens
  BY DEF Init, Tokens, Holding

(* Every step keeps track of instances and tokens. *)
LEMMA TokensNext == IInv /\ Tokens /\ [Next]_vars => Tokens'
<1> SUFFICES ASSUME IInv, Tokens, [Next]_vars PROVE Tokens'
  OBVIOUS
<1> USE DEF IInv, TypeOK, Bookkeeping, Holding, OneGeneration, Tokens,
            planeVars, supVars, runVars, actVars
<1>1. ASSUME NEW doc \in Docs, SetConfig(doc) PROVE Tokens'
  BY <1>1 DEF SetConfig
<1>2. ASSUME NEW a \in Apps, Dispatch(a) PROVE Tokens'
  BY <1>2 DEF Dispatch
<1>3. ASSUME NEW a \in Apps, Supervise(a) PROVE Tokens'
  <2>1. CASE ObserveDisabled(a)
    BY <2>1 DEF ObserveDisabled, Goto
  <2>2. CASE ObserveEnabled(a)
    BY <2>2 DEF ObserveEnabled, Goto
  <2>3. CASE WakeDisabled(a)
    BY <2>3 DEF WakeDisabled, Goto
  <2>4. CASE BuildOk(a)
    BY <2>4 DEF BuildOk, Goto
  <2>5. CASE BuildFails(a)
    BY <2>5 DEF BuildFails, Goto
  <2>6. CASE RunGeneration(a)
    BY <2>6 DEF RunGeneration, Goto
  <2>7. CASE Crashed(a)
    BY <2>7 DEF Crashed, Goto, ReleaseRun
  <2>8. CASE NoticeChange(a)
    BY <2>8 DEF NoticeChange, Goto
  <2>9. CASE IgnoreChange(a)
    BY <2>9 DEF IgnoreChange, Goto
  <2>10. CASE BeginRestart(a)
    BY <2>10 DEF BeginRestart, Goto
  <2>11. CASE FinishRestart(a)
    BY <2>11 DEF FinishRestart, Goto, ReleaseRun
  <2>12. CASE BackoffExpires(a)
    BY <2>12 DEF BackoffExpires, Goto
  <2>13. CASE BackoffCutShort(a)
    BY <2>13 DEF BackoffCutShort, Goto
  <2>14. QED
    BY <1>3, <2>1, <2>2, <2>3, <2>4, <2>5, <2>6, <2>7, <2>8, <2>9, <2>10, <2>11, <2>12, <2>13 DEF Supervise
<1>4. ASSUME NEW a \in Apps, NEW g \in Gens, RunTask(a, g) PROVE Tokens'
  <2>1. CASE Publish(a, g)
    BY <2>1 DEF Publish
  <2>2. CASE StopRun(a, g)
    BY <2>2 DEF StopRun, EndRun
  <2>3. CASE FailRun(a, g)
    BY <2>3 DEF FailRun, EndRun
  <2>4. QED
    BY <1>4, <2>1, <2>2, <2>3 DEF RunTask
<1>5. ASSUME NEW a \in Apps, NEW g \in Gens, ActionTask(a, g) PROVE Tokens'
  BY <1>5 DEF ActionTask, Receive, HandleAction, DropActor, ActionPanics, EndActor
<1>6. CASE UNCHANGED vars
  BY <1>6 DEF vars
<1>7. QED
  BY <1>1, <1>2, <1>3, <1>4, <1>5, <1>6 DEF Next

-----------------------------------------------------------------------------
(* The effects an App's step can have on its life.                         *)

Still(b) == ModeOf(b)' = ModeOf(b) /\ HeldOf(b)' = HeldOf(b)

Moves(a) ==
  \/ Still(a) /\ (faults' = faults \/ faults' = faults + 1)
  \/ /\ ModeOf(a) = "off" /\ ModeOf(a)' = "preparing" /\ faults' = faults
     /\ Enabled(ChangeKey(config, a)) /\ HeldOf(a)' = ChangeKey(config, a)
  \/ ModeOf(a) = "preparing" /\ ModeOf(a)' = "on" /\ HeldOf(a)' = HeldOf(a) /\ faults' = faults
  \/ /\ ModeOf(a) \in {"preparing", "on"} /\ ModeOf(a)' = "leaving"
     /\ ChangeKey(config, a) # HeldOf(a) /\ HeldOf(a)' = HeldOf(a) /\ faults' = faults
  \/ /\ ModeOf(a) \in {"leaving", "preparing"} /\ ModeOf(a)' = "off"
     /\ HeldOf(a)' = None /\ faults' = faults
  \/ ModeOf(a) # "off" /\ ModeOf(a)' = "off" /\ HeldOf(a)' = None /\ faults' = faults + 1

(* A step that has one of them on one App and none on the others is a step *)
(* of the lifecycle.                                                       *)
LEMMA MovesAreLife ==
  ASSUME NEW a \in Apps, Moves(a), config' = config, \A b \in Apps \ {a} : Still(b)
  PROVE  [Life!Next]_(Life!vars)
<1> DEFINE want == [b \in Apps |-> ChangeKey(config, b)]
           mode == [b \in Apps |-> ModeOf(b)]
           held == [b \in Apps |-> IF ModeOf(b) = "off" THEN None ELSE key[b]]
<1>1. want' = want /\ want[a] = ChangeKey(config, a)
  BY DEF ChangeKey
<1>2. mode[a] = ModeOf(a) /\ held[a] = HeldOf(a)
  BY DEF HeldOf
<1>3. /\ mode' = [mode EXCEPT ![a] = ModeOf(a)']
      /\ held' = [held EXCEPT ![a] = HeldOf(a)']
  <2>1. mode' = [b \in Apps |-> ModeOf(b)'] /\ held' = [b \in Apps |-> HeldOf(b)']
    BY DEF HeldOf
  <2>2. held = [b \in Apps |-> HeldOf(b)]
    BY DEF HeldOf
  <2>3. QED
    BY <2>1, <2>2 DEF Still
<1>4. CASE Still(a) /\ faults' = faults
  <2>1. mode' = mode /\ held' = held
    BY <1>2, <1>3, <1>4 DEF Still
  <2>2. QED
    BY <1>1, <1>4, <2>1 DEF Life!vars
<1>5. CASE Still(a) /\ faults' = faults + 1
  <2>1. mode' = mode /\ held' = held
    BY <1>2, <1>3, <1>5 DEF Still
  <2>2. Life!Survive
    BY <1>1, <1>5, <2>1 DEF Life!Survive
  <2>3. QED
    BY <2>2 DEF Life!Next
<1>6. CASE /\ ModeOf(a) = "off" /\ ModeOf(a)' = "preparing" /\ faults' = faults
           /\ Enabled(ChangeKey(config, a)) /\ HeldOf(a)' = ChangeKey(config, a)
  <2>1. Life!Prepare(a)
    BY <1>1, <1>2, <1>3, <1>6 DEF Life!Prepare
  <2>2. QED
    BY <2>1 DEF Life!Next
<1>7. CASE /\ ModeOf(a) = "preparing" /\ ModeOf(a)' = "on" /\ HeldOf(a)' = HeldOf(a)
           /\ faults' = faults
  <2>1. Life!Serve(a)
    BY <1>1, <1>2, <1>3, <1>7 DEF Life!Serve
  <2>2. QED
    BY <2>1 DEF Life!Next
<1>8. CASE /\ ModeOf(a) \in {"preparing", "on"} /\ ModeOf(a)' = "leaving"
           /\ ChangeKey(config, a) # HeldOf(a) /\ HeldOf(a)' = HeldOf(a) /\ faults' = faults
  <2>1. Life!Leave(a)
    BY <1>1, <1>2, <1>3, <1>8 DEF Life!Leave
  <2>2. QED
    BY <2>1 DEF Life!Next
<1>9. CASE /\ ModeOf(a) \in {"leaving", "preparing"} /\ ModeOf(a)' = "off"
           /\ HeldOf(a)' = None /\ faults' = faults
  <2>1. Life!Stop(a) \/ Life!GiveUp(a)
    BY <1>1, <1>2, <1>3, <1>9 DEF Life!Stop, Life!GiveUp, Life!TurnOff
  <2>2. QED
    BY <2>1 DEF Life!Next
<1>10. CASE ModeOf(a) # "off" /\ ModeOf(a)' = "off" /\ HeldOf(a)' = None /\ faults' = faults + 1
  <2>1. Life!Fail(a)
    BY <1>1, <1>2, <1>3, <1>10 DEF Life!Fail, Life!TurnOff
  <2>2. QED
    BY <2>1 DEF Life!Next
<1>11. QED
  BY <1>4, <1>5, <1>6, <1>7, <1>8, <1>9, <1>10 DEF Moves

-----------------------------------------------------------------------------
(* Every step of an App's supervisor task has one of the effects on it.    *)
LEMMA SuperviseMoves ==
  ASSUME NEW a \in Apps, Full, Supervise(a)
  PROVE  Moves(a) /\ config' = config /\ \A b \in Apps \ {a} : Still(b)
<1> USE DEF Full, IInv, TypeOK, Bookkeeping, Holding, OneGeneration, Tokens, Moves, Still,
            HeldOf, ModeOf, Goto, planeVars, supVars, runVars, actVars
<1>1. CASE ObserveDisabled(a)
  <2>1. /\ pc[a] = "top" /\ pc' = [pc EXCEPT ![a] = "disabled"]
        /\ \A b \in Apps \ {a} : key'[b] = key[b]
        /\ UNCHANGED <<config, inst, task, cancelled, faults>>
    BY <1>1 DEF ObserveDisabled
  <2>2. inst[a] = None /\ pc \in [Apps -> {"top", "disabled", "building", "built", "serving",
                                          "compare", "stopping", "backoff"}]
    BY <2>1
  <2>3. ModeOf(a) = "off" /\ ModeOf(a)' = "off" /\ \A b \in Apps \ {a} : ModeOf(b)' = ModeOf(b)
    <3> HIDE DEF Full, IInv, TypeOK, Tokens
    <3>1. QED
      BY <2>1, <2>2
  <2>4. QED
    <3> HIDE DEF ModeOf
    <3>1. QED
      BY <2>1, <2>3
<1>2. CASE ObserveEnabled(a)
  <2>1. /\ pc[a] = "top" /\ pc' = [pc EXCEPT ![a] = "building"]
        /\ key' = [key EXCEPT ![a] = ChangeKey(config, a)] /\ Enabled(ChangeKey(config, a))
        /\ UNCHANGED <<config, inst, task, cancelled, faults>>
    BY <1>2 DEF ObserveEnabled
  <2>2. /\ ModeOf(a) = "off" /\ ModeOf(a)' = "preparing"
        /\ \A b \in Apps \ {a} : ModeOf(b)' = ModeOf(b)
    <3>1. inst[a] = None /\ pc \in [Apps -> {"top", "disabled", "building", "built", "serving",
                                            "compare", "stopping", "backoff"}]
      BY <2>1
    <3> HIDE DEF Full, IInv, TypeOK, Tokens
    <3>2. QED
      BY <2>1, <3>1
  <2>3. key'[a] = ChangeKey(config, a) /\ \A b \in Apps \ {a} : key'[b] = key[b]
    BY <2>1
  <2>4. HeldOf(a)' = ChangeKey(config, a) /\ \A b \in Apps \ {a} : HeldOf(b)' = HeldOf(b)
    <3> HIDE DEF ModeOf
    <3>1. QED
      BY <2>2, <2>3
  <2>5. QED
    <3> HIDE DEF ModeOf, HeldOf, IInv, Tokens, Full
    <3>1. QED
      BY <2>1, <2>2, <2>4
<1>3. CASE WakeDisabled(a)
  BY <1>3, NoneAssumption DEF WakeDisabled
<1>4. CASE BuildOk(a)
  BY <1>4, NoneAssumption DEF BuildOk
<1>5. CASE BuildFails(a)
  BY <1>5, NoneAssumption DEF BuildFails
<1>6. CASE RunGeneration(a)
  BY <1>6, NoneAssumption DEF RunGeneration
<1>7. CASE Crashed(a)
  BY <1>7, NoneAssumption DEF Crashed, ReleaseRun
<1>8. CASE NoticeChange(a)
  BY <1>8, NoneAssumption DEF NoticeChange
<1>9. CASE IgnoreChange(a)
  BY <1>9, NoneAssumption DEF IgnoreChange
<1>10. CASE BeginRestart(a)
  BY <1>10, NoneAssumption DEF BeginRestart
<1>11. CASE FinishRestart(a)
  BY <1>11, NoneAssumption DEF FinishRestart, ReleaseRun
<1>12. CASE BackoffExpires(a)
  BY <1>12, NoneAssumption DEF BackoffExpires
<1>13. CASE BackoffCutShort(a)
  BY <1>13, NoneAssumption DEF BackoffCutShort
<1>14. QED
  BY <1>1, <1>2, <1>3, <1>4, <1>5, <1>6, <1>7, <1>8, <1>9, <1>10, <1>11, <1>12, <1>13 DEF Supervise

(* So has every step of a run task; one that was cancelled ends as Stop,   *)
(* one that was not as Fail.                                               *)
LEMMA RunMoves ==
  ASSUME NEW a \in Apps, NEW g \in Gens, Full, RunTask(a, g)
  PROVE  Moves(a) /\ config' = config /\ \A b \in Apps \ {a} : Still(b)
<1> USE DEF Full, IInv, TypeOK, Bookkeeping, Holding, OneGeneration, Tokens, Moves, Still,
            HeldOf, ModeOf, planeVars, supVars, runVars, actVars
<1>1. CASE Publish(a, g)
  BY <1>1, NoneAssumption DEF Publish
<1>2. CASE StopRun(a, g)
  BY <1>2, NoneAssumption DEF StopRun, EndRun
<1>3. CASE FailRun(a, g)
  BY <1>3, NoneAssumption DEF FailRun, EndRun
<1>4. QED
  BY <1>1, <1>2, <1>3 DEF RunTask

(* A dispatch, or a step of an action task, never changes an App's life.   *)
LEMMA ActionsStill ==
  ASSUME NEW a \in Apps, Dispatch(a) \/ \E g \in Gens : ActionTask(a, g)
  PROVE  Moves(a) /\ config' = config /\ \A b \in Apps \ {a} : Still(b)
<1>1. UNCHANGED <<planeVars, supVars, runVars>> /\ (faults' = faults \/ faults' = faults + 1)
  BY DEF Dispatch, ActionTask, Receive, HandleAction, DropActor, ActionPanics, EndActor,
     planeVars, supVars, runVars
<1>2. config' = config /\ \A b \in Apps : Still(b)
  BY <1>1 DEF Still, HeldOf, ModeOf, planeVars, supVars, runVars
<1>3. QED
  BY <1>1, <1>2 DEF Moves

(* An edit of the config only changes what is wanted. *)
LEMMA EditIsLife ==
  ASSUME NEW doc \in Docs, Full, SetConfig(doc)
  PROVE  [Life!Next]_(Life!vars)
<1>1. doc \in Document
  BY DocsAssumption
<1>2. [b \in Apps |-> ChangeKey(config, b)]' \in [Apps -> Keys]
  BY <1>1, ChangeKeyType DEF SetConfig
<1>3. UNCHANGED <<supVars, runVars, faults>>
  BY DEF SetConfig
<1>4. \A b \in Apps : ModeOf(b)' = ModeOf(b) /\ key'[b] = key[b]
  BY <1>3 DEF ModeOf, supVars, runVars
<1>5. Life!Edit
  BY <1>2, <1>3, <1>4 DEF Life!Edit
<1>6. QED
  BY <1>5 DEF Life!Next

LEMMA InitIsLife == Init => Life!Init
<1> SUFFICES ASSUME Init PROVE Life!Init
  OBVIOUS
<1>1. config \in Document
  BY DocsAssumption DEF Init
<1>2. \A b \in Apps : ModeOf(b) = "off"
  BY DEF Init, ModeOf
<1>3. [b \in Apps |-> ChangeKey(config, b)] \in [Apps -> Keys]
  BY <1>1, ChangeKeyType
<1>4. QED
  BY <1>2, <1>3 DEF Init, Life!Init

LEMMA NextIsLife == Full /\ [Next]_vars => [Life!Next]_(Life!vars)
<1> SUFFICES ASSUME Full, [Next]_vars PROVE [Life!Next]_(Life!vars)
  OBVIOUS
<1>1. CASE \E doc \in Docs : SetConfig(doc)
  BY <1>1, EditIsLife
<1>2. CASE \E a \in Apps : Dispatch(a) \/ Supervise(a)
  BY <1>2, ActionsStill, SuperviseMoves, MovesAreLife
<1>3. CASE \E a \in Apps, g \in Gens : RunTask(a, g) \/ ActionTask(a, g)
  BY <1>3, ActionsStill, RunMoves, MovesAreLife
<1>4. CASE UNCHANGED vars
  <2>1. UNCHANGED <<config, key, faults>> /\ \A b \in Apps : ModeOf(b)' = ModeOf(b)
    BY <1>4 DEF vars, ModeOf, planeVars, supVars, runVars
  <2>2. QED
    BY <2>1 DEF Life!vars, ChangeKey
<1>5. QED
  BY <1>1, <1>2, <1>3, <1>4 DEF Next

(* The supervisor implements the lifecycle: an App serves one change key   *)
(* at a time, starts for the wanted one after the old one is gone, and is  *)
(* told to stop only for another (supervisor.rs, ImplementsLifecycle).     *)
THEOREM Refinement == Spec => ImplementsLifecycle
<1>1. Spec => []Full
  <2>1. Tokens /\ IInv /\ [Next]_vars => Tokens'
    BY TokensNext
  <2>2. QED
    BY TokensInit, <2>1, Invariance, PTL DEF Spec, Full
<1>2. QED
  BY <1>1, InitIsLife, NextIsLife, PTL DEF Spec, ImplementsLifecycle, Life!Spec
=============================================================================
