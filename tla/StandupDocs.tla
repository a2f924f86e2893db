----------------------------- MODULE StandupDocs -----------------------------
(***************************************************************************)
(* The standup document of a day and the calls that work on it             *)
(* (apps/automations/standup/src/flow.rs, lark/doc.rs, trigger/actions.rs, *)
(* trigger/commands.rs).  Scheduled jobs, console actions and chat         *)
(* commands all begin with ensure_document_for_date: look the title up in  *)
(* the folder, else create a document, give it a table, name its rows.     *)
(*                                                                         *)
(* Every line is a request to Lark, so calls interleave with each other    *)
(* and with the members, who fill their cells at any time.                 *)
(***************************************************************************)
EXTENDS Integers, FiniteSets, Sequences, SequencesExt

CONSTANTS
  Calls,       \* the calls made, numbered as they begin
  Menu,        \* what a call may be
  Members,     \* people, by open_id
  Columns,     \* the cells of a row that are not the name
  Dates,       \* the days documents are for
  Today, Tomorrow,
  Templates,   \* values of the doc_title setting
  TitleOf,     \* the title a template gives a date
  Default,     \* the template of the code
  None,        \* no date, no title
  MaxEdits,    \* bound: changes of the title or of the group, and cells filled
  MaxFaults    \* bound: requests that fail, and stops of the App or the process

(* A call before its arguments are resolved: who makes it, the operation   *)
(* asked for, the date given, and whom a chat message mentions besides the *)
(* bot, or the open_id of urgent-user.                                     *)
Asks == [from : {"job", "action", "chat"},
         op : {"ensure", "announce", "remind", "urgent", "urgent-user", "check"},
         date : Dates \cup {None}, users : Seq(Members)]

ASSUME MenuAssumption ==
  /\ Menu \subseteq Asks
  /\ \A a \in Menu : a.op = "urgent-user" => Len(a.users) = 1
  /\ \A a \in Menu : a.users # <<>> => a.op = "urgent-user" \/ (a.from = "chat" /\ a.op = "urgent")
ASSUME DatesAssumption == {Today, Tomorrow} \subseteq Dates /\ None \notin Dates
ASSUME TitlesAssumption == Default \in Templates /\ DOMAIN TitleOf = Templates \X Dates
ASSUME BoundsAssumption ==
  MaxEdits \in Nat /\ MaxFaults \in Nat /\ IsFiniteSet(Members)

Titles == {TitleOf[x] : x \in Templates \X Dates}

VARIABLES
  template,  \* the doc_title saved
  group,     \* members of the chat
  folder,    \* documents, in the order of their creation
  pc,        \* where each call stands
  ask,       \* what it was asked
  title,     \* the title it works with, fixed when it loaded the settings
  known,     \* documents there were when it looked the title up
  doc,       \* the document it works on, by its place in the folder, or 0
  people,    \* members it was told, whom it names rows for
  targets,   \* members it has yet to message
  delivered, \* members whose message went out and is yet to be escalated
  before,    \* history: the rows of its document as it came to it
  messaged,  \* history: members it messaged for an empty row
  escalated, \* history: members it escalated
  edits, faults

history == <<before, messaged, escalated>>
work == <<title, known, doc, people, targets, delivered>>
vars == <<template, group, folder, pc, ask, work, history, edits, faults>>

Making == {"members", "create", "table", "name", "link"}
Steps == {"load", "look"} \cup Making \cup {"work", "send", "escalate", "ring"}
Ends == {"done", "failed", "lost"}

Row == [who : Members, filled : SUBSET Columns]
Docs == [title : Titles, maker : Calls, known : Nat, table : BOOLEAN,
         height : Nat, rows : Seq(Row)]

TypeOK ==
  /\ template \in Templates /\ group \subseteq Members
  /\ folder \in Seq(Docs)
  /\ pc \in [Calls -> {"idle"} \cup Steps \cup Ends]
  /\ ask \in [Calls -> Menu \cup {None}] /\ title \in [Calls -> Titles \cup {None}]
  /\ known \in [Calls -> Nat] /\ doc \in [Calls -> 0..Len(folder)]
  /\ people \in [Calls -> Seq(Members)]
  /\ targets \in [Calls -> Seq(Members)] /\ delivered \in [Calls -> Seq(Members)]
  /\ messaged \in [Calls -> Seq(Members)] /\ escalated \in [Calls -> Seq(Members)]

Init ==
  /\ template = Default /\ group = Members
  /\ folder = <<>>
  /\ pc = [c \in Calls |-> "idle"] /\ ask = [c \in Calls |-> None]
  /\ title = [c \in Calls |-> None] /\ known = [c \in Calls |-> 0]
  /\ doc = [c \in Calls |-> 0] /\ people = [c \in Calls |-> <<>>]
  /\ targets = [c \in Calls |-> <<>>] /\ delivered = [c \in Calls |-> <<>>]
  /\ before = [c \in Calls |-> <<>>]
  /\ messaged = [c \in Calls |-> <<>>] /\ escalated = [c \in Calls |-> <<>>]
  /\ edits = 0 /\ faults = 0

-----------------------------------------------------------------------------
(* dispatch and handle: announce and ensure are for tomorrow unless a date *)
(* is given, all else for today; an urgent that mentions people is for     *)
(* today whatever it says.                                                 *)
DateOf(a) ==
  LET default == IF a.op \in {"announce", "ensure"} THEN Tomorrow ELSE Today
  IN  IF a.date = None \/ (a.op = "urgent" /\ a.users # <<>>) THEN default ELSE a.date

(* Whom an escalation is for by name, one urgent_one after the other.      *)
ByName(a) == a.users # <<>>

Goto(c, s) == pc' = [pc EXCEPT ![c] = s]

(* The bounded environment: a request or a process that fails.             *)
Fault == faults < MaxFaults /\ faults' = faults + 1

(* The call ends with an error, but a chat command goes on to the next     *)
(* person mentioned.                                                       *)
GiveUp(c) ==
  /\ Goto(c, IF Len(targets[c]) > 1 THEN "look" ELSE "failed")
  /\ targets' = [targets EXCEPT ![c] = IF @ = <<>> THEN @ ELSE Tail(@)]

(* A request fails.  Sharing is best effort, and remind's own messages     *)
(* too; an ensure makes no request once it has its document.               *)
Fail(c) ==
  /\ pc[c] \in Making \cup {"look", "work", "ring"}
  /\ pc[c] = "work" => ask[c].op # "ensure"
  /\ Fault /\ GiveUp(c)
  /\ UNCHANGED <<template, group, folder, ask, title, known, doc, people, delivered,
                 history, edits>>

Begin(c, a) ==
  /\ pc[c] = "idle" /\ \A b \in Calls : b < c => pc[b] # "idle"
  /\ ask' = [ask EXCEPT ![c] = a] /\ Goto(c, "load")
  /\ UNCHANGED <<template, group, folder, work, history, edits, faults>>

(* settings::load: the code's defaults when the store cannot be read.      *)
Load(c) ==
  /\ pc[c] = "load"
  /\ \/ title' = [title EXCEPT ![c] = TitleOf[<<template, DateOf(ask[c])>>]] /\ UNCHANGED faults
     \/ Fault /\ title' = [title EXCEPT ![c] = TitleOf[<<Default, DateOf(ask[c])>>]]
  /\ targets' = [targets EXCEPT ![c] = ask[c].users]
  /\ Goto(c, "look")
  /\ UNCHANGED <<template, group, folder, ask, known, doc, people, delivered, history, edits>>

-----------------------------------------------------------------------------
(* ensure_document_for_date.                                               *)

ComeTo(c, d) ==
  /\ doc' = [doc EXCEPT ![c] = d]
  /\ before' = [before EXCEPT ![c] = folder[d].rows]

(* Mutant: a document without a table does not count as one.               *)
FoundWhole(t) == {d \in DOMAIN folder : folder[d].title = t /\ folder[d].table}

(* The listing has an order of its own: any document of the title may be   *)
(* the first.                                                              *)
Found(t) == {d \in DOMAIN folder : folder[d].title = t}

Look(c) ==
  /\ pc[c] = "look"
  /\ \/ \E d \in Found(title[c]) : ComeTo(c, d) /\ Goto(c, "work") /\ UNCHANGED known
     \/ /\ Found(title[c]) = {} /\ Goto(c, "members")
        /\ known' = [known EXCEPT ![c] = Len(folder)]
        /\ UNCHANGED <<doc, before>>
  /\ UNCHANGED <<template, group, folder, ask, title, people, targets, delivered, messaged,
                 escalated, edits, faults>>

(* Mutant: a call waits for a group that has members.                      *)
ListMembersWaiting(c) ==
  /\ pc[c] = "members" /\ group # {} /\ Goto(c, "create")
  /\ people' = [people EXCEPT ![c] = SetToSeq(group)]
  /\ UNCHANGED <<template, group, folder, ask, title, known, doc, targets, delivered,
                 history, edits, faults>>

(* An empty group is an error.                                             *)
ListMembers(c) ==
  /\ pc[c] = "members"
  /\ IF group = {}
       THEN GiveUp(c) /\ UNCHANGED people
       ELSE Goto(c, "create") /\ UNCHANGED targets
            /\ people' = [people EXCEPT ![c] = SetToSeq(group)]
  /\ UNCHANGED <<template, group, folder, ask, title, known, doc, delivered, history, edits,
                 faults>>

Create(c) ==
  /\ pc[c] = "create" /\ Goto(c, "table")
  /\ folder' = Append(folder, [title |-> title[c], maker |-> c, known |-> known[c],
                               table |-> FALSE, height |-> 0, rows |-> <<>>])
  /\ doc' = [doc EXCEPT ![c] = Len(folder')]
  /\ UNCHANGED <<template, group, ask, title, known, people, targets, delivered, history,
                 edits, faults>>

InsertTable(c) ==
  /\ pc[c] = "table" /\ Goto(c, "name")
  /\ folder' = [folder EXCEPT ![doc[c]].table = TRUE, ![doc[c]].height = Len(people[c]) + 1]
  /\ UNCHANGED <<template, group, ask, work, history, edits, faults>>

(* Mutant: the rows are named for the members there are by now.            *)
NameRowsAnew(c) ==
  /\ pc[c] = "name" /\ Goto(c, "link")
  /\ LET s == SetToSeq(group)
     IN  folder' = [folder EXCEPT ![doc[c]].rows =
                      [i \in DOMAIN s |-> [who |-> s[i], filled |-> {}]]]
  /\ UNCHANGED <<template, group, ask, work, history, edits, faults>>

(* The cells of the new table are read and counted, then one batch writes  *)
(* the headers and a mention per row; nobody else makes rows in it.        *)
NameRows(c) ==
  /\ pc[c] = "name" /\ Goto(c, "link")
  /\ folder[doc[c]].height = Len(people[c]) + 1
  /\ folder' = [folder EXCEPT ![doc[c]].rows =
                  [i \in DOMAIN people[c] |-> [who |-> people[c][i], filled |-> {}]]]
  /\ UNCHANGED <<template, group, ask, work, history, edits, faults>>

(* The document is shared with the group, at best, and the folder listed   *)
(* again for its url, which may be missing.                                *)
FindLink(c) ==
  /\ pc[c] = "link" /\ Goto(c, "work")
  /\ ComeTo(c, doc[c])
  /\ UNCHANGED <<template, group, folder, ask, title, known, people, targets, delivered, messaged,
                 escalated, edits, faults>>

-----------------------------------------------------------------------------
(* What the call is for.                                                   *)

(* Mutant: the last row of the table is not looked at.                     *)
MissingButLast(d) ==
  LET n == Len(folder[d].rows)
      empty == SelectSeq(SubSeq(folder[d].rows, 1, n - 1), LAMBDA r : r.filled = {})
  IN  [i \in DOMAIN empty |-> empty[i].who]

(* find_missing_user_ids: whom the rows name whose cells are all empty, in *)
(* the order of the table.                                                 *)
EmptyRows(d) == {i \in DOMAIN folder[d].rows : folder[d].rows[i].filled = {}}
Nth(rows, n) == CHOOSE i \in rows : Cardinality({j \in rows : j <= i}) = n

Missing(d) == [n \in 1..Cardinality(EmptyRows(d)) |-> folder[d].rows[Nth(EmptyRows(d), n)].who]

(* The card in the group, or nothing for an ensure: the call is over.      *)
Announce(c) ==
  /\ pc[c] = "work" /\ ask[c].op \in {"announce", "ensure"} /\ Goto(c, "done")
  /\ UNCHANGED <<template, group, folder, ask, work, history, edits, faults>>

(* remind and check read the document; one without a table is an error.    *)
Read(c) ==
  /\ pc[c] = "work" /\ ask[c].op \in {"remind", "urgent", "check"} /\ ~ ByName(ask[c])
  /\ IF ~ folder[doc[c]].table
       THEN Goto(c, "failed") /\ UNCHANGED targets
       ELSE /\ targets' = [targets EXCEPT ![c] = Missing(doc[c])]
            /\ Goto(c, IF ask[c].op = "check" \/ Missing(doc[c]) = <<>> THEN "done" ELSE "send")
  /\ UNCHANGED <<template, group, folder, ask, title, known, doc, people, delivered, history,
                 edits, faults>>

(* A DM that fails is logged and left out of delivered.                    *)
Send(c) ==
  LET m == targets[c][1]
  IN /\ pc[c] = "send" /\ targets[c] # <<>>
     /\ targets' = [targets EXCEPT ![c] = Tail(@)]
     /\ \/ /\ messaged' = [messaged EXCEPT ![c] = Append(@, m)]
           /\ delivered' = [delivered EXCEPT ![c] = Append(@, m)]
           /\ UNCHANGED faults
        \/ Fault /\ UNCHANGED <<messaged, delivered>>
     /\ UNCHANGED <<template, group, folder, pc, ask, title, known, doc, people, before,
                    escalated, edits>>

Sent(c) ==
  /\ pc[c] = "send" /\ targets[c] = <<>>
  /\ Goto(c, IF ask[c].op = "urgent" THEN "escalate" ELSE "done")
  /\ UNCHANGED <<template, group, folder, ask, work, history, edits, faults>>

(* An escalation that fails is logged, and the next one made.              *)
Escalate(c) ==
  /\ pc[c] = "escalate" /\ delivered[c] # <<>>
  /\ delivered' = [delivered EXCEPT ![c] = Tail(@)]
  /\ \/ escalated' = [escalated EXCEPT ![c] = Append(@, delivered[c][1])] /\ UNCHANGED faults
     \/ Fault /\ UNCHANGED escalated
  /\ UNCHANGED <<template, group, folder, pc, ask, title, known, doc, people, targets,
                 before, messaged, edits>>

Escalated(c) ==
  /\ pc[c] = "escalate" /\ delivered[c] = <<>> /\ Goto(c, "done")
  /\ UNCHANGED <<template, group, folder, ask, work, history, edits, faults>>

(* urgent_one: a DM, whatever the row says, to the next person by name,    *)
(* and its escalation.                                                     *)
UrgentOne(c) ==
  /\ pc[c] = "work" /\ ByName(ask[c]) /\ Goto(c, "ring")
  /\ messaged' = [messaged EXCEPT ![c] = Append(@, targets[c][1])]
  /\ UNCHANGED <<template, group, folder, ask, work, before, escalated, edits, faults>>

Ring(c) ==
  /\ pc[c] = "ring" /\ Goto(c, IF Len(targets[c]) > 1 THEN "look" ELSE "done")
  /\ escalated' = [escalated EXCEPT ![c] = Append(@, targets[c][1])]
  /\ targets' = [targets EXCEPT ![c] = Tail(@)]
  /\ UNCHANGED <<template, group, folder, ask, title, known, doc, people, delivered, before,
                 messaged, edits, faults>>

-----------------------------------------------------------------------------
(* Members fill cells of their own row, people come and go, an admin       *)
(* changes the title.                                                      *)
Fill(d, i, col) ==
  /\ edits < MaxEdits /\ edits' = edits + 1
  /\ folder' = [folder EXCEPT ![d].rows[i].filled = @ \cup {col}]
  /\ UNCHANGED <<template, group, pc, ask, work, history, faults>>

Edit ==
  /\ edits < MaxEdits /\ edits' = edits + 1
  /\ \/ template' \in Templates /\ UNCHANGED group
     \/ group' \in SUBSET Members /\ UNCHANGED template
  /\ UNCHANGED <<folder, pc, ask, work, history, faults>>

(* The App restarts: console actions are aborted, chat commands may be,    *)
(* a job finishes its call.  Or the process dies, with every call in it.   *)
Stop ==
  /\ Fault
  /\ \E gone \in SUBSET {c \in Calls : pc[c] \in Steps} :
       /\ \/ \A c \in Calls : pc[c] \in Steps => c \in gone
          \/ \A c \in Calls : /\ pc[c] \in Steps /\ ask[c].from = "action" => c \in gone
                              /\ c \in gone => ask[c].from # "job"
       /\ pc' = [c \in Calls |-> IF c \in gone THEN "lost" ELSE pc[c]]
  /\ UNCHANGED <<template, group, folder, ask, work, history, edits>>

Make(c) ==
  \/ Look(c) \/ ListMembers(c) \/ Create(c) \/ InsertTable(c)
  \/ NameRows(c) \/ FindLink(c)

Work(c) == Announce(c) \/ Read(c) \/ Send(c) \/ Sent(c) \/ Escalate(c) \/ Escalated(c)
           \/ UrgentOne(c) \/ Ring(c)

Next ==
  \/ \E c \in Calls : Load(c) \/ Make(c) \/ Work(c) \/ Fail(c)
  \/ \E c \in Calls, a \in Menu : Begin(c, a)
  \/ \E d \in DOMAIN folder : \E i \in DOMAIN folder[d].rows, col \in Columns : Fill(d, i, col)
  \/ Edit \/ Stop

(* A call that can go on does: Lark answers.                               *)
Fairness == \A c \in Calls : WF_vars(Load(c) \/ Make(c) \/ Work(c))

Spec == Init /\ [][Next]_vars /\ Fairness

-----------------------------------------------------------------------------
(* Two documents of one title come of calls that overlap: the second was   *)
(* made by a call that had looked before the first was there.  A call that *)
(* comes later uses what it finds, however it was left.                    *)
TwinsExplained ==
  \A d, e \in DOMAIN folder :
    d < e /\ folder[d].title = folder[e].title => folder[e].known < d

(* A document has a row for each member its maker was told, or its maker   *)
(* is still at it or did not get to the end.  Left out is what a chat      *)
(* command made on its way from one person mentioned to the next: where    *)
(* one attempt fails the command goes on, and the call ends well.          *)
WholeOrExplained ==
  \A d \in DOMAIN folder :
    LET c == folder[d].maker
        whole == /\ Len(folder[d].rows) + 1 = folder[d].height
                 /\ \A i, j \in DOMAIN folder[d].rows :
                      folder[d].rows[i].who = folder[d].rows[j].who => i = j
    IN whole \/ pc[c] \in {"table", "name", "failed", "lost"}
         \/ ByName(ask[c])

(* A reminder is for someone whose row was empty, or not there yet, when   *)
(* the call came to its document, and nobody gets it twice from one call;  *)
(* an escalation of remind follows a message that went out.                *)
RemindsTheEmpty ==
  \A c \in Calls : ask[c] # None /\ ~ ByName(ask[c]) =>
    /\ \A i, j \in DOMAIN messaged[c] : messaged[c][i] = messaged[c][j] => i = j
    /\ \A i \in DOMAIN messaged[c], k \in DOMAIN before[c] :
         before[c][k].who = messaged[c][i] => before[c][k].filled = {}
    /\ ToSet(escalated[c]) \subseteq ToSet(messaged[c])

(* A reminder that ends well left out nobody whose row it came to and is   *)
(* still empty, except for messages that failed.  Rows that another call   *)
(* was yet to name are overlooked: that call's document counts as found    *)
(* from the moment it is created.                                          *)
NobodyForgotten ==
  \A c \in Calls :
    pc[c] = "done" /\ ask[c].op \in {"remind", "urgent"} /\ ~ ByName(ask[c]) =>
      Cardinality({i \in DOMAIN before[c] :
                     /\ folder[doc[c]].rows[i].filled = {}
                     /\ before[c][i].who \notin ToSet(messaged[c])}) <= faults

(* A reminder that ends well is for those whose rows are empty, all of     *)
(* them and no one else.                                                   *)
ReminderInv == TypeOK /\ RemindsTheEmpty /\ NobodyForgotten

(* Every call ends: a reminder, an escalation or an error.                 *)
EveryCallEnds == \A c \in Calls : pc[c] = "load" ~> pc[c] \in Ends
=============================================================================
