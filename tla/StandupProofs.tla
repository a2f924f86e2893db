---------------------------- MODULE StandupProofs ----------------------------
(***************************************************************************)
(* The standup App.  What the StandupDocs run checks of two calls, proved  *)
(* for any number of calls and members, any titles and dates and every     *)
(* bound: where second documents and documents without rows come from, and *)
(* whom reminders reach.  And, of StandupSchedule, when its jobs fire.     *)
(***************************************************************************)
EXTENDS StandupDocs, StandupSchedule, FiniteSetTheorems, SequenceTheorems, TLAPS

(* The part of TypeOK the documents depend on.                             *)
DocsTypeOK ==
  /\ template \in Templates /\ group \subseteq Members
  /\ folder \in Seq(Docs)
  /\ pc \in [Calls -> {"idle"} \cup Steps \cup Ends]
  /\ ask \in [Calls -> Menu \cup {None}] /\ title \in [Calls -> Titles \cup {None}]
  /\ \A c \in Calls : pc[c] # "idle" => ask[c] \in Menu
  /\ DOMAIN targets = Calls /\ targets = [c \in Calls |-> targets[c]]
  /\ known \in [Calls -> Nat] /\ doc \in [Calls -> 0..Len(folder)]
  /\ people \in [Calls -> Seq(Members)]
  /\ \A c \in Calls : pc[c] \in {"table", "name", "link"} => doc[c] # 0

(* A call has its title as long as it may look for it, and one about to    *)
(* create a document knows none with it among those it was shown.          *)
LookedFirst ==
  \A c \in Calls :
    /\ pc[c] \in Steps \ {"load"} => title[c] \in Titles
    /\ pc[c] \in {"members", "create"} =>
         /\ known[c] <= Len(folder)
         /\ \A d \in 1..known[c] : folder[d].title # title[c]

TwinsInv == DocsTypeOK /\ LookedFirst /\ TwinsExplained

-----------------------------------------------------------------------------
LEMMA SetToSeqFacts ==
  ASSUME NEW S, IsFiniteSet(S)
  PROVE  SetToSeq(S) \in Seq(S) /\ IsInjective(SetToSeq(S))
<1>1. Cardinality(S) \in Nat /\ ExistsBijection(1..Cardinality(S), S)
  BY FS_CardinalityType
<1>2. \E f \in [1..Cardinality(S) -> S] : IsInjective(f)
  BY <1>1 DEF ExistsBijection, Bijection, Injection, IsInjective
<1>3. SetToSeq(S) \in [1..Cardinality(S) -> S] /\ IsInjective(SetToSeq(S))
  BY <1>2 DEF SetToSeq
<1>4. QED
  BY <1>1, <1>3

LEMMA GroupList ==
  ASSUME group \subseteq Members
  PROVE  SetToSeq(group) \in Seq(Members) /\ IsInjective(SetToSeq(group))
<1>1. IsFiniteSet(group)
  BY BoundsAssumption, FS_Subset
<1>2. QED
  BY <1>1, SetToSeqFacts

LEMMA TypeInit == Init => DocsTypeOK
BY TitlesAssumption DEF Init, DocsTypeOK

(* What the steps of a call do to the documents there are.                 *)
LEMMA NewDoc ==
  ASSUME DocsTypeOK, LookedFirst, NEW c \in Calls, Create(c)
  PROVE  /\ folder' \in Seq(Docs) /\ Len(folder') = Len(folder) + 1
         /\ \A d \in 1..Len(folder) : folder'[d] = folder[d]
         /\ folder'[Len(folder')] = [title |-> title[c], maker |-> c, known |-> known[c],
                                     table |-> FALSE, height |-> 0, rows |-> <<>>]
<1> DEFINE new == [title |-> title[c], maker |-> c, known |-> known[c],
                   table |-> FALSE, height |-> 0, rows |-> <<>>]
<1>1. new \in Docs
  BY DEF DocsTypeOK, LookedFirst, Create, Docs, Steps, Making
<1>2. folder \in Seq(Docs) /\ folder' = Append(folder, new)
  BY DEF DocsTypeOK, Create
<1> HIDE DEF new
<1>3. /\ folder' \in Seq(Docs) /\ Len(folder') = Len(folder) + 1
      /\ \A d \in 1..Len(folder) : folder'[d] = folder[d]
      /\ folder'[Len(folder')] = new
  BY <1>1, <1>2
<1>4. QED
  BY <1>3 DEF new

(* The document d is filled in, and keeps its title and its maker.         *)
SameBut(d) ==
  /\ folder' \in Seq(Docs) /\ Len(folder') = Len(folder)
  /\ \A e \in 1..Len(folder) :
       /\ e # d => folder'[e] = folder[e]
       /\ folder'[e].title = folder[e].title
       /\ folder'[e].known = folder[e].known
       /\ folder'[e].maker = folder[e].maker

LEMMA DocReplaced ==
  ASSUME folder \in Seq(Docs), NEW d \in 1..Len(folder), NEW new \in Docs,
         new.title = folder[d].title, new.known = folder[d].known, new.maker = folder[d].maker,
         folder' = [folder EXCEPT ![d] = new]
  PROVE  SameBut(d) /\ folder'[d] = new
<1>1. /\ folder' \in Seq(Docs) /\ Len(folder') = Len(folder)
      /\ \A e \in 1..Len(folder) : folder'[e] = IF e = d THEN new ELSE folder[e]
  BY ExceptSeq
<1>2. QED
  BY <1>1 DEF SameBut

LEMMA TableInserted ==
  ASSUME DocsTypeOK, NEW c \in Calls, InsertTable(c)
  PROVE  /\ SameBut(doc[c])
         /\ folder'[doc[c]].height = Len(people[c]) + 1
         /\ folder'[doc[c]].rows = folder[doc[c]].rows
<1> DEFINE d == doc[c]
<1>1. folder' = [folder EXCEPT ![d] = [folder[d] EXCEPT !.table = TRUE,
                                                       !.height = Len(people[c]) + 1]]
  BY DEF InsertTable
<1>2. folder \in Seq(Docs) /\ d \in 1..Len(folder) /\ people[c] \in Seq(Members)
  BY DEF DocsTypeOK, InsertTable
<1>3. [folder[d] EXCEPT !.table = TRUE, !.height = Len(people[c]) + 1] \in Docs
  <2>1. Len(people[c]) + 1 \in Nat
    BY <1>2
  <2>2. folder[d] \in Docs
    BY <1>2
  <2>3. QED
    BY <2>1, <2>2 DEF Docs
<1>4. folder[d] \in Docs
  BY <1>2
<1> DEFINE new == [folder[d] EXCEPT !.table = TRUE, !.height = Len(people[c]) + 1]
<1>5. /\ new.title = folder[d].title /\ new.known = folder[d].known
      /\ new.maker = folder[d].maker /\ new.height = Len(people[c]) + 1
      /\ new.rows = folder[d].rows
  BY <1>4 DEF Docs
<1>6. folder' = [folder EXCEPT ![d] = new] /\ new \in Docs
  BY <1>1, <1>3
<1> HIDE DEF new
<1>7. SameBut(d) /\ folder'[d] = new
  BY <1>2, <1>5, <1>6, DocReplaced
<1>8. QED
  BY <1>5, <1>7

LEMMA RowsNamed ==
  ASSUME DocsTypeOK, NEW c \in Calls, NameRows(c)
  PROVE  /\ SameBut(doc[c])
         /\ folder'[doc[c]].height = Len(people[c]) + 1
         /\ folder'[doc[c]].rows =
              [i \in DOMAIN people[c] |-> [who |-> people[c][i], filled |-> {}]]
<1> DEFINE d == doc[c]
           rows == [i \in DOMAIN people[c] |-> [who |-> people[c][i], filled |-> {}]]
<1>1. folder' = [folder EXCEPT ![d] = [folder[d] EXCEPT !.rows = rows]]
      /\ folder[d].height = Len(people[c]) + 1
  BY DEF NameRows
<1>2. folder \in Seq(Docs) /\ d \in 1..Len(folder) /\ people[c] \in Seq(Members)
  BY DEF DocsTypeOK, NameRows
<1>3. rows \in Seq(Row)
  <2>1. Len(people[c]) \in Nat /\ DOMAIN people[c] = 1..Len(people[c])
    BY <1>2, LenProperties
  <2>2. \A i \in 1..Len(people[c]) : [who |-> people[c][i], filled |-> {}] \in Row
    BY <1>2, ElementOfSeq DEF Row
  <2>3. rows \in [1..Len(people[c]) -> Row]
    BY <2>1, <2>2
  <2>4. QED
    BY <2>1, <2>3
<1> HIDE DEF rows
<1>4. [folder[d] EXCEPT !.rows = rows] \in Docs
  <2>1. folder[d] \in Docs
    BY <1>2
  <2>2. QED
    BY <1>3, <2>1 DEF Docs
<1> DEFINE new == [folder[d] EXCEPT !.rows = rows]
<1>5. /\ new.title = folder[d].title /\ new.known = folder[d].known
      /\ new.maker = folder[d].maker /\ new.height = folder[d].height /\ new.rows = rows
  BY <1>2 DEF Docs
<1>6. folder' = [folder EXCEPT ![d] = new] /\ new \in Docs
  BY <1>1, <1>4
<1> HIDE DEF new
<1>7. SameBut(d) /\ folder'[d] = new
  BY <1>2, <1>5, <1>6, DocReplaced
<1>8. QED
  BY <1>1, <1>5, <1>7 DEF rows

LEMMA CellFilled ==
  ASSUME DocsTypeOK, NEW d \in DOMAIN folder, NEW i \in DOMAIN folder[d].rows,
         NEW col \in Columns, Fill(d, i, col)
  PROVE  /\ SameBut(d)
         /\ folder'[d].height = folder[d].height
         /\ Len(folder'[d].rows) = Len(folder[d].rows)
         /\ DOMAIN folder'[d].rows = DOMAIN folder[d].rows
         /\ \A j \in DOMAIN folder[d].rows :
              /\ folder'[d].rows[j].who = folder[d].rows[j].who
              /\ folder[d].rows[j].filled \subseteq folder'[d].rows[j].filled
<1> DEFINE row == [folder[d].rows[i] EXCEPT !.filled = @ \cup {col}]
           rows == [folder[d].rows EXCEPT ![i] = row]
<1>1. folder' = [folder EXCEPT ![d] = [folder[d] EXCEPT !.rows = rows]]
  BY DEF Fill
<1>2. /\ folder \in Seq(Docs) /\ d \in 1..Len(folder)
      /\ folder[d] \in Docs /\ folder[d].rows \in Seq(Row)
      /\ i \in 1..Len(folder[d].rows)
  <2>1. folder \in Seq(Docs)
    BY DEF DocsTypeOK
  <2>2. d \in 1..Len(folder) /\ folder[d] \in Docs
    BY <2>1
  <2>3. folder[d].rows \in Seq(Row)
    BY <2>2 DEF Docs
  <2>4. QED
    BY <2>1, <2>2, <2>3
<1>3. folder[d].rows[i] \in Row
  BY <1>2
<1>4. /\ row \in Row /\ row.who = folder[d].rows[i].who
      /\ folder[d].rows[i].filled \subseteq row.filled
  BY <1>3 DEF Row
<1> HIDE DEF row
<1>5. /\ rows \in Seq(Row) /\ Len(rows) = Len(folder[d].rows)
      /\ DOMAIN rows = DOMAIN folder[d].rows
      /\ \A j \in DOMAIN folder[d].rows : /\ rows[j].who = folder[d].rows[j].who
                                         /\ folder[d].rows[j].filled \subseteq rows[j].filled
  BY <1>2, <1>4, ExceptSeq
<1> HIDE DEF rows
<1>6. [folder[d] EXCEPT !.rows = rows] \in Docs
  BY <1>2, <1>5 DEF Docs
<1> DEFINE new == [folder[d] EXCEPT !.rows = rows]
<1>7. /\ new.title = folder[d].title /\ new.known = folder[d].known
      /\ new.maker = folder[d].maker /\ new.height = folder[d].height /\ new.rows = rows
  BY <1>2 DEF Docs
<1>8. folder' = [folder EXCEPT ![d] = new] /\ new \in Docs
  BY <1>1, <1>6
<1> HIDE DEF new
<1>9. SameBut(d) /\ folder'[d] = new
  BY <1>2, <1>7, <1>8, DocReplaced
<1>10. QED
  BY <1>5, <1>7, <1>9

-----------------------------------------------------------------------------
(* Types.                                                                  *)
LEMMA TypeNext == DocsTypeOK /\ LookedFirst /\ [Next]_vars => DocsTypeOK'
<1> SUFFICES ASSUME DocsTypeOK, LookedFirst, [Next]_vars PROVE DocsTypeOK'
  OBVIOUS
<1> USE DEF work, history, Goto, Steps, Ends, Making
<1>1. CASE UNCHANGED vars
  BY <1>1 DEF vars, DocsTypeOK
<1>2. ASSUME NEW c \in Calls, Load(c) PROVE DocsTypeOK'
  <2>1. title' \in [Calls -> Titles \cup {None}]
    <3>1. ask[c] \in Menu
      BY <1>2 DEF Load, DocsTypeOK
    <3>2. DateOf(ask[c]) \in Dates
      BY <3>1, MenuAssumption, DatesAssumption DEF DateOf, Asks
    <3>3. \A x \in Templates : TitleOf[<<x, DateOf(ask[c])>>] \in Titles
      BY <3>2 DEF Titles
    <3>4. QED
      BY <1>2, <3>3, TitlesAssumption DEF Load, DocsTypeOK
  <2>2. QED
    BY <1>2, <2>1 DEF Load, DocsTypeOK
<1>3. ASSUME NEW c \in Calls, Look(c) PROVE DocsTypeOK'
  <2>1. DOMAIN folder = 1..Len(folder) /\ Len(folder) \in Nat
    BY DEF DocsTypeOK
  <2>2. ASSUME NEW d \in Found(title[c]), ComeTo(c, d), Goto(c, "work"), UNCHANGED known
        PROVE  DocsTypeOK'
    <3>1. d \in 1..Len(folder)
      BY <2>1 DEF Found
    <3>2. QED
      BY <1>3, <2>1, <2>2, <3>1 DEF Look, ComeTo, DocsTypeOK
  <2>3. CASE /\ Goto(c, "members") /\ known' = [known EXCEPT ![c] = Len(folder)]
             /\ UNCHANGED <<doc, before>>
    <3>1. known' \in [Calls -> Nat]
      BY <2>1, <2>3 DEF DocsTypeOK
    <3>2. pc' \in [Calls -> {"idle"} \cup Steps \cup Ends]
      BY <2>3 DEF DocsTypeOK
    <3>3. /\ pc'[c] = "members" /\ \A d \in Calls \ {c} : pc'[d] = pc[d]
          /\ UNCHANGED <<template, group, folder, ask, title, doc, people, targets>>
      BY <1>3, <2>3 DEF Look, DocsTypeOK
    <3>4. QED
      BY <1>3, <3>1, <3>2, <3>3 DEF Look, DocsTypeOK
  <2>4. QED
    BY <1>3, <2>2, <2>3 DEF Look
<1>4. ASSUME NEW c \in Calls, ListMembers(c) PROVE DocsTypeOK'
  <2>1. SetToSeq(group) \in Seq(Members)
    BY GroupList DEF DocsTypeOK
  <2>2. CASE group = {}
    BY <1>4, <2>2 DEF ListMembers, GiveUp, DocsTypeOK
  <2>3. CASE group # {}
    BY <1>4, <2>1, <2>3 DEF ListMembers, DocsTypeOK
  <2>4. QED
    BY <2>2, <2>3
<1>5. ASSUME NEW c \in Calls, Create(c) PROVE DocsTypeOK'
  <2>1. folder' \in Seq(Docs) /\ Len(folder') = Len(folder) + 1 /\ Len(folder) \in Nat
    <3>1. Len(folder) \in Nat
      BY DEF DocsTypeOK
    <3>2. QED
      BY <1>5, <3>1, NewDoc
  <2>2. doc' \in [Calls -> 0..Len(folder')] /\ doc'[c] # 0
    BY <1>5, <2>1 DEF Create, DocsTypeOK
  <2>3. QED
    BY <1>5, <2>1, <2>2 DEF Create, DocsTypeOK
<1>6. ASSUME NEW c \in Calls, InsertTable(c) PROVE DocsTypeOK'
  <2>1. SameBut(doc[c])
    BY <1>6, TableInserted
  <2>2. QED
    BY <1>6, <2>1 DEF InsertTable, SameBut, DocsTypeOK
<1>7. ASSUME NEW c \in Calls, NameRows(c) PROVE DocsTypeOK'
  <2>1. SameBut(doc[c])
    BY <1>7, RowsNamed
  <2>2. QED
    BY <1>7, <2>1 DEF NameRows, SameBut, DocsTypeOK
<1>8. ASSUME NEW c \in Calls, FindLink(c) PROVE DocsTypeOK'
  BY <1>8 DEF FindLink, ComeTo, DocsTypeOK
<1>9. ASSUME NEW c \in Calls, Work(c) PROVE DocsTypeOK'
  <2>1. /\ UNCHANGED <<template, group, folder, ask, title, known, doc, people>>
        /\ \/ UNCHANGED pc
           \/ \E s \in {"done", "failed", "send", "escalate", "ring", "look"} :
                pc[c] # "idle" /\ Goto(c, s)
        /\ DOMAIN targets' = Calls /\ targets' = [b \in Calls |-> targets'[b]]
    BY <1>9 DEF Work, Announce, Read, Send, Sent, Escalate, Escalated, UrgentOne, Ring, DocsTypeOK
  <2>2. QED
    BY <2>1 DEF DocsTypeOK
<1>10. ASSUME NEW c \in Calls, Fail(c) PROVE DocsTypeOK'
  BY <1>10 DEF Fail, GiveUp, DocsTypeOK
<1>11. ASSUME NEW c \in Calls, NEW a \in Menu, Begin(c, a) PROVE DocsTypeOK'
  BY <1>11 DEF Begin, DocsTypeOK
<1>12. ASSUME NEW d \in DOMAIN folder, NEW i \in DOMAIN folder[d].rows, NEW col \in Columns,
             Fill(d, i, col)
      PROVE  DocsTypeOK'
  <2>1. SameBut(d)
    BY <1>12, CellFilled
  <2>2. QED
    BY <1>12, <2>1 DEF Fill, SameBut, DocsTypeOK
<1>13. CASE Edit
  BY <1>13 DEF Edit, DocsTypeOK
<1>14. CASE Stop
  <2>1. PICK gone \in SUBSET {c \in Calls : pc[c] \in Steps} :
          pc' = [c \in Calls |-> IF c \in gone THEN "lost" ELSE pc[c]]
    BY <1>14 DEF Stop
  <2>2. /\ pc' \in [Calls -> {"idle"} \cup Steps \cup Ends]
        /\ \A c \in Calls : pc'[c] # "idle" => pc[c] # "idle"
        /\ \A c \in Calls : pc'[c] \in {"table", "name", "link"} => pc'[c] = pc[c]
    BY <2>1 DEF DocsTypeOK
  <2>3. QED
    BY <1>14, <2>2 DEF Stop, DocsTypeOK
<1>15. QED
  BY <1>1, <1>2, <1>3, <1>4, <1>5, <1>6, <1>7, <1>8, <1>9, <1>10, <1>11, <1>12, <1>13, <1>14
  DEF Next, Make

-----------------------------------------------------------------------------
(* Second documents.                                                       *)

(* No document comes or goes, nor changes its title.                       *)
SameTitles ==
  /\ Len(folder') = Len(folder) /\ Len(folder) \in Nat
  /\ \A d \in 1..Len(folder) : folder'[d].title = folder[d].title
                             /\ folder'[d].known = folder[d].known

(* Nobody but c moves, and c not to where a document is created.           *)
StaysOut ==
  /\ UNCHANGED <<title, known>>
  /\ \A c \in Calls :
       \/ pc'[c] = pc[c] \/ pc'[c] \notin Steps \/ pc'[c] = "load"
       \/ pc'[c] \notin {"members", "create"} /\ pc[c] \in Steps \ {"load"}

LEMMA TitlesKept ==
  ASSUME TwinsInv, SameTitles, folder' \in Seq(Docs), StaysOut
  PROVE  LookedFirst' /\ TwinsExplained'
<1>1. DOMAIN folder = 1..Len(folder) /\ DOMAIN folder' = 1..Len(folder)
  BY DEF TwinsInv, DocsTypeOK, SameTitles
<1>2. TwinsExplained'
  BY <1>1 DEF TwinsInv, TwinsExplained, SameTitles
<1>3. LookedFirst'
  <2>1. \A c \in Calls : known[c] \in Nat /\ {"members", "create"} \subseteq Steps
    BY DEF TwinsInv, DocsTypeOK, Steps, Making
  <2>2. LookedFirst
    BY DEF TwinsInv
  <2>3. QED
    BY <2>1, <2>2 DEF LookedFirst, StaysOut, SameTitles
<1>4. QED
  BY <1>2, <1>3

LEMMA TwinsNext == TwinsInv /\ [Next]_vars => TwinsInv'
<1> SUFFICES ASSUME TwinsInv, [Next]_vars PROVE TwinsInv'
  OBVIOUS
<1> USE DEF work, history, Goto
<1>0. DocsTypeOK /\ LookedFirst /\ DocsTypeOK'
  BY TypeNext DEF TwinsInv
<1>a. folder' \in Seq(Docs) /\ Len(folder) \in Nat /\ DOMAIN folder = 1..Len(folder)
  BY <1>0 DEF DocsTypeOK
<1>b. ASSUME NEW d, SameBut(d) PROVE SameTitles
  BY <1>a, <1>b DEF SameBut, SameTitles
<1>c. UNCHANGED folder => SameTitles
  BY <1>a DEF SameTitles
<1>d. SUFFICES LookedFirst' /\ TwinsExplained'
  BY <1>0 DEF TwinsInv
<1>1. CASE UNCHANGED vars
  <2>1. StaysOut
    BY <1>1 DEF vars, StaysOut
  <2>2. QED
    BY <1>1, <1>a, <1>c, <2>1, TitlesKept DEF vars
<1>2. ASSUME NEW c \in Calls, Load(c) PROVE LookedFirst' /\ TwinsExplained'
  <2>1. title'[c] \in Titles
    <3>1. pc'[c] = "look" /\ title' = [title EXCEPT ![c] = title'[c]]
      BY <1>0, <1>2 DEF Load, DocsTypeOK
    <3>2. ask[c] \in Menu
      BY <1>0, <1>2 DEF Load, DocsTypeOK
    <3>3. DateOf(ask[c]) \in Dates
      BY <3>2, MenuAssumption, DatesAssumption DEF DateOf, Asks
    <3>4. \A x \in Templates : TitleOf[<<x, DateOf(ask[c])>>] \in Titles
      BY <3>3 DEF Titles
    <3>5. QED
      BY <1>0, <1>2, <3>4, TitlesAssumption DEF Load, DocsTypeOK
  <2>2. \A b \in Calls \ {c} : pc'[b] = pc[b] /\ title'[b] = title[b]
    BY <1>0, <1>2 DEF Load, DocsTypeOK
  <2>3. pc'[c] = "look" /\ UNCHANGED <<folder, known>>
    BY <1>0, <1>2 DEF Load, DocsTypeOK
  <2>4. LookedFirst'
    BY <1>0, <2>1, <2>2, <2>3 DEF LookedFirst
  <2>5. TwinsExplained'
    BY <2>3 DEF TwinsInv, TwinsExplained
  <2>6. QED
    BY <2>4, <2>5
<1>3. ASSUME NEW c \in Calls, Look(c) PROVE LookedFirst' /\ TwinsExplained'
  <2>1. UNCHANGED <<folder, title>> /\ title[c] \in Titles
    BY <1>0, <1>3 DEF Look, LookedFirst, Steps
  <2>2. \A b \in Calls \ {c} : pc'[b] = pc[b] /\ known'[b] = known[b]
    BY <1>0, <1>3 DEF Look, DocsTypeOK
  <2>3. pc'[c] = "members" =>
          known'[c] = Len(folder) /\ \A d \in 1..Len(folder) : folder[d].title # title[c]
    BY <1>0, <1>a, <1>3 DEF Look, Found, DocsTypeOK
  <2>4. pc'[c] # "create"
    BY <1>0, <1>3 DEF Look, DocsTypeOK
  <2>5. LookedFirst'
    BY <1>0, <1>a, <2>1, <2>2, <2>3, <2>4 DEF LookedFirst
  <2>6. TwinsExplained'
    BY <2>1 DEF TwinsInv, TwinsExplained
  <2>7. QED
    BY <2>5, <2>6
<1>4. ASSUME NEW c \in Calls, ListMembers(c) PROVE LookedFirst' /\ TwinsExplained'
  <2>1. UNCHANGED <<folder, title, known>> /\ pc[c] = "members"
        /\ (pc'[c] \in {"create", "look"} \/ pc'[c] \notin Steps)
        /\ \A b \in Calls \ {c} : pc'[b] = pc[b]
    BY <1>0, <1>4 DEF ListMembers, GiveUp, DocsTypeOK, Steps, Making
  <2>2. LookedFirst'
    BY <1>0, <2>1 DEF LookedFirst, Steps, Making
  <2>3. TwinsExplained'
    BY <2>1 DEF TwinsInv, TwinsExplained
  <2>4. QED
    BY <2>2, <2>3
<1>5. ASSUME NEW c \in Calls, Create(c) PROVE LookedFirst' /\ TwinsExplained'
  <2> DEFINE n == Len(folder) + 1
  <2>1. /\ Len(folder') = n /\ DOMAIN folder' = 1..n /\ n \in Nat
        /\ \A d \in 1..Len(folder) : folder'[d] = folder[d]
        /\ folder'[n].title = title[c] /\ folder'[n].known = known[c]
    <3>1. /\ Len(folder') = n /\ \A d \in 1..Len(folder) : folder'[d] = folder[d]
          /\ folder'[Len(folder')] = [title |-> title[c], maker |-> c, known |-> known[c],
                                      table |-> FALSE, height |-> 0, rows |-> <<>>]
      BY <1>0, <1>5, NewDoc
    <3>2. QED
      BY <1>a, <3>1
  <2>2. /\ UNCHANGED <<title, known>> /\ pc[c] = "create" /\ pc'[c] = "table"
        /\ \A b \in Calls \ {c} : pc'[b] = pc[b]
    BY <1>0, <1>5 DEF Create, DocsTypeOK
  <2>3. known[c] \in Nat /\ known[c] <= Len(folder)
        /\ \A d \in 1..known[c] : folder[d].title # title[c]
    BY <1>0, <2>2 DEF LookedFirst, DocsTypeOK
  <2>4. LookedFirst'
    <3>1. title[c] \in Titles
      BY <1>0, <2>2 DEF LookedFirst, Steps, Making
    <3>2. \A b \in Calls : known[b] \in Nat
      BY <1>0 DEF DocsTypeOK
    <3>3. QED
      BY <1>0, <1>a, <2>1, <2>2, <3>1, <3>2 DEF LookedFirst
  <2>5. TwinsExplained'
    <3>1. SUFFICES ASSUME NEW d \in 1..n, NEW e \in 1..n, d < e,
                          folder'[d].title = folder'[e].title
                   PROVE  folder'[e].known < d
      BY <2>1 DEF TwinsExplained
    <3>2. CASE e = n
      BY <1>a, <2>1, <2>3, <3>1, <3>2
    <3>3. CASE e # n
      BY <1>a, <2>1, <3>1, <3>3 DEF TwinsInv, TwinsExplained
    <3>4. QED
      BY <3>2, <3>3
  <2>6. QED
    BY <2>4, <2>5
<1>6. ASSUME NEW c \in Calls, InsertTable(c) PROVE LookedFirst' /\ TwinsExplained'
  <2>1. StaysOut
    BY <1>0, <1>6 DEF InsertTable, StaysOut, DocsTypeOK, Steps, Making
  <2>2. QED
    BY <1>0, <1>a, <1>b, <1>6, <2>1, TableInserted, TitlesKept
<1>7. ASSUME NEW c \in Calls, NameRows(c) PROVE LookedFirst' /\ TwinsExplained'
  <2>1. StaysOut
    BY <1>0, <1>7 DEF NameRows, StaysOut, DocsTypeOK, Steps, Making
  <2>2. QED
    BY <1>0, <1>a, <1>b, <1>7, <2>1, RowsNamed, TitlesKept
<1>8. ASSUME NEW c \in Calls, FindLink(c) PROVE LookedFirst' /\ TwinsExplained'
  <2>1. StaysOut /\ UNCHANGED folder
    BY <1>0, <1>8 DEF FindLink, StaysOut, DocsTypeOK, Steps, Making
  <2>2. QED
    BY <1>a, <1>c, <2>1, TitlesKept
<1>9. ASSUME NEW c \in Calls, Work(c) PROVE LookedFirst' /\ TwinsExplained'
  <2>1. StaysOut /\ UNCHANGED folder
    BY <1>0, <1>9 DEF Work, Announce, Read, Send, Sent, Escalate, Escalated, UrgentOne, Ring,
       StaysOut, DocsTypeOK, Steps, Making, Ends
  <2>2. QED
    BY <1>a, <1>c, <2>1, TitlesKept
<1>10. ASSUME NEW c \in Calls, Fail(c) PROVE LookedFirst' /\ TwinsExplained'
  <2>1. StaysOut /\ UNCHANGED folder
    BY <1>0, <1>10 DEF Fail, GiveUp, StaysOut, DocsTypeOK, Steps, Making, Ends
  <2>2. QED
    BY <1>a, <1>c, <2>1, TitlesKept
<1>11. ASSUME NEW c \in Calls, NEW a \in Menu, Begin(c, a)
       PROVE  LookedFirst' /\ TwinsExplained'
  <2>1. StaysOut /\ UNCHANGED folder
    BY <1>0, <1>11 DEF Begin, StaysOut, DocsTypeOK
  <2>2. QED
    BY <1>a, <1>c, <2>1, TitlesKept
<1>12. ASSUME NEW d \in DOMAIN folder, NEW i \in DOMAIN folder[d].rows, NEW col \in Columns,
             Fill(d, i, col)
      PROVE  LookedFirst' /\ TwinsExplained'
  <2>1. StaysOut
    BY <1>12 DEF Fill, StaysOut
  <2>2. QED
    BY <1>0, <1>a, <1>b, <1>12, <2>1, CellFilled, TitlesKept
<1>13. CASE Edit
  <2>1. StaysOut /\ UNCHANGED folder
    BY <1>13 DEF Edit, StaysOut
  <2>2. QED
    BY <1>a, <1>c, <2>1, TitlesKept
<1>14. CASE Stop
  <2>1. StaysOut /\ UNCHANGED folder
    <3>1. \A c \in Calls : pc'[c] = pc[c] \/ pc'[c] = "lost"
      BY <1>14 DEF Stop
    <3>2. QED
      BY <1>14, <3>1 DEF Stop, StaysOut, Steps, Making
  <2>2. QED
    BY <1>a, <1>c, <2>1, TitlesKept
<1>15. QED
  BY <1>1, <1>2, <1>3, <1>4, <1>5, <1>6, <1>7, <1>8, <1>9, <1>10, <1>11, <1>12, <1>13, <1>14
  DEF Next, Make, TwinsInv

(* Two documents of one title come of calls that overlap                   *)
(* (ensure_document_for_date): whoever made the later one had looked       *)
(* before the earlier one was there, whatever the settings, the faults and *)
(* the order of the calls.                                                 *)
THEOREM TwinsExplainedHolds == Spec => []TwinsExplained
<1>1. Init => TwinsInv
  BY TypeInit DEF Init, TwinsInv, LookedFirst, TwinsExplained, Steps, Making
<1>2. TwinsInv => TwinsExplained
  BY DEF TwinsInv
<1>3. QED
  BY <1>1, <1>2, TwinsNext, PTL DEF Spec

-----------------------------------------------------------------------------
(* Documents without rows.                                                 *)

WholeDoc(x) ==
  /\ Len(x.rows) + 1 = x.height
  /\ \A i, j \in DOMAIN x.rows : x.rows[i].who = x.rows[j].who => i = j

(* A call that is not by name makes one document at most, for which it has *)
(* people each once, and never goes back to look for another.              *)
CallInv(c) ==
  /\ pc[c] \in {"idle", "load"} => \A d \in DOMAIN folder : folder[d].maker # c
  /\ pc[c] \in {"create", "table", "name"} => IsInjective(people[c])
  /\ pc[c] \in {"table", "name"} => folder[doc[c]].maker = c
  /\ pc[c] # "idle" /\ ~ ByName(ask[c]) =>
       /\ pc[c] \in {"look", "members", "create"} =>
            \A d \in DOMAIN folder : folder[d].maker # c
       /\ pc[c] \in Making \cup {"look", "work"} => targets[c] = <<>>
       /\ pc[c] # "ring"
       /\ pc[c] \in {"table", "name"} =>
            \A d \in DOMAIN folder : folder[d].maker = c => d = doc[c]
       /\ pc[c] \in {"link", "work", "send", "escalate", "done"} =>
            \A d \in DOMAIN folder : folder[d].maker = c => WholeDoc(folder[d])

CallsInv == TwinsInv /\ \A c \in Calls : CallInv(c)

LEMMA CallsInvWhole == CallsInv => WholeOrExplained
<1> SUFFICES ASSUME CallsInv, NEW d \in DOMAIN folder
             PROVE  \/ WholeDoc(folder[d])
                    \/ pc[folder[d].maker] \in {"table", "name", "failed", "lost"}
                    \/ ByName(ask[folder[d].maker])
  BY DEF WholeOrExplained, WholeDoc
<1>1. folder[d].maker \in Calls
  <2>1. folder[d] \in Docs
    BY DEF CallsInv, TwinsInv, DocsTypeOK
  <2>2. QED
    BY <2>1 DEF Docs
<1>2. pc[folder[d].maker] \in {"idle"} \cup Steps \cup Ends
  BY <1>1 DEF CallsInv, TwinsInv, DocsTypeOK
<1>3. CallInv(folder[d].maker)
  BY <1>1 DEF CallsInv
<1>4. QED
  BY <1>2, <1>3 DEF CallInv, Steps, Making, Ends

(* What others do leaves a call where it stands and its documents whole.   *)
LEMMA Bystander ==
  ASSUME DocsTypeOK, NEW b \in Calls, CallInv(b),
         pc'[b] = pc[b], ask'[b] = ask[b], targets'[b] = targets[b],
         people'[b] = people[b], doc'[b] = doc[b],
         \A d \in DOMAIN folder : /\ d \in DOMAIN folder'
                                  /\ folder'[d].maker = folder[d].maker
                                  /\ folder[d].maker = b /\ WholeDoc(folder[d])
                                       => WholeDoc(folder'[d]),
         \A d \in DOMAIN folder' : d \in DOMAIN folder \/ folder'[d].maker # b
  PROVE  CallInv(b)'
<1>1. pc[b] \in {"table", "name"} => doc[b] \in DOMAIN folder
  BY DEF DocsTypeOK
<1>2. QED
  BY <1>1 DEF CallInv, ByName, IsInjective

(* A step of c that touches no document.                                   *)
LEMMA OthersStand ==
  ASSUME DocsTypeOK, NEW c \in Calls, \A b \in Calls : CallInv(b), CallInv(c)',
         UNCHANGED folder,
         \A b \in Calls \ {c} : /\ pc'[b] = pc[b] /\ ask'[b] = ask[b]
                                /\ targets'[b] = targets[b] /\ people'[b] = people[b]
                                /\ doc'[b] = doc[b]
  PROVE  \A b \in Calls : CallInv(b)'
BY Bystander

LEMMA CallsNext == CallsInv /\ [Next]_vars => CallsInv'
<1> SUFFICES ASSUME CallsInv, [Next]_vars PROVE \A b \in Calls : CallInv(b)'
  BY TwinsNext DEF CallsInv
<1> USE DEF work, history, Goto
<1>a. DocsTypeOK /\ LookedFirst /\ \A b \in Calls : CallInv(b)
  BY DEF CallsInv, TwinsInv
<1>b. DocsTypeOK'
  BY <1>a, TypeNext
<1>1. CASE UNCHANGED vars
  BY <1>1, <1>a, Bystander DEF vars
<1>2. ASSUME NEW c \in Calls, Load(c) PROVE \A b \in Calls : CallInv(b)'
  <2>1. CallInv(c)'
    BY <1>2, <1>a DEF Load, CallInv, DocsTypeOK, ByName, Steps, Making
  <2>2. QED
    BY <1>2, <1>a, <2>1, OthersStand DEF Load, DocsTypeOK
<1>3. ASSUME NEW c \in Calls, Look(c) PROVE \A b \in Calls : CallInv(b)'
  <2>1. CallInv(c)'
    BY <1>3, <1>a DEF Look, ComeTo, CallInv, DocsTypeOK, ByName, Making
  <2>2. QED
    BY <1>3, <1>a, <2>1, OthersStand DEF Look, ComeTo, DocsTypeOK
<1>4. ASSUME NEW c \in Calls, ListMembers(c) PROVE \A b \in Calls : CallInv(b)'
  <2>1. CASE group = {}
    <3>1. CallInv(c)'
      BY <1>4, <1>a, <2>1 DEF ListMembers, GiveUp, CallInv, DocsTypeOK, ByName, Making
    <3>2. QED
      BY <1>4, <1>a, <2>1, <3>1, OthersStand DEF ListMembers, GiveUp, DocsTypeOK
  <2>2. CASE group # {}
    <3>1. IsInjective(SetToSeq(group))
      BY <1>a, GroupList DEF DocsTypeOK
    <3>2. CallInv(c)'
      BY <1>4, <1>a, <2>2, <3>1 DEF ListMembers, CallInv, DocsTypeOK, ByName, Making
    <3>3. QED
      BY <1>4, <1>a, <2>2, <3>2, OthersStand DEF ListMembers, DocsTypeOK
  <2>3. QED
    BY <2>1, <2>2
<1>5. ASSUME NEW c \in Calls, Create(c) PROVE \A b \in Calls : CallInv(b)'
  <2>1. /\ folder' \in Seq(Docs) /\ Len(folder') = Len(folder) + 1
        /\ \A d \in 1..Len(folder) : folder'[d] = folder[d]
        /\ folder'[Len(folder')] = [title |-> title[c], maker |-> c, known |-> known[c],
                                    table |-> FALSE, height |-> 0, rows |-> <<>>]
    BY <1>5, <1>a, NewDoc
  <2>2. folder'[Len(folder')].maker = c
    BY <2>1
  <2>3. /\ Len(folder) \in Nat /\ DOMAIN folder = 1..Len(folder)
        /\ DOMAIN folder' = 1..Len(folder')
    BY <1>a, <2>1 DEF DocsTypeOK
  <2>4. pc[c] = "create" /\ pc'[c] = "table" /\ doc'[c] = Len(folder')
        /\ UNCHANGED <<ask, people, targets>>
        /\ \A b \in Calls \ {c} : pc'[b] = pc[b] /\ doc'[b] = doc[b]
    BY <1>5, <1>a DEF Create, DocsTypeOK
  <2>5. CallInv(c)'
    BY <1>a, <2>1, <2>2, <2>3, <2>4 DEF CallInv, ByName, IsInjective, Making
  <2>6. ASSUME NEW b \in Calls \ {c} PROVE CallInv(b)'
    BY <1>a, <2>1, <2>2, <2>3, <2>4, Bystander
  <2>7. QED
    BY <2>5, <2>6
<1>6. ASSUME NEW c \in Calls, InsertTable(c) PROVE \A b \in Calls : CallInv(b)'
  <2>1. SameBut(doc[c])
    BY <1>6, <1>a, TableInserted
  <2>2. DOMAIN folder = 1..Len(folder) /\ DOMAIN folder' = 1..Len(folder)
        /\ doc[c] \in 1..Len(folder)
    BY <1>6, <1>a, <2>1 DEF DocsTypeOK, SameBut, InsertTable
  <2>3. pc[c] = "table" /\ pc'[c] = "name" /\ UNCHANGED <<ask, people, targets, doc>>
        /\ \A b \in Calls \ {c} : pc'[b] = pc[b]
    BY <1>6, <1>a DEF InsertTable, DocsTypeOK
  <2>4. folder[doc[c]].maker = c
    BY <1>a, <2>3 DEF CallInv
  <2>5. CallInv(c)'
    BY <1>a, <2>1, <2>2, <2>3, <2>4 DEF CallInv, ByName, IsInjective, SameBut, Making
  <2>6. ASSUME NEW b \in Calls \ {c} PROVE CallInv(b)'
    BY <1>a, <2>1, <2>2, <2>3, <2>4, Bystander DEF SameBut
  <2>7. QED
    BY <2>5, <2>6
<1>7. ASSUME NEW c \in Calls, NameRows(c) PROVE \A b \in Calls : CallInv(b)'
  <2>1. /\ SameBut(doc[c]) /\ folder'[doc[c]].height = Len(people[c]) + 1
        /\ folder'[doc[c]].rows = [i \in DOMAIN people[c] |->
                                     [who |-> people[c][i], filled |-> {}]]
    BY <1>7, <1>a, RowsNamed
  <2>2. DOMAIN folder = 1..Len(folder) /\ DOMAIN folder' = 1..Len(folder)
        /\ doc[c] \in 1..Len(folder) /\ people[c] \in Seq(Members)
    BY <1>7, <1>a, <2>1 DEF DocsTypeOK, SameBut, NameRows
  <2>3. pc[c] = "name" /\ pc'[c] = "link" /\ UNCHANGED <<ask, people, targets, doc>>
        /\ \A b \in Calls \ {c} : pc'[b] = pc[b]
    BY <1>7, <1>a DEF NameRows, DocsTypeOK
  <2>4. folder[doc[c]].maker = c /\ IsInjective(people[c])
    BY <1>a, <2>3 DEF CallInv
  <2>5. WholeDoc(folder'[doc[c]])
    <3>1. Len(folder'[doc[c]].rows) = Len(people[c])
      BY <2>1, <2>2
    <3>2. QED
      BY <2>1, <2>4, <3>1 DEF WholeDoc, IsInjective
  <2>6. CallInv(c)'
    BY <1>a, <2>1, <2>2, <2>3, <2>4, <2>5 DEF CallInv, ByName, SameBut, Making
  <2>7. ASSUME NEW b \in Calls \ {c} PROVE CallInv(b)'
    BY <1>a, <2>1, <2>2, <2>3, <2>4, Bystander DEF SameBut
  <2>8. QED
    BY <2>6, <2>7
<1>8. ASSUME NEW c \in Calls, FindLink(c) PROVE \A b \in Calls : CallInv(b)'
  <2>1. CallInv(c)'
    BY <1>8, <1>a DEF FindLink, ComeTo, CallInv, DocsTypeOK, ByName, Making
  <2>2. QED
    BY <1>8, <1>a, <2>1, OthersStand DEF FindLink, ComeTo, DocsTypeOK
<1>9. ASSUME NEW c \in Calls, Work(c) PROVE \A b \in Calls : CallInv(b)'
  <2>1. /\ UNCHANGED <<folder, ask, people, doc>>
        /\ \A b \in Calls \ {c} : pc'[b] = pc[b] /\ targets'[b] = targets[b]
        /\ \/ pc'[c] = pc[c] /\ pc[c] \in {"send", "escalate"}
           \/ pc[c] \in {"work", "send", "escalate"}
                /\ pc'[c] \in {"done", "failed", "send", "escalate"}
           \/ pc[c] = "work" /\ pc'[c] = "ring" /\ ByName(ask[c])
           \/ pc[c] = "ring" /\ pc'[c] \in {"look", "done"}
    BY <1>9, <1>a DEF Work, Announce, Read, Send, Sent, Escalate, Escalated, UrgentOne, Ring,
       DocsTypeOK
  <2>2. CallInv(c)'
    BY <1>a, <2>1 DEF CallInv, ByName, IsInjective, Making
  <2>3. QED
    BY <1>a, <2>1, <2>2, OthersStand
<1>10. ASSUME NEW c \in Calls, Fail(c) PROVE \A b \in Calls : CallInv(b)'
  <2>1. CallInv(c)'
    BY <1>10, <1>a DEF Fail, GiveUp, CallInv, DocsTypeOK, ByName, Making
  <2>2. QED
    BY <1>10, <1>a, <2>1, OthersStand DEF Fail, GiveUp, DocsTypeOK
<1>11. ASSUME NEW c \in Calls, NEW a \in Menu, Begin(c, a) PROVE \A b \in Calls : CallInv(b)'
  <2>1. CallInv(c)'
    BY <1>11, <1>a DEF Begin, CallInv, DocsTypeOK, Making
  <2>2. QED
    BY <1>11, <1>a, <2>1, OthersStand DEF Begin, DocsTypeOK
<1>12. ASSUME NEW d \in DOMAIN folder, NEW i \in DOMAIN folder[d].rows, NEW col \in Columns,
             Fill(d, i, col)
      PROVE  \A b \in Calls : CallInv(b)'
  <2>1. SameBut(d)
        /\ (WholeDoc(folder[d]) => WholeDoc(folder'[d]))
    BY <1>12, <1>a, CellFilled DEF WholeDoc
  <2>2. DOMAIN folder = 1..Len(folder) /\ DOMAIN folder' = 1..Len(folder)
    BY <1>a, <2>1 DEF DocsTypeOK, SameBut
  <2>3. UNCHANGED <<pc, ask, people, targets, doc>>
    BY <1>12 DEF Fill
  <2>4. QED
    BY <1>a, <2>1, <2>2, <2>3, Bystander DEF SameBut
<1>13. CASE Edit
  BY <1>13, <1>a, Bystander DEF Edit
<1>14. CASE Stop
  <2>1. UNCHANGED <<folder, ask, people, targets, doc>>
        /\ \A b \in Calls : pc'[b] = pc[b] \/ pc'[b] = "lost"
    BY <1>14 DEF Stop
  <2>2. ASSUME NEW b \in Calls PROVE CallInv(b)'
    <3>1. CASE pc'[b] = pc[b]
      BY <1>a, <2>1, <3>1, Bystander
    <3>2. CASE pc'[b] = "lost"
      BY <3>2 DEF CallInv, Making
    <3>3. QED
      BY <2>1, <3>1, <3>2
  <2>3. QED
    BY <2>2
<1>15. QED
  BY <1>1, <1>2, <1>3, <1>4, <1>5, <1>6, <1>7, <1>8, <1>9, <1>10, <1>11, <1>12, <1>13, <1>14
  DEF Next, Make

(* A document in the group's folder has one row for each member its maker  *)
(* was told, unless that call is still writing it, stopped before the rows *)
(* were named, or was an escalation by name, which starts over for the     *)
(* next person (lark/doc.rs, ensure_document_for_date).                    *)
THEOREM WholeOrExplainedHolds == Spec => []WholeOrExplained
<1>1. Init => CallsInv
  <2>1. Init => TwinsInv
    BY TypeInit DEF Init, TwinsInv, LookedFirst, TwinsExplained, Steps, Making
  <2>2. Init => \A c \in Calls : CallInv(c)
    BY DEF Init, CallInv
  <2>3. QED
    BY <2>1, <2>2 DEF CallsInv
<1>2. QED
  BY <1>1, CallsNext, CallsInvWhole, PTL DEF Spec

-----------------------------------------------------------------------------
(* Who is missing: the rows with empty cells, in their order, each once.   *)

IsIn(x, s) == \E k \in 1..Len(s) : s[k] = x
Once(s) == \A i, j \in 1..Len(s) : s[i] = s[j] => i = j
Distinct(rows) == \A i, j \in DOMAIN rows : rows[i].who = rows[j].who => i = j

(* How many of a set are no larger tells its numbers apart, and so takes   *)
(* every value up to its size.                                             *)
LEMMA NthIs ==
  ASSUME NEW S \in SUBSET Nat, IsFiniteSet(S)
  PROVE  /\ Cardinality(S) \in Nat
         /\ \A n \in 1..Cardinality(S) : Nth(S, n) \in S
         /\ \A m, n \in 1..Cardinality(S) : Nth(S, m) = Nth(S, n) => m = n
         /\ \A i \in S : \E n \in 1..Cardinality(S) : Nth(S, n) = i
<1> DEFINE UpTo(x) == {j \in S : j <= x}
           size == Cardinality(S)
           rank == [x \in S |-> Cardinality(UpTo(x))]
<1>1. size \in Nat
  BY FS_CardinalityType
<1>2. ASSUME NEW x \in S
      PROVE  UpTo(x) \in SUBSET S /\ IsFiniteSet(UpTo(x)) /\ rank[x] \in 1..size
  <2>1. UpTo(x) \in SUBSET S
    OBVIOUS
  <2>2. IsFiniteSet(UpTo(x)) /\ Cardinality(UpTo(x)) <= size
    BY <2>1, FS_Subset
  <2>3. {x} \in SUBSET UpTo(x)
    OBVIOUS
  <2>4. Cardinality({x}) <= Cardinality(UpTo(x)) /\ Cardinality({x}) = 1
    BY <2>2, <2>3, FS_Subset, FS_Singleton
  <2>5. Cardinality(UpTo(x)) \in Nat
    BY <2>2, FS_CardinalityType
  <2>6. rank[x] = Cardinality(UpTo(x))
    OBVIOUS
  <2> HIDE DEF UpTo, rank, size
  <2>7. QED
    BY <1>1, <2>1, <2>2, <2>4, <2>5, <2>6
<1>3. ASSUME NEW x \in S, NEW z \in S, x < z PROVE rank[x] # rank[z]
  <2>1. UpTo(x) \in SUBSET UpTo(z) /\ z \in UpTo(z) /\ z \notin UpTo(x)
    <3>1. x \in Nat /\ z \in Nat /\ \A y \in S : y \in Nat
      OBVIOUS
    <3>2. \A y \in S : y <= x => y <= z
      BY <1>3, <3>1
    <3>3. z <= z /\ ~ (z <= x)
      BY <1>3, <3>1
    <3>4. QED
      BY <3>2, <3>3
  <2>2. Cardinality(UpTo(z)) = Cardinality(UpTo(x)) => UpTo(z) = UpTo(x)
    BY <1>2, <2>1, FS_Subset
  <2>3. rank[x] = Cardinality(UpTo(x)) /\ rank[z] = Cardinality(UpTo(z))
    OBVIOUS
  <2> HIDE DEF UpTo, rank
  <2>4. QED
    BY <2>1, <2>2, <2>3
<1>4. rank \in Injection(S, 1..size)
  <2>1. rank \in [S -> 1..size]
    BY <1>2
  <2>2. ASSUME NEW x \in S, NEW z \in S, x # z PROVE rank[x] # rank[z]
    <3> HIDE DEF rank, size
    <3>1. x < z \/ z < x
      BY <2>2
    <3>2. QED
      BY <1>3, <3>1
  <2> HIDE DEF rank, size
  <2>3. QED
    BY <2>1, <2>2 DEF Injection, IsInjective
<1>5. rank \in Surjection(S, 1..size)
  <2>1. IsFiniteSet(1..size) /\ Cardinality(1..size) = size
    BY <1>1, FS_Interval
  <2> HIDE DEF rank
  <2>2. QED
    BY <1>4, <2>1, FS_Injection
<1>6. ASSUME NEW n \in 1..size PROVE Nth(S, n) \in S /\ rank[Nth(S, n)] = n
  <2>1. \E x \in S : rank[x] = n
    <3> HIDE DEF rank, size
    <3>1. QED
      BY <1>5 DEF Surjection
  <2>2. \E x \in S : Cardinality({j \in S : j <= x}) = n
    BY <2>1
  <2>3. Nth(S, n) \in S /\ Cardinality({j \in S : j <= Nth(S, n)}) = n
    BY <2>2 DEF Nth
  <2>4. QED
    BY <2>3
<1> HIDE DEF rank, size
<1>7. ASSUME NEW i \in S PROVE \E n \in 1..size : Nth(S, n) = i
  <2>1. rank[i] \in 1..size
    BY <1>2
  <2>2. Nth(S, rank[i]) \in S /\ rank[Nth(S, rank[i])] = rank[i]
    BY <1>6, <2>1
  <2>3. Nth(S, rank[i]) = i
    BY <1>4, <2>2 DEF Injection, IsInjective
  <2>4. QED
    BY <2>1, <2>3
<1>8. \A m, n \in 1..size : Nth(S, m) = Nth(S, n) => m = n
  BY <1>6
<1>9. QED
  BY <1>1, <1>6, <1>7, <1>8 DEF size

LEMMA MissingIs ==
  ASSUME DocsTypeOK, NEW d \in DOMAIN folder
  PROVE  /\ Missing(d) \in Seq(Members)
         /\ \A k \in 1..Len(Missing(d)) :
              \E i \in EmptyRows(d) : Missing(d)[k] = folder[d].rows[i].who
         /\ \A i \in EmptyRows(d) : IsIn(folder[d].rows[i].who, Missing(d))
         /\ Distinct(folder[d].rows) => Once(Missing(d))
<1> DEFINE rows == folder[d].rows
           S == EmptyRows(d)
           n == Cardinality(S)
           M == Missing(d)
<1>1. rows \in Seq(Row) /\ DOMAIN rows = 1..Len(rows) /\ Len(rows) \in Nat
  <2>1. folder[d] \in Docs
    BY DEF DocsTypeOK
  <2>2. rows \in Seq(Row)
    BY <2>1 DEF Docs
  <2>3. QED
    BY <2>2
<1>2. S \in SUBSET (1..Len(rows)) /\ S \in SUBSET Nat /\ IsFiniteSet(S)
  <2>1. S \in SUBSET (1..Len(rows))
    BY <1>1 DEF EmptyRows
  <2>2. IsFiniteSet(1..Len(rows))
    BY <1>1, FS_Interval
  <2> HIDE DEF S
  <2>3. IsFiniteSet(S)
    BY <2>1, <2>2, FS_Subset
  <2>4. S \in SUBSET Nat
    BY <1>1, <2>1
  <2>5. QED
    BY <2>1, <2>3, <2>4
<1>3. /\ n \in Nat
      /\ \A k \in 1..n : Nth(S, k) \in S
      /\ \A k, l \in 1..n : Nth(S, k) = Nth(S, l) => k = l
      /\ \A i \in S : \E k \in 1..n : Nth(S, k) = i
  <2> HIDE DEF S
  <2>1. QED
    BY <1>2, NthIs
<1>4. M = [k \in 1..n |-> rows[Nth(S, k)].who]
  BY DEF Missing
<1> HIDE DEF S, n, M
<1>5. \A i \in S : i \in DOMAIN rows /\ rows[i].who \in Members
  <2>1. \A i \in 1..Len(rows) : rows[i] \in Row
    BY <1>1
  <2>2. \A i \in 1..Len(rows) : rows[i].who \in Members
    BY <2>1 DEF Row
  <2> HIDE DEF rows
  <2>3. QED
    BY <1>1, <1>2, <2>2
<1> HIDE DEF rows
<1>6. M \in [1..n -> Members]
  BY <1>3, <1>4, <1>5
<1>7. M \in Seq(Members) /\ Len(M) = n
  BY <1>3, <1>6
<1>8. \A k \in 1..n : M[k] = rows[Nth(S, k)].who
  BY <1>4
<1>9. Distinct(rows) => Once(M)
  BY <1>3, <1>5, <1>7, <1>8 DEF Distinct, Once
<1>10. \A i \in S : IsIn(rows[i].who, M)
  BY <1>3, <1>7, <1>8 DEF IsIn
<1>11. QED
  BY <1>3, <1>7, <1>8, <1>9, <1>10 DEF M, S, rows

-----------------------------------------------------------------------------
(* Rows come once, each for one member, and are never taken away.          *)

RowsInv ==
  /\ \A d \in DOMAIN folder : Distinct(folder[d].rows)
  /\ \A c \in Calls : pc[c] \in {"table", "name"} => folder[doc[c]].rows = <<>>

RowsGrow(d) ==
  \/ folder[d].rows = <<>>
  \/ /\ DOMAIN folder'[d].rows = DOMAIN folder[d].rows
     /\ \A i \in DOMAIN folder[d].rows :
          /\ folder'[d].rows[i].who = folder[d].rows[i].who
          /\ folder[d].rows[i].filled \subseteq folder'[d].rows[i].filled

LEMMA RowsNext ==
  ASSUME CallsInv, RowsInv, [Next]_vars
  PROVE  /\ RowsInv'
         /\ \A d \in DOMAIN folder : d \in DOMAIN folder' /\ RowsGrow(d)
<1> USE DEF work, history, Goto
<1>a. DocsTypeOK /\ LookedFirst /\ \A b \in Calls : CallInv(b)
  BY DEF CallsInv, TwinsInv
<1>b. /\ folder \in Seq(Docs) /\ DOMAIN folder = 1..Len(folder) /\ Len(folder) \in Nat
      /\ DOMAIN folder' = 1..Len(folder') /\ doc \in [Calls -> 0..Len(folder)]
  <2>1. DocsTypeOK'
    BY <1>a, TypeNext
  <2>2. QED
    BY <1>a, <2>1 DEF DocsTypeOK
<1>1. ASSUME UNCHANGED folder,
             \A c \in Calls : pc'[c] \in {"table", "name"} => pc'[c] = pc[c] /\ doc'[c] = doc[c]
      PROVE  RowsInv' /\ \A d \in DOMAIN folder : d \in DOMAIN folder' /\ RowsGrow(d)
  BY <1>1 DEF RowsInv, RowsGrow
<1>2. ASSUME NEW c \in Calls,
             Load(c) \/ Look(c) \/ ListMembers(c) \/ FindLink(c) \/ Work(c) \/ Fail(c)
             \/ \E a \in Menu : Begin(c, a)
      PROVE  RowsInv' /\ \A d \in DOMAIN folder : d \in DOMAIN folder' /\ RowsGrow(d)
  <2>1. /\ UNCHANGED folder /\ \A b \in Calls \ {c} : pc'[b] = pc[b] /\ doc'[b] = doc[b]
        /\ pc'[c] \notin {"table", "name"} \/ UNCHANGED <<pc, doc>>
    BY <1>2, <1>a DEF Load, Look, ComeTo, ListMembers, GiveUp, FindLink, Work, Announce, Read,
       Send, Sent, Escalate, Escalated, UrgentOne, Ring, Fail, Begin, DocsTypeOK
  <2>2. QED
    BY <1>1, <2>1
<1>3. ASSUME NEW c \in Calls, Create(c)
      PROVE  RowsInv' /\ \A d \in DOMAIN folder : d \in DOMAIN folder' /\ RowsGrow(d)
  <2>1. /\ Len(folder') = Len(folder) + 1
        /\ \A d \in 1..Len(folder) : folder'[d] = folder[d]
        /\ folder'[Len(folder')] = [title |-> title[c], maker |-> c, known |-> known[c],
                                    table |-> FALSE, height |-> 0, rows |-> <<>>]
    BY <1>3, <1>a, NewDoc
  <2>2. folder'[Len(folder')].rows = <<>>
    BY <2>1
  <2>3. \A b \in Calls \ {c} : pc'[b] = pc[b] /\ doc'[b] = doc[b]
    BY <1>3, <1>a DEF Create, DocsTypeOK
  <2>4. doc'[c] = Len(folder')
    BY <1>3, <1>b DEF Create
  <2>5. \A d \in DOMAIN folder' : d \in DOMAIN folder \/ d = Len(folder')
    BY <1>b, <2>1
  <2>6. \A b \in Calls : pc[b] \in {"table", "name"} => doc[b] \in 1..Len(folder)
    BY <1>a, <1>b DEF DocsTypeOK
  <2>7. RowsInv'
    <3>1. \A d \in DOMAIN folder' : Distinct(folder'[d].rows)
      BY <1>b, <2>1, <2>2, <2>5 DEF RowsInv, Distinct
    <3>2. \A b \in Calls : pc'[b] \in {"table", "name"} => folder'[doc'[b]].rows = <<>>
      BY <2>1, <2>2, <2>3, <2>4, <2>6 DEF RowsInv
    <3>3. QED
      BY <3>1, <3>2 DEF RowsInv
  <2>8. QED
    BY <1>b, <2>1, <2>7 DEF RowsGrow
<1>4. ASSUME NEW c \in Calls, InsertTable(c)
      PROVE  RowsInv' /\ \A d \in DOMAIN folder : d \in DOMAIN folder' /\ RowsGrow(d)
  <2>1. SameBut(doc[c]) /\ folder'[doc[c]].rows = folder[doc[c]].rows
    BY <1>4, <1>a, TableInserted
  <2>2. DOMAIN folder' = DOMAIN folder /\ \A d \in DOMAIN folder : folder'[d].rows = folder[d].rows
    BY <1>b, <2>1 DEF SameBut
  <2>3. \A b \in Calls : pc'[b] \in {"table", "name"} => pc[b] \in {"table", "name"}
    BY <1>4, <1>a DEF InsertTable, DocsTypeOK
  <2>4. \A b \in Calls : pc[b] \in {"table", "name"} => doc[b] \in DOMAIN folder
    BY <1>a, <1>b DEF DocsTypeOK
  <2>5. doc' = doc
    BY <1>4 DEF InsertTable
  <2>6. QED
    BY <2>2, <2>3, <2>4, <2>5 DEF RowsInv, RowsGrow
<1>5. ASSUME NEW c \in Calls, NameRows(c)
      PROVE  RowsInv' /\ \A d \in DOMAIN folder : d \in DOMAIN folder' /\ RowsGrow(d)
  <2> DEFINE rows == [i \in DOMAIN people[c] |-> [who |-> people[c][i], filled |-> {}]]
  <2>1. SameBut(doc[c]) /\ folder'[doc[c]].rows = rows
    BY <1>5, <1>a, RowsNamed
  <2>2. pc[c] = "name" /\ doc' = doc /\ pc'[c] = "link" /\ \A b \in Calls \ {c} : pc'[b] = pc[b]
    BY <1>5, <1>a DEF NameRows, DocsTypeOK
  <2>3. IsInjective(people[c]) /\ folder[doc[c]].maker = c
    BY <1>a, <2>2 DEF CallInv
  <2>4. Distinct(rows)
    BY <2>3 DEF Distinct, IsInjective
  <2>5. DOMAIN folder' = DOMAIN folder
        /\ \A d \in DOMAIN folder : d # doc[c] => folder'[d].rows = folder[d].rows
    BY <1>b, <2>1 DEF SameBut
  <2>6. folder[doc[c]].rows = <<>>
    BY <2>2 DEF RowsInv
  <2> HIDE DEF rows
  <2>7. \A b \in Calls \ {c} : pc'[b] \in {"table", "name"} =>
          doc[b] \in DOMAIN folder /\ doc[b] # doc[c]
    <3>1. \A b \in Calls \ {c} : pc[b] \in {"table", "name"} =>
            doc[b] \in DOMAIN folder /\ folder[doc[b]].maker = b
      BY <1>a, <1>b DEF DocsTypeOK, CallInv
    <3>2. QED
      BY <2>2, <2>3, <3>1
  <2>8. RowsInv'
    BY <2>1, <2>2, <2>4, <2>5, <2>7 DEF RowsInv
  <2>9. QED
    BY <2>5, <2>6, <2>8 DEF RowsGrow
<1>6. ASSUME NEW d \in DOMAIN folder, NEW i \in DOMAIN folder[d].rows, NEW col \in Columns,
             Fill(d, i, col)
      PROVE  RowsInv' /\ \A e \in DOMAIN folder : e \in DOMAIN folder' /\ RowsGrow(e)
  <2>1. /\ SameBut(d)
        /\ DOMAIN folder'[d].rows = DOMAIN folder[d].rows
        /\ \A j \in DOMAIN folder[d].rows :
             /\ folder'[d].rows[j].who = folder[d].rows[j].who
             /\ folder[d].rows[j].filled \subseteq folder'[d].rows[j].filled
        /\ Len(folder'[d].rows) = Len(folder[d].rows)
    BY <1>6, <1>a, CellFilled
  <2>2. DOMAIN folder' = DOMAIN folder
        /\ \A e \in DOMAIN folder : e # d => folder'[e].rows = folder[e].rows
    BY <1>b, <2>1 DEF SameBut
  <2>3. \A e \in DOMAIN folder : Distinct(folder'[e].rows)
    BY <2>1, <2>2 DEF RowsInv, Distinct
  <2>4. UNCHANGED <<pc, doc>>
    BY <1>6 DEF Fill
  <2>5. \A b \in Calls : pc[b] \in {"table", "name"} => doc[b] \in DOMAIN folder /\ doc[b] # d
    <3>1. folder[d].rows # <<>>
      BY <1>6
    <3>2. QED
      BY <1>a, <1>b, <3>1 DEF DocsTypeOK, RowsInv
  <2>6. RowsInv'
    BY <2>2, <2>3, <2>4, <2>5 DEF RowsInv
  <2>7. QED
    BY <2>1, <2>2, <2>6 DEF RowsGrow
<1>7. CASE Edit
  BY <1>1, <1>7 DEF Edit
<1>8. CASE Stop
  BY <1>1, <1>8 DEF Stop
<1>9. CASE UNCHANGED vars
  BY <1>1, <1>9 DEF vars
<1>10. QED
  BY <1>2, <1>3, <1>4, <1>5, <1>6, <1>7, <1>8, <1>9 DEF Next, Make

-----------------------------------------------------------------------------
(* Whom a call messages.                                                   *)

TalkTypeOK ==
  /\ targets \in [Calls -> Seq(Members)] /\ delivered \in [Calls -> Seq(Members)]
  /\ messaged \in [Calls -> Seq(Members)] /\ escalated \in [Calls -> Seq(Members)]
  /\ before \in [Calls -> Seq(Row)]
  /\ faults \in Nat

(* A person by name is still on the list while the call works for them.    *)
NamedInv ==
  \A c \in Calls :
    pc[c] \in Making \cup {"look", "work", "ring"} /\ ByName(ask[c]) => targets[c] # <<>>

Untold(c) == messaged[c] = <<>> /\ delivered[c] = <<>> /\ escalated[c] = <<>>

(* The rows the call came to are there, with what was filled in since.     *)
RowsSince(c) ==
  \/ before[c] = <<>>
  \/ /\ DOMAIN before[c] = DOMAIN folder[doc[c]].rows
     /\ \A k \in DOMAIN before[c] :
          /\ before[c][k].who = folder[doc[c]].rows[k].who
          /\ before[c][k].filled \subseteq folder[doc[c]].rows[k].filled

WasEmpty(c, m) ==
  \A k \in DOMAIN before[c] : before[c][k].who = m => before[c][k].filled = {}

(* Rows with empty cells of those the call has neither messaged nor on its *)
(* list.                                                                   *)
Forgotten(c) ==
  {i \in DOMAIN before[c] : /\ folder[doc[c]].rows[i].filled = {}
                            /\ ~ IsIn(before[c][i].who, messaged[c])
                            /\ ~ IsIn(before[c][i].who, targets[c])}

(* A call that is not by name tells nobody before it has read the rows,    *)
(* and then those on its list, each once, in whose row it saw nothing;     *)
(* each one it forgets is a fault of its own.                              *)
TellInv(c) ==
  /\ pc[c] \in {"idle", "load"} => Untold(c)
  /\ pc[c] # "idle" /\ ~ ByName(ask[c]) =>
       /\ pc[c] \in Making \cup {"look", "work"} => Untold(c)
       /\ pc[c] \in {"work", "send", "escalate", "done"} => doc[c] # 0 /\ RowsSince(c)
       /\ Once(messaged[c])
       /\ \A m \in Members :
            /\ IsIn(m, messaged[c]) => WasEmpty(c, m)
            /\ IsIn(m, delivered[c]) => IsIn(m, messaged[c])
            /\ IsIn(m, escalated[c]) => IsIn(m, messaged[c])
       /\ pc[c] = "send" =>
            /\ Once(targets[c])
            /\ \A m \in Members :
                 IsIn(m, targets[c]) => WasEmpty(c, m) /\ ~ IsIn(m, messaged[c])
       /\ pc[c] \in {"send", "escalate", "done"} /\ ask[c].op \in {"remind", "urgent"} =>
            /\ Cardinality(Forgotten(c)) <= faults
            /\ pc[c] # "send" => targets[c] = <<>>

TalkInv == CallsInv /\ TalkTypeOK /\ RowsInv /\ NamedInv /\ \A c \in Calls : TellInv(c)

LEMMA TalkTypeNext ==
  ASSUME TalkInv, [Next]_vars
  PROVE  TalkTypeOK' /\ NamedInv'
<1> USE DEF work, history, Goto
<1>a. DocsTypeOK /\ TalkTypeOK /\ NamedInv
  BY DEF TalkInv, CallsInv, TwinsInv
<1>b. ASSUME NEW c \in Calls
      PROVE  /\ targets[c] \in Seq(Members) /\ Len(targets[c]) \in Nat
             /\ targets[c] # <<>> => /\ Tail(targets[c]) \in Seq(Members)
                                     /\ targets[c][1] \in Members
                                     /\ Len(targets[c]) > 1 => Tail(targets[c]) # <<>>
             /\ delivered[c] \in Seq(Members) /\ messaged[c] \in Seq(Members)
             /\ escalated[c] \in Seq(Members)
             /\ delivered[c] # <<>> => /\ Tail(delivered[c]) \in Seq(Members)
                                       /\ delivered[c][1] \in Members
  <2>1. /\ targets[c] \in Seq(Members) /\ delivered[c] \in Seq(Members)
        /\ messaged[c] \in Seq(Members) /\ escalated[c] \in Seq(Members)
    BY <1>a DEF TalkTypeOK
  <2>2. ASSUME NEW s \in Seq(Members), s # <<>>
        PROVE  /\ Tail(s) \in Seq(Members) /\ s[1] \in Members /\ Len(s) \in Nat
               /\ Len(s) > 1 => Tail(s) # <<>>
    <3>1. Tail(s) \in Seq(Members) /\ Len(Tail(s)) = Len(s) - 1
      BY <2>2, HeadTailProperties
    <3>2. Len(s) \in Nat /\ 1 \in 1..Len(s)
      BY <2>2
    <3>3. s[1] \in Members
      BY <3>2
    <3>4. Len(s) > 1 => Tail(s) # <<>>
      <4>1. \A t \in Seq(Members) : Len(t) # 0 => t # <<>>
        OBVIOUS
      <4>2. Len(s) > 1 => Len(Tail(s)) # 0
        BY <3>1, <3>2
      <4>3. QED
        BY <3>1, <4>1, <4>2
    <3>5. QED
      BY <3>1, <3>2, <3>3, <3>4
  <2>3. QED
    BY <2>1, <2>2
<1>1. ASSUME UNCHANGED <<targets, delivered, messaged, escalated, before, ask>>, faults' \in Nat,
             \A c \in Calls : \/ pc'[c] \notin Making \cup {"look", "work", "ring"}
                              \/ pc[c] \in Making \cup {"look", "work", "ring"}
      PROVE  TalkTypeOK' /\ NamedInv'
  BY <1>a, <1>1 DEF TalkTypeOK, NamedInv, ByName
<1>2. ASSUME NEW c \in Calls, Load(c) PROVE TalkTypeOK' /\ NamedInv'
  <2>1. ask[c] \in Asks /\ ask[c].users \in Seq(Members)
    <3>1. ask[c] \in Asks
      BY <1>2, <1>a, MenuAssumption DEF Load, DocsTypeOK
    <3>2. QED
      BY <3>1 DEF Asks
  <2>2. /\ targets' = [targets EXCEPT ![c] = ask[c].users] /\ pc' = [pc EXCEPT ![c] = "look"]
        /\ UNCHANGED <<ask, delivered, messaged, escalated, before>> /\ faults' \in Nat
    BY <1>a, <1>2 DEF Load, Fault, TalkTypeOK
  <2>3. TalkTypeOK'
    BY <1>a, <2>1, <2>2 DEF TalkTypeOK
  <2>4. /\ targets'[c] = ask[c].users
        /\ \A b \in Calls \ {c} : targets'[b] = targets[b] /\ pc'[b] = pc[b]
    BY <2>2, <1>a DEF TalkTypeOK, DocsTypeOK
  <2>5. NamedInv'
    BY <1>a, <2>2, <2>4 DEF NamedInv, ByName
  <2>6. QED
    BY <2>3, <2>5
<1>3. ASSUME NEW c \in Calls, Look(c) \/ FindLink(c) PROVE TalkTypeOK' /\ NamedInv'
  <2>1. UNCHANGED <<ask, targets, delivered, messaged, escalated, faults>>
    BY <1>3 DEF Look, FindLink
  <2>2. before' = before \/ \E d \in DOMAIN folder : before' = [before EXCEPT ![c] = folder[d].rows]
    <3>1. CASE Look(c)
      BY <3>1 DEF Look, ComeTo, Found
    <3>2. CASE FindLink(c)
      <4>1. doc[c] \in DOMAIN folder
        BY <3>2, <1>a DEF FindLink, DocsTypeOK
      <4>2. QED
        BY <3>2, <4>1 DEF FindLink, ComeTo
    <3>3. QED
      BY <1>3, <3>1, <3>2
  <2>3. \A d \in DOMAIN folder : folder[d].rows \in Seq(Row)
    <3>1. \A d \in DOMAIN folder : folder[d] \in Docs
      BY <1>a DEF DocsTypeOK
    <3>2. QED
      BY <3>1 DEF Docs
  <2>4. TalkTypeOK'
    BY <1>a, <2>1, <2>2, <2>3 DEF TalkTypeOK
  <2>5. /\ pc[c] \in {"look", "link"}
        /\ \A b \in Calls \ {c} : pc'[b] = pc[b]
    BY <1>3, <1>a DEF Look, FindLink, DocsTypeOK
  <2>6. NamedInv'
    BY <1>a, <2>1, <2>5 DEF NamedInv, ByName, Making
  <2>7. QED
    BY <2>4, <2>6
<1>4. ASSUME NEW c \in Calls, Create(c) \/ InsertTable(c) \/ NameRows(c)
      PROVE  TalkTypeOK' /\ NamedInv'
  <2>1. /\ UNCHANGED <<ask, targets, delivered, messaged, escalated, before, faults>>
        /\ pc[c] \in Making
        /\ \A b \in Calls \ {c} : pc'[b] = pc[b]
    BY <1>4, <1>a DEF Create, InsertTable, NameRows, DocsTypeOK, Making
  <2>2. QED
    BY <1>a, <1>1, <2>1 DEF TalkTypeOK
<1>5. ASSUME NEW c \in Calls, GiveUp(c), pc[c] \in Making \cup {"look", "work", "ring"},
             UNCHANGED <<ask, delivered, messaged, escalated, before>>, faults' \in Nat
      PROVE  TalkTypeOK' /\ NamedInv'
  <2>1. /\ targets' = [targets EXCEPT ![c] = IF targets[c] = <<>> THEN targets[c]
                                              ELSE Tail(targets[c])]
        /\ pc' = [pc EXCEPT ![c] = IF Len(targets[c]) > 1 THEN "look" ELSE "failed"]
    BY <1>5 DEF GiveUp
  <2>2. TalkTypeOK'
    BY <1>a, <1>5, <1>b, <2>1 DEF TalkTypeOK
  <2>3. /\ pc'[c] = (IF Len(targets[c]) > 1 THEN "look" ELSE "failed")
        /\ Len(targets[c]) > 1 => targets'[c] # <<>>
        /\ \A b \in Calls \ {c} : targets'[b] = targets[b] /\ pc'[b] = pc[b]
    <3>1. Len(targets[c]) > 1 => targets[c] # <<>>
      OBVIOUS
    <3>2. QED
      BY <2>1, <1>b, <1>a, <3>1 DEF TalkTypeOK, DocsTypeOK
  <2>4. NamedInv'
    BY <1>a, <1>5, <2>3 DEF NamedInv, ByName, Making
  <2>5. QED
    BY <2>2, <2>4
<1>6. ASSUME NEW c \in Calls, ListMembers(c) PROVE TalkTypeOK' /\ NamedInv'
  <2>1. pc[c] \in Making /\ UNCHANGED <<ask, delivered, messaged, escalated, before, faults>>
    BY <1>6 DEF ListMembers, Making
  <2>2. CASE group = {}
    BY <1>a, <1>5, <1>6, <2>1, <2>2 DEF ListMembers, TalkTypeOK
  <2>3. CASE group # {}
    <3>1. targets' = targets /\ \A b \in Calls \ {c} : pc'[b] = pc[b]
      BY <1>6, <1>a, <2>3 DEF ListMembers, DocsTypeOK
    <3>2. QED
      BY <1>a, <1>1, <2>1, <3>1 DEF TalkTypeOK
  <2>4. QED
    BY <2>2, <2>3
<1>7. ASSUME NEW c \in Calls, Fail(c) PROVE TalkTypeOK' /\ NamedInv'
  <2>1. /\ GiveUp(c) /\ pc[c] \in Making \cup {"look", "work", "ring"}
        /\ UNCHANGED <<ask, delivered, messaged, escalated, before>> /\ faults' \in Nat
    BY <1>a, <1>7 DEF Fail, Fault, TalkTypeOK
  <2>2. QED
    BY <1>5, <2>1
<1>8. ASSUME NEW c \in Calls, Announce(c) \/ Sent(c) \/ Escalated(c) PROVE TalkTypeOK' /\ NamedInv'
  <2>1. /\ UNCHANGED <<ask, targets, delivered, messaged, escalated, before, faults>>
        /\ pc'[c] \in {"done", "escalate"}
        /\ \A b \in Calls \ {c} : pc'[b] = pc[b]
    BY <1>8, <1>a DEF Announce, Sent, Escalated, DocsTypeOK
  <2>2. QED
    BY <1>a, <1>1, <2>1 DEF TalkTypeOK, Making
<1>9. ASSUME NEW c \in Calls, Read(c) PROVE TalkTypeOK' /\ NamedInv'
  <2>1. doc[c] \in DOMAIN folder => Missing(doc[c]) \in Seq(Members)
    BY <1>a, MissingIs
  <2>2. /\ ~ ByName(ask[c]) /\ pc[c] = "work"
        /\ UNCHANGED <<ask, delivered, messaged, escalated, before, faults>>
        /\ pc'[c] \in {"failed", "done", "send"}
        /\ targets' = targets \/ targets' = [targets EXCEPT ![c] = Missing(doc[c])]
        /\ \A b \in Calls \ {c} : pc'[b] = pc[b]
        /\ \A b \in Calls \ {c} : targets'[b] = targets[b]
    BY <1>9, <1>a DEF Read, DocsTypeOK
  <2>3. doc[c] \in DOMAIN folder
    <3>1. doc[c] # 0
      BY <2>2 DEF TalkInv, TellInv
    <3>2. QED
      BY <3>1, <1>a DEF DocsTypeOK
  <2>4. TalkTypeOK'
    BY <1>a, <2>1, <2>2, <2>3 DEF TalkTypeOK
  <2>5. NamedInv'
    BY <1>a, <2>2 DEF NamedInv, ByName, Making, TalkTypeOK
  <2>6. QED
    BY <2>4, <2>5
<1>10. ASSUME NEW c \in Calls, Send(c) \/ Escalate(c) PROVE TalkTypeOK' /\ NamedInv'
  <2>1. /\ UNCHANGED <<pc, ask, before>> /\ faults' \in Nat
        /\ pc[c] \in {"send", "escalate"}
        /\ \A b \in Calls \ {c} : targets'[b] = targets[b]
    BY <1>10, <1>a DEF Send, Escalate, Fault, TalkTypeOK
  <2>2. TalkTypeOK'
    <3>1. CASE Send(c)
      <4>1. targets[c] # <<>>
        BY <3>1 DEF Send
      <4>2. targets[c][1] \in Members /\ Tail(targets[c]) \in Seq(Members)
        BY <4>1, <1>b
      <4>3. targets' = [targets EXCEPT ![c] = Tail(targets[c])] /\ escalated' = escalated
        BY <3>1 DEF Send
      <4>4. /\ messaged' = messaged \/ messaged' = [messaged EXCEPT ![c] = Append(messaged[c], targets[c][1])]
            /\ delivered' = delivered \/ delivered' = [delivered EXCEPT ![c] = Append(delivered[c], targets[c][1])]
        BY <3>1 DEF Send
      <4>5. /\ Append(messaged[c], targets[c][1]) \in Seq(Members)
            /\ Append(delivered[c], targets[c][1]) \in Seq(Members)
        BY <4>2, <1>b
      <4>6. QED
        BY <1>a, <2>1, <4>2, <4>3, <4>4, <4>5 DEF TalkTypeOK
    <3>2. CASE Escalate(c)
      <4>1. delivered[c] # <<>>
        BY <3>2 DEF Escalate
      <4>2. delivered[c][1] \in Members /\ Tail(delivered[c]) \in Seq(Members)
        BY <4>1, <1>b
      <4>3. /\ delivered' = [delivered EXCEPT ![c] = Tail(delivered[c])]
            /\ UNCHANGED <<targets, messaged>>
            /\ escalated' = escalated \/ escalated' = [escalated EXCEPT ![c] = Append(escalated[c], delivered[c][1])]
        BY <3>2 DEF Escalate
      <4>4. Append(escalated[c], delivered[c][1]) \in Seq(Members)
        BY <4>2, <1>b
      <4>5. QED
        BY <1>a, <2>1, <4>2, <4>3, <4>4 DEF TalkTypeOK
    <3>3. QED
      BY <1>10, <3>1, <3>2
  <2>3. NamedInv'
    BY <1>a, <2>1 DEF NamedInv, ByName, Making
  <2>4. QED
    BY <2>2, <2>3
<1>11. ASSUME NEW c \in Calls, UrgentOne(c) PROVE TalkTypeOK' /\ NamedInv'
  <2>1. /\ pc[c] = "work" /\ ByName(ask[c]) /\ pc' = [pc EXCEPT ![c] = "ring"]
        /\ messaged' = [messaged EXCEPT ![c] = Append(messaged[c], targets[c][1])]
        /\ UNCHANGED <<ask, targets, delivered, escalated, before, faults>>
    BY <1>11 DEF UrgentOne
  <2>2. targets[c] # <<>>
    BY <1>a, <2>1 DEF NamedInv
  <2>3. Append(messaged[c], targets[c][1]) \in Seq(Members)
    <3>1. targets[c][1] \in Members /\ messaged[c] \in Seq(Members)
      BY <1>b, <2>2
    <3>2. QED
      BY <3>1
  <2>4. TalkTypeOK'
    BY <1>a, <2>1, <2>3 DEF TalkTypeOK
  <2>5. \A b \in Calls \ {c} : pc'[b] = pc[b]
    BY <1>a, <2>1 DEF DocsTypeOK
  <2>6. NamedInv'
    BY <1>a, <2>1, <2>2, <2>5 DEF NamedInv, ByName
  <2>7. QED
    BY <2>4, <2>6
<1>12. ASSUME NEW c \in Calls, Ring(c) PROVE TalkTypeOK' /\ NamedInv'
  <2>1. /\ pc[c] = "ring" /\ pc' = [pc EXCEPT ![c] = IF Len(targets[c]) > 1 THEN "look" ELSE "done"]
        /\ escalated' = [escalated EXCEPT ![c] = Append(escalated[c], targets[c][1])]
        /\ targets' = [targets EXCEPT ![c] = Tail(targets[c])]
        /\ UNCHANGED <<ask, delivered, messaged, before, faults>>
    BY <1>12 DEF Ring
  <2>2. targets[c] # <<>>
    <3>1. ByName(ask[c])
      BY <1>a, <2>1 DEF TalkInv, CallsInv, CallInv
    <3>2. QED
      BY <1>a, <2>1, <3>1 DEF NamedInv
  <2>3. /\ targets[c][1] \in Members /\ escalated[c] \in Seq(Members)
        /\ Tail(targets[c]) \in Seq(Members) /\ (Len(targets[c]) > 1 => Tail(targets[c]) # <<>>)
    BY <1>b, <2>2
  <2>4. Append(escalated[c], targets[c][1]) \in Seq(Members)
    BY <2>3
  <2>5. TalkTypeOK'
    BY <1>a, <2>1, <2>3, <2>4 DEF TalkTypeOK
  <2>6. /\ \A b \in Calls \ {c} : pc'[b] = pc[b] /\ targets'[b] = targets[b]
        /\ pc'[c] = (IF Len(targets[c]) > 1 THEN "look" ELSE "done")
        /\ targets'[c] = Tail(targets[c])
    BY <1>a, <2>1 DEF DocsTypeOK, TalkTypeOK
  <2>7. NamedInv'
    BY <1>a, <2>1, <2>3, <2>6 DEF NamedInv, ByName, Making
  <2>8. QED
    BY <2>5, <2>7
<1>13. ASSUME NEW c \in Calls, NEW a \in Menu, Begin(c, a) PROVE TalkTypeOK' /\ NamedInv'
  <2>1. /\ pc[c] = "idle" /\ pc' = [pc EXCEPT ![c] = "load"] /\ ask' = [ask EXCEPT ![c] = a]
        /\ UNCHANGED <<targets, delivered, messaged, escalated, before, faults>>
    BY <1>13 DEF Begin
  <2>2. pc'[c] = "load" /\ \A b \in Calls \ {c} : pc'[b] = pc[b] /\ ask'[b] = ask[b]
    BY <1>a, <2>1 DEF DocsTypeOK
  <2>3. TalkTypeOK'
    BY <1>a, <2>1 DEF TalkTypeOK
  <2>4. NamedInv'
    BY <1>a, <2>1, <2>2 DEF NamedInv, ByName, Making
  <2>5. QED
    BY <2>3, <2>4
<1>14. ASSUME NEW d \in DOMAIN folder, NEW i \in DOMAIN folder[d].rows, NEW col \in Columns,
             Fill(d, i, col)
      PROVE  TalkTypeOK' /\ NamedInv'
  BY <1>1, <1>14, <1>a DEF Fill, TalkTypeOK
<1>15. CASE Edit
  BY <1>1, <1>15, <1>a DEF Edit, TalkTypeOK
<1>16. CASE Stop
  <2>1. /\ UNCHANGED <<targets, delivered, messaged, escalated, before, ask>> /\ faults' \in Nat
        /\ \A c \in Calls : pc'[c] = pc[c] \/ pc'[c] = "lost"
    BY <1>16, <1>a DEF Stop, Fault, TalkTypeOK
  <2>2. QED
    BY <1>1, <2>1 DEF Making
<1>17. CASE UNCHANGED vars
  BY <1>1, <1>17, <1>a DEF vars, TalkTypeOK
<1>18. QED
  BY <1>2, <1>3, <1>4, <1>6, <1>7, <1>8, <1>9, <1>10, <1>11, <1>12, <1>13, <1>14, <1>15, <1>16,
     <1>17 DEF Next, Make, Work

-----------------------------------------------------------------------------
LEMMA AppendIs ==
  ASSUME NEW s \in Seq(Members), NEW m \in Members
  PROVE  /\ \A x \in Members : IsIn(x, Append(s, m)) <=> IsIn(x, s) \/ x = m
         /\ Once(s) /\ ~ IsIn(m, s) => Once(Append(s, m))
<1> DEFINE t == Append(s, m)
<1>1. /\ Len(t) = Len(s) + 1 /\ t[Len(s) + 1] = m /\ Len(s) \in Nat
      /\ \A k \in 1..Len(s) : t[k] = s[k]
  OBVIOUS
<1> HIDE DEF t
<1>2. 1..Len(t) = 1..Len(s) \cup {Len(s) + 1}
  BY <1>1
<1>3. \A x \in Members : IsIn(x, t) <=> IsIn(x, s) \/ x = m
  <2>1. Len(s) + 1 \in 1..Len(t)
    BY <1>1
  <2>2. \A k \in 1..Len(t) : k \in 1..Len(s) \/ k = Len(s) + 1
    BY <1>2
  <2>3. \A k \in 1..Len(s) : k \in 1..Len(t)
    BY <1>2
  <2>4. QED
    BY <1>1, <2>1, <2>2, <2>3 DEF IsIn
<1>4. Once(s) /\ ~ IsIn(m, s) => Once(t)
  BY <1>1, <1>2 DEF IsIn, Once
<1>5. QED
  BY <1>3, <1>4 DEF t

LEMMA TailIs ==
  ASSUME NEW s \in Seq(Members), s # <<>>
  PROVE  /\ \A x \in Members : IsIn(x, s) <=> IsIn(x, Tail(s)) \/ x = s[1]
         /\ Once(s) => Once(Tail(s)) /\ ~ IsIn(s[1], Tail(s))
<1> DEFINE t == Tail(s)
<1>1. /\ Len(t) = Len(s) - 1 /\ Len(s) \in Nat /\ Len(s) >= 1
      /\ \A k \in 1..Len(t) : t[k] = s[k + 1]
  BY HeadTailProperties
<1> HIDE DEF t
<1>2. /\ \A k \in 1..Len(t) : k + 1 \in 1..Len(s) /\ k + 1 # 1
      /\ \A k \in 1..Len(s) : k = 1 \/ (k - 1 \in 1..Len(t) /\ k = (k - 1) + 1)
      /\ 1 \in 1..Len(s)
      /\ \A k, l \in 1..Len(t) : k + 1 = l + 1 => k = l
  BY <1>1
<1>3. ASSUME NEW x \in Members PROVE IsIn(x, s) <=> IsIn(x, t) \/ x = s[1]
  <2>1. IsIn(x, t) \/ x = s[1] => IsIn(x, s)
    BY <1>1, <1>2 DEF IsIn
  <2>2. ASSUME NEW k \in 1..Len(s), s[k] = x PROVE IsIn(x, t) \/ x = s[1]
    <3>1. CASE k = 1
      BY <2>2, <3>1
    <3>2. CASE k - 1 \in 1..Len(t) /\ k = (k - 1) + 1
      <4>1. t[k - 1] = s[k]
        BY <1>1, <3>2
      <4>2. QED
        BY <2>2, <3>2, <4>1 DEF IsIn
    <3>3. QED
      BY <1>2, <3>1, <3>2
  <2>3. QED
    BY <2>1, <2>2 DEF IsIn
<1>4. Once(s) => Once(t) /\ ~ IsIn(s[1], t)
  BY <1>1, <1>2 DEF IsIn, Once
<1>5. QED
  BY <1>3, <1>4 DEF t

LEMMA NoneIn == /\ Once(<<>>) /\ \A x \in Members : ~ IsIn(x, <<>>)
BY DEF Once, IsIn

(* A call by name is not a reminder, and one that has told nobody yet has  *)
(* told nobody wrongly.                                                    *)
LEMMA TellByName ==
  ASSUME NEW c \in Calls, pc'[c] \notin {"idle", "load"}, ByName(ask'[c])
  PROVE  TellInv(c)'
BY DEF TellInv, ByName

LEMMA TellUntold ==
  ASSUME NEW c \in Calls, pc'[c] \notin {"work", "send", "escalate", "done"},
         messaged'[c] = <<>>, delivered'[c] = <<>>, escalated'[c] = <<>>
  PROVE  TellInv(c)'
<1>1. Untold(c)'
  BY DEF Untold
<1>2. Once(messaged'[c])
  BY NoneIn
<1>3. \A m \in Members : ~ IsIn(m, messaged'[c]) /\ ~ IsIn(m, delivered'[c]) /\ ~ IsIn(m, escalated'[c])
  BY NoneIn
<1>4. QED
  BY <1>1, <1>2, <1>3 DEF TellInv, ByName

(* While a call stays with its document, rows are filled in and never      *)
(* emptied, so it can only have forgotten fewer.                           *)
LEMMA RowsStand ==
  ASSUME DocsTypeOK, TalkTypeOK, RowsInv, NEW c \in Calls, doc[c] \in DOMAIN folder,
         RowsSince(c), RowsGrow(doc[c]), doc'[c] = doc[c], before'[c] = before[c]
  PROVE  /\ RowsSince(c)'
         /\ \A i \in DOMAIN before[c] :
              folder'[doc[c]].rows[i].filled = {} => folder[doc[c]].rows[i].filled = {}
         /\ IsFiniteSet(DOMAIN before[c]) /\ Distinct(before[c])
<1> DEFINE rows == folder[doc[c]].rows
           next == folder'[doc[c]].rows
<1>1. /\ before[c] \in Seq(Row) /\ DOMAIN before[c] = 1..Len(before[c]) /\ Len(before[c]) \in Nat
  BY DEF TalkTypeOK
<1>2. IsFiniteSet(DOMAIN before[c])
  BY <1>1, FS_Interval
<1>3. CASE before[c] = <<>>
  <2>1. DOMAIN before[c] = {}
    BY <1>1, <1>3
  <2>2. RowsSince(c)'
    BY <1>3 DEF RowsSince
  <2>3. QED
    BY <1>2, <2>1, <2>2 DEF Distinct
<1>4. CASE before[c] # <<>>
  <2>1. /\ DOMAIN before[c] = DOMAIN rows
        /\ \A k \in DOMAIN before[c] : /\ before[c][k].who = rows[k].who
                                       /\ before[c][k].filled \subseteq rows[k].filled
    BY <1>4 DEF RowsSince
  <2>2. rows # <<>>
    <3>1. 1 \in DOMAIN before[c]
      BY <1>1, <1>4, EmptySeq
    <3>2. 1 \in DOMAIN rows
      BY <2>1, <3>1
    <3> HIDE DEF rows
    <3>3. QED
      BY <3>2
  <2>3. /\ DOMAIN next = DOMAIN rows
        /\ \A i \in DOMAIN rows : /\ next[i].who = rows[i].who
                                  /\ rows[i].filled \subseteq next[i].filled
    BY <2>2 DEF RowsGrow
  <2>4. Distinct(rows)
    BY DEF RowsInv
  <2> HIDE DEF rows, next
  <2>5. Distinct(before[c])
    BY <2>1, <2>4 DEF Distinct
  <2>6. RowsSince(c)'
    <3>1. /\ DOMAIN before[c] = DOMAIN next
          /\ \A k \in DOMAIN before[c] : /\ before[c][k].who = next[k].who
                                         /\ before[c][k].filled \subseteq next[k].filled
      BY <2>1, <2>3
    <3>2. QED
      BY <3>1 DEF RowsSince, next
  <2>7. \A i \in DOMAIN before[c] : next[i].filled = {} => rows[i].filled = {}
    BY <2>1, <2>3
  <2>8. QED
    BY <1>2, <2>5, <2>6, <2>7 DEF next, rows
<1>5. QED
  BY <1>3, <1>4

(* Nobody is forgotten anew where only the document goes on.               *)
LEMMA ForgottenShrinks ==
  ASSUME DocsTypeOK, TalkTypeOK, RowsInv, NEW c \in Calls, doc[c] \in DOMAIN folder,
         RowsSince(c), RowsGrow(doc[c]), doc'[c] = doc[c], before'[c] = before[c],
         \A m \in Members : IsIn(m, messaged[c]) \/ IsIn(m, targets[c]) =>
                            IsIn(m, messaged'[c]) \/ IsIn(m, targets'[c]),
         Cardinality(Forgotten(c)) <= faults, faults' \in Nat, faults <= faults'
  PROVE  Cardinality(Forgotten(c)') <= faults'
<1>1. /\ \A i \in DOMAIN before[c] :
           folder'[doc[c]].rows[i].filled = {} => folder[doc[c]].rows[i].filled = {}
      /\ IsFiniteSet(DOMAIN before[c])
  BY RowsStand
<1>2. \A i \in DOMAIN before[c] : before[c][i].who \in Members
  <2>1. \A i \in DOMAIN before[c] : before[c][i] \in Row
    BY DEF TalkTypeOK
  <2>2. QED
    BY <2>1 DEF Row
<1>3. Forgotten(c)' \in SUBSET Forgotten(c)
  BY <1>1, <1>2 DEF Forgotten
<1>4. Forgotten(c) \in SUBSET DOMAIN before[c]
  BY DEF Forgotten
<1> DEFINE F == Forgotten(c)
           G == Forgotten(c)'
<1>5. IsFiniteSet(F) /\ G \in SUBSET F
  BY <1>1, <1>3, <1>4, FS_Subset
<1> HIDE DEF F, G
<1>6. Cardinality(G) <= Cardinality(F) /\ Cardinality(F) \in Nat /\ Cardinality(G) \in Nat
  BY <1>5, FS_Subset, FS_CardinalityType
<1>7. Cardinality(F) <= faults /\ faults \in Nat
  BY DEF F, TalkTypeOK
<1>8. Cardinality(G) <= faults'
  BY <1>6, <1>7
<1>9. QED
  BY <1>8 DEF G

(* A call whose own state stays, or that is lost.                          *)
LEMMA TellStands ==
  ASSUME TalkInv, NEW c \in Calls,
         pc'[c] = pc[c] \/ (pc'[c] = "lost" /\ pc[c] # "idle"),
         ask'[c] = ask[c], doc'[c] = doc[c], before'[c] = before[c], targets'[c] = targets[c],
         messaged'[c] = messaged[c], delivered'[c] = delivered[c], escalated'[c] = escalated[c],
         faults' \in Nat, faults <= faults',
         \A d \in DOMAIN folder : RowsGrow(d)
  PROVE  TellInv(c)'
<1>1. DocsTypeOK /\ TalkTypeOK /\ RowsInv /\ TellInv(c)
  BY DEF TalkInv, CallsInv, TwinsInv
<1>2. CASE pc'[c] \in {"idle", "load"} \/ ByName(ask[c])
  <2>1. CASE pc'[c] \in {"idle", "load"}
    <3>1. Untold(c) /\ pc'[c] = pc[c]
      BY <1>1, <2>1 DEF TellInv
    <3>2. messaged'[c] = <<>> /\ delivered'[c] = <<>> /\ escalated'[c] = <<>>
      BY <3>1 DEF Untold
    <3>3. QED
      BY <2>1, <3>2, TellUntold
  <2>2. CASE ByName(ask[c]) /\ pc'[c] \notin {"idle", "load"}
    BY <2>2, TellByName
  <2>3. QED
    BY <1>2, <2>1, <2>2
<1>3. CASE pc'[c] \notin {"idle", "load"} /\ ~ ByName(ask[c])
  <2>1. pc[c] # "idle" /\ ~ ByName(ask[c])
    BY <1>3
  <2>2. /\ Once(messaged'[c])
        /\ \A m \in Members :
             /\ IsIn(m, messaged'[c]) => WasEmpty(c, m)'
             /\ IsIn(m, delivered'[c]) => IsIn(m, messaged'[c])
             /\ IsIn(m, escalated'[c]) => IsIn(m, messaged'[c])
    BY <1>1, <2>1 DEF TellInv, WasEmpty
  <2>3. pc'[c] \in Making \cup {"look", "work"} => Untold(c)'
    BY <1>1, <2>1 DEF TellInv, Untold, Making
  <2>4. pc'[c] = "send" =>
          /\ Once(targets'[c])
          /\ \A m \in Members :
               IsIn(m, targets'[c]) => WasEmpty(c, m)' /\ ~ IsIn(m, messaged'[c])
    BY <1>1, <2>1 DEF TellInv, WasEmpty
  <2>5. CASE pc'[c] \in {"work", "send", "escalate", "done"}
    <3>1. pc'[c] = pc[c] /\ doc[c] # 0 /\ RowsSince(c)
      BY <1>1, <2>1, <2>5 DEF TellInv
    <3>2. doc[c] \in DOMAIN folder
      BY <1>1, <3>1 DEF DocsTypeOK
    <3>3. RowsSince(c)' /\ doc'[c] # 0
      BY <1>1, <3>1, <3>2, RowsStand
    <3>4. pc[c] \in {"send", "escalate", "done"} /\ ask[c].op \in {"remind", "urgent"} =>
            /\ Cardinality(Forgotten(c)') <= faults'
            /\ pc[c] # "send" => targets[c] = <<>>
      <4>1. SUFFICES ASSUME pc[c] \in {"send", "escalate", "done"}, ask[c].op \in {"remind", "urgent"}
                     PROVE  /\ Cardinality(Forgotten(c)') <= faults'
                            /\ pc[c] # "send" => targets[c] = <<>>
        OBVIOUS
      <4>2. /\ Cardinality(Forgotten(c)) <= faults
            /\ pc[c] # "send" => targets[c] = <<>>
        BY <1>1, <2>1, <4>1 DEF TellInv
      <4>3. QED
        BY <1>1, <3>1, <3>2, <4>2, ForgottenShrinks
    <3>5. QED
      BY <1>3, <2>2, <2>3, <2>4, <3>1, <3>3, <3>4 DEF TellInv, ByName
  <2>6. CASE pc'[c] \notin {"work", "send", "escalate", "done"}
    BY <1>3, <2>2, <2>3, <2>6 DEF TellInv, ByName
  <2>7. QED
    BY <2>5, <2>6
<1>4. QED
  BY <1>2, <1>3

-----------------------------------------------------------------------------
(* A step of one call leaves the others as they are.                       *)
OnlyMoves(c) ==
  /\ \A b \in Calls \ {c} :
       /\ pc'[b] = pc[b] /\ ask'[b] = ask[b] /\ doc'[b] = doc[b] /\ before'[b] = before[b]
       /\ targets'[b] = targets[b] /\ delivered'[b] = delivered[b]
       /\ messaged'[b] = messaged[b] /\ escalated'[b] = escalated[b]
  /\ faults' \in Nat /\ faults <= faults'

LEMMA OnlyMovesIs ==
  ASSUME TalkInv, NEW c \in Calls, UNCHANGED faults \/ Fault,
         \A b \in Calls \ {c} :
           /\ pc'[b] = pc[b] /\ ask'[b] = ask[b] /\ doc'[b] = doc[b] /\ before'[b] = before[b]
           /\ targets'[b] = targets[b] /\ delivered'[b] = delivered[b]
           /\ messaged'[b] = messaged[b] /\ escalated'[b] = escalated[b]
  PROVE  OnlyMoves(c)
<1>1. faults' \in Nat /\ faults <= faults'
  BY DEF Fault, TalkInv, TalkTypeOK
<1>2. QED
  BY <1>1 DEF OnlyMoves

LEMMA OthersTell ==
  ASSUME TalkInv, \A d \in DOMAIN folder : RowsGrow(d), NEW c \in Calls, OnlyMoves(c), TellInv(c)'
  PROVE  \A b \in Calls : TellInv(b)'
<1>1. ASSUME NEW b \in Calls \ {c} PROVE TellInv(b)'
  BY TellStands DEF OnlyMoves
<1>2. QED
  BY <1>1

LEMMA MakingTells ==
  ASSUME TalkInv, NEW c \in Calls, Make(c) \/ Fail(c) \/ Load(c) \/ \E a \in Menu : Begin(c, a)
  PROVE  OnlyMoves(c) /\ TellInv(c)'
<1> USE DEF work, history, Goto
<1>a. /\ DocsTypeOK /\ TalkTypeOK /\ TellInv(c) /\ CallInv(c) /\ faults \in Nat
  BY DEF TalkInv, CallsInv, TwinsInv, TalkTypeOK
<1>1. CASE Load(c) \/ \E a \in Menu : Begin(c, a)
  <2>1. OnlyMoves(c)
    <3>1. CASE Load(c)
      BY <3>1, <1>a, OnlyMovesIs DEF Load, DocsTypeOK, TalkTypeOK
    <3>2. CASE \E a \in Menu : Begin(c, a)
      BY <3>2, <1>a, OnlyMovesIs DEF Begin, DocsTypeOK, TalkTypeOK
    <3>3. QED
      BY <1>1, <3>1, <3>2
  <2>2. Untold(c) /\ UNCHANGED <<messaged, delivered, escalated>> /\ pc'[c] \in {"load", "look"}
    BY <1>1, <1>a DEF Load, Begin, TellInv, DocsTypeOK
  <2>3. QED
    BY <2>1, <2>2, TellUntold DEF Untold
<1>2. CASE Look(c) \/ FindLink(c)
  <2>1. OnlyMoves(c)
    <3>1. CASE Look(c)
      <4>1. CASE \E d \in Found(title[c]) : ComeTo(c, d) /\ Goto(c, "work")
        BY <3>1, <4>1, <1>a, OnlyMovesIs DEF Look, ComeTo, DocsTypeOK, TalkTypeOK
      <4>2. CASE Goto(c, "members") /\ UNCHANGED <<doc, before>>
        BY <3>1, <4>2, <1>a, OnlyMovesIs DEF Look, DocsTypeOK, TalkTypeOK
      <4>3. QED
        BY <3>1, <4>1, <4>2 DEF Look
    <3>2. CASE FindLink(c)
      BY <3>2, <1>a, OnlyMovesIs DEF FindLink, ComeTo, DocsTypeOK, TalkTypeOK
    <3>3. QED
      BY <1>2, <3>1, <3>2
  <2>2. /\ UNCHANGED <<folder, ask, targets, messaged, delivered, escalated>>
        /\ pc[c] \in {"look", "link"} /\ pc'[c] \in {"work", "members"}
    BY <1>2, <1>a DEF Look, FindLink, DocsTypeOK
  <2>3. pc'[c] = "work" => \E d \in DOMAIN folder : doc'[c] = d /\ before'[c] = folder[d].rows
    <3>1. CASE Look(c)
      BY <3>1, <1>a DEF Look, ComeTo, Found, DocsTypeOK, TalkTypeOK
    <3>2. CASE FindLink(c)
      <4>1. doc[c] \in DOMAIN folder
        BY <3>2, <1>a DEF FindLink, DocsTypeOK
      <4>2. QED
        BY <3>2, <4>1, <1>a DEF FindLink, ComeTo, DocsTypeOK, TalkTypeOK
    <3>3. QED
      BY <1>2, <3>1, <3>2
  <2>4. CASE ByName(ask[c])
    BY <2>1, <2>2, <2>4, TellByName
  <2>5. CASE ~ ByName(ask[c])
    <3>1. Untold(c)
      BY <1>a, <2>2, <2>5 DEF TellInv, Making
    <3>2. CASE pc'[c] = "members"
      BY <2>1, <2>2, <3>1, <3>2, TellUntold DEF Untold
    <3>3. CASE pc'[c] = "work"
      <4>1. doc'[c] # 0 /\ RowsSince(c)'
        <5>1. PICK d \in DOMAIN folder : doc'[c] = d /\ before'[c] = folder[d].rows
          BY <2>3, <3>3
        <5>2. d # 0
          BY <1>a DEF DocsTypeOK
        <5>3. folder'[d] = folder[d]
          BY <2>2
        <5>4. RowsSince(c)'
          BY <5>1, <5>3 DEF RowsSince
        <5>5. QED
          BY <5>1, <5>2, <5>4
      <4>2. Untold(c)'
        BY <2>2, <3>1 DEF Untold
      <4>3. /\ Once(messaged'[c])
            /\ \A m \in Members : /\ ~ IsIn(m, messaged'[c]) /\ ~ IsIn(m, delivered'[c])
                                  /\ ~ IsIn(m, escalated'[c])
        BY <4>2, NoneIn DEF Untold
      <4>4. QED
        BY <2>1, <3>3, <4>1, <4>2, <4>3 DEF TellInv, Making
    <3>4. QED
      BY <2>2, <3>2, <3>3
  <2>6. QED
    BY <2>4, <2>5
<1>3. CASE ListMembers(c) \/ Create(c) \/ InsertTable(c) \/ NameRows(c) \/ Fail(c)
  <2>1. OnlyMoves(c)
    <3>1. CASE ListMembers(c) \/ Fail(c)
      BY <3>1, <1>a, OnlyMovesIs DEF ListMembers, Fail, GiveUp, DocsTypeOK, TalkTypeOK
    <3>2. CASE Create(c) \/ InsertTable(c) \/ NameRows(c)
      BY <3>2, <1>a, OnlyMovesIs DEF Create, InsertTable, NameRows, DocsTypeOK, TalkTypeOK
    <3>3. QED
      BY <1>3, <3>1, <3>2
  <2>2. /\ UNCHANGED <<ask, messaged, delivered, escalated>>
        /\ pc[c] \in Making \cup {"look", "work", "ring"}
        /\ pc'[c] \in {"create", "table", "name", "link", "look", "failed"}
    BY <1>3, <1>a DEF ListMembers, Create, InsertTable, NameRows, Fail, GiveUp, Making, DocsTypeOK
  <2>3. CASE ByName(ask[c])
    BY <2>1, <2>2, <2>3, TellByName
  <2>4. CASE ~ ByName(ask[c])
    <3>1. pc[c] # "ring"
      BY <1>a, <2>2, <2>4 DEF CallInv, Making
    <3>2. Untold(c)
      BY <1>a, <2>2, <2>4, <3>1 DEF TellInv, Making
    <3>3. QED
      BY <2>1, <2>2, <3>2, TellUntold DEF Untold
  <2>5. QED
    BY <2>3, <2>4
<1>4. QED
  BY <1>1, <1>2, <1>3 DEF Make

(* A call reads its document: those on its list are the ones whose row is  *)
(* empty now, and nobody else of those it came to is.                      *)
LEMMA ReadTells ==
  ASSUME TalkInv, NEW c \in Calls, Read(c)
  PROVE  OnlyMoves(c) /\ TellInv(c)'
<1> USE DEF work, history, Goto
<1>a. DocsTypeOK /\ TalkTypeOK /\ RowsInv /\ TellInv(c) /\ faults \in Nat
  BY DEF TalkInv, CallsInv, TwinsInv, TalkTypeOK
<1>1. OnlyMoves(c)
  BY <1>a, OnlyMovesIs DEF Read, DocsTypeOK, TalkTypeOK
<1>2. /\ UNCHANGED <<folder, ask, doc, before, messaged, delivered, escalated, faults>>
      /\ pc[c] = "work" /\ ~ ByName(ask[c])
      /\ pc'[c] \in {"failed", "done", "send"}
  BY <1>a DEF Read, DocsTypeOK
<1>3. /\ Untold(c) /\ doc[c] \in DOMAIN folder /\ doc[c] # 0 /\ RowsSince(c)
  BY <1>a, <1>2 DEF TellInv, DocsTypeOK
<1>4. CASE pc'[c] = "failed"
  BY <1>1, <1>2, <1>3, <1>4, TellUntold DEF Untold
<1>5. CASE pc'[c] # "failed"
  <2> DEFINE rows == folder[doc[c]].rows
             M == Missing(doc[c])
  <2>1. /\ targets'[c] = M
        /\ pc'[c] = (IF ask[c].op = "check" \/ M = <<>> THEN "done" ELSE "send")
    BY <1>5, <1>a DEF Read, DocsTypeOK, TalkTypeOK
  <2>2. /\ M \in Seq(Members)
        /\ \A k \in 1..Len(M) : \E i \in EmptyRows(doc[c]) : M[k] = rows[i].who
        /\ \A i \in EmptyRows(doc[c]) : IsIn(rows[i].who, M)
        /\ Once(M) /\ Distinct(rows)
    BY <1>a, <1>3, MissingIs DEF RowsInv
  <2>3. EmptyRows(doc[c]) = {i \in DOMAIN rows : rows[i].filled = {}}
    BY DEF EmptyRows
  <2> HIDE DEF M
  <2>4. ASSUME NEW m \in Members, IsIn(m, M) PROVE WasEmpty(c, m)
    <3>1. PICK i \in DOMAIN rows : rows[i].filled = {} /\ m = rows[i].who
      BY <2>2, <2>3, <2>4 DEF IsIn
    <3>2. ASSUME NEW k \in DOMAIN before[c], before[c][k].who = m PROVE before[c][k].filled = {}
      <4>1. before[c] # <<>>
        BY <3>2
      <4>2. /\ k \in DOMAIN rows /\ before[c][k].who = rows[k].who
            /\ before[c][k].filled \subseteq rows[k].filled
        BY <1>3, <4>1 DEF RowsSince
      <4> HIDE DEF rows
      <4>3. k = i
        BY <2>2, <3>1, <3>2, <4>2 DEF Distinct
      <4>4. QED
        BY <3>1, <4>2, <4>3
    <3>3. QED
      BY <3>2 DEF WasEmpty
  <2>5. Forgotten(c)' = {}
    <3>1. ASSUME NEW i \in DOMAIN before[c], rows[i].filled = {}
          PROVE  IsIn(before[c][i].who, M)
      <4>1. before[c] # <<>>
        OBVIOUS
      <4>2. i \in DOMAIN rows /\ before[c][i].who = rows[i].who
        BY <1>3, <4>1 DEF RowsSince
      <4> HIDE DEF rows
      <4>3. QED
        BY <2>2, <2>3, <3>1, <4>2
    <3>2. QED
      BY <1>2, <2>1, <3>1 DEF Forgotten
  <2>6. Cardinality(Forgotten(c)') <= faults'
    <3>1. Cardinality({}) = 0
      BY FS_EmptySet
    <3>2. Cardinality(Forgotten(c)') = 0
      BY <2>5, <3>1
    <3>3. faults' = faults
      BY <1>2
    <3>4. QED
      BY <1>a, <3>2, <3>3
  <2>7. /\ Untold(c)' /\ RowsSince(c)' /\ doc'[c] # 0
    BY <1>2, <1>3 DEF Untold, RowsSince
  <2>8. /\ Once(messaged'[c])
        /\ \A m \in Members : /\ ~ IsIn(m, messaged'[c]) /\ ~ IsIn(m, delivered'[c])
                              /\ ~ IsIn(m, escalated'[c])
    BY <2>7, NoneIn DEF Untold
  <2>9. \A m \in Members : IsIn(m, targets'[c]) => WasEmpty(c, m)'
    BY <1>2, <2>1, <2>4 DEF WasEmpty
  <2>10. pc'[c] # "send" /\ ask[c].op \in {"remind", "urgent"} => targets'[c] = <<>>
    BY <2>1
  <2>11. Once(targets'[c])
    BY <2>1, <2>2
  <2>12. QED
    BY <1>1, <1>2, <1>5, <2>6, <2>7, <2>8, <2>9, <2>10, <2>11 DEF TellInv, Making, ByName
<1>6. QED
  BY <1>4, <1>5

(* A message goes out, or fails and its member is forgotten with a fault.  *)
LEMMA SendTells ==
  ASSUME TalkInv, \A d \in DOMAIN folder : RowsGrow(d), NEW c \in Calls, Send(c)
  PROVE  OnlyMoves(c) /\ TellInv(c)'
<1> USE DEF work, history, Goto
<1> DEFINE m == targets[c][1]
<1>a. DocsTypeOK /\ TalkTypeOK /\ RowsInv /\ TellInv(c) /\ faults \in Nat
  BY DEF TalkInv, CallsInv, TwinsInv, TalkTypeOK
<1>1. OnlyMoves(c)
  BY <1>a, OnlyMovesIs DEF Send, DocsTypeOK, TalkTypeOK
<1>2. /\ UNCHANGED <<folder, pc, ask, doc, before, escalated>>
      /\ pc[c] = "send" /\ targets[c] # <<>> /\ targets'[c] = Tail(targets[c])
      /\ \/ /\ messaged'[c] = Append(messaged[c], m) /\ delivered'[c] = Append(delivered[c], m)
            /\ faults' = faults
         \/ faults' = faults + 1 /\ messaged' = messaged /\ delivered' = delivered
  BY <1>a DEF Send, Fault, TalkTypeOK
<1>3. CASE ByName(ask[c])
  BY <1>1, <1>2, <1>3, TellByName
<1>4. CASE ~ ByName(ask[c])
  <2>1. /\ targets[c] \in Seq(Members) /\ messaged[c] \in Seq(Members)
        /\ delivered[c] \in Seq(Members)
    BY <1>a DEF TalkTypeOK
  <2>2. m \in Members
    <3>1. Len(targets[c]) >= 1 /\ Len(targets[c]) \in Nat
      BY <1>2, <2>1, EmptySeq
    <3>2. 1 \in 1..Len(targets[c])
      BY <3>1
    <3>3. QED
      BY <2>1, <3>2
  <2> HIDE DEF m
  <2>3. /\ doc[c] # 0 /\ doc[c] \in DOMAIN folder /\ RowsSince(c)
        /\ Once(messaged[c]) /\ Once(targets[c])
        /\ \A x \in Members :
             /\ IsIn(x, messaged[c]) => WasEmpty(c, x)
             /\ IsIn(x, delivered[c]) => IsIn(x, messaged[c])
             /\ IsIn(x, escalated[c]) => IsIn(x, messaged[c])
             /\ IsIn(x, targets[c]) => WasEmpty(c, x) /\ ~ IsIn(x, messaged[c])
        /\ ask[c].op \in {"remind", "urgent"} => Cardinality(Forgotten(c)) <= faults
    BY <1>a, <1>2, <1>4 DEF TellInv, DocsTypeOK
  <2>4. /\ \A x \in Members : IsIn(x, targets[c]) <=> IsIn(x, targets'[c]) \/ x = m
        /\ Once(targets'[c]) /\ ~ IsIn(m, targets'[c])
    BY <1>2, <2>1, <2>3, TailIs DEF m
  <2>5. doc'[c] # 0 /\ RowsSince(c)' /\ \A x \in Members : WasEmpty(c, x)' <=> WasEmpty(c, x)
    BY <1>2, <2>3 DEF RowsSince, WasEmpty
  <2>6. CASE /\ messaged'[c] = Append(messaged[c], m) /\ delivered'[c] = Append(delivered[c], m)
             /\ faults' = faults
    <3>1. /\ \A x \in Members : IsIn(x, messaged'[c]) <=> IsIn(x, messaged[c]) \/ x = m
          /\ \A x \in Members : IsIn(x, delivered'[c]) <=> IsIn(x, delivered[c]) \/ x = m
          /\ ~ IsIn(m, messaged[c]) => Once(messaged'[c])
      BY <2>1, <2>2, <2>3, <2>6, AppendIs
    <3>2. WasEmpty(c, m) /\ ~ IsIn(m, messaged[c])
      BY <2>2, <2>3, <2>4
    <3>3. ask[c].op \in {"remind", "urgent"} => Cardinality(Forgotten(c)') <= faults'
      <4>1. /\ doc'[c] = doc[c] /\ before'[c] = before[c] /\ faults' \in Nat /\ faults <= faults'
        BY <1>a, <1>2, <2>6
      <4>2. \A x \in Members : IsIn(x, messaged[c]) \/ IsIn(x, targets[c]) =>
                               IsIn(x, messaged'[c]) \/ IsIn(x, targets'[c])
        BY <2>4, <3>1
      <4>3. QED
        BY <1>a, <2>3, <4>1, <4>2, ForgottenShrinks
    <3>4. Once(messaged'[c])
          /\ \A x \in Members :
             /\ IsIn(x, messaged'[c]) => WasEmpty(c, x)'
             /\ IsIn(x, delivered'[c]) => IsIn(x, messaged'[c])
             /\ IsIn(x, escalated'[c]) => IsIn(x, messaged'[c])
             /\ IsIn(x, targets'[c]) => WasEmpty(c, x)' /\ ~ IsIn(x, messaged'[c])
      BY <1>2, <2>3, <2>4, <2>5, <3>1, <3>2
    <3>5. QED
      BY <1>1, <1>2, <2>4, <2>5, <3>3, <3>4 DEF TellInv, Making, ByName
  <2>7. CASE faults' = faults + 1 /\ messaged' = messaged /\ delivered' = delivered
    <3>1. ask[c].op \in {"remind", "urgent"} => Cardinality(Forgotten(c)') <= faults'
      <4>1. SUFFICES ASSUME ask[c].op \in {"remind", "urgent"}
                     PROVE  Cardinality(Forgotten(c)') <= faults'
        OBVIOUS
      <4>2. IsFiniteSet(DOMAIN before[c]) /\ Distinct(before[c])
        BY <1>a, <1>2, <2>3, RowsStand
      <4>3. \A i \in DOMAIN before[c] : before[c][i].who \in Members
        <5>1. \A i \in DOMAIN before[c] : before[c][i] \in Row
          BY <1>a DEF TalkTypeOK
        <5>2. QED
          BY <5>1 DEF Row
      <4> DEFINE F == Forgotten(c)
                 G == Forgotten(c)'
                 X == {i \in DOMAIN before[c] : before[c][i].who = m}
      <4>4. G \in SUBSET (F \cup X)
        BY <1>2, <2>4, <2>7, <4>3 DEF Forgotten
      <4>5. F \in SUBSET DOMAIN before[c] /\ X \in SUBSET DOMAIN before[c]
        BY DEF Forgotten
      <4>6. X = {} \/ \E i \in DOMAIN before[c] : X = {i}
        BY <4>2 DEF Distinct
      <4>7. Cardinality(F) <= faults
        BY <2>3, <4>1
      <4> HIDE DEF F, G, X
      <4>8. IsFiniteSet(F) /\ Cardinality(F) \in Nat
        BY <4>2, <4>5, FS_Subset, FS_CardinalityType
      <4>9. /\ IsFiniteSet(F \cup X) /\ Cardinality(F \cup X) \in Nat
            /\ Cardinality(F \cup X) <= Cardinality(F) + 1
        <5>1. CASE X = {}
          <6>1. F \cup X = F
            BY <5>1
          <6>2. QED
            BY <4>8, <6>1
        <5>2. CASE \E i \in DOMAIN before[c] : X = {i}
          <6>1. PICK i \in DOMAIN before[c] : X = {i}
            BY <5>2
          <6>2. /\ IsFiniteSet(F \cup {i})
                /\ \/ Cardinality(F \cup {i}) = Cardinality(F)
                   \/ Cardinality(F \cup {i}) = Cardinality(F) + 1
            BY <4>8, FS_AddElement
          <6>3. QED
            BY <4>8, <6>1, <6>2
        <5>3. QED
          BY <4>6, <5>1, <5>2
      <4>10. Cardinality(G) <= Cardinality(F \cup X) /\ Cardinality(G) \in Nat
        BY <4>4, <4>9, FS_Subset, FS_CardinalityType
      <4>11. faults' = faults + 1
        BY <2>7
      <4>12. Cardinality(G) <= faults'
        BY <1>a, <4>7, <4>8, <4>9, <4>10, <4>11
      <4>13. QED
        BY <4>12 DEF G
    <3>2. Once(messaged'[c])
          /\ \A x \in Members :
             /\ IsIn(x, messaged'[c]) => WasEmpty(c, x)'
             /\ IsIn(x, delivered'[c]) => IsIn(x, messaged'[c])
             /\ IsIn(x, escalated'[c]) => IsIn(x, messaged'[c])
             /\ IsIn(x, targets'[c]) => WasEmpty(c, x)' /\ ~ IsIn(x, messaged'[c])
      BY <1>2, <2>3, <2>4, <2>5, <2>7
    <3>3. QED
      BY <1>1, <1>2, <2>4, <2>5, <3>1, <3>2 DEF TellInv, Making, ByName
  <2>8. QED
    BY <1>2, <2>6, <2>7
<1>5. QED
  BY <1>3, <1>4

(* The other steps of a call: it ends, goes on to escalate, or works for a *)
(* person by name.                                                         *)
LEMMA WorkTells ==
  ASSUME TalkInv, \A d \in DOMAIN folder : RowsGrow(d), NEW c \in Calls, Work(c)
  PROVE  OnlyMoves(c) /\ TellInv(c)'
<1> USE DEF work, history, Goto
<1>a. /\ DocsTypeOK /\ TalkTypeOK /\ RowsInv /\ TellInv(c) /\ CallInv(c)
  BY DEF TalkInv, CallsInv, TwinsInv
<1>1. CASE Announce(c) \/ Sent(c) \/ Escalated(c)
  <2>1. OnlyMoves(c)
    BY <1>1, <1>a, OnlyMovesIs DEF Announce, Sent, Escalated, DocsTypeOK
  <2>2. /\ UNCHANGED <<folder, ask, doc, before, targets, messaged, delivered, escalated, faults>>
        /\ \/ pc[c] = "work" /\ pc'[c] = "done" /\ ask[c].op \notin {"remind", "urgent"}
           \/ pc[c] = "send" /\ pc'[c] \in {"escalate", "done"} /\ targets[c] = <<>>
           \/ pc[c] = "escalate" /\ pc'[c] = "done"
    BY <1>1, <1>a DEF Announce, Sent, Escalated, DocsTypeOK
  <2>3. /\ RowsSince(c)' <=> RowsSince(c)
        /\ Forgotten(c)' = Forgotten(c)
        /\ \A m \in Members : WasEmpty(c, m)' <=> WasEmpty(c, m)
    BY <2>2 DEF RowsSince, Forgotten, WasEmpty
  <2>4. TellInv(c)'
    <3>1. CASE ByName(ask[c])
      BY <2>2, <3>1, TellByName
    <3>2. CASE ~ ByName(ask[c])
      <4>1. /\ doc[c] # 0 /\ RowsSince(c) /\ Once(messaged[c])
            /\ \A m \in Members :
                 /\ IsIn(m, messaged[c]) => WasEmpty(c, m)
                 /\ IsIn(m, delivered[c]) => IsIn(m, messaged[c])
                 /\ IsIn(m, escalated[c]) => IsIn(m, messaged[c])
            /\ pc[c] \in {"send", "escalate"} /\ ask[c].op \in {"remind", "urgent"} =>
                 /\ Cardinality(Forgotten(c)) <= faults
                 /\ pc[c] # "send" => targets[c] = <<>>
        BY <1>a, <2>2, <3>2 DEF TellInv
      <4>2. pc'[c] \in {"escalate", "done"}
        BY <2>2
      <4>3. ask[c].op \in {"remind", "urgent"} =>
              Cardinality(Forgotten(c)') <= faults' /\ targets'[c] = <<>>
        BY <2>2, <2>3, <4>1
      <4>4. QED
        BY <2>2, <2>3, <4>1, <4>2, <4>3 DEF TellInv, Making, ByName
    <3>3. QED
      BY <3>1, <3>2
  <2>5. QED
    BY <2>1, <2>4
<1>2. CASE Escalate(c)
  <2>1. OnlyMoves(c)
    BY <1>2, <1>a, OnlyMovesIs DEF Escalate, DocsTypeOK, TalkTypeOK
  <2>2. /\ UNCHANGED <<folder, pc, ask, doc, before, targets, messaged>>
        /\ pc[c] = "escalate" /\ delivered[c] # <<>> /\ delivered'[c] = Tail(delivered[c])
        /\ escalated'[c] = escalated[c] \/ escalated'[c] = Append(escalated[c], delivered[c][1])
    BY <1>2, <1>a DEF Escalate, TalkTypeOK
  <2>3. CASE ByName(ask[c])
    BY <2>1, <2>2, <2>3, TellByName
  <2>4. CASE ~ ByName(ask[c])
    <3>1. /\ doc[c] # 0 /\ RowsSince(c) /\ Once(messaged[c])
          /\ \A m \in Members :
               /\ IsIn(m, messaged[c]) => WasEmpty(c, m)
               /\ IsIn(m, delivered[c]) => IsIn(m, messaged[c])
               /\ IsIn(m, escalated[c]) => IsIn(m, messaged[c])
          /\ ask[c].op \in {"remind", "urgent"} =>
               Cardinality(Forgotten(c)) <= faults /\ targets[c] = <<>>
      BY <1>a, <2>2, <2>4 DEF TellInv
    <3>2. delivered[c] \in Seq(Members) /\ escalated[c] \in Seq(Members)
      BY <1>a DEF TalkTypeOK
    <3>3. /\ delivered[c][1] \in Members /\ IsIn(delivered[c][1], delivered[c])
          /\ \A m \in Members : IsIn(m, delivered'[c]) => IsIn(m, delivered[c])
      <4>1. Len(delivered[c]) >= 1 /\ Len(delivered[c]) \in Nat
        BY <2>2, <3>2, EmptySeq
      <4>2. 1 \in 1..Len(delivered[c])
        BY <4>1
      <4>3. delivered[c][1] \in Members
        BY <3>2, <4>2
      <4>4. QED
        BY <2>2, <3>2, <4>3, TailIs
    <3>4. \A m \in Members : IsIn(m, escalated'[c]) => IsIn(m, messaged[c])
      <4> DEFINE d == delivered[c][1]
      <4>1. d \in Members /\ IsIn(d, messaged[c])
        BY <3>1, <3>3
      <4>2. \A m \in Members : IsIn(m, Append(escalated[c], d)) <=> IsIn(m, escalated[c]) \/ m = d
        BY <3>2, <3>3, AppendIs
      <4>3. escalated'[c] = escalated[c] \/ escalated'[c] = Append(escalated[c], d)
        BY <2>2
      <4> HIDE DEF d
      <4>4. QED
        BY <3>1, <4>1, <4>2, <4>3
    <3>5. ask[c].op \in {"remind", "urgent"} => Cardinality(Forgotten(c)') <= faults'
      <4>1. doc[c] \in DOMAIN folder
        BY <1>a, <3>1 DEF DocsTypeOK
      <4>2. faults' \in Nat /\ faults <= faults'
        BY <2>1 DEF OnlyMoves
      <4>3. QED
        BY <1>a, <2>2, <3>1, <4>1, <4>2, ForgottenShrinks
    <3>6. /\ RowsSince(c)' /\ doc'[c] # 0
          /\ \A m \in Members : WasEmpty(c, m)' <=> WasEmpty(c, m)
      BY <2>2, <3>1 DEF RowsSince, WasEmpty
    <3>7. pc'[c] = "escalate"
      BY <2>2
    <3>8. QED
      BY <2>1, <2>2, <3>1, <3>3, <3>4, <3>5, <3>6, <3>7 DEF TellInv, Making, ByName
  <2>5. QED
    BY <2>3, <2>4
<1>3. CASE UrgentOne(c) \/ Ring(c)
  <2>1. OnlyMoves(c)
    BY <1>3, <1>a, OnlyMovesIs DEF UrgentOne, Ring, DocsTypeOK, TalkTypeOK
  <2>2. ByName(ask[c]) /\ ask' = ask /\ pc'[c] \in {"ring", "look", "done"}
    BY <1>3, <1>a DEF UrgentOne, Ring, CallInv, DocsTypeOK
  <2>3. QED
    BY <2>1, <2>2, TellByName
<1>4. CASE Read(c)
  BY <1>4, ReadTells
<1>5. CASE Send(c)
  BY <1>5, SendTells
<1>6. QED
  BY <1>1, <1>2, <1>3, <1>4, <1>5 DEF Work

LEMMA TalkNext == TalkInv /\ [Next]_vars => TalkInv'
<1> SUFFICES ASSUME TalkInv, [Next]_vars PROVE TalkInv'
  OBVIOUS
<1> USE DEF work, history, Goto
<1>a. DocsTypeOK /\ CallsInv /\ RowsInv /\ faults \in Nat
  BY DEF TalkInv, CallsInv, TwinsInv, TalkTypeOK
<1>1. CallsInv'
  BY <1>a, CallsNext
<1>2. RowsInv' /\ \A d \in DOMAIN folder : RowsGrow(d)
  BY <1>a, RowsNext
<1>3. TalkTypeOK' /\ NamedInv'
  BY TalkTypeNext
<1>4. \A b \in Calls : TellInv(b)'
  <2>1. ASSUME NEW c \in Calls,
               Load(c) \/ Make(c) \/ Work(c) \/ Fail(c) \/ \E a \in Menu : Begin(c, a)
        PROVE  \A b \in Calls : TellInv(b)'
    BY <1>2, <2>1, MakingTells, WorkTells, OthersTell
  <2>2. ASSUME faults' = faults, UNCHANGED <<pc, ask, work, history>>
        PROVE  \A b \in Calls : TellInv(b)'
    <3>1. faults' \in Nat /\ faults <= faults'
      BY <1>a, <2>2
    <3>2. QED
      BY <1>2, <2>2, <3>1, TellStands
  <2>3. CASE Edit \/ UNCHANGED vars
             \/ \E d \in DOMAIN folder : \E i \in DOMAIN folder[d].rows, col \in Columns :
                  Fill(d, i, col)
    BY <2>2, <2>3 DEF Edit, Fill, vars
  <2>4. CASE Stop
    <3>1. faults' \in Nat /\ faults <= faults'
      BY <1>a, <2>4 DEF Stop, Fault
    <3>2. /\ UNCHANGED <<ask, work, history>>
          /\ \A c \in Calls : pc'[c] = pc[c] \/ (pc'[c] = "lost" /\ pc[c] # "idle")
      BY <2>4 DEF Stop, Steps, Making
    <3>3. QED
      BY <1>2, <3>1, <3>2, TellStands
  <2>5. QED
    BY <2>1, <2>3, <2>4 DEF Next
<1>5. QED
  BY <1>1, <1>2, <1>3, <1>4 DEF TalkInv

LEMMA TalkInit == Init => TalkInv
<1> SUFFICES ASSUME Init PROVE TalkInv
  OBVIOUS
<1>1. DocsTypeOK
  BY TypeInit
<1>2. CallsInv
  <2>1. TwinsInv
    BY <1>1 DEF Init, TwinsInv, LookedFirst, TwinsExplained, Steps, Making
  <2>2. \A c \in Calls : CallInv(c)
    BY DEF Init, CallInv
  <2>3. QED
    BY <2>1, <2>2 DEF CallsInv
<1>3. TalkTypeOK
  BY DEF Init, TalkTypeOK
<1>4. RowsInv /\ NamedInv
  BY DEF Init, RowsInv, NamedInv, Making
<1>5. \A c \in Calls : TellInv(c)
  BY DEF Init, TellInv, Untold
<1>6. QED
  BY <1>2, <1>3, <1>4, <1>5 DEF TalkInv

LEMMA ListIs ==
  ASSUME NEW s \in Seq(Members)
  PROVE  DOMAIN s = 1..Len(s) /\ \A x \in Members : x \in ToSet(s) <=> IsIn(x, s)
BY DEF ToSet, IsIn

LEMMA TalkInvReminds == TalkInv => ReminderInv
<1> SUFFICES ASSUME TalkInv PROVE ReminderInv
  OBVIOUS
<1>a. DocsTypeOK /\ TalkTypeOK /\ \A c \in Calls : TellInv(c)
  BY DEF TalkInv, CallsInv, TwinsInv
<1>1. TypeOK
  BY <1>a DEF DocsTypeOK, TalkTypeOK, TypeOK
<1>b. ASSUME NEW c \in Calls
      PROVE  /\ messaged[c] \in Seq(Members) /\ escalated[c] \in Seq(Members)
             /\ before[c] \in Seq(Row)
             /\ ToSet(escalated[c]) \in SUBSET Members
  <2>1. /\ messaged[c] \in Seq(Members) /\ escalated[c] \in Seq(Members)
        /\ before[c] \in Seq(Row)
    BY <1>a DEF TalkTypeOK
  <2>2. ToSet(escalated[c]) \in SUBSET Members
    BY <2>1 DEF ToSet
  <2>3. QED
    BY <2>1, <2>2
<1>2. RemindsTheEmpty
  <2>1. ASSUME NEW c \in Calls, ask[c] # None, ~ ByName(ask[c])
        PROVE  /\ \A i, j \in DOMAIN messaged[c] : messaged[c][i] = messaged[c][j] => i = j
               /\ \A i \in DOMAIN messaged[c], k \in DOMAIN before[c] :
                    before[c][k].who = messaged[c][i] => before[c][k].filled = {}
               /\ ToSet(escalated[c]) \subseteq ToSet(messaged[c])
    <3>1. /\ Once(messaged[c])
          /\ \A m \in Members :
               /\ IsIn(m, messaged[c]) => WasEmpty(c, m)
               /\ IsIn(m, escalated[c]) => IsIn(m, messaged[c])
      <4>1. CASE pc[c] = "idle"
        <5>1. messaged[c] = <<>> /\ escalated[c] = <<>>
          BY <1>a, <4>1 DEF TellInv, Untold
        <5>2. QED
          BY <5>1, NoneIn
      <4>2. CASE pc[c] # "idle"
        BY <1>a, <2>1, <4>2 DEF TellInv
      <4>3. QED
        BY <4>1, <4>2
    <3>2. /\ DOMAIN messaged[c] = 1..Len(messaged[c])
          /\ \A x \in Members : x \in ToSet(messaged[c]) <=> IsIn(x, messaged[c])
          /\ \A x \in Members : x \in ToSet(escalated[c]) <=> IsIn(x, escalated[c])
      BY <1>b, ListIs
    <3>3. \A i \in DOMAIN messaged[c] :
            messaged[c][i] \in Members /\ IsIn(messaged[c][i], messaged[c])
      BY <1>b, <3>2 DEF IsIn
    <3>4. \A i, j \in DOMAIN messaged[c] : messaged[c][i] = messaged[c][j] => i = j
      BY <3>1, <3>2 DEF Once
    <3>5. \A i \in DOMAIN messaged[c] : WasEmpty(c, messaged[c][i])
      BY <3>1, <3>3
    <3>6. ToSet(escalated[c]) \subseteq ToSet(messaged[c])
      BY <1>b, <3>1, <3>2
    <3>7. QED
      BY <3>4, <3>5, <3>6 DEF WasEmpty
  <2>2. QED
    BY <2>1 DEF RemindsTheEmpty
<1>3. NobodyForgotten
  <2>1. ASSUME NEW c \in Calls, pc[c] = "done", ask[c].op \in {"remind", "urgent"},
               ~ ByName(ask[c])
        PROVE  Cardinality({i \in DOMAIN before[c] :
                              /\ folder[doc[c]].rows[i].filled = {}
                              /\ before[c][i].who \notin ToSet(messaged[c])}) <= faults
    <3>1. Cardinality(Forgotten(c)) <= faults /\ targets[c] = <<>>
      BY <1>a, <2>1 DEF TellInv
    <3>2. \A i \in DOMAIN before[c] : before[c][i].who \in Members
      <4>1. \A i \in DOMAIN before[c] : before[c][i] \in Row
        BY <1>b
      <4>2. QED
        BY <4>1 DEF Row
    <3>3. /\ \A x \in Members : x \in ToSet(messaged[c]) <=> IsIn(x, messaged[c])
          /\ \A x \in Members : ~ IsIn(x, targets[c])
      BY <1>b, <3>1, ListIs, NoneIn
    <3>4. Forgotten(c) = {i \in DOMAIN before[c] :
                            /\ folder[doc[c]].rows[i].filled = {}
                            /\ before[c][i].who \notin ToSet(messaged[c])}
      BY <3>2, <3>3 DEF Forgotten
    <3>5. QED
      BY <3>1, <3>4
  <2>2. QED
    BY <2>1 DEF NobodyForgotten
<1>4. QED
  BY <1>1, <1>2, <1>3 DEF ReminderInv

(* A reminder goes to those whose row was empty when the call came to its  *)
(* document, once each; an escalation follows a message that went out; and *)
(* one that ends well left out nobody whose row it came to and is still    *)
(* empty, but for messages that failed (flow.rs, remind, urgent_one;       *)
(* lark/doc.rs, find_missing_user_ids).                                    *)
THEOREM ReminderInvHolds == Spec => []ReminderInv
<1>1. Init => TalkInv
  BY TalkInit
<1>2. TalkInv /\ [Next]_vars => TalkInv'
  BY TalkNext
<1>3. QED
  BY <1>1, <1>2, TalkInvReminds, PTL DEF Spec

-----------------------------------------------------------------------------
(* The schedule of the same App.                                           *)

(* The slot is the time settings give the job.                             *)
Due(j, u) == u + settings.zone = StartOfDay(u, settings.zone) + settings.trigger[j].at
On(j) == settings.trigger[j].enabled

(* An edit since, or a failed read before, may have moved the time a job   *)
(* woke for.                                                               *)
Touched(j, u) == (saves > 0 /\ u <= edited + DayLength) \/ Missed(j, u)

(* The job has not missed the slot.                                        *)
Covered(j, u) == Calm(j, u) /\ On(j) /\ Due(j, u) => shots[<<j, u>>] > 0

Fired(j, u) == shots[<<j, u>>] > 0

(* A shot is for the job's time, or an edit or a failed read has moved it; *)
(* and the job was on, switched off since, or thought to be on.            *)
ShotInv(j) ==
  \A u \in Slots :
    /\ shots[<<j, u>>] <= 1
    /\ Fired(j, u) =>
         /\ u <= now
         /\ Due(j, u) \/ Touched(j, u)
         /\ (saves > 0 => u > edited) => On(j) \/ <<j, u>> \in misread
    /\ u < now => Covered(j, u)

(* Where a job stands, it has missed nothing up to the slot it will wake   *)
(* in, or may be busy until.                                               *)
TaskInv(j) ==
  /\ task[j] = "poll" /\ On(j) => saves > 0
  /\ task[j] \in {"load", "poll"} => \A u \in Slots : u = now => Covered(j, u)
  /\ task[j] = "wait" =>
       /\ now <= wake[j] /\ wake[j] <= now + DayLength
       /\ \A u \in Slots : (Fired(j, u) => u < wake[j])
                           /\ (now <= u /\ u < wake[j] => Covered(j, u))
  /\ task[j] = "reload" => wake[j] = now /\ \A u \in Slots : Fired(j, u) => u < now
  /\ task[j] \in {"wait", "reload"} => \A u \in Nat : u = wake[j] => Due(j, u) \/ Touched(j, u)
  /\ task[j] \in {"fire", "pause"} =>
       /\ wake[j] <= now /\ now <= wake[j] + MaxRun
       /\ \A u \in Slots : now <= u /\ u <= wake[j] + MaxRun => Covered(j, u)

RunInv(j) ==
  /\ run # "up" => task[j] = "off"
  /\ run = "up" /\ ~ cancelled => task[j] # "off"

ScheduleInv == ScheduleTypeOK /\ \A j \in Jobs : ShotInv(j) /\ TaskInv(j) /\ RunInv(j)

-----------------------------------------------------------------------------
LEMMA ConstantsAre ==
  /\ DayLength \in Nat /\ DayLength > 0 /\ LastSlot \in Nat
  /\ MaxRun \in Nat /\ MaxRun < DayLength
  /\ Schedules \subseteq Schedule /\ Defaults \in Schedule
BY SchedulesAssumption, TimesAssumption DEF SchedulesAssumption, TimesAssumption

(* A slot is in the day it is in, and days do not overlap.                 *)
LEMMA DayIs ==
  ASSUME NEW x \in Nat, NEW z \in Nat
  PROVE  /\ StartOfDay(x, z) \in Nat
         /\ StartOfDay(x, z) <= x + z /\ x + z < StartOfDay(x, z) + DayLength
<1>1. DayLength \in Nat /\ DayLength > 0 /\ x + z \in Nat
  BY ConstantsAre
<1> DEFINE q == (x + z) \div DayLength
<1>2. q \in Nat /\ q * DayLength <= x + z /\ x + z < q * DayLength + DayLength
  BY <1>1
<1>3. QED
  BY <1>1, <1>2 DEF StartOfDay

LEMMA DaysApart ==
  ASSUME NEW x \in Nat, NEW y \in Nat, NEW z \in Nat, x <= y
  PROVE  \/ StartOfDay(x, z) = StartOfDay(y, z)
         \/ StartOfDay(x, z) + DayLength <= StartOfDay(y, z)
<1>1. DayLength \in Nat /\ DayLength > 0 /\ x + z \in Nat /\ y + z \in Nat /\ x + z <= y + z
  BY ConstantsAre
<1> DEFINE p == (x + z) \div DayLength
           q == (y + z) \div DayLength
<1>2. /\ p \in Nat /\ p * DayLength <= x + z
      /\ q \in Nat /\ y + z < q * DayLength + DayLength
  BY <1>1
<1>3. StartOfDay(x, z) = p * DayLength /\ StartOfDay(y, z) = q * DayLength
  BY DEF StartOfDay
<1> HIDE DEF p, q
<1>4. p <= q
  <2>1. ASSUME q < p PROVE FALSE
    <3>1. q + 1 <= p /\ q + 1 \in Nat
      BY <1>2, <2>1
    <3>2. (q + 1) * DayLength <= p * DayLength
      BY <1>1, <1>2, <3>1
    <3>3. (q + 1) * DayLength = q * DayLength + DayLength
      BY <1>1, <1>2
    <3>4. q * DayLength \in Nat /\ p * DayLength \in Nat
      BY <1>1, <1>2
    <3>5. QED
      BY <1>1, <1>2, <3>2, <3>3, <3>4
  <2>2. QED
    BY <1>2, <2>1
<1>5. CASE p = q
  BY <1>3, <1>5
<1>6. CASE p + 1 <= q
  <2>1. (p + 1) * DayLength <= q * DayLength
    BY <1>1, <1>2, <1>6
  <2>2. (p + 1) * DayLength = p * DayLength + DayLength
    BY <1>1, <1>2
  <2>3. QED
    BY <1>3, <2>1, <2>2
<1>7. QED
  BY <1>2, <1>4, <1>5, <1>6

(* What the settings say of a job.                                         *)
LEMMA SettingsIs ==
  ASSUME settings \in Schedules, NEW j \in Jobs
  PROVE  /\ settings.zone \in Nat /\ settings.trigger[j].at \in Nat
         /\ settings.trigger[j].at < DayLength /\ DayLength \in Nat /\ DayLength > 0
         /\ On(j) \in BOOLEAN
<1>1. settings \in Schedule /\ DayLength \in Nat /\ DayLength > 0
  BY ConstantsAre
<1>2. settings.zone \in 0..DayLength - 1 /\ settings.trigger[j].at \in 0..DayLength - 1
      /\ settings.trigger[j].enabled \in BOOLEAN
  BY <1>1 DEF Schedule
<1>3. QED
  BY <1>1, <1>2 DEF On

(* A time comes once a day: two slots it comes in are a day apart.         *)
LEMMA DueApart ==
  ASSUME settings \in Schedules, NEW j \in Jobs, NEW u \in Nat, NEW v \in Nat,
         Due(j, u), Due(j, v), u < v
  PROVE  /\ u + DayLength <= v
         /\ StartOfDay(u, settings.zone) # StartOfDay(v, settings.zone)
<1> DEFINE z == settings.zone
           a == settings.trigger[j].at
<1>1. z \in Nat /\ a \in Nat /\ DayLength \in Nat
  BY SettingsIs
<1>2. /\ StartOfDay(u, z) \in Nat /\ StartOfDay(v, z) \in Nat
      /\ \/ StartOfDay(u, z) = StartOfDay(v, z)
         \/ StartOfDay(u, z) + DayLength <= StartOfDay(v, z)
  <2>1. u <= v
    OBVIOUS
  <2>2. StartOfDay(u, z) \in Nat /\ StartOfDay(v, z) \in Nat
    BY <1>1, DayIs
  <2>3. QED
    BY <1>1, <2>1, <2>2, DaysApart
<1>3. u + z = StartOfDay(u, z) + a /\ v + z = StartOfDay(v, z) + a
  BY DEF Due
<1> HIDE DEF z, a
<1>4. /\ u + DayLength <= v /\ StartOfDay(u, z) # StartOfDay(v, z)
  BY <1>1, <1>2, <1>3
<1>5. QED
  BY <1>4 DEF z

(* duration_until: the first slot from now on in which the time comes.     *)
LEMMA NextFireIs ==
  ASSUME NEW c \in Schedule, now \in Nat, NEW j \in Jobs
  PROVE  /\ NextFire(j, c) \in Nat /\ now < NextFire(j, c) /\ NextFire(j, c) <= now + DayLength
         /\ c = settings => Due(j, NextFire(j, c))
         /\ c = settings => \A u \in Nat : now < u /\ u < NextFire(j, c) => ~ Due(j, u)
<1> DEFINE z == c.zone
           a == c.trigger[j].at
           s == StartOfDay(now, z)
           n == NextFire(j, c)
<1>1. z \in Nat /\ a \in Nat /\ a < DayLength /\ DayLength \in Nat /\ DayLength > 0
  <2>1. DayLength \in Nat /\ DayLength > 0
    BY ConstantsAre
  <2>2. z \in 0..DayLength - 1 /\ a \in 0..DayLength - 1
    BY DEF Schedule
  <2>3. QED
    BY <2>1, <2>2
<1>2. s \in Nat /\ s <= now + z /\ now + z < s + DayLength
  BY <1>1, DayIs
<1>3. n = (IF s + a <= now + z THEN s + a + DayLength ELSE s + a) - z
  BY DEF NextFire
<1> HIDE DEF z, a, s, n
<1>4. n \in Nat /\ now < n /\ n <= now + DayLength
  BY <1>1, <1>2, <1>3
<1>5. ASSUME NEW u \in Nat, now <= u, u <= n
      PROVE  StartOfDay(u, z) = IF u + z < s + DayLength THEN s ELSE s + DayLength
  <2>1. /\ StartOfDay(u, z) \in Nat
        /\ StartOfDay(u, z) <= u + z /\ u + z < StartOfDay(u, z) + DayLength
    BY <1>1, DayIs
  <2>2. s = StartOfDay(u, z) \/ s + DayLength <= StartOfDay(u, z)
    BY <1>1, <1>5, DaysApart DEF s
  <2>3. CASE u + z < s + DayLength
    BY <1>1, <1>2, <2>1, <2>2, <2>3
  <2>4. CASE u + z >= s + DayLength
    <3>1. s + DayLength <= StartOfDay(u, z)
      BY <1>1, <1>2, <2>1, <2>2, <2>4
    <3>2. DEFINE w == (s + DayLength) - z
    <3>3. now < s + DayLength - z /\ w \in Nat /\ w <= u /\ w + z = s + DayLength
      BY <1>1, <1>2, <2>4
    <3> HIDE DEF w
    <3>4. /\ StartOfDay(w, z) \in Nat
          /\ StartOfDay(w, z) <= w + z /\ w + z < StartOfDay(w, z) + DayLength
          /\ s = StartOfDay(w, z) \/ s + DayLength <= StartOfDay(w, z)
      <4>1. now <= w
        BY <1>1, <1>2, <3>3 DEF w
      <4>2. QED
        BY <1>1, <3>3, <4>1, DayIs, DaysApart DEF s
    <3>5. StartOfDay(w, z) = s + DayLength
      BY <1>1, <1>2, <3>3, <3>4
    <3>6. StartOfDay(w, z) = StartOfDay(u, z) \/ StartOfDay(w, z) + DayLength <= StartOfDay(u, z)
      BY <1>1, <3>3, DaysApart
    <3>7. u + z < s + DayLength + DayLength
      BY <1>1, <1>2, <1>3, <1>5
    <3>8. QED
      BY <1>1, <1>2, <2>1, <2>4, <3>5, <3>6, <3>7
  <2>5. QED
    BY <1>1, <1>2, <2>3, <2>4
<1>6. n + z = StartOfDay(n, z) + a
  <2>1. StartOfDay(n, z) = IF n + z < s + DayLength THEN s ELSE s + DayLength
    BY <1>4, <1>5
  <2>2. QED
    BY <1>1, <1>2, <1>3, <1>4, <2>1
<1>7. ASSUME NEW u \in Nat, now < u, u < n PROVE u + z # StartOfDay(u, z) + a
  <2>1. StartOfDay(u, z) = IF u + z < s + DayLength THEN s ELSE s + DayLength
    BY <1>4, <1>5, <1>7
  <2>2. QED
    BY <1>1, <1>2, <1>3, <1>4, <1>7, <2>1
<1>8. ASSUME c = settings
      PROVE  Due(j, n) /\ \A u \in Nat : now < u /\ u < n => ~ Due(j, u)
  BY <1>6, <1>7, <1>8 DEF z, a, Due
<1>9. QED
  BY <1>4, <1>8 DEF n


-----------------------------------------------------------------------------
LEMMA ScheduleTypeNext ==
  ASSUME ScheduleTypeOK, [ScheduleNext]_scheduleVars
  PROVE  ScheduleTypeOK'
<1> now \in Slots /\ now \in Nat /\ calm \in Nat /\ LastSlot \in Nat
  BY ConstantsAre DEF ScheduleTypeOK, Slots
<1>0. ASSUME NEW slot \in Nat, Disturb(slot) PROVE calm' \in Nat
  BY <1>0 DEF Disturb, Max2
<1>1. CASE UNCHANGED scheduleVars
  BY <1>1 DEF ScheduleTypeOK, scheduleVars, genVars, jobVars, marks, Slots
<1>2. CASE Start \/ LookUpBot \/ ReturnAtOnce \/ Reconfigure \/ BotStops
  <2>1. CASE Start
    BY <2>1 DEF ScheduleTypeOK, Start, jobVars, marks, Slots
  <2>2. CASE LookUpBot
    BY <2>2 DEF ScheduleTypeOK, LookUpBot, jobVars, marks, Slots
  <2>3. CASE ReturnAtOnce
    <3>1. leaked' \in Nat /\ restarts' \in Nat
      BY <2>3 DEF ScheduleTypeOK, ReturnAtOnce
    <3>2. QED
      BY <2>3, <3>1 DEF ScheduleTypeOK, ReturnAtOnce, jobVars, marks, Slots
  <2>4. CASE Reconfigure
    BY <2>4 DEF ScheduleTypeOK, Reconfigure, jobVars, marks, Slots
  <2>5. CASE BotStops
    BY <2>5 DEF ScheduleTypeOK, BotStops, jobVars, marks, Slots
  <2>6. QED
    BY <1>2, <2>1, <2>2, <2>3, <2>4, <2>5
<1>3. CASE SpawnJobs \/ Retire
  <2>1. calm' \in Nat
    BY <1>0, <1>3 DEF SpawnJobs, Retire
  <2>2. QED
    BY <1>3, <2>1 DEF ScheduleTypeOK, SpawnJobs, Retire, jobVars, marks, Slots
<1>4. CASE PutSettings
  BY <1>4 DEF ScheduleTypeOK, PutSettings, genVars, jobVars, marks, Slots
<1>5. CASE Tick
  <2>1. calm' \in Nat
    BY <1>0, <1>5 DEF Tick
  <2>2. now' \in 0..LastSlot
    BY <1>5 DEF Tick, Slots
  <2>3. QED
    BY <1>5, <2>1, <2>2 DEF ScheduleTypeOK, Tick, genVars, jobVars, marks, Slots
<1>6. ASSUME NEW j \in Jobs, Job(j) PROVE ScheduleTypeOK'
  <2>1. CASE Fire(j)
    <3>1. shots' \in [Jobs \X Slots -> Nat] /\ misread' \subseteq Jobs \X Slots
      BY <2>1 DEF ScheduleTypeOK, Fire, ReadFails
    <3>2. QED
      BY <2>1, <3>1 DEF ScheduleTypeOK, Fire, Move, StayWith, genVars, Slots
  <2>2. CASE LoadEnabled(j)
    <3>1. NextFire(j, settings) \in Nat
      BY ConstantsAre, NextFireIs DEF ScheduleTypeOK
    <3>2. QED
      BY <2>2, <3>1 DEF ScheduleTypeOK, LoadEnabled, Move, StayWith, genVars, marks, Slots
  <2>3. CASE LoadDefaults(j)
    <3>1. NextFire(j, Defaults) \in Nat /\ misread' \subseteq Jobs \X Slots
      BY <2>3, ConstantsAre, NextFireIs DEF ScheduleTypeOK, LoadDefaults, ReadFails
    <3>2. QED
      BY <2>3, <3>1 DEF ScheduleTypeOK, LoadDefaults, StayWith, genVars, Slots
  <2>4. CASE ~ Fire(j) /\ ~ LoadEnabled(j) /\ ~ LoadDefaults(j)
    BY <1>6, <2>4 DEF ScheduleTypeOK, Job, LoadDisabled, Poll, Wake, SwitchedOff, Finish, Again,
      Leave, Move, StayWith, genVars, marks, Slots
  <2>5. QED
    BY <2>1, <2>2, <2>3, <2>4
<1>7. QED
  BY <1>1, <1>2, <1>3, <1>4, <1>5, <1>6 DEF ScheduleNext, Generation

(* What of the invariant a step keeps when it leaves the settings alone.   *)
LEMMA AsSaved ==
  ASSUME ScheduleTypeOK, ScheduleTypeOK',
         UNCHANGED <<settings, edited, saves>>, calm <= calm', misread \subseteq misread',
         NEW j \in Jobs
  PROVE  /\ On(j)' = On(j)
         /\ \A u \in Nat : /\ Due(j, u)' = Due(j, u)
                           /\ Touched(j, u) => Touched(j, u)'
                           /\ Calm(j, u)' => Calm(j, u)
<1>1. On(j)' = On(j)
  BY DEF On
<1>2. ASSUME NEW u \in Nat PROVE Due(j, u)' = Due(j, u)
  BY DEF Due, StartOfDay
<1>3. ASSUME NEW u \in Nat, Touched(j, u) PROVE Touched(j, u)'
  <2>1. Missed(j, u) => Missed(j, u)'
    BY DEF Missed
  <2>2. QED
    BY <1>3, <2>1 DEF Touched
<1>4. ASSUME NEW u \in Nat, Calm(j, u)' PROVE Calm(j, u)
  <2>1. calm \in Nat /\ calm' \in Nat
    BY DEF ScheduleTypeOK
  <2>2. u >= calm
    BY <1>4, <2>1 DEF Calm
  <2>3. \A m \in Slots : <<j, m>> \in misread => u > m + DayLength + MaxRun
    BY <1>4 DEF Calm
  <2>4. QED
    BY <1>4, <2>2, <2>3 DEF Calm
<1>5. QED
  BY <1>1, <1>2, <1>3, <1>4

LEMMA ShotsStand ==
  ASSUME ScheduleTypeOK, ScheduleTypeOK',
         UNCHANGED <<now, settings, edited, saves>>, calm <= calm', misread \subseteq misread',
         NEW j \in Jobs,
         \A u \in Slots : shots'[<<j, u>>] = shots[<<j, u>>]
  PROVE  /\ \A u \in Slots : (Covered(j, u) => Covered(j, u)') /\ Fired(j, u)' = Fired(j, u)
         /\ ShotInv(j) => ShotInv(j)'
<1>1. /\ On(j)' = On(j)
      /\ \A u \in Nat : Due(j, u)' = Due(j, u) /\ (Touched(j, u) => Touched(j, u)') /\ (Calm(j, u)' => Calm(j, u))
  BY AsSaved
<1>2. \A u \in Slots : u \in Nat
  BY ConstantsAre DEF Slots
<1>3. \A u \in Slots : Fired(j, u)' = Fired(j, u)
  BY DEF Fired
<1>4. \A u \in Slots : Covered(j, u) => Covered(j, u)'
  BY <1>1, <1>2 DEF Covered
<1>5. ShotInv(j) => ShotInv(j)'
  BY <1>1, <1>2, <1>3, <1>4 DEF ShotInv, Slots
<1>6. QED
  BY <1>3, <1>4, <1>5

LEMMA TaskStands ==
  ASSUME ScheduleTypeOK, ScheduleTypeOK',
         UNCHANGED <<now, settings, edited, saves>>, calm <= calm', misread \subseteq misread',
         NEW j \in Jobs,
         \A u \in Slots : shots'[<<j, u>>] = shots[<<j, u>>],
         task'[j] = task[j], wake'[j] = wake[j], TaskInv(j)
  PROVE  TaskInv(j)'
<1>1. /\ On(j)' = On(j)
      /\ \A u \in Nat : Due(j, u)' = Due(j, u) /\ (Touched(j, u) => Touched(j, u)')
  BY AsSaved
<1>2. \A u \in Slots : (Covered(j, u) => Covered(j, u)') /\ Fired(j, u)' = Fired(j, u)
  BY ShotsStand
<1>3. QED
  BY <1>1, <1>2 DEF TaskInv, Slots


LEMMA GenerationRuns ==
  ASSUME ScheduleInv, ScheduleTypeOK',
         Start \/ LookUpBot \/ SpawnJobs \/ ReturnAtOnce \/ Reconfigure \/ BotStops \/ Retire
  PROVE  ScheduleInv'
<1>1. UNCHANGED <<now, settings, wake, shots, misread, edited, saves>>
  BY DEF Start, LookUpBot, SpawnJobs, ReturnAtOnce, Reconfigure, BotStops, Retire, jobVars, marks
<1>2. /\ calm \in Nat /\ now \in Nat
      /\ calm' = calm \/ Disturb(now + 1)
  BY ConstantsAre DEF ScheduleInv, ScheduleTypeOK, Slots, Start, LookUpBot, SpawnJobs, ReturnAtOnce, Reconfigure, BotStops, Retire
<1>3. calm <= calm'
  BY <1>2 DEF Disturb, Max2
<1>4. task' = task \/ SpawnJobs
  BY DEF Start, LookUpBot, ReturnAtOnce, Reconfigure, BotStops, Retire, jobVars, marks
<1>5. ASSUME NEW j \in Jobs PROVE ShotInv(j)'
  BY <1>1, <1>3, ShotsStand DEF ScheduleInv
<1>6. ASSUME NEW j \in Jobs PROVE TaskInv(j)'
  <2>1. CASE task' = task
    BY <1>1, <1>3, <2>1, TaskStands DEF ScheduleInv
  <2>2. CASE SpawnJobs
    <3>1. task'[j] = "load"
      BY <2>2 DEF SpawnJobs
    <3>2. calm' \in Nat /\ now + 1 <= calm'
      BY <1>2, <2>2 DEF SpawnJobs, Disturb, Max2
    <3>3. \A u \in Slots : u = now => ~ Calm(j, u)'
      BY <1>2, <3>2 DEF Calm
    <3>4. \A u \in Slots : u = now' => Covered(j, u)'
      BY <1>1, <3>3 DEF Covered
    <3>5. QED
      BY <3>1, <3>4 DEF TaskInv, Slots
  <2>3. QED
    BY <1>4, <2>1, <2>2
<1>7. ASSUME NEW j \in Jobs PROVE RunInv(j)'
  <2>1. RunInv(j)
    BY DEF ScheduleInv
  <2>2. CASE Start \/ LookUpBot \/ ReturnAtOnce
    BY <2>1, <2>2 DEF RunInv, Start, LookUpBot, ReturnAtOnce, jobVars, marks
  <2>3. CASE SpawnJobs
    BY <2>3 DEF RunInv, SpawnJobs
  <2>4. CASE Reconfigure
    BY <2>1, <2>4 DEF RunInv, Reconfigure, jobVars, marks
  <2>5. CASE BotStops
    BY <2>1, <2>5 DEF RunInv, BotStops, jobVars, marks
  <2>6. CASE Retire
    BY <2>6 DEF RunInv, Retire, jobVars, marks
  <2>7. QED
    BY <2>2, <2>3, <2>4, <2>5, <2>6
<1>8. QED
  BY <1>5, <1>6, <1>7 DEF ScheduleInv

(* An edit reopens everything up to a day, and a flow, from now.           *)
LEMMA SettingsPut ==
  ASSUME ScheduleInv, ScheduleTypeOK', PutSettings
  PROVE  ScheduleInv'
<1>1. /\ UNCHANGED <<now, run, cancelled, task, wake, shots, misread, calm>>
      /\ edited' = now /\ saves' > 0
  BY DEF PutSettings, jobVars, marks, genVars, ScheduleInv, ScheduleTypeOK
<1>2. /\ now \in Nat /\ DayLength \in Nat /\ MaxRun \in Nat
      /\ \A u \in Slots : u \in Nat
  BY ConstantsAre DEF ScheduleInv, ScheduleTypeOK, Slots
<1>3. \A j \in Jobs, u \in Nat : u <= now + DayLength => Touched(j, u)'
  BY <1>1 DEF Touched
<1>4. \A j \in Jobs, u \in Nat : u <= now + DayLength + MaxRun => ~ Calm(j, u)'
  BY <1>1, <1>2 DEF Calm
<1>5. ASSUME NEW j \in Jobs, NEW u \in Nat, u <= now + DayLength \/ u <= now + MaxRun
      PROVE  Covered(j, u)'
  <2>1. u <= now + DayLength + MaxRun
    BY <1>2, <1>5
  <2>2. QED
    BY <1>4, <2>1 DEF Covered
<1>6. ASSUME NEW j \in Jobs PROVE ShotInv(j)'
  <2>1. ASSUME NEW u \in Slots
        PROVE  /\ (shots[<<j, u>>] <= 1)'
               /\ Fired(j, u)' => u <= now' /\ Touched(j, u)' /\ ~ (saves' > 0 => u > edited')
               /\ u < now' => Covered(j, u)'
    <3>1. shots[<<j, u>>] <= 1 /\ (Fired(j, u) => u <= now)
      BY DEF ScheduleInv, ShotInv
    <3>2. Fired(j, u)' = Fired(j, u) /\ (shots[<<j, u>>] <= 1)'
      BY <1>1, <3>1 DEF Fired
    <3>3. u <= now => u <= now + DayLength
      BY <1>2
    <3>4. u <= now => Touched(j, u)' /\ ~ (u > now)
      BY <1>2, <1>3, <3>3
    <3>5. u < now => Covered(j, u)'
      BY <1>2, <1>5, <3>3
    <3>6. QED
      BY <1>1, <3>1, <3>2, <3>4, <3>5
  <2>2. QED
    BY <2>1 DEF ShotInv, Slots
<1>7. ASSUME NEW j \in Jobs PROVE TaskInv(j)'
  <2>1. TaskInv(j) /\ wake[j] \in Nat
    BY DEF ScheduleInv, ScheduleTypeOK
  <2>2. \A u \in Slots : Fired(j, u)' = Fired(j, u)
    BY <1>1 DEF Fired
  <2>3. ASSUME task[j] = "wait"
        PROVE  \A u \in Slots : now <= u /\ u < wake[j] => Covered(j, u)'
    <3>1. wake[j] <= now + DayLength
      BY <2>1, <2>3 DEF TaskInv
    <3>2. QED
      BY <1>2, <1>5, <2>1, <3>1
  <2>4. ASSUME task[j] \in {"fire", "pause"}
        PROVE  \A u \in Slots : now <= u /\ u <= wake[j] + MaxRun => Covered(j, u)'
    <3>1. wake[j] <= now
      BY <2>1, <2>4 DEF TaskInv
    <3>2. QED
      BY <1>2, <1>5, <2>1, <3>1
  <2>5. ASSUME task[j] \in {"wait", "reload"}
        PROVE  \A u \in Nat : u = wake[j] => Touched(j, u)'
    <3>1. wake[j] <= now + DayLength
      BY <1>2, <2>1, <2>5 DEF TaskInv
    <3>2. QED
      BY <1>3, <2>1, <3>1
  <2>6. \A u \in Slots : u = now => Covered(j, u)'
    BY <1>2, <1>5
  <2>7. QED
    BY <1>1, <2>1, <2>2, <2>3, <2>4, <2>5, <2>6 DEF TaskInv, Slots
<1>8. ASSUME NEW j \in Jobs PROVE RunInv(j)'
  BY <1>1 DEF ScheduleInv, RunInv
<1>9. QED
  BY <1>6, <1>7, <1>8 DEF ScheduleInv


(* Time passes only where a job has not missed the slot that ends.         *)
LEMMA TimePasses ==
  ASSUME ScheduleInv, ScheduleTypeOK', Tick
  PROVE  ScheduleInv'
<1>1. /\ UNCHANGED <<settings, run, cancelled, task, wake, shots, misread, edited, saves>>
      /\ now' = now + 1 /\ \A j \in Jobs : Prompt(j)
      /\ (run = "up" /\ ~ cancelled /\ calm' = calm) \/ Disturb(now + 2)
  BY DEF Tick, jobVars, marks, genVars
<1>2. /\ now \in Nat /\ calm \in Nat /\ calm' \in Nat /\ edited \in Nat
      /\ DayLength \in Nat /\ DayLength > 0 /\ MaxRun \in Nat
      /\ \A u \in Slots : u \in Nat
  BY ConstantsAre DEF ScheduleInv, ScheduleTypeOK, Slots
<1>3. calm <= calm' /\ ((run = "up" /\ ~ cancelled) \/ now + 2 <= calm')
  BY <1>1, <1>2 DEF Disturb, Max2
<1>4. ASSUME NEW j \in Jobs
      PROVE  /\ On(j)' = On(j)
             /\ \A u \in Nat : Due(j, u)' = Due(j, u) /\ (Touched(j, u) => Touched(j, u)') /\ (Calm(j, u)' => Calm(j, u))
  BY <1>1, <1>3, AsSaved DEF ScheduleInv
<1>5. ASSUME NEW j \in Jobs, NEW u \in Slots PROVE Fired(j, u)' = Fired(j, u)
  BY <1>1 DEF Fired
<1>6. ASSUME NEW j \in Jobs, NEW u \in Slots, Covered(j, u) PROVE Covered(j, u)'
  BY <1>1, <1>2, <1>4, <1>6 DEF Covered
<1>7. ASSUME NEW j \in Jobs, NEW u \in Slots, u = now PROVE Covered(j, u)'
  <2>1. TaskInv(j) /\ RunInv(j) /\ Prompt(j) /\ wake[j] \in Nat
    BY <1>1 DEF ScheduleInv, ScheduleTypeOK
  <2>2. CASE task[j] = "off"
    <3>1. now + 2 <= calm'
      BY <1>3, <2>1, <2>2 DEF RunInv
    <3>2. ~ Calm(j, u)'
      BY <1>2, <1>7, <3>1 DEF Calm
    <3>3. QED
      BY <3>2 DEF Covered
  <2>3. CASE task[j] = "poll"
    BY <1>6, <1>7, <2>1, <2>3 DEF TaskInv
  <2>4. CASE task[j] = "wait" /\ wake[j] > now
    <3>1. Covered(j, u)
      BY <1>2, <1>7, <2>1, <2>4 DEF TaskInv
    <3>2. QED
      BY <1>6, <3>1
  <2>5. CASE task[j] = "fire" /\ now < wake[j] + MaxRun
    <3>1. Covered(j, u)
      BY <1>2, <1>7, <2>1, <2>5 DEF TaskInv
    <3>2. QED
      BY <1>6, <3>1
  <2>6. QED
    BY <2>1, <2>2, <2>3, <2>4, <2>5 DEF Prompt
<1>8. ASSUME NEW j \in Jobs PROVE ShotInv(j)'
  <2>1. ASSUME NEW u \in Slots
        PROVE  /\ (shots[<<j, u>>] <= 1)'
               /\ Fired(j, u)' =>
                    /\ u <= now' /\ (Due(j, u) \/ Touched(j, u))'
                    /\ ((saves > 0 => u > edited) => On(j) \/ <<j, u>> \in misread)'
               /\ u < now' => Covered(j, u)'
    <3>1. /\ shots[<<j, u>>] <= 1
          /\ Fired(j, u) => u <= now /\ (Due(j, u) \/ Touched(j, u))
               /\ ((saves > 0 => u > edited) => On(j) \/ <<j, u>> \in misread)
          /\ u < now => Covered(j, u)
      BY DEF ScheduleInv, ShotInv
    <3>2. (shots[<<j, u>>] <= 1)'
      BY <1>1, <3>1
    <3>3. u <= now => u <= now'
      BY <1>1, <1>2
    <3>4. u < now' => u < now \/ u = now
      BY <1>1, <1>2
    <3>5. u < now' => Covered(j, u)'
      BY <1>6, <1>7, <3>1, <3>4
    <3>6. Fired(j, u)' = Fired(j, u) /\ u \in Nat
      BY <1>2, <1>5
    <3>7. Due(j, u) \/ Touched(j, u) => (Due(j, u) \/ Touched(j, u))'
      BY <1>4, <3>6
    <3>8. ((saves > 0 => u > edited) => On(j) \/ <<j, u>> \in misread)'
            <=> ((saves > 0 => u > edited) => On(j) \/ <<j, u>> \in misread)
      BY <1>1, <1>4
    <3>9. QED
      BY <3>1, <3>2, <3>3, <3>5, <3>6, <3>7, <3>8
  <2>2. QED
    BY <2>1 DEF ShotInv, Slots
<1>9. ASSUME NEW j \in Jobs PROVE TaskInv(j)'
  <2>1. TaskInv(j) /\ Prompt(j) /\ wake[j] \in Nat /\ task'[j] = task[j] /\ wake'[j] = wake[j]
    BY <1>1 DEF ScheduleInv, ScheduleTypeOK
  <2>2. CASE task[j] = "off"
    BY <2>1, <2>2 DEF TaskInv
  <2>3. CASE task[j] = "poll" /\ (~ On(j) \/ edited = now)
    <3>1. On(j) => saves > 0
      BY <2>1, <2>3 DEF TaskInv
    <3>2. ASSUME edited = now, On(j), NEW u \in Slots, u = now' PROVE ~ Calm(j, u)'
      <4>1. u <= edited + DayLength + MaxRun
        BY <1>1, <1>2, <3>2
      <4>2. QED
        BY <1>1, <1>2, <3>1, <3>2, <4>1 DEF Calm
    <3>3. ASSUME NEW u \in Slots, u = now' PROVE Covered(j, u)'
      BY <1>4, <2>3, <3>2, <3>3 DEF Covered
    <3>4. (On(j) => saves > 0)'
      BY <1>1, <1>4, <3>1
    <3>5. QED
      BY <2>1, <2>3, <3>3, <3>4 DEF TaskInv, Slots
  <2>4. CASE task[j] = "wait" /\ wake[j] > now
    <3>1. /\ now' <= wake[j] /\ wake[j] <= now' + DayLength
          /\ \A u \in Slots : now' <= u => now <= u
      BY <1>1, <1>2, <2>1, <2>4 DEF TaskInv
    <3>2. \A u \in Slots : Fired(j, u)' => u < wake[j]
      BY <1>5, <2>1, <2>4 DEF TaskInv
    <3>3. \A u \in Slots : now' <= u /\ u < wake[j] => Covered(j, u)'
      BY <1>6, <2>1, <2>4, <3>1 DEF TaskInv
    <3>4. \A u \in Nat : u = wake[j] => Due(j, u)' \/ Touched(j, u)'
      BY <1>4, <2>1, <2>4 DEF TaskInv
    <3>5. QED
      BY <2>1, <2>4, <3>1, <3>2, <3>3, <3>4 DEF TaskInv, Slots
  <2>5. CASE task[j] = "fire" /\ now < wake[j] + MaxRun
    <3>1. /\ wake[j] <= now' /\ now' <= wake[j] + MaxRun
          /\ \A u \in Slots : now' <= u => now <= u
      BY <1>1, <1>2, <2>1, <2>5 DEF TaskInv
    <3>2. \A u \in Slots : now' <= u /\ u <= wake[j] + MaxRun => Covered(j, u)'
      BY <1>6, <2>1, <2>5, <3>1 DEF TaskInv
    <3>3. QED
      BY <2>1, <2>5, <3>1, <3>2 DEF TaskInv, Slots
  <2>6. QED
    BY <2>1, <2>2, <2>3, <2>4, <2>5 DEF Prompt, On
<1>10. ASSUME NEW j \in Jobs PROVE RunInv(j)'
  BY <1>1 DEF ScheduleInv, RunInv
<1>11. QED
  BY <1>8, <1>9, <1>10 DEF ScheduleInv


(* What a step of one task leaves alone, which is all of the other task.  *)
LEMMA OneTask ==
  ASSUME ScheduleInv, ScheduleTypeOK', NEW j \in Jobs, Job(j)
  PROVE  /\ UNCHANGED <<now, settings, run, cancelled, calm, edited, saves>>
         /\ \A i \in Jobs \ {j} : ShotInv(i)' /\ TaskInv(i)' /\ RunInv(i)'
         /\ misread \subseteq misread' /\ misread' \subseteq misread \cup {<<j, now>>}
         /\ ~ Fire(j) => shots' = shots
<1>1. UNCHANGED <<now, settings, run, cancelled, calm, edited, saves>>
  BY DEF Job, LoadEnabled, LoadDisabled, LoadDefaults, Poll, Wake, Fire, SwitchedOff, Finish, Again, Leave,
    StayWith, genVars
<1>0. misread \subseteq misread' /\ misread' \subseteq misread \cup {<<j, now>>}
  BY DEF Job, LoadEnabled, LoadDisabled, LoadDefaults, Poll, Wake, Fire, SwitchedOff, Finish, Again,
    Leave, ReadFails, marks
<1>2. ~ Fire(j) => shots' = shots
  BY DEF Job, LoadEnabled, LoadDisabled, LoadDefaults, Poll, Wake, SwitchedOff, Finish, Again, Leave, marks
<1>3. ASSUME NEW i \in Jobs \ {j}
      PROVE  task'[i] = task[i] /\ wake'[i] = wake[i] /\ \A u \in Slots : shots'[<<i, u>>] = shots[<<i, u>>]
  <2>1. task'[i] = task[i]
    BY DEF ScheduleInv, ScheduleTypeOK, Job, LoadEnabled, LoadDisabled, LoadDefaults, Poll, Wake, Fire, SwitchedOff,
      Finish, Again, Leave, Move
  <2>2. wake'[i] = wake[i]
    BY DEF ScheduleInv, ScheduleTypeOK, Job, LoadEnabled, LoadDisabled, LoadDefaults, Poll, Wake, Fire, SwitchedOff,
      Finish, Again, Leave
  <2>3. ASSUME Fire(j), NEW u \in Slots PROVE shots'[<<i, u>>] = shots[<<i, u>>]
    <3>1. shots \in [Jobs \X Slots -> Nat] /\ shots' = [shots EXCEPT ![<<j, now>>] = @ + 1]
      BY <2>3 DEF ScheduleInv, ScheduleTypeOK, Fire
    <3>2. <<i, u>> \in Jobs \X Slots /\ <<i, u>> # <<j, now>>
      OBVIOUS
    <3>3. QED
      BY <3>1, <3>2
  <2>4. QED
    BY <1>2, <2>1, <2>2, <2>3
<1>4. calm <= calm'
  BY <1>1 DEF ScheduleInv, ScheduleTypeOK
<1>5. ASSUME NEW i \in Jobs \ {j} PROVE ShotInv(i)' /\ TaskInv(i)' /\ RunInv(i)'
  <2>1. ShotInv(i)'
    BY <1>0, <1>1, <1>3, <1>4, ShotsStand DEF ScheduleInv
  <2>2. TaskInv(i)'
    BY <1>0, <1>1, <1>3, <1>4, TaskStands DEF ScheduleInv
  <2>3. RunInv(i)'
    BY <1>1, <1>3 DEF ScheduleInv, RunInv
  <2>4. QED
    BY <2>1, <2>2, <2>3
<1>6. QED
  BY <1>0, <1>1, <1>2, <1>5

(* A task that shoots nothing: what it knew of the past it still knows.    *)
LEMMA Quiet ==
  ASSUME ScheduleInv, ScheduleTypeOK',
         NEW j \in Jobs, Job(j), ~ Fire(j)
  PROVE  /\ ShotInv(j)' /\ RunInv(j)' /\ On(j)' = On(j)
         /\ \A u \in Slots : (Covered(j, u) => Covered(j, u)') /\ Fired(j, u)' = Fired(j, u)
         /\ \A u \in Nat : Due(j, u)' = Due(j, u) /\ (Touched(j, u) => Touched(j, u)')
<1>1. /\ UNCHANGED <<now, settings, run, cancelled, calm, edited, saves>>
      /\ shots' = shots /\ misread \subseteq misread'
  BY OneTask
<1>2. calm <= calm'
  BY <1>1 DEF ScheduleInv, ScheduleTypeOK
<1>3. ShotInv(j)' /\ \A u \in Slots : (Covered(j, u) => Covered(j, u)') /\ Fired(j, u)' = Fired(j, u)
  BY <1>1, <1>2, ShotsStand DEF ScheduleInv
<1>4. RunInv(j)'
  <2>1. RunInv(j) /\ task[j] # "off"
    BY DEF ScheduleInv, Job, LoadEnabled, LoadDisabled, LoadDefaults, Poll, Wake, Fire, SwitchedOff, Finish,
      Again, Leave, Move
  <2>2. task'[j] # "off" \/ cancelled
    BY DEF ScheduleInv, ScheduleTypeOK, Job, LoadEnabled, LoadDisabled, LoadDefaults, Poll, Wake, Fire, SwitchedOff,
      Finish, Again, Leave, Move
  <2>3. QED
    BY <1>1, <2>1, <2>2 DEF RunInv
<1>5. On(j)' = On(j) /\ \A u \in Nat : Due(j, u)' = Due(j, u) /\ (Touched(j, u) => Touched(j, u)')
  BY <1>1, <1>2, AsSaved DEF ScheduleInv
<1>6. QED
  BY <1>3, <1>4, <1>5

LEMMA QuietTask ==
  ASSUME ScheduleInv, ScheduleTypeOK',
         NEW j \in Jobs, Job(j), ~ Fire(j)
  PROVE  TaskInv(j)'
<1>1. /\ TaskInv(j) /\ ShotInv(j) /\ wake[j] \in Nat
      /\ task \in [Jobs -> {"off", "load", "poll", "wait", "reload", "fire", "pause"}]
      /\ wake \in [Jobs -> Nat]
  BY DEF ScheduleInv, ScheduleTypeOK
<1>2. UNCHANGED <<now, settings, run, cancelled, calm, edited, saves>>
  BY OneTask
<1>3. /\ On(j)' = On(j)
      /\ \A u \in Slots : (Covered(j, u) => Covered(j, u)') /\ Fired(j, u)' = Fired(j, u)
      /\ \A u \in Nat : Due(j, u)' = Due(j, u) /\ (Touched(j, u) => Touched(j, u)')
  BY Quiet
<1>4. /\ now \in Nat /\ DayLength \in Nat /\ MaxRun \in Nat
      /\ \A u \in Slots : u \in Nat
  BY ConstantsAre DEF ScheduleInv, ScheduleTypeOK, Slots
<1>5. CASE LoadEnabled(j)
  <2>1. /\ task[j] = "load" /\ task'[j] = "wait" /\ wake'[j] = NextFire(j, settings)
    BY <1>1, <1>5 DEF LoadEnabled, Move
  <2>2. /\ NextFire(j, settings) \in Nat /\ now < NextFire(j, settings) /\ NextFire(j, settings) <= now + DayLength
        /\ Due(j, NextFire(j, settings))
        /\ \A u \in Nat : now < u /\ u < NextFire(j, settings) => ~ Due(j, u)
    BY <1>4, ConstantsAre, NextFireIs DEF ScheduleInv, ScheduleTypeOK
  <2>3. now' <= wake'[j] /\ wake'[j] <= now' + DayLength
    BY <1>2, <1>4, <2>1, <2>2
  <2>4. ASSUME NEW u \in Slots, Fired(j, u)' PROVE u < wake'[j]
    <3>1. u <= now
      BY <1>1, <1>3, <2>4 DEF ShotInv
    <3>2. QED
      BY <1>4, <2>1, <2>2, <3>1
  <2>5. ASSUME NEW u \in Slots, now' <= u, u < wake'[j] PROVE Covered(j, u)'
    <3>1. CASE u = now
      BY <1>1, <1>3, <2>1, <3>1 DEF TaskInv
    <3>2. CASE now < u
      BY <1>3, <1>4, <2>1, <2>2, <2>5, <3>2 DEF Covered
    <3>3. QED
      BY <1>2, <1>4, <2>5, <3>1, <3>2
  <2>6. \A u \in Nat : u = wake'[j] => Due(j, u)'
    BY <1>3, <2>1, <2>2
  <2>7. QED
    BY <2>1, <2>3, <2>4, <2>5, <2>6 DEF TaskInv, Slots
<1>6. CASE LoadDisabled(j)
  <2>1. task[j] = "load" /\ task'[j] = "poll" /\ ~ On(j)
    BY <1>1, <1>6 DEF LoadDisabled, Move, On
  <2>2. \A u \in Slots : u = now' => Covered(j, u)'
    BY <1>1, <1>2, <1>3, <2>1 DEF TaskInv
  <2>3. QED
    BY <1>3, <2>1, <2>2 DEF TaskInv, Slots
<1>7. CASE Poll(j)
  <2>1. task[j] = "poll" /\ task'[j] = "load"
    BY <1>1, <1>7 DEF Poll, Move
  <2>2. \A u \in Slots : u = now' => Covered(j, u)'
    BY <1>1, <1>2, <1>3, <2>1 DEF TaskInv
  <2>3. QED
    BY <2>1, <2>2 DEF TaskInv, Slots
<1>8. CASE Wake(j)
  <2>1. task[j] = "wait" /\ task'[j] = "reload" /\ now >= wake[j] /\ wake'[j] = wake[j]
    BY <1>1, <1>8 DEF Wake, Move
  <2>2. now = wake[j] /\ \A u \in Slots : Fired(j, u) => u < wake[j]
    BY <1>1, <1>4, <2>1 DEF TaskInv
  <2>3. wake'[j] = now' /\ \A u \in Slots : Fired(j, u)' => u < now'
    BY <1>2, <1>3, <2>1, <2>2
  <2>4. \A u \in Nat : u = wake'[j] => Due(j, u)' \/ Touched(j, u)'
    BY <1>1, <1>3, <2>1 DEF TaskInv
  <2>5. QED
    BY <2>1, <2>3, <2>4 DEF TaskInv, Slots
<1>9. CASE SwitchedOff(j)
  <2>1. task'[j] = "load" /\ ~ On(j)
    BY <1>1, <1>9 DEF SwitchedOff, Move, On
  <2>2. \A u \in Slots : Covered(j, u)'
    BY <1>3, <2>1 DEF Covered
  <2>3. QED
    BY <2>1, <2>2 DEF TaskInv, Slots
<1>10. CASE Finish(j)
  <2>1. task[j] = "fire" /\ task'[j] = "pause" /\ wake'[j] = wake[j]
    BY <1>1, <1>10 DEF Finish, Move
  <2>2. /\ wake'[j] <= now' /\ now' <= wake'[j] + MaxRun
        /\ \A u \in Slots : now' <= u /\ u <= wake'[j] + MaxRun => Covered(j, u)'
    BY <1>1, <1>2, <1>3, <2>1 DEF TaskInv
  <2>3. QED
    BY <2>1, <2>2 DEF TaskInv, Slots
<1>11. CASE Again(j)
  <2>1. task[j] = "pause" /\ task'[j] = "load"
    BY <1>1, <1>11 DEF Again, Move
  <2>2. now <= wake[j] + MaxRun /\ \A u \in Slots : now <= u /\ u <= wake[j] + MaxRun => Covered(j, u)
    BY <1>1, <2>1 DEF TaskInv
  <2>3. \A u \in Slots : u = now' => Covered(j, u)'
    BY <1>2, <1>3, <1>4, <2>2
  <2>4. QED
    BY <2>1, <2>3 DEF TaskInv, Slots
<1>12. CASE Leave(j)
  <2>1. task'[j] = "off"
    BY <1>1, <1>12 DEF Leave
  <2>2. QED
    BY <2>1 DEF TaskInv
<1>13. CASE LoadDefaults(j)
  <2>0. PICK n \in Nat : n = NextFire(j, Defaults) /\ now < n /\ n <= now + DayLength
    BY <1>4, ConstantsAre, NextFireIs
  <2>1. /\ task[j] \in {"load", "poll"} /\ task'[j] = "wait" /\ wake'[j] = n
        /\ <<j, now>> \in misread' /\ now \in Slots
    BY <1>1, <1>13, <2>0 DEF LoadDefaults, ReadFails, ScheduleInv, ScheduleTypeOK
  <2>3. now' <= wake'[j] /\ wake'[j] <= now' + DayLength
    BY <1>2, <1>4, <2>0, <2>1
  <2>4. ASSUME NEW u \in Slots, Fired(j, u)' PROVE u < n
    <3>1. u <= now
      BY <1>1, <1>3, <2>4 DEF ShotInv
    <3>2. u \in Nat /\ n \in Nat /\ now \in Nat /\ now < n
      BY <1>4, <2>0
    <3>3. QED
      BY <3>1, <3>2
  <2>5. ASSUME NEW u \in Slots, now <= u, u < n PROVE Covered(j, u)'
    <3>1. u \in Nat /\ n \in Nat /\ now \in Nat /\ DayLength \in Nat /\ MaxRun \in Nat
      BY <1>4
    <3>2. ~ (u > now + DayLength + MaxRun)
      BY <2>0, <2>5, <3>1
    <3>3. ~ Calm(j, u)'
      BY <2>1, <3>2 DEF Calm
    <3>4. QED
      BY <3>3 DEF Covered
  <2>6. ASSUME NEW u \in Nat, u = n PROVE Touched(j, u)'
    <3>1. now < u /\ u <= now + DayLength
      BY <2>0, <2>6
    <3>2. QED
      BY <2>1, <3>1 DEF Touched, Missed
  <2>7. QED
    BY <1>2, <2>1, <2>3, <2>4, <2>5, <2>6 DEF TaskInv, Slots
<1>14. QED
  BY <1>5, <1>6, <1>7, <1>8, <1>9, <1>10, <1>11, <1>12, <1>13 DEF Job

(* A job that fires has woken in its slot and was quiet in it; it is not   *)
(* due again before its flow has returned.                                 *)
LEMMA Shot ==
  ASSUME ScheduleInv, ScheduleTypeOK', NEW j \in Jobs, Fire(j)
  PROVE  ShotInv(j)' /\ TaskInv(j)' /\ RunInv(j)'
<1>1. /\ TaskInv(j) /\ ShotInv(j) /\ RunInv(j)
      /\ task[j] = "reload" /\ task'[j] = "fire" /\ wake'[j] = now
      /\ On(j) \/ <<j, now>> \in misread'
      /\ shots' = [shots EXCEPT ![<<j, now>>] = @ + 1]
      /\ UNCHANGED <<now, settings, run, cancelled, calm, edited, saves>>
  BY DEF ScheduleInv, ScheduleTypeOK, Fire, ReadFails, Move, On, StayWith, genVars
<1>2. /\ now \in Slots /\ now \in Nat /\ DayLength \in Nat /\ MaxRun \in Nat /\ MaxRun < DayLength
      /\ edited \in Nat /\ settings \in Schedules
      /\ \A u \in Slots : u \in Nat /\ shots[<<j, u>>] \in Nat
  BY ConstantsAre DEF ScheduleInv, ScheduleTypeOK, Slots
<1>3. /\ On(j)' = On(j)
      /\ \A u \in Nat : Due(j, u)' = Due(j, u) /\ (Touched(j, u) => Touched(j, u)') /\ (Calm(j, u)' => Calm(j, u))
  <2>1. calm <= calm'
    BY <1>1 DEF ScheduleInv, ScheduleTypeOK
  <2>2. QED
    BY <1>1, <2>1, OneTask, AsSaved DEF ScheduleInv, Job
<1>0. PICK t \in Slots : t = now
  BY <1>2
<1>4. /\ wake[j] = t /\ ~ Fired(j, t)
      /\ Due(j, t) \/ Touched(j, t)
  BY <1>0, <1>1, <1>2 DEF TaskInv
<1>5. shots'[<<j, t>>] = 1 /\ \A u \in Slots : u # t => shots'[<<j, u>>] = shots[<<j, u>>]
  <2>1. shots[<<j, t>>] = 0
    <3>1. shots[<<j, t>>] \in Nat /\ ~ (shots[<<j, t>>] > 0)
      BY <1>2, <1>4 DEF Fired
    <3>2. QED
      BY <3>1
  <2>2. shots \in [Jobs \X Slots -> Nat] /\ <<j, t>> \in Jobs \X Slots
    BY DEF ScheduleInv, ScheduleTypeOK
  <2>3. shots' = [shots EXCEPT ![<<j, t>>] = shots[<<j, t>>] + 1]
    BY <1>0, <1>1
  <2>4. shots'[<<j, t>>] = 1
    BY <2>1, <2>2, <2>3
  <2>5. ASSUME NEW u \in Slots, u # t PROVE shots'[<<j, u>>] = shots[<<j, u>>]
    <3>1. <<j, u>> \in Jobs \X Slots /\ <<j, u>> # <<j, t>>
      BY <2>5
    <3>2. QED
      BY <2>2, <2>3, <3>1
  <2>6. QED
    BY <2>4, <2>5
<1>6. Fired(j, t)' /\ \A u \in Slots : u # t => Fired(j, u)' = Fired(j, u)
  BY <1>5 DEF Fired
<1>7. ASSUME NEW u \in Slots, Covered(j, u) PROVE Covered(j, u)'
  <2>1. Fired(j, u) => Fired(j, u)'
    BY <1>6
  <2>2. Calm(j, u)' /\ On(j)' /\ Due(j, u)' => Fired(j, u)
    BY <1>2, <1>3, <1>7 DEF Covered, Fired
  <2>3. QED
    BY <2>1, <2>2 DEF Covered, Fired
<1>8. ShotInv(j)'
  <2>1. ASSUME NEW u \in Slots
        PROVE  /\ (shots[<<j, u>>] <= 1)'
               /\ Fired(j, u)' =>
                    /\ u <= now' /\ (Due(j, u) \/ Touched(j, u))'
                    /\ ((saves > 0 => u > edited) => On(j) \/ <<j, u>> \in misread)'
               /\ u < now' => Covered(j, u)'
    <3>1. /\ shots[<<j, u>>] <= 1
          /\ Fired(j, u) => /\ u <= now /\ (Due(j, u) \/ Touched(j, u))
                            /\ (saves > 0 => u > edited) => On(j) \/ <<j, u>> \in misread
          /\ u < now => Covered(j, u)
      BY <1>1 DEF ShotInv
    <3>2. (shots[<<j, u>>] <= 1)'
      <4>1. CASE u = t
        BY <1>5, <4>1
      <4>2. CASE u # t
        BY <1>5, <3>1, <4>2
      <4>3. QED
        BY <4>1, <4>2
    <3>3. Fired(j, u)' => u <= now' /\ (Due(j, u) \/ Touched(j, u))'
      <4>1. CASE u = t
        <5>1. u <= now' /\ (Due(j, u) \/ Touched(j, u))
          BY <1>0, <1>1, <1>2, <1>4, <4>1
        <5>2. QED
          BY <1>2, <1>3, <5>1
      <4>2. CASE u # t
        BY <1>1, <1>2, <1>3, <1>6, <3>1, <4>2
      <4>3. QED
        BY <4>1, <4>2
    <3>4. u < now' => Covered(j, u)'
      BY <1>1, <1>7, <3>1
    <3>5. Fired(j, u)' => ((saves > 0 => u > edited) => On(j) \/ <<j, u>> \in misread)'
      <4>1. misread \subseteq misread'
        BY OneTask DEF Job
      <4>2. CASE u = t
        BY <1>0, <1>1, <1>3, <4>2
      <4>3. CASE u # t
        BY <1>1, <1>3, <1>6, <3>1, <4>1, <4>3
      <4>4. QED
        BY <4>2, <4>3
    <3>6. QED
      BY <3>2, <3>3, <3>4, <3>5
  <2>2. QED
    BY <2>1 DEF ShotInv, Slots
<1>9. ASSUME NEW u \in Slots, t <= u, u <= t + MaxRun PROVE Covered(j, u)'
  <2>1. CASE u = t
    <3>1. Covered(j, t)'
      BY <1>6 DEF Covered, Fired
    <3>2. QED
      BY <2>1, <3>1
  <2>2. CASE t < u /\ Due(j, t)
    <3>1. ~ Due(j, u)
      <4>1. ASSUME Due(j, u) PROVE FALSE
        <5>1. t + DayLength <= u
          BY <1>2, <2>2, <4>1, DueApart
        <5>2. /\ u \in Nat /\ t \in Nat /\ DayLength \in Nat /\ MaxRun \in Nat
              /\ MaxRun < DayLength /\ u <= t + MaxRun
          BY <1>9, ConstantsAre DEF Slots
        <5>3. QED
          BY <5>1, <5>2
      <4>2. QED
        BY <4>1
    <3>2. QED
      BY <1>2, <1>3, <3>1 DEF Covered
  <2>3. CASE Touched(j, t)
    <3>0. /\ u \in Nat /\ t \in Nat /\ edited \in Nat /\ DayLength \in Nat /\ MaxRun \in Nat
          /\ u <= t + MaxRun
      BY <1>2, <1>9
    <3>1. ASSUME saves > 0, t <= edited + DayLength PROVE ~ Calm(j, u)
      <4>1. ~ (u > edited + DayLength + MaxRun)
        BY <3>0, <3>1
      <4>2. QED
        BY <3>1, <4>1 DEF Calm
    <3>2. ASSUME Missed(j, t) PROVE ~ Calm(j, u)
      <4>1. PICK m \in Slots : <<j, m>> \in misread /\ t <= m + DayLength
        BY <3>2 DEF Missed
      <4>2. m \in Nat
        BY <1>2
      <4>3. ~ (u > m + DayLength + MaxRun)
        BY <3>0, <4>1, <4>2
      <4>4. QED
        BY <4>1, <4>3 DEF Calm
    <3>3. ~ Calm(j, u)
      BY <2>3, <3>1, <3>2 DEF Touched
    <3>4. QED
      BY <1>2, <1>3, <3>3 DEF Covered
  <2>4. u = t \/ t < u
    <3>1. u \in Nat /\ t \in Nat
      BY <1>2
    <3>2. QED
      BY <1>9, <3>1
  <2>5. QED
    BY <1>4, <2>1, <2>2, <2>3, <2>4
<1>10. TaskInv(j)'
  <2>1. wake'[j] <= now' /\ now' <= wake'[j] + MaxRun
    BY <1>1, <1>2
  <2>2. \A u \in Slots : now' <= u /\ u <= wake'[j] + MaxRun => Covered(j, u)'
    BY <1>0, <1>1, <1>9
  <2>3. QED
    BY <1>1, <2>1, <2>2 DEF TaskInv, Slots
<1>11. RunInv(j)'
  BY <1>1 DEF RunInv
<1>12. QED
  BY <1>8, <1>10, <1>11


LEMMA ScheduleSteps ==
  ASSUME ScheduleInv, [ScheduleNext]_scheduleVars
  PROVE  ScheduleInv'
<1>1. ScheduleTypeOK'
  BY ScheduleTypeNext DEF ScheduleInv
<1>2. CASE Generation \/ Reconfigure
  BY <1>1, <1>2, GenerationRuns DEF Generation
<1>3. CASE PutSettings
  BY <1>1, <1>3, SettingsPut
<1>4. CASE Tick
  BY <1>1, <1>4, TimePasses
<1>5. ASSUME NEW j \in Jobs, Job(j) PROVE ScheduleInv'
  <2>1. \A i \in Jobs \ {j} : ShotInv(i)' /\ TaskInv(i)' /\ RunInv(i)'
    BY <1>1, <1>5, OneTask
  <2>2. CASE Fire(j)
    BY <1>1, <2>1, <2>2, Shot DEF ScheduleInv
  <2>3. CASE ~ Fire(j)
    BY <1>1, <1>5, <2>1, <2>3, Quiet, QuietTask DEF ScheduleInv
  <2>4. QED
    BY <2>2, <2>3
<1>6. CASE UNCHANGED scheduleVars
  <2>1. /\ UNCHANGED <<now, settings, edited, saves, task, wake, shots, misread, run, cancelled>>
        /\ calm <= calm'
    BY <1>6 DEF scheduleVars, genVars, jobVars, marks, ScheduleInv, ScheduleTypeOK
  <2>2. ASSUME NEW j \in Jobs PROVE ShotInv(j)' /\ TaskInv(j)'
    BY <1>1, <2>1, ShotsStand, TaskStands DEF ScheduleInv
  <2>3. ASSUME NEW j \in Jobs PROVE RunInv(j)'
    BY <2>1 DEF ScheduleInv, RunInv
  <2>4. QED
    BY <1>1, <2>2, <2>3 DEF ScheduleInv
<1>7. QED
  BY <1>2, <1>3, <1>4, <1>5, <1>6 DEF ScheduleNext

LEMMA ScheduleStarts ==
  ASSUME ScheduleInit
  PROVE  ScheduleInv
<1>1. ScheduleTypeOK
  <2>1. 0 \in Slots
    BY ConstantsAre DEF Slots
  <2>2. /\ task \in [Jobs -> {"off", "load", "poll", "wait", "reload", "fire", "pause"}]
        /\ wake \in [Jobs -> Nat] /\ shots \in [Jobs \X Slots -> Nat] /\ misread \subseteq Jobs \X Slots
    BY DEF ScheduleInit
  <2>3. QED
    BY <2>1, <2>2 DEF ScheduleInit, ScheduleTypeOK
<1>2. ASSUME NEW j \in Jobs PROVE ShotInv(j)
  <2>1. ASSUME NEW u \in Slots
        PROVE  /\ shots[<<j, u>>] <= 1 /\ ~ Fired(j, u) /\ ~ (u < now)
    <3>1. u \in Nat /\ shots[<<j, u>>] = 0 /\ now = 0
      BY ConstantsAre DEF ScheduleInit, Slots
    <3>2. QED
      BY <3>1 DEF Fired
  <2>2. QED
    BY <2>1 DEF ShotInv
<1>3. ASSUME NEW j \in Jobs PROVE TaskInv(j) /\ RunInv(j)
  BY DEF ScheduleInit, TaskInv, RunInv
<1>4. QED
  BY <1>1, <1>2, <1>3 DEF ScheduleInv

LEMMA ScheduleInvAlways ==
  ScheduleSpec => []ScheduleInv
<1>1. ScheduleInit => ScheduleInv
  BY ScheduleStarts
<1>2. ScheduleInv /\ [ScheduleNext]_scheduleVars => ScheduleInv'
  BY ScheduleSteps
<1>3. QED
  BY <1>1, <1>2, PTL DEF ScheduleSpec

(* A job fires in every slot of a quiet day in which its time comes and in *)
(* no other, and is quiet while it is off and can read so: the daily       *)
(* triggers, however many jobs, restarts, edits and failed reads there     *)
(* are, and wherever midnight lies (run_trigger, duration_until).          *)
THEOREM FiringInvHolds ==
  ScheduleSpec => []FiringInv
<1>1. ASSUME ScheduleInv PROVE Punctual
  <2>1. ASSUME NEW j \in Jobs, \A u \in DayOf(now) : Calm(j, u), NEW u \in DayOf(now), u < now
        PROVE  shots[<<j, u>>] = IF On(j) /\ Due(j, u) THEN 1 ELSE 0
    <3>1. u \in Slots /\ u \in Nat /\ Calm(j, u)
      BY <2>1, ConstantsAre DEF DayOf, Slots
    <3>2. /\ shots[<<j, u>>] \in Nat /\ shots[<<j, u>>] <= 1
          /\ Fired(j, u) => Due(j, u) \/ Touched(j, u)
          /\ Fired(j, u) => ((saves > 0 => u > edited) => On(j) \/ <<j, u>> \in misread)
          /\ Covered(j, u)
      BY <1>1, <2>1, <3>1 DEF ScheduleInv, ShotInv, ScheduleTypeOK
    <3>3. DayLength \in Nat /\ MaxRun \in Nat /\ edited \in Nat
      BY <1>1, ConstantsAre DEF ScheduleInv, ScheduleTypeOK, Slots
    <3>4. ~ (saves > 0 /\ u <= edited + DayLength) /\ (saves > 0 => u > edited)
      BY <3>1, <3>3 DEF Calm
    <3>5. ASSUME NEW m \in Slots, <<j, m>> \in misread PROVE m < u /\ ~ (u <= m + DayLength)
      <4>1. m \in Nat /\ u > m + DayLength + MaxRun
        BY <3>1, <3>5, ConstantsAre DEF Calm, Slots
      <4>2. QED
        BY <3>1, <3>3, <4>1
    <3>6. ~ Touched(j, u)
      BY <3>4, <3>5 DEF Touched, Missed
    <3>7. <<j, u>> \notin misread
      BY <3>1, <3>5
    <3>8. On(j) /\ Due(j, u) <=> shots[<<j, u>>] > 0
      BY <3>1, <3>2, <3>4, <3>6, <3>7 DEF Covered, Fired
    <3>9. QED
      BY <3>2, <3>8
  <2>2. QED
    BY <2>1 DEF Punctual, On, Due
<1>2. ASSUME ScheduleInv PROVE OffIsOff
  <2>1. ASSUME NEW j \in Jobs, NEW u \in Slots, u > edited, ~ On(j), <<j, u>> \notin misread
        PROVE  shots[<<j, u>>] = 0
    <3>1. shots[<<j, u>>] \in Nat /\ ~ Fired(j, u)
      BY <1>2, <2>1 DEF ScheduleInv, ShotInv, ScheduleTypeOK
    <3>2. QED
      BY <3>1 DEF Fired
  <2>2. QED
    BY <2>1 DEF OffIsOff, On
<1>3. ScheduleInv => FiringInv
  BY <1>1, <1>2 DEF FiringInv, ScheduleInv
<1>4. QED
  BY <1>3, ScheduleInvAlways, PTL

(* While the settings stay as they are no job fires twice in a day, but    *)
(* for one that a failed read sent to sleep for the built-in time, however *)
(* often the App is restarted: a task that starts over waits for the next  *)
(* time that comes, never for one that has just passed.                    *)
THEOREM NotTwiceADayHolds ==
  ScheduleSpec => []NotTwiceADay
<1>1. ASSUME ScheduleInv, saves = 0, NEW j \in Jobs, NEW u \in Slots, NEW v \in Slots,
             Fired(j, u), Fired(j, v), v \in DayOf(u)
      PROVE  shots[<<j, u>>] = 1 /\ (u = v \/ Missed(j, u) \/ Missed(j, v))
  <2>1. /\ Due(j, u) \/ Missed(j, u)
        /\ Due(j, v) \/ Missed(j, v)
        /\ shots[<<j, u>>] \in Nat /\ shots[<<j, u>>] <= 1
    <3>1. ShotInv(j) /\ shots[<<j, u>>] \in Nat
      BY <1>1 DEF ScheduleInv, ScheduleTypeOK
    <3>2. \A w \in Slots : Touched(j, w) => Missed(j, w)
      BY <1>1 DEF Touched
    <3>3. QED
      BY <1>1, <3>1, <3>2 DEF ShotInv
  <2>2. u \in Nat /\ v \in Nat /\ settings \in Schedules
    BY <1>1, ConstantsAre DEF ScheduleInv, ScheduleTypeOK, Slots
  <2>3. StartOfDay(u, settings.zone) = StartOfDay(v, settings.zone)
    BY <1>1 DEF DayOf
  <2>4. ASSUME Due(j, u), Due(j, v) PROVE ~ (u < v) /\ ~ (v < u)
    BY <2>2, <2>3, <2>4, DueApart
  <2>5. shots[<<j, u>>] = 1
    BY <1>1, <2>1 DEF Fired
  <2>6. QED
    BY <2>1, <2>2, <2>4, <2>5
<1>2. ScheduleInv => NotTwiceADay
  BY <1>1 DEF NotTwiceADay, Fired
<1>3. QED
  BY <1>2, ScheduleInvAlways, PTL
=============================================================================
