--------------------------- MODULE EventLogProofs ---------------------------
(***************************************************************************)
(* What the EventLog run checks of the counter, the store and the stream,  *)
(* proved for any number of threads and any sizes.  LogInv keeps every id  *)
(* in one place; FreshInv says where what the client got came from, and    *)
(* FollowInv what became of everything that was sent.                      *)
(***************************************************************************)
EXTENDS EventLog, FiniteSetTheorems, SequenceTheorems, WellFoundedInduction, TLAPS

USE DEF tableVars

(* A finite set of numbers has a largest: of the sets of elements above    *)
(* one, a minimal one is empty.                                            *)
LEMMA MaxIs ==
  ASSUME NEW S \in SUBSET Int, S # {}, IsFiniteSet(S)
  PROVE  Max(S) \in S /\ \A x \in S : x <= Max(S)
<1> DEFINE Above(x) == {y \in S : y > x}
           T == {Above(x) : x \in S}
<1>1. T \subseteq FiniteSubsetsOf(S) /\ T # {}
  <2>1. \A x \in S : Above(x) \in SUBSET S
    OBVIOUS
  <2>2. T \subseteq SUBSET S /\ T # {}
    <3> HIDE DEF Above
    <3>1. QED
      BY <2>1
  <2>3. QED
    BY <2>2, FS_FiniteSubsetsOfFinite
<1>2. IsWellFoundedOn(StrictSubsetOrdering(S), FiniteSubsetsOf(S))
  BY FS_StrictSubsetOrderingWellFounded
<1>3. PICK A \in T : \A B \in T : ~ (<<B, A>> \in StrictSubsetOrdering(S))
  <2> HIDE DEF T
  <2>1. \E A \in T : \A B \in T : ~ (<<B, A>> \in StrictSubsetOrdering(S))
    BY <1>1, <1>2, WFMin
  <2>2. QED
    BY <2>1
<1>4. PICK x \in S : A = Above(x)
  OBVIOUS
<1>5. \A y \in S : x >= y
  <2> SUFFICES ASSUME NEW y \in S, y > x PROVE FALSE
    OBVIOUS
  <2>1. Above(y) \subseteq Above(x) /\ y \in Above(x) /\ y \notin Above(y)
    <3>1. x \in Int /\ y \in Int /\ \A z \in S : z \in Int
      OBVIOUS
    <3>2. \A z \in S : z > y => z > x
      BY <3>1
    <3>3. ~ (y > y)
      BY <3>1
    <3>4. QED
      BY <3>2, <3>3
  <2>2. <<Above(y), A>> \in StrictSubsetOrdering(S)
    BY <1>4, <2>1 DEF StrictSubsetOrdering
  <2>3. Above(y) \in T
    OBVIOUS
  <2>4. QED
    BY <1>3, <2>2, <2>3
<1>6. \E m \in S : \A y \in S : m >= y
  BY <1>5
<1>7. Max(S) \in S /\ \A y \in S : Max(S) >= y
  BY <1>6 DEF Max
<1>8. QED
  BY <1>7

LEMMA MaxOfTwo ==
  ASSUME NEW a \in Int, NEW b \in Int
  PROVE  Max({a, b}) \in {a, b} /\ a <= Max({a, b}) /\ b <= Max({a, b})
<1>1. \E x \in {a, b} : \A y \in {a, b} : x >= y
  <2>1. CASE a >= b
    BY <2>1
  <2>2. CASE b >= a
    BY <2>2
  <2>3. QED
    BY <2>1, <2>2
<1>2. Max({a, b}) \in {a, b} /\ \A y \in {a, b} : Max({a, b}) >= y
  BY <1>1 DEF Max
<1>3. QED
  BY <1>2

LEMMA MinOfTwo ==
  ASSUME NEW a \in Int, NEW b \in Int
  PROVE  Min({a, b}) \in {a, b} /\ Min({a, b}) <= a /\ Min({a, b}) <= b
<1>1. \E x \in {a, b} : \A y \in {a, b} : x <= y
  <2>1. CASE a >= b
    BY <2>1
  <2>2. CASE b >= a
    BY <2>2
  <2>3. QED
    BY <2>1, <2>2
<1>2. Min({a, b}) \in {a, b} /\ \A y \in {a, b} : Min({a, b}) <= y
  BY <1>1 DEF Min
<1>3. QED
  BY <1>2

LEMMA OldestIs ==
  ASSUME TypeOK
  PROVE  Oldest \in 0..Len(sent) /\ Len(sent) - Buffer <= Oldest
<1>1. Len(sent) \in Nat /\ Buffer \in Nat
  BY SizesAssumption DEF TypeOK
<1>2. /\ Oldest \in {0, Len(sent) - Buffer} /\ 0 <= Oldest /\ Len(sent) - Buffer <= Oldest
  <2>1. 0 \in Int /\ Len(sent) - Buffer \in Int
    BY <1>1
  <2>2. QED
    BY <2>1, MaxOfTwo DEF Oldest
<1>3. QED
  BY <1>1, <1>2

-----------------------------------------------------------------------------
Drawing == Threads \cup {Persister}

(* Every id there is lies below the counter, each is drawn, sent or stored *)
(* once, and what is still to be received, or being inserted, is not in    *)
(* the table yet; the rows apart in a boot that did not learn of them.     *)
BelowInv ==
  /\ ~ misnumbered => \A x \in rows : x < nextId
  /\ \A i \in 1..Len(sent) : sent[i] < nextId
  /\ \A t \in Drawing : drawn[t] # NoId => drawn[t] < nextId

OnceInv ==
  /\ \A t, u \in Drawing : drawn[t] # NoId /\ drawn[t] = drawn[u] => t = u
  /\ \A t \in Drawing : \A i \in 1..Len(sent) : drawn[t] # sent[i]
  /\ \A i, j \in 1..Len(sent) : sent[i] = sent[j] => i = j

NewInv ==
  /\ holding # NoId => pos \in 1..Len(sent) /\ holding = sent[pos]
  /\ ~ misnumbered =>
       /\ \A i \in pos + 1..Len(sent) : sent[i] \notin rows
       /\ \A t \in Drawing : drawn[t] \notin rows
       /\ holding \notin rows

(* A trim comes right after the insert of what was received last.          *)
TrimInv ==
  trimming => holding = NoId /\ untrimmed /\ pos \in 1..Len(sent) /\ sent[pos] \in rows

LogInv == TypeOK /\ BelowInv /\ OnceInv /\ NewInv /\ TrimInv /\ Retained

LEMMA RowsFinite == ASSUME TypeOK PROVE \A R \in SUBSET rows : IsFiniteSet(R)
<1>1. MaxId \in Nat /\ rows \subseteq 1..MaxId
  BY SizesAssumption DEF TypeOK, Ids
<1>2. IsFiniteSet(1..MaxId)
  BY <1>1, FS_Interval
<1>3. QED
  BY <1>1, <1>2, FS_Subset

LEMMA IdsAreNumbers == Ids \subseteq Nat /\ NoId \notin Ids
<1>1. Ids \subseteq Nat
  BY SizesAssumption DEF Ids
<1>2. QED
  BY <1>1, NamesAssumption, Zenon

LEMMA LogInit == Init => LogInv
<1> SUFFICES ASSUME Init PROVE LogInv
  OBVIOUS
<1>1. /\ sent = <<>> /\ Len(sent) = 0 /\ rows = {} /\ pos = 0 /\ holding = NoId /\ nextId = 1
      /\ misnumbered = FALSE
      /\ trimming = FALSE /\ untrimmed = FALSE
      /\ drawn = [t \in Drawing |-> NoId] /\ skipped = {} /\ mustWarn = FALSE /\ faults = 0
  BY DEF Init, Drawing
<1>2. TypeOK
  <2>1. sent \in Seq(Ids) /\ nextId \in 1..MaxId + 1 /\ faults \in 0..MaxFaults
    BY <1>1, SizesAssumption
  <2>2. QED
    <3>1. drawn \in [Threads \cup {Persister} -> Ids \cup {NoId}]
      BY <1>1 DEF Drawing
    <3>2. pos \in 0..Len(sent) /\ rows \subseteq Ids /\ skipped \subseteq Ids /\ mustWarn \in BOOLEAN
             /\ trimming \in BOOLEAN /\ untrimmed \in BOOLEAN /\ misnumbered \in BOOLEAN
      <4>1. /\ rows = {} /\ skipped = {} /\ mustWarn = FALSE /\ trimming = FALSE
            /\ untrimmed = FALSE /\ misnumbered = FALSE
        BY <1>1
      <4>2. pos \in 0..Len(sent)
        BY <1>1, SMT
      <4>3. QED
        BY <4>1, <4>2, Zenon
    <3>3. QED
      BY <1>1, <2>1, <3>1, <3>2 DEF TypeOK
<1>3. BelowInv /\ OnceInv /\ NewInv /\ TrimInv /\ Retained
  BY <1>1 DEF BelowInv, OnceInv, NewInv, TrimInv, Retained
<1>4. QED
  BY <1>2, <1>3 DEF LogInv

LEMMA LogNext ==
  ASSUME LogInv, [Next]_vars
  PROVE  LogInv'
<1> USE DEF perVars, logVars
<1>a. /\ TypeOK /\ BelowInv /\ OnceInv /\ NewInv /\ TrimInv /\ Retained
      /\ MaxId \in Nat /\ MaxFaults \in Nat /\ NoId \notin Nat /\ Retention \in Nat /\ Buffer \in Nat
  BY SizesAssumption, NamesAssumption DEF LogInv
<1>1. ASSUME UNCHANGED <<logVars, perVars>>, faults' \in 0..MaxFaults PROVE LogInv'
  BY <1>1, <1>a DEF LogInv, TypeOK, BelowInv, OnceInv, NewInv, TrimInv, Retained, Ids
<1>2. ASSUME NEW t \in Drawing, NextEventId(t) PROVE LogInv'
  <2>1. /\ drawn[t] = NoId /\ nextId \in 1..MaxId /\ nextId' = nextId + 1
        /\ drawn' = [drawn EXCEPT ![t] = nextId] /\ mustWarn' \in BOOLEAN
        /\ UNCHANGED <<misnumbered, sent, tableVars, pos, holding, skipped, faults>>
    BY <1>2, <1>a DEF NextEventId, TypeOK
  <2>2. TypeOK'
    BY <1>a, <2>1 DEF TypeOK, Ids, Drawing
  <2>3. /\ drawn'[t] = nextId /\ \A u \in Drawing : u # t => drawn'[u] = drawn[u]
    BY <1>a, <2>1 DEF TypeOK, Drawing
  <2>4. /\ \A i \in 1..Len(sent) : sent[i] \in 1..MaxId
        /\ \A u \in Drawing : drawn[u] \in 1..MaxId \cup {NoId}
        /\ rows \subseteq 1..MaxId
    BY <1>a DEF TypeOK, Ids, Drawing
  <2>5. BelowInv'
    BY <1>a, <2>1, <2>3, <2>4 DEF BelowInv
  <2>6. OnceInv'
    BY <1>a, <2>1, <2>3, <2>4 DEF OnceInv, BelowInv
  <2>7. NewInv'
    BY <1>a, <2>1, <2>3, <2>4 DEF NewInv, BelowInv
  <2>8. QED
    BY <1>a, <2>1, <2>2, <2>5, <2>6, <2>7 DEF LogInv, TrimInv, Retained
<1>3. ASSUME NEW t \in Drawing, Emit(t) PROVE LogInv'
  <2> DEFINE n == Len(sent)
  <2>1. /\ drawn[t] \in Ids /\ sent' = Append(sent, drawn[t])
        /\ drawn' = [drawn EXCEPT ![t] = NoId] /\ sent \in Seq(Ids)
        /\ UNCHANGED <<nextId, misnumbered, perVars, faults>>
    BY <1>3, <1>a DEF Emit, TypeOK, Drawing
  <2>2. /\ sent' \in Seq(Ids) /\ Len(sent') = n + 1 /\ n \in Nat /\ sent'[n + 1] = drawn[t]
        /\ \A i \in 1..n : sent'[i] = sent[i]
    BY <2>1
  <2>3. /\ drawn'[t] = NoId /\ \A u \in Drawing : u # t => drawn'[u] = drawn[u]
        /\ \A u \in Drawing : drawn[u] \in Ids \cup {NoId}
    BY <1>a, <2>1 DEF TypeOK, Drawing
  <2>4. pos \in 0..n /\ \A i \in 1..n + 1 : i \in 1..n \/ i = n + 1
    BY <1>a, <2>2 DEF TypeOK
  <2>5. TypeOK'
    BY <1>a, <2>1, <2>2, <2>4 DEF TypeOK, Drawing
  <2>6. BelowInv'
    BY <1>a, <2>1, <2>2, <2>3, <2>4 DEF BelowInv, Ids
  <2>7. OnceInv'
    <3>1. \A i \in 1..n : sent[i] \in Ids
      BY <2>1
    <3>2. QED
      BY <1>a, <2>1, <2>2, <2>3, <2>4, <3>1 DEF OnceInv, Ids
  <2>8. NewInv'
    <3>1. holding # NoId => pos \in 1..Len(sent') /\ holding = sent'[pos]
      BY <1>a, <2>2, <2>4 DEF NewInv
    <3>2. ASSUME ~ misnumbered
          PROVE  /\ \A i \in pos + 1..Len(sent') : sent'[i] \notin rows
                 /\ \A u \in Drawing : drawn'[u] \notin rows
                 /\ holding \notin rows
      <4>1. /\ \A i \in pos + 1..n : sent[i] \notin rows
            /\ \A u \in Drawing : drawn[u] \notin rows
            /\ holding \notin rows /\ rows \subseteq Ids
        BY <1>a, <3>2 DEF NewInv, TypeOK
      <4>2. NoId \notin rows
        BY <4>1, IdsAreNumbers, Zenon
      <4>3. \A i \in pos + 1..Len(sent') : sent'[i] \notin rows
        <5>1. \A i \in pos + 1..n + 1 : i = n + 1 \/ (i \in pos + 1..n /\ i \in 1..n)
          BY <2>2, <2>4
        <5>2. QED
          BY <2>2, <4>1, <5>1
      <4>4. \A u \in Drawing : drawn'[u] \notin rows
        BY <2>3, <4>1, <4>2
      <4>5. QED
        BY <4>1, <4>3, <4>4
    <3>3. QED
      BY <2>1, <3>1, <3>2 DEF NewInv
  <2>9. QED
    BY <1>a, <2>1, <2>5, <2>6, <2>7, <2>8 DEF LogInv, TrimInv, Retained
<1>4. CASE Receive
  <2>1. /\ pos < Len(sent) /\ pos' = pos + 1 /\ holding' = sent[pos + 1]
        /\ ~ trimming /\ UNCHANGED <<logVars, tableVars, mustWarn, skipped, faults>>
    BY <1>4 DEF Receive, PersisterIdle
  <2>2. pos \in Nat /\ Len(sent) \in Nat /\ pos + 1 \in 1..Len(sent) /\ sent[pos + 1] \in Ids
    BY <1>a, <2>1 DEF TypeOK
  <2>3. TypeOK'
    BY <1>a, <2>1, <2>2 DEF TypeOK
  <2>4. NewInv'
    BY <1>a, <2>1, <2>2 DEF NewInv
  <2>5. QED
    BY <1>a, <2>1, <2>3, <2>4 DEF LogInv, BelowInv, OnceInv, TrimInv, Retained
<1>5. CASE ReceiveLagged
  <2>1. /\ holding = NoId /\ pos < Oldest /\ pos' = Oldest /\ mustWarn' = TRUE
        /\ skipped' = skipped \cup {sent[i] : i \in pos + 1..Oldest}
        /\ ~ trimming /\ UNCHANGED <<logVars, tableVars, holding, faults>>
    BY <1>5 DEF ReceiveLagged, PersisterIdle
  <2>2. Len(sent) \in Nat /\ pos \in Nat
    BY <1>a DEF TypeOK
  <2>3. Oldest \in 0..Len(sent)
    BY <1>a, OldestIs
  <2>4. {sent[i] : i \in pos + 1..Oldest} \subseteq Ids
    BY <1>a, <2>2, <2>3 DEF TypeOK
  <2>5. TypeOK'
    BY <1>a, <2>1, <2>3, <2>4 DEF TypeOK
  <2>6. NewInv'
    BY <1>a, <2>1, <2>2, <2>3 DEF NewInv
  <2>7. QED
    BY <1>a, <2>1, <2>5, <2>6 DEF LogInv, BelowInv, OnceInv, TrimInv, Retained
<1>6. CASE Insert
  <2>1. /\ holding # NoId /\ holding \notin rows /\ rows' = rows \cup {holding} /\ holding' = NoId
        /\ trimming' = TRUE /\ untrimmed' = TRUE
        /\ UNCHANGED <<logVars, pos, mustWarn, skipped, faults>>
    BY <1>6 DEF Insert
  <2>2. holding \in Ids
    BY <1>a, <2>1 DEF TypeOK
  <2>3. TypeOK'
    BY <1>a, <2>1, <2>2 DEF TypeOK
  <2>4. pos \in 1..Len(sent) /\ holding = sent[pos]
    BY <1>a, <2>1 DEF NewInv
  <2>5. BelowInv'
    BY <1>a, <2>1, <2>4 DEF BelowInv
  <2>6. NewInv'
    <3>1. \A t \in Drawing : drawn[t] # holding
      BY <1>a, <2>4 DEF OnceInv
    <3>2. \A i \in pos + 1..Len(sent) : sent[i] # holding
      BY <1>a, <2>4 DEF OnceInv, TypeOK
    <3>3. NoId \notin rows \cup {holding}
      <4>1. rows \subseteq Ids
        BY <1>a DEF TypeOK
      <4>2. QED
        BY <2>2, <4>1, IdsAreNumbers, Zenon
    <3>4. ASSUME ~ misnumbered
          PROVE  /\ \A i \in pos + 1..Len(sent) : sent[i] \notin rows'
                 /\ \A t \in Drawing : drawn[t] \notin rows'
                 /\ holding' \notin rows'
      BY <1>a, <2>1, <3>1, <3>2, <3>3, <3>4 DEF NewInv
    <3>5. QED
      BY <2>1, <3>4 DEF NewInv
  <2>7. TrimInv' /\ Retained'
    BY <2>1, <2>4 DEF TrimInv, Retained
  <2>8. QED
    BY <1>a, <2>1, <2>3, <2>5, <2>6, <2>7 DEF LogInv, OnceInv
<1>7. CASE InsertFails
  <2>1. /\ holding # NoId /\ holding' = NoId /\ mustWarn' = TRUE /\ faults' \in 0..MaxFaults
        /\ skipped' = skipped \cup {holding}
        /\ UNCHANGED <<logVars, tableVars, pos>>
    BY <1>7, <1>a DEF InsertFails, TypeOK
  <2>2. TypeOK'
    BY <1>a, <2>1 DEF TypeOK
  <2>3. NewInv'
    <3>1. rows \subseteq Ids
      BY <1>a DEF TypeOK
    <3>2. NoId \notin rows
      BY <3>1, IdsAreNumbers, Zenon
    <3>3. QED
      BY <1>a, <2>1, <3>2 DEF NewInv
  <2>4. QED
    BY <1>a, <2>1, <2>2, <2>3 DEF LogInv, BelowInv, OnceInv, TrimInv, Retained
<1>8. CASE Restart
  <2>1. /\ \/ nextId' = (IF MaxStored = NoId THEN 1 ELSE MaxStored + 1) /\ misnumbered' = FALSE
           \/ nextId' = 1 /\ misnumbered' = TRUE
        /\ drawn' = [t \in Drawing |-> NoId] /\ sent' = <<>> /\ pos' = 0 /\ holding' = NoId
        /\ mustWarn' = FALSE /\ skipped' = {} /\ rows' = rows /\ faults' \in 0..MaxFaults
        /\ trimming' = FALSE /\ untrimmed' = untrimmed
    BY <1>8, <1>a DEF Restart, TypeOK, Drawing
  <2>2. nextId' \in 1..MaxId + 1 /\ (~ misnumbered' => \A x \in rows : x < nextId')
    <3>0. CASE nextId' = 1 /\ misnumbered' = TRUE
      BY <1>a, <3>0
    <3>1. CASE rows = {} /\ misnumbered' = FALSE
      BY <1>a, <2>1, <3>1 DEF MaxStored
    <3>2. CASE rows # {} /\ misnumbered' = FALSE
      <4>1. rows \in SUBSET Int /\ IsFiniteSet(rows) /\ rows \subseteq 1..MaxId
        BY <1>a, RowsFinite DEF TypeOK, Ids
      <4>2. Max(rows) \in rows /\ \A x \in rows : x <= Max(rows)
        BY <3>2, <4>1, MaxIs
      <4>3. MaxStored = Max(rows) /\ MaxStored \in 1..MaxId
        BY <3>2, <4>1, <4>2 DEF MaxStored
      <4>4. nextId' = Max(rows) + 1 /\ Max(rows) \in 1..MaxId
        BY <1>a, <2>1, <3>2, <4>3
      <4>5. QED
        <5>1. nextId' \in 1..MaxId + 1
          BY <1>a, <4>4
        <5>2. \A x \in rows : x \in Int /\ x <= Max(rows)
          BY <4>1, <4>2
        <5>3. QED
          BY <4>4, <5>1, <5>2
    <3>3. QED
      BY <2>1, <3>0, <3>1, <3>2
  <2>3. TypeOK'
    <3>1. sent' \in Seq(Ids) /\ Len(sent') = 0
      BY <2>1
    <3>2. QED
      <4>1. drawn' \in [Threads \cup {Persister} -> Ids \cup {NoId}]
        BY <2>1 DEF Drawing
      <4>2. /\ pos' \in 0..Len(sent') /\ skipped' \subseteq Ids /\ rows' \subseteq Ids
        BY <1>a, <2>1, <3>1 DEF TypeOK
      <4>4. trimming' \in BOOLEAN /\ untrimmed' \in BOOLEAN /\ misnumbered' \in BOOLEAN
        <5>1. /\ trimming' = FALSE /\ untrimmed' = untrimmed /\ untrimmed \in BOOLEAN
              /\ misnumbered' = FALSE \/ misnumbered' = TRUE
          BY <1>a, <2>1 DEF TypeOK
        <5>2. QED
          BY <5>1, Zenon
      <4>3. QED
        BY <2>1, <2>2, <3>1, <4>1, <4>2, <4>4 DEF TypeOK
  <2>4. Len(sent') = 0 /\ NoId \notin rows
    <3>1. rows \subseteq Ids
      BY <1>a DEF TypeOK
    <3>2. NoId \notin rows
      BY <3>1, IdsAreNumbers, Zenon
    <3>3. QED
      BY <2>1, <3>2
  <2>5. QED
    BY <1>a, <2>1, <2>2, <2>3, <2>4 DEF LogInv, BelowInv, OnceInv, NewInv, TrimInv, Retained
<1>9. CASE Subscribe \/ Stream \/ Disconnect
  <2>1. UNCHANGED <<logVars, perVars>> /\ faults' \in 0..MaxFaults
    BY <1>9, <1>a DEF Subscribe, Stream, ReadBackfill, ReadFails, SendHistory, SendLive, SendLagged,
                      Disconnect, TypeOK
  <2>2. QED
    BY <1>1, <2>1
<1>10. CASE UNCHANGED vars
  BY <1>1, <1>10, <1>a DEF vars, TypeOK
<1>11. CASE Trim
  <2>1. /\ trimming /\ trimming' = FALSE /\ rows' = Newest(rows) /\ untrimmed' = FALSE
        /\ UNCHANGED <<logVars, pos, holding, mustWarn, skipped, faults>>
    BY <1>11 DEF Trim
  <2>2. rows \in SUBSET Ids /\ rows # {} /\ Ids \subseteq Int
    BY <1>a, <2>1 DEF TypeOK, TrimInv, Ids
  <2>3. IsFiniteSet(rows)
    BY <1>a, RowsFinite
  <2>4. Max(rows) \in rows /\ \A x \in rows : x <= Max(rows)
    BY <2>2, <2>3, MaxIs
  <2>5. rows' \subseteq rows /\ Max(rows) \in rows' /\ \A x \in rows' : x > Max(rows) - Retention
    <3>1. Retention > 0 /\ Retention \in Int /\ Max(rows) \in Int
      <4>1. Retention > 0 /\ Retention \in Int
        BY SizesAssumption
      <4>2. Max(rows) \in Int
        BY <2>2, <2>4
      <4>3. QED
        BY <4>1, <4>2
    <3>2. QED
      BY <1>a, <2>1, <2>4, <3>1 DEF Newest
  <2>6. TypeOK'
    BY <1>a, <2>1, <2>2, <2>5 DEF TypeOK
  <2>7. BelowInv' /\ NewInv' /\ TrimInv'
    BY <1>a, <2>1, <2>5 DEF BelowInv, NewInv, TrimInv
  <2>8. Retained'
    <3>1. Max(rows') \in rows' /\ \A x \in rows' : x <= Max(rows')
      <4>1. rows' \in SUBSET Int /\ rows' # {} /\ IsFiniteSet(rows')
        BY <2>2, <2>3, <2>5, FS_Subset
      <4>2. QED
        BY <4>1, MaxIs
    <3>2. Max(rows') = Max(rows)
      <4>1. Max(rows') \in Int /\ Max(rows) \in Int
        BY <2>2, <2>4, <2>5, <3>1
      <4>2. Max(rows') <= Max(rows) /\ Max(rows) <= Max(rows')
        BY <2>4, <2>5, <3>1
      <4>3. QED
        BY <4>1, <4>2
    <3>3. QED
      BY <2>5, <3>2 DEF Retained
  <2>9. QED
    BY <1>a, <2>1, <2>6, <2>7, <2>8 DEF LogInv, OnceInv
<1>12. CASE TrimFails
  <2>1. /\ trimming /\ trimming' = FALSE /\ mustWarn' = TRUE /\ faults' \in 0..MaxFaults
        /\ UNCHANGED <<logVars, rows, untrimmed, pos, holding, skipped>>
    BY <1>12, <1>a DEF TrimFails, TypeOK
  <2>2. TypeOK'
    BY <1>a, <2>1 DEF TypeOK
  <2>3. QED
    BY <1>a, <2>1, <2>2 DEF LogInv, BelowInv, OnceInv, NewInv, TrimInv, Retained
<1>13. QED
  BY <1>2, <1>3, <1>4, <1>5, <1>6, <1>7, <1>8, <1>9, <1>10, <1>11, <1>12
     DEF Next, Warn, Store, Drawing

(* In a boot that learnt the highest id stored no insert fails on its key; *)
(* and once a trim comes through the table holds none but the newest       *)
(* Retention ids, over any number of restarts, lags and failed inserts and *)
(* trims (next_event_id, advance_event_id, EventStore::persist, max_id).   *)
THEOREM StoreInvHolds == Spec => []StoreInv
<1>1. LogInv => StoreInv
  <2> SUFFICES ASSUME LogInv, ~ misnumbered PROVE NoIdCollision
    BY DEF LogInv, StoreInv, NoIdCollision
  <2>1. rows \subseteq Ids /\ NoId \notin rows /\ nextId \in Int
    <3>1. rows \subseteq Ids /\ nextId \in 1..MaxId + 1
      BY DEF LogInv, TypeOK
    <3>2. NoId \notin rows
      BY <3>1, IdsAreNumbers, Zenon
    <3>3. nextId \in Int
      BY <3>1, SizesAssumption
    <3>4. QED
      BY <3>1, <3>2, <3>3
  <2>2. holding \notin rows
    BY <2>1 DEF LogInv, NewInv
  <2>3. \A x \in Range(drawn) : x \notin rows
    BY DEF LogInv, NewInv, Range, TypeOK, Drawing
  <2>4. \A x \in nextId..MaxId : x \notin rows
    BY <2>1, SizesAssumption DEF LogInv, BelowInv, Ids
  <2>5. QED
    BY <2>2, <2>3, <2>4 DEF NoIdCollision, LogInv, NewInv
<1>2. QED
  BY <1>1, LogInit, LogNext, PTL DEF Spec

-----------------------------------------------------------------------------
(* The n-th of a finite set: a number's rank in the set, how many of it    *)
(* are no larger, tells the numbers apart and takes every value.           *)
LEMMA AscendingIs ==
  ASSUME NEW S \in SUBSET Int, IsFiniteSet(S)
  PROVE  /\ Cardinality(S) \in Nat
         /\ Ascending(S) \in [1..Cardinality(S) -> S]
         /\ \A i, j \in 1..Cardinality(S) : i < j => Ascending(S)[i] < Ascending(S)[j]
         /\ \A x \in S : \E i \in 1..Cardinality(S) : Ascending(S)[i] = x
<1> DEFINE UpTo(x) == {y \in S : y <= x}
           n == Cardinality(S)
           rank == [x \in S |-> Cardinality(UpTo(x))]
           A == Ascending(S)
<1>1. n \in Nat
  BY FS_CardinalityType
<1>2. ASSUME NEW x \in S
      PROVE  UpTo(x) \in SUBSET S /\ IsFiniteSet(UpTo(x)) /\ rank[x] \in 1..n
  <2>1. UpTo(x) \in SUBSET S
    OBVIOUS
  <2>2. IsFiniteSet(UpTo(x)) /\ Cardinality(UpTo(x)) <= n
    BY <2>1, FS_Subset
  <2>3. {x} \in SUBSET UpTo(x)
    OBVIOUS
  <2>4. Cardinality({x}) <= Cardinality(UpTo(x)) /\ Cardinality({x}) = 1
    BY <2>2, <2>3, FS_Subset, FS_Singleton
  <2>5. Cardinality(UpTo(x)) \in Nat
    BY <2>2, FS_CardinalityType
  <2>6. rank[x] = Cardinality(UpTo(x))
    OBVIOUS
  <2> HIDE DEF UpTo, rank, n
  <2>7. QED
    BY <1>1, <2>1, <2>2, <2>4, <2>5, <2>6
<1>3. ASSUME NEW x \in S, NEW z \in S, x < z PROVE rank[x] < rank[z]
  <2>1. UpTo(x) \in SUBSET UpTo(z) /\ z \in UpTo(z) /\ z \notin UpTo(x)
    <3>1. x \in Int /\ z \in Int /\ \A y \in S : y \in Int
      OBVIOUS
    <3>2. \A y \in S : y <= x => y <= z
      BY <1>3, <3>1
    <3>3. z <= z /\ ~ (z <= x)
      BY <1>3, <3>1
    <3>4. QED
      BY <3>2, <3>3
  <2>2. /\ Cardinality(UpTo(x)) <= Cardinality(UpTo(z))
        /\ Cardinality(UpTo(z)) = Cardinality(UpTo(x)) => UpTo(z) = UpTo(x)
    BY <1>2, <2>1, FS_Subset
  <2>3. rank[x] = Cardinality(UpTo(x)) /\ rank[z] = Cardinality(UpTo(z))
    OBVIOUS
  <2>4. rank[x] \in 1..n /\ rank[z] \in 1..n
    BY <1>2
  <2> HIDE DEF UpTo, rank, n
  <2>5. rank[x] # rank[z] /\ rank[x] <= rank[z]
    BY <2>1, <2>2, <2>3
  <2>6. QED
    BY <1>1, <2>4, <2>5
<1>4. rank \in Injection(S, 1..n)
  <2>1. rank \in [S -> 1..n]
    BY <1>2
  <2>2. ASSUME NEW x \in S, NEW z \in S, x # z PROVE rank[x] # rank[z]
    <3> HIDE DEF rank, n
    <3>1. x < z \/ z < x
      BY <2>2
    <3>2. rank[x] \in 1..n /\ rank[z] \in 1..n
      BY <1>2
    <3>3. QED
      BY <1>3, <3>1, <3>2
  <2> HIDE DEF rank, n
  <2>3. QED
    BY <2>1, <2>2 DEF Injection, IsInjective
<1>5. rank \in Surjection(S, 1..n)
  <2>1. IsFiniteSet(1..n) /\ Cardinality(1..n) = n
    BY <1>1, FS_Interval
  <2> HIDE DEF rank
  <2>2. QED
    BY <1>4, <2>1, FS_Injection
<1>6. ASSUME NEW i \in 1..n PROVE A[i] \in S /\ rank[A[i]] = i
  <2>1. \E x \in S : rank[x] = i
    <3> HIDE DEF rank, n
    <3>1. QED
      BY <1>5 DEF Surjection
  <2>2. \E x \in S : Cardinality(UpTo(x)) = i
    BY <2>1
  <2>3. A[i] = CHOOSE x \in S : Cardinality(UpTo(x)) = i
    BY DEF Ascending
  <2>4. A[i] \in S /\ Cardinality(UpTo(A[i])) = i
    <3> HIDE DEF UpTo, A
    <3>1. QED
      BY <2>2, <2>3, Zenon
  <2>5. QED
    BY <2>4
<1>7. A \in [1..n -> S]
  <2>1. \A i \in 1..n : A[i] \in S
    BY <1>6
  <2> DEFINE pick(i) == CHOOSE x \in S : Cardinality({y \in S : y <= x}) = i
  <2>2. A = [i \in 1..n |-> pick(i)]
    BY Zenon DEF Ascending
  <2>3. A = [i \in 1..n |-> A[i]]
    <3> HIDE DEF pick, A, n
    <3>1. QED
      BY <2>2, Zenon
  <2> HIDE DEF A, n
  <2>4. QED
    BY <2>1, <2>3
<1> HIDE DEF rank, n, A
<1>8. ASSUME NEW i \in 1..n, NEW j \in 1..n, i < j PROVE A[i] < A[j]
  <2>1. A[i] \in Int /\ A[j] \in Int /\ rank[A[i]] = i /\ rank[A[j]] = j
    BY <1>6
  <2>2. A[i] # A[j]
    BY <1>8, <2>1
  <2>3. ~ (A[j] < A[i])
    BY <1>3, <1>6, <1>8, <2>1
  <2>4. QED
    BY <2>1, <2>2, <2>3
<1>9. ASSUME NEW x \in S PROVE \E i \in 1..n : A[i] = x
  <2>1. rank[x] \in 1..n
    BY <1>2
  <2>2. A[rank[x]] \in S /\ rank[A[rank[x]]] = rank[x]
    BY <1>6, <2>1
  <2>3. A[rank[x]] = x
    BY <1>4, <2>2 DEF Injection, IsInjective
  <2>4. QED
    BY <2>1, <2>3
<1>10. QED
  BY <1>1, <1>7, <1>8, <1>9 DEF n, A

(* What the store answers to "since" and to "recent": stored ids in order, *)
(* the first page after the given one without a gap, or the last page.     *)
Page(r) ==
  /\ r \in Seq(rows)
  /\ Len(r) <= Backfill
  /\ \A i, j \in 1..Len(r) : i < j => r[i] < r[j]

LEMMA ReplayIs ==
  ASSUME TypeOK, NEW since \in Ids \cup {NoId}
  PROVE  LET r == Replay(since)
         IN /\ Page(r)
            /\ since # NoId => \A x \in rows : x > since =>
                 \/ \E i \in 1..Len(r) : r[i] = x
                 \/ \A i \in 1..Len(r) : r[i] < x
            /\ since = NoId => \A x \in rows :
                 \/ \E i \in 1..Len(r) : r[i] = x
                 \/ Len(r) = Backfill /\ \A i \in 1..Len(r) : r[i] > x
<1> DEFINE S == IF since = NoId THEN rows ELSE {i \in rows : i > since}
           n == Cardinality(S)
           A == Ascending(S)
           r == Replay(since)
<1>1. S \in SUBSET rows /\ S \in SUBSET Int /\ IsFiniteSet(S)
  <2>1. S \in SUBSET rows
    OBVIOUS
  <2>2. rows \subseteq Int
    BY SizesAssumption DEF TypeOK, Ids
  <2> HIDE DEF S
  <2>3. QED
    BY <2>1, <2>2, RowsFinite
<1> HIDE DEF S
<1>2. /\ n \in Nat /\ A \in [1..n -> S]
      /\ \A i, j \in 1..n : i < j => A[i] < A[j]
      /\ \A x \in S : \E i \in 1..n : A[i] = x
  BY <1>1, AscendingIs
<1>3. Backfill \in Nat \ {0} /\ Len(A) = n /\ A \in Seq(S)
  <2>1. Backfill \in Nat \ {0}
    BY SizesAssumption
  <2> HIDE DEF A, n
  <2>2. QED
    BY <1>2, <2>1
<1>4. \A i \in 1..n : A[i] \in S /\ A[i] \in rows /\ A[i] \in Int
  BY <1>1, <1>2
<1>5. CASE since = NoId
  <2> DEFINE m == Max({1, n - Backfill + 1})
             k == n - m + 1
  <2>1. S = rows /\ r = SubSeq(A, m, n)
    BY <1>3, <1>5 DEF S, Replay, LastOf
  <2>2. m \in {1, n - Backfill + 1} /\ 1 <= m /\ n - Backfill + 1 <= m /\ m \in Int
    <3>1. n - Backfill + 1 \in Int /\ 1 \in Int
      BY <1>2, <1>3
    <3>2. m \in {1, n - Backfill + 1} /\ 1 <= m /\ n - Backfill + 1 <= m
      BY <3>1, MaxOfTwo
    <3> HIDE DEF n, m
    <3>3. QED
      BY <3>1, <3>2
  <2> HIDE DEF A, n, m, r
  <2>3. n \in Int /\ m \in Int /\ \A i \in m..n : A[i] \in rows
    <3>1. \A i \in m..n : i \in 1..n
      BY <1>2, <2>2
    <3>2. QED
      BY <1>2, <1>4, <2>2, <3>1
  <2>4. /\ r \in Seq(rows) /\ Len(r) = (IF m <= n THEN k ELSE 0)
        /\ \A i \in 1..k : r[i] = A[m + i - 1]
    BY <2>1, <2>3, SubSeqProperties
  <2>5. m <= n + 1 /\ k \in Nat /\ k <= Backfill /\ Len(r) = k
    BY <1>2, <1>3, <2>2, <2>4
  <2>6. Page(r)
    <3>1. \A i, j \in 1..k : i < j => m + i - 1 \in 1..n /\ m + j - 1 \in 1..n
                                    /\ m + i - 1 < m + j - 1
      BY <1>2, <2>2
    <3> HIDE DEF k
    <3>2. \A i, j \in 1..k : i < j => r[i] < r[j]
      BY <1>2, <2>4, <3>1
    <3>3. QED
      BY <2>4, <2>5, <3>2 DEF Page
  <2>7. ASSUME NEW x \in rows, ~ \E i \in 1..Len(r) : r[i] = x
        PROVE  Len(r) = Backfill /\ \A i \in 1..Len(r) : r[i] > x
    <3>1. PICK e \in 1..n : A[e] = x
      BY <1>2, <2>1
    <3>2. e < m
      <4>1. SUFFICES ASSUME e >= m PROVE FALSE
        BY <1>2, <2>2, <3>1
      <4>2. e - m + 1 \in 1..k /\ m + (e - m + 1) - 1 = e
        BY <1>2, <2>2, <4>1
      <4> HIDE DEF k
      <4>3. r[e - m + 1] = x
        BY <2>4, <3>1, <4>2
      <4>4. QED
        BY <2>5, <2>7, <4>2, <4>3
    <3>3. m = n - Backfill + 1 /\ k = Backfill
      BY <1>2, <1>3, <2>2, <3>2
    <3>4. \A i \in 1..k : m + i - 1 \in 1..n /\ e < m + i - 1
      BY <1>2, <2>2, <3>2
    <3> HIDE DEF k
    <3>5. \A i \in 1..k : r[i] > x
      <4>1. \A i \in 1..k : A[e] < A[m + i - 1] /\ r[i] = A[m + i - 1]
        BY <1>2, <2>4, <3>4
      <4>2. \A i \in 1..k : A[m + i - 1] \in Int
        BY <1>4, <3>4
      <4>3. A[e] \in Int
        BY <1>4
      <4>4. QED
        BY <3>1, <4>1, <4>2, <4>3
    <3>6. QED
      BY <2>5, <3>3, <3>5
  <2>8. QED
    BY <1>5, <2>6, <2>7 DEF r
<1>6. CASE since # NoId
  <2> DEFINE k == Min({Backfill, n})
  <2>1. S = {i \in rows : i > since} /\ r = SubSeq(A, 1, k)
    BY <1>3, <1>6 DEF S, Replay, FirstOf
  <2>2. k \in 0..n /\ k <= Backfill
    <3>1. Backfill \in Int /\ n \in Int
      BY <1>2, <1>3
    <3>2. k \in {Backfill, n} /\ k <= Backfill /\ k <= n
      BY <3>1, MinOfTwo
    <3> HIDE DEF n, k
    <3>3. QED
      BY <1>2, <1>3, <3>2
  <2> HIDE DEF A, n, k, r
  <2>3. k \in Int /\ 1 \in Int /\ \A i \in 1..k : i \in 1..n /\ A[i] \in rows
    BY <1>2, <1>4, <2>2
  <2>4. /\ r \in Seq(rows) /\ Len(r) = (IF 1 <= k THEN k - 1 + 1 ELSE 0)
        /\ \A i \in 1..k - 1 + 1 : r[i] = A[1 + i - 1]
    BY <2>1, <2>3, SubSeqProperties
  <2>5. Len(r) = k /\ \A i \in 1..k : r[i] = A[i]
    <3>1. k - 1 + 1 = k /\ \A i \in 1..k : 1 + i - 1 = i
      BY <1>2, <2>2
    <3>2. k \in Nat
      BY <1>2, <2>2
    <3>3. QED
      BY <2>4, <3>1, <3>2
  <2>6. Page(r)
    BY <1>2, <2>2, <2>3, <2>4, <2>5 DEF Page
  <2>7. ASSUME NEW x \in rows, x > since, ~ \E i \in 1..Len(r) : r[i] = x
        PROVE  \A i \in 1..Len(r) : r[i] < x
    <3>1. PICK e \in 1..n : A[e] = x
      BY <1>2, <2>1, <2>7
    <3>2. e > k
      BY <1>2, <2>2, <2>5, <2>7, <3>1
    <3>3. \A i \in 1..k : i \in 1..n /\ i < e
      BY <1>2, <2>2, <3>2
    <3>4. QED
      BY <1>2, <2>5, <3>1, <3>3
  <2>8. QED
    BY <1>6, <2>6, <2>7 DEF r
<1>7. QED
  BY <1>5, <1>6

-----------------------------------------------------------------------------
(* The client: its record's type, and that history and live part start     *)
(* where the connection does.                                              *)
Client ==
  [at : {"away", "subscribed", "streaming"}, last : Ids \cup {NoId}, since : Ids \cup {NoId},
   from : Nat, pos : Nat, backlog : Seq(Ids), replayed : Nat, got : Seq(Ids), told : BOOLEAN]

ClientInv ==
  /\ client \in Client
  /\ client.from <= client.pos /\ client.pos <= Len(sent)
  /\ client.at # "streaming" =>
       client.backlog = <<>> /\ client.got = <<>> /\ client.replayed = 0
  /\ client.at = "subscribed" => client.pos = client.from

(* What was delivered came out of the replay, up to the last replayed id,  *)
(* or from the part of the channel the client is past.                     *)
FreshInv ==
  /\ \A i, j \in 1..Len(client.got) : client.got[i] = client.got[j] => i = j
  /\ \A i, j \in 1..Len(client.backlog) : i < j => client.backlog[i] < client.backlog[j]
  /\ \A i \in 1..Len(client.got) : \A j \in 1..Len(client.backlog) :
       client.got[i] # client.backlog[j]
  /\ \A j \in 1..Len(client.backlog) : client.backlog[j] <= client.replayed
  /\ \A i \in 1..Len(client.got) :
       client.got[i] <= client.replayed \/ \E k \in 1..client.pos : client.got[i] = sent[k]

(* Nothing but a restart takes an event back.                              *)
SentGrows ==
  /\ Len(sent) <= Len(sent')
  /\ \A i \in 1..Len(sent) : sent'[i] = sent[i]

LEMMA SentOnlyGrows ==
  ASSUME TypeOK, [Next]_vars, ~ Restart
  PROVE  SentGrows
<1>1. sent \in Seq(Ids) /\ Len(sent) \in Nat
  BY DEF TypeOK
<1>2. CASE UNCHANGED sent
  BY <1>1, <1>2 DEF SentGrows
<1>3. ASSUME NEW t \in Drawing, Emit(t) PROVE SentGrows
  <2>1. drawn[t] \in Ids /\ sent' = Append(sent, drawn[t])
    BY <1>3 DEF Emit, TypeOK, Drawing
  <2>2. QED
    BY <1>1, <2>1 DEF SentGrows
<1>4. QED
  BY <1>2, <1>3 DEF Next, Warn, Store, Stream, Subscribe, ReadBackfill, ReadFails,
       SendHistory, SendLive, SendLagged, Disconnect, Receive, ReceiveLagged, Insert,
       InsertFails, Trim, TrimFails, NextEventId, Drawing, vars, logVars, perVars

(* A client that is away has no connection to hold anything against.       *)
LEMMA AwayFresh ==
  ASSUME NEW last \in Ids \cup {NoId}, client' = Away(last), TypeOK'
  PROVE  ClientInv' /\ FreshInv'
<1>1. /\ client'.at = "away" /\ client'.from = 0 /\ client'.pos = 0
      /\ client'.backlog = <<>> /\ client'.got = <<>> /\ client'.replayed = 0
  BY DEF Away
<1>2. <<>> \in Seq(Ids) /\ NoId \in Ids \cup {NoId} /\ 0 \in Nat /\ FALSE \in BOOLEAN
  OBVIOUS
<1>3. client' \in Client
  BY <1>2 DEF Client, Away
<1>4. Len(sent') \in Nat /\ 0 <= Len(sent')
  BY DEF TypeOK
<1>5. QED
  BY <1>1, <1>3, <1>4 DEF ClientInv, FreshInv

LEMMA ClientInit == Init => ClientInv /\ FreshInv
<1> SUFFICES ASSUME Init PROVE ClientInv /\ FreshInv
  OBVIOUS
<1>1. client = Away(NoId) /\ sent = <<>>
  BY DEF Init
<1>2. /\ client.at = "away" /\ client.from = 0 /\ client.pos = 0
      /\ client.backlog = <<>> /\ client.got = <<>> /\ client.replayed = 0
  BY <1>1 DEF Away
<1>3. <<>> \in Seq(Ids) /\ NoId \in Ids \cup {NoId} /\ 0 \in Nat /\ FALSE \in BOOLEAN
  OBVIOUS
<1>4. client \in Client
  BY <1>1, <1>3 DEF Client, Away
<1>5. Len(sent) = 0
  BY <1>1
<1>6. QED
  BY <1>2, <1>4, <1>5 DEF ClientInv, FreshInv

LEMMA ClientNext ==
  ASSUME LogInv, LogInv', ClientInv, FreshInv, [Next]_vars
  PROVE  ClientInv' /\ FreshInv'
<1> DEFINE c == client
<1>a. /\ TypeOK /\ TypeOK' /\ OnceInv
      /\ sent \in Seq(Ids) /\ Len(sent) \in Nat /\ Ids \subseteq Nat
      /\ client \in Client
  BY IdsAreNumbers DEF LogInv, TypeOK, ClientInv
<1>b. /\ c.last \in Ids \cup {NoId} /\ c.since \in Ids \cup {NoId} /\ c.from \in Nat /\ c.pos \in Nat
      /\ c.backlog \in Seq(Ids) /\ c.got \in Seq(Ids) /\ c.replayed \in Nat /\ c.told \in BOOLEAN
      /\ Len(c.backlog) \in Nat /\ Len(c.got) \in Nat
  BY <1>a DEF Client
<1>1. CASE UNCHANGED client /\ ~ Restart
  <2>1. SentGrows /\ Len(sent') \in Nat
    BY <1>a, <1>1, SentOnlyGrows DEF TypeOK
  <2>2. ClientInv'
    BY <1>a, <1>b, <1>1, <2>1 DEF ClientInv, SentGrows
  <2>3. \A k \in 1..c.pos : sent'[k] = sent[k]
    BY <1>a, <1>b, <2>1 DEF ClientInv, SentGrows
  <2>4. FreshInv'
    BY <1>1, <2>3 DEF FreshInv
  <2>5. QED
    BY <2>2, <2>4
<1>2. CASE Restart \/ Disconnect
  <2>1. client' = Away(c.last)
    BY <1>2 DEF Restart, Disconnect
  <2>2. QED
    BY <1>a, <1>b, <2>1, AwayFresh
<1>3. CASE Subscribe
  <2>1. PICK since \in {NoId, c.last} :
          client' = [Away(c.last) EXCEPT !.at = "subscribed", !.since = since,
                                         !.from = Len(sent), !.pos = Len(sent)]
    BY <1>3 DEF Subscribe
  <2>2. sent' = sent
    BY <1>3 DEF Subscribe, logVars
  <2>3. client' = [at |-> "subscribed", last |-> c.last, since |-> since, from |-> Len(sent),
                   pos |-> Len(sent), backlog |-> <<>>, replayed |-> 0, got |-> <<>>,
                   told |-> FALSE]
    BY <2>1 DEF Away
  <2>4. client' \in Client
    <3>1. since \in Ids \cup {NoId} /\ <<>> \in Seq(Ids) /\ 0 \in Nat
      BY <1>b
    <3>2. QED
      BY <1>a, <1>b, <2>3, <3>1 DEF Client
  <2>5. /\ client'.at = "subscribed" /\ client'.from = Len(sent) /\ client'.pos = Len(sent)
        /\ client'.got = <<>> /\ client'.backlog = <<>> /\ client'.replayed = 0
    BY <2>3
  <2>6. QED
    BY <1>a, <2>2, <2>4, <2>5 DEF ClientInv, FreshInv
<1>4. CASE ReadBackfill
  <2> DEFINE r == Replay(c.since)
             last == IF r = <<>> THEN 0 ELSE Last(r)
  <2>1. /\ c.at = "subscribed" /\ sent' = sent
        /\ client' = [c EXCEPT !.at = "streaming", !.backlog = r, !.replayed = last]
    BY <1>4 DEF ReadBackfill, logVars
  <2>2. Page(r) /\ r \in Seq(Ids)
    <3>1. Page(r)
      BY <1>a, <1>b, ReplayIs
    <3>2. rows \subseteq Ids
      BY <1>a DEF TypeOK
    <3> HIDE DEF r
    <3>3. QED
      BY <3>1, <3>2 DEF Page
  <2> HIDE DEF r
  <2>3. last \in Nat /\ \A i \in 1..Len(r) : r[i] <= last
    <3>1. CASE r = <<>>
      BY <3>1
    <3>2. CASE r # <<>>
      <4>1. Len(r) \in Nat /\ Len(r) \in 1..Len(r) /\ last = r[Len(r)]
        BY <2>2, <3>2 DEF Last
      <4>2. \A i \in 1..Len(r) : r[i] \in Nat
        <5>1. \A i \in 1..Len(r) : r[i] \in Ids
          BY <2>2
        <5>2. QED
          BY <1>a, <5>1
      <4>3. \A i \in 1..Len(r) : i = Len(r) \/ i < Len(r)
        BY <4>1
      <4>4. QED
        BY <2>2, <4>1, <4>2, <4>3 DEF Page
    <3>3. QED
      BY <3>1, <3>2
  <2> HIDE DEF last
  <2>4. client' \in Client
    BY <1>a, <2>1, <2>2, <2>3 DEF Client
  <2>5. /\ client'.at = "streaming" /\ client'.from = c.from /\ client'.pos = c.pos
        /\ client'.got = c.got /\ client'.backlog = r /\ client'.replayed = last
    BY <1>a, <2>1 DEF Client
  <2>6. c.got = <<>>
    BY <2>1 DEF ClientInv
  <2>7. QED
    <3>1. ClientInv'
      BY <2>1, <2>4, <2>5 DEF ClientInv
    <3>2. FreshInv'
      BY <2>2, <2>3, <2>5, <2>6 DEF FreshInv, Page
    <3>3. QED
      BY <3>1, <3>2
<1>5. CASE SendHistory
  <2> DEFINE h == Head(c.backlog)
             b == Tail(c.backlog)
  <2>1. /\ c.at = "streaming" /\ c.backlog # <<>> /\ sent' = sent
        /\ client' = [Give(c, h) EXCEPT !.backlog = b]
    BY <1>5, <1>a DEF SendHistory, logVars, Give, Client
  <2>2. /\ h \in Ids /\ b \in Seq(Ids) /\ Len(b) = Len(c.backlog) - 1
        /\ \A i \in 1..Len(b) : b[i] = c.backlog[i + 1]
        /\ h = c.backlog[1] /\ Len(c.backlog) >= 1
    BY <1>b, <2>1, HeadTailProperties
  <2> HIDE DEF h, b
  <2>3. /\ client'.at = c.at /\ client'.from = c.from /\ client'.pos = c.pos
        /\ client'.got = Append(c.got, h) /\ client'.backlog = b /\ client'.replayed = c.replayed
    BY <1>a, <2>1 DEF Client, Give
  <2>4. client' \in Client
    <3>1. Append(c.got, h) \in Seq(Ids)
      BY <1>b, <2>2
    <3>2. client' = [[[c EXCEPT !.got = Append(c.got, h)] EXCEPT !.last = h] EXCEPT !.backlog = b]
      BY <2>1 DEF Give
    <3> HIDE DEF c
    <3>3. c \in Client
      BY <1>a DEF c
    <3>4. QED
      BY <2>2, <3>1, <3>2, <3>3 DEF Client
  <2>5. /\ Len(Append(c.got, h)) = Len(c.got) + 1 /\ Append(c.got, h)[Len(c.got) + 1] = h
        /\ \A i \in 1..Len(c.got) : Append(c.got, h)[i] = c.got[i]
        /\ \A i \in 1..Len(c.got) + 1 : i \in 1..Len(c.got) \/ i = Len(c.got) + 1
    <3>1. c.got \in Seq(Ids) /\ h \in Ids
      BY <1>b, <2>2
    <3>2. /\ Len(Append(c.got, h)) = Len(c.got) + 1 /\ Append(c.got, h)[Len(c.got) + 1] = h
          /\ \A i \in 1..Len(c.got) : Append(c.got, h)[i] = c.got[i]
      BY <3>1, AppendProperties
    <3>3. Len(c.got) \in Nat
      BY <3>1
    <3>4. \A i \in 1..Len(c.got) + 1 : i \in 1..Len(c.got) \/ i = Len(c.got) + 1
      <4> HIDE DEF c
      <4>1. QED
        BY <3>3
    <3>5. QED
      BY <3>2, <3>4
  <2>6. /\ \A i \in 1..Len(b) : i + 1 \in 1..Len(c.backlog) /\ 1 < i + 1
        /\ 1 \in 1..Len(c.backlog) /\ Len(b) \in Nat
        /\ \A i, j \in 1..Len(b) : i < j => i + 1 < j + 1
    BY <1>b, <2>2
  <2>7. \A i \in 1..Len(b) : h < b[i] /\ h # b[i]
    <3>1. \A i \in 1..Len(b) : h < b[i]
      BY <2>2, <2>6 DEF FreshInv
    <3>2. h \in Nat /\ \A i \in 1..Len(b) : b[i] \in Nat
      <4>1. h \in Ids /\ \A i \in 1..Len(b) : b[i] \in Ids
        BY <2>2
      <4>2. QED
        BY <1>a, <4>1
    <3>3. QED
      BY <3>1, <3>2
  <2>8. FreshInv'
    <3> DEFINE g == Append(c.got, h)
    <3>1. \A i, j \in 1..Len(g) : g[i] = g[j] => i = j
      <4>1. \A i \in 1..Len(c.got) : c.got[i] # h
        BY <2>2, <2>6 DEF FreshInv
      <4>2. QED
        BY <2>5, <4>1 DEF FreshInv
    <3>2. \A i, j \in 1..Len(b) : i < j => b[i] < b[j]
      BY <2>2, <2>6 DEF FreshInv
    <3>3. \A i \in 1..Len(g) : \A j \in 1..Len(b) : g[i] # b[j]
      BY <2>2, <2>5, <2>6, <2>7 DEF FreshInv
    <3>4. \A j \in 1..Len(b) : b[j] <= c.replayed
      BY <2>2, <2>6 DEF FreshInv
    <3>5. \A i \in 1..Len(g) : g[i] <= c.replayed \/ \E k \in 1..c.pos : g[i] = sent[k]
      BY <2>2, <2>5, <2>6 DEF FreshInv
    <3> HIDE DEF g
    <3>6. client'.got = g
      BY <2>3 DEF g
    <3>7. QED
      BY <2>1, <2>3, <3>1, <3>2, <3>3, <3>4, <3>5, <3>6 DEF FreshInv
  <2>9. ClientInv'
    BY <2>1, <2>3, <2>4 DEF ClientInv
  <2>10. QED
    BY <2>8, <2>9
<1>6. CASE SendLive
  <2> DEFINE id == sent[c.pos + 1]
             moved == [c EXCEPT !.pos = @ + 1]
  <2>1. /\ c.at = "streaming" /\ c.backlog = <<>> /\ c.pos < Len(sent) /\ sent' = sent
        /\ client' = IF id <= c.replayed THEN moved ELSE Give(moved, id)
    BY <1>6 DEF SendLive, logVars
  <2>2. id \in Ids /\ id \in Nat /\ c.pos + 1 \in 1..Len(sent)
    BY <1>a, <1>b, <2>1
  <2> HIDE DEF id
  <2>3. CASE id <= c.replayed
    <3>1. client' = [c EXCEPT !.pos = c.pos + 1]
      BY <2>1, <2>3
    <3>2. /\ client'.at = c.at /\ client'.from = c.from /\ client'.pos = c.pos + 1
          /\ client'.got = c.got /\ client'.backlog = c.backlog /\ client'.replayed = c.replayed
      BY <1>a, <3>1 DEF Client
    <3>3. client' \in Client
      <4>1. c.pos + 1 \in Nat /\ c \in Client
        BY <1>a, <1>b
      <4> HIDE DEF c
      <4>2. QED
        BY <3>1, <4>1 DEF Client
    <3>4. ClientInv'
      BY <1>b, <2>1, <2>2, <3>2, <3>3 DEF ClientInv
    <3>5. FreshInv'
      <4>1. \A k \in 1..c.pos : k \in 1..c.pos + 1
        BY <1>b
      <4>2. QED
        BY <2>1, <3>2, <4>1 DEF FreshInv
    <3>6. QED
      BY <3>4, <3>5
  <2>4. CASE ~ (id <= c.replayed)
    <3> DEFINE g == Append(c.got, id)
    <3>1. client' = Give(moved, id)
      BY <2>1, <2>4
    <3>2. /\ client'.at = c.at /\ client'.from = c.from /\ client'.pos = c.pos + 1
          /\ client'.got = g /\ client'.backlog = c.backlog /\ client'.replayed = c.replayed
      BY <1>a, <3>1 DEF Client, Give
    <3>3. client' \in Client
      <4>1. g \in Seq(Ids) /\ c.pos + 1 \in Nat
        BY <1>b, <2>2
      <4>2. QED
        BY <1>a, <2>2, <3>1, <4>1 DEF Client, Give
    <3>4. ClientInv'
      BY <1>b, <2>1, <2>2, <3>2, <3>3 DEF ClientInv
    <3>5. /\ Len(g) = Len(c.got) + 1 /\ g[Len(c.got) + 1] = id
          /\ \A i \in 1..Len(c.got) : g[i] = c.got[i]
          /\ \A i \in 1..Len(c.got) + 1 : i \in 1..Len(c.got) \/ i = Len(c.got) + 1
      BY <1>b, <2>2
    <3>6. \A i \in 1..Len(c.got) : c.got[i] # id
      <4> SUFFICES ASSUME NEW i \in 1..Len(c.got), c.got[i] = id PROVE FALSE
        OBVIOUS
      <4>1. PICK k \in 1..c.pos : c.got[i] = sent[k]
        BY <2>4 DEF FreshInv
      <4>2. k \in 1..Len(sent) /\ k # c.pos + 1
        <5>1. Len(sent) \in Nat /\ c.pos \in Nat /\ c.pos < Len(sent)
          BY <1>a, <1>b, <2>1
        <5> HIDE DEF c
        <5>2. QED
          BY <5>1
      <4>3. sent[k] = sent[c.pos + 1]
        BY <4>1 DEF id
      <4>4. QED
        BY <1>a, <2>2, <4>2, <4>3 DEF OnceInv
    <3> HIDE DEF g
    <3>7. FreshInv'
      <4>1. \A i, j \in 1..Len(g) : g[i] = g[j] => i = j
        BY <3>5, <3>6 DEF FreshInv
      <4>2. Len(c.backlog) = 0
        BY <2>1
      <4>3. \A i \in 1..Len(g) : g[i] <= c.replayed \/ \E k \in 1..c.pos + 1 : g[i] = sent[k]
        <5>1. \A k \in 1..c.pos : k \in 1..c.pos + 1
          BY <1>b
        <5>2. c.pos + 1 \in 1..c.pos + 1
          BY <1>b
        <5>3. id = sent[c.pos + 1]
          BY DEF id
        <5>4. QED
          BY <3>5, <5>1, <5>2, <5>3 DEF FreshInv
      <4>4. QED
        BY <2>1, <3>2, <4>1, <4>2, <4>3 DEF FreshInv
    <3>8. QED
      BY <3>4, <3>7
  <2>5. QED
    BY <2>3, <2>4
<1>7. CASE SendLagged
  <2>1. /\ c.at = "streaming" /\ c.pos < Oldest /\ sent' = sent
        /\ client' = [c EXCEPT !.pos = Oldest, !.told = TRUE]
    BY <1>7 DEF SendLagged, logVars
  <2>2. Oldest \in 0..Len(sent)
    BY <1>a, OldestIs
  <2> HIDE DEF c
  <2>3. /\ client'.at = c.at /\ client'.from = c.from /\ client'.pos = Oldest
        /\ client'.got = c.got /\ client'.backlog = c.backlog /\ client'.replayed = c.replayed
    BY <1>a, <2>1 DEF Client, c
  <2>4. client' \in Client
    <3>1. Oldest \in Nat
      BY <1>a, <2>2
    <3>2. QED
      BY <1>a, <2>1, <3>1 DEF Client, c
  <2>5. ClientInv'
    BY <1>a, <1>b, <2>1, <2>2, <2>3, <2>4 DEF ClientInv, c
  <2>6. FreshInv'
    <3>1. \A k \in 1..c.pos : k \in 1..Oldest
      BY <1>a, <1>b, <2>1, <2>2
    <3>2. QED
      BY <2>1, <2>3, <3>1 DEF FreshInv, c
  <2>7. QED
    BY <2>5, <2>6
<1>8. CASE UNCHANGED vars
  BY <1>1, <1>2, <1>8 DEF vars
<1>9. CASE ReadFails
  <2>1. /\ c.at = "subscribed" /\ sent' = sent
        /\ client' = [c EXCEPT !.at = "streaming"]
    BY <1>9 DEF ReadFails, logVars
  <2>2. client' \in Client
    BY <1>a, <2>1 DEF Client
  <2>3. /\ client'.from = c.from /\ client'.pos = c.pos /\ client'.at = "streaming"
        /\ client'.got = c.got /\ client'.backlog = c.backlog /\ client'.replayed = c.replayed
    BY <1>a, <2>1 DEF Client
  <2>4. QED
    BY <2>1, <2>2, <2>3 DEF ClientInv, FreshInv
<1>10. QED
  BY <1>1, <1>2, <1>3, <1>4, <1>5, <1>6, <1>7, <1>8, <1>9 DEF Next, Warn, Store, Stream,
       NextEventId, Emit, Receive, ReceiveLagged, Insert, InsertFails, Trim, TrimFails

(* One connection never delivers an event twice: what the live part takes  *)
(* from the channel is past the last replayed id and was not sent before   *)
(* (events_stream's filter over history and live part).                    *)
THEOREM NeverTwiceHolds == Spec => []NeverTwice
<1>1. LogInv /\ ClientInv /\ FreshInv => NeverTwice
  <2> SUFFICES ASSUME ClientInv, FreshInv PROVE NeverTwice
    OBVIOUS
  <2>1. client.got \in Seq(Ids)
    BY DEF ClientInv, Client
  <2>2. DOMAIN client.got = 1..Len(client.got)
    BY <2>1
  <2>3. QED
    BY <2>1, <2>2 DEF NeverTwice, IsInjective, FreshInv
<1>2. QED
  BY <1>1, LogInit, LogNext, ClientInit, ClientNext, PTL DEF Spec

-----------------------------------------------------------------------------
(* An id of an earlier boot: below everything this boot drew or will draw. *)
Old(x) ==
  /\ x < nextId
  /\ \A i \in 1..Len(sent) : x < sent[i]
  /\ \A t \in Drawing : drawn[t] # NoId => x < drawn[t]

(* What the table holds is of an earlier boot or was received in this one. *)
OriginInv == \A x \in rows : Old(x) \/ \E j \in 1..pos : sent[j] = x

(* Retention higher ids were sent: the trim of the table may have it.      *)
TrimmedAway(i) == \E j \in 1..Len(sent) : sent[j] >= sent[i] + Retention

(* What became of every event the persister received.                      *)
FateInv ==
  \A i \in 1..pos :
    sent[i] \in rows \/ sent[i] \in skipped \/ sent[i] = holding \/ TrimmedAway(i)

Higher(i) == {k \in Range(sent) : k > sent[i]}

(* The reasons GapExplained gives for an event the client does not get.    *)
Cause(i) ==
  \/ \E j \in 1..i - 1 : sent[j] > sent[i]
  \/ sent[i] \in skipped
  \/ client.since # NoId /\ sent[i] <= client.since
  \/ client.since = NoId /\ Cardinality(Higher(i)) >= Backfill
  \/ TrimmedAway(i)

IsIn(x, s) == \E k \in 1..Len(s) : s[k] = x

(* The last replayed id is one of this boot or below all of them; an event *)
(* at or below it is in the history or has its reason not to be; one above *)
(* it was delivered as the client passed it.                               *)
GapInv ==
  client.at = "streaming" =>
    /\ \/ client.replayed = 0 \/ Old(client.replayed)
       \/ \E j \in 1..Len(sent) : sent[j] = client.replayed
    /\ \A i \in client.from + 1..Len(sent) :
         sent[i] <= client.replayed => IsIn(sent[i], client.got) \/ IsIn(sent[i], client.backlog) \/ Cause(i)
    /\ ~ client.told => \A i \in client.from + 1..client.pos :
         sent[i] > client.replayed => IsIn(sent[i], client.got)

(* All of it in a boot that has learnt which ids the store has.            *)
FollowInv == ~ misnumbered => OriginInv /\ FateInv /\ GapInv

LEMMA FollowInit == Init => FollowInv
<1> SUFFICES ASSUME Init PROVE FollowInv
  OBVIOUS
<1>1. rows = {} /\ pos = 0 /\ client.at = "away"
  BY DEF Init, Away
<1>2. QED
  BY <1>1 DEF FollowInv, OriginInv, FateInv, GapInv

(* The numbers the ids are, in the forms the steps below need.             *)
LEMMA LogNumbers ==
  ASSUME LogInv
  PROVE  /\ sent \in Seq(Ids) /\ Len(sent) \in Nat /\ pos \in 0..Len(sent) /\ pos \in Nat
         /\ Ids \subseteq Nat \ {0} /\ rows \subseteq Ids /\ skipped \subseteq Ids
         /\ \A i \in 1..Len(sent) : sent[i] \in Ids /\ sent[i] \in Nat /\ sent[i] > 0
         /\ nextId \in Nat /\ NoId \notin Nat
         /\ \A t \in Drawing : drawn[t] \in Ids \cup {NoId}
         /\ Retention \in Nat \ {0} /\ Backfill \in Nat \ {0} /\ Buffer \in Nat
<1>1. TypeOK
  BY DEF LogInv
<1>2. MaxId \in Nat /\ Retention \in Nat \ {0} /\ Backfill \in Nat \ {0} /\ Buffer \in Nat
  BY SizesAssumption
<1>3. Ids \subseteq Nat \ {0}
  BY <1>2 DEF Ids
<1>4. sent \in Seq(Ids) /\ Len(sent) \in Nat
  BY <1>1 DEF TypeOK
<1>5. \A i \in 1..Len(sent) : sent[i] \in Ids
  BY <1>4
<1>6. nextId \in Nat
  BY <1>1, <1>2 DEF TypeOK
<1>7. pos \in 0..Len(sent) /\ pos \in Nat
  BY <1>1, <1>4 DEF TypeOK
<1>8. \A i \in 1..Len(sent) : sent[i] \in Nat /\ sent[i] > 0
  <2>1. \A x \in Nat \ {0} : x \in Nat /\ x > 0
    OBVIOUS
  <2>2. \A i \in 1..Len(sent) : sent[i] \in Nat \ {0}
    BY <1>3, <1>5
  <2>3. QED
    BY <2>1, <2>2
<1>9. \A t \in Drawing : drawn[t] \in Ids \cup {NoId}
  BY <1>1 DEF TypeOK, Drawing
<1>10. NoId \notin Nat
  BY NamesAssumption, Zenon
<1>11. rows \subseteq Ids /\ skipped \subseteq Ids
  BY <1>1 DEF TypeOK
<1>12. QED
  BY <1>2, <1>3, <1>4, <1>5, <1>6, <1>7, <1>8, <1>9, <1>10, <1>11

(* Old ids stay old: the counter only goes up within a boot.               *)
LEMMA OldStays ==
  ASSUME LogInv, [Next]_vars, ~ Restart, NEW x \in Nat, Old(x)
  PROVE  Old(x)'
<1>a. /\ sent \in Seq(Ids) /\ Len(sent) \in Nat /\ nextId \in Nat
      /\ \A t \in Drawing : drawn[t] \in Ids \cup {NoId}
  BY LogNumbers
<1>b. drawn \in [Drawing -> Ids \cup {NoId}]
  BY DEF LogInv, TypeOK, Drawing
<1>1. CASE UNCHANGED logVars
  BY <1>1 DEF Old, logVars
<1>2. ASSUME NEW t \in Drawing, NextEventId(t) PROVE Old(x)'
  <2>1. /\ drawn' = [drawn EXCEPT ![t] = nextId] /\ nextId' = nextId + 1 /\ sent' = sent
    BY <1>2 DEF NextEventId
  <2>2. \A u \in Drawing : drawn'[u] = IF u = t THEN nextId ELSE drawn[u]
    BY <1>b, <2>1
  <2>3. x < nextId /\ x < nextId + 1
    BY <1>a DEF Old
  <2>4. QED
    BY <2>1, <2>2, <2>3 DEF Old
<1>3. ASSUME NEW t \in Drawing, Emit(t) PROVE Old(x)'
  <2>1. /\ drawn[t] # NoId /\ sent' = Append(sent, drawn[t])
        /\ drawn' = [drawn EXCEPT ![t] = NoId] /\ nextId' = nextId
    BY <1>3 DEF Emit
  <2>2. \A u \in Drawing : drawn'[u] = IF u = t THEN NoId ELSE drawn[u]
    BY <1>b, <2>1
  <2>3. drawn[t] \in Ids
    BY <1>a, <2>1
  <2>4. \A i \in 1..Len(sent') : sent'[i] = drawn[t] \/ (i \in 1..Len(sent) /\ sent'[i] = sent[i])
    <3>1. /\ Len(sent') = Len(sent) + 1 /\ sent'[Len(sent) + 1] = drawn[t]
          /\ \A i \in 1..Len(sent) : sent'[i] = sent[i]
      BY <1>a, <2>1, <2>3
    <3>2. \A i \in 1..Len(sent) + 1 : i = Len(sent) + 1 \/ i \in 1..Len(sent)
      BY <1>a
    <3> SUFFICES ASSUME NEW i \in 1..Len(sent')
                 PROVE  sent'[i] = drawn[t] \/ (i \in 1..Len(sent) /\ sent'[i] = sent[i])
      OBVIOUS
    <3>3. i \in 1..Len(sent) + 1
      BY <3>1
    <3>4. CASE i = Len(sent) + 1
      BY <3>1, <3>4
    <3>5. CASE i \in 1..Len(sent)
      BY <3>1, <3>5
    <3>6. QED
      BY <3>2, <3>3, <3>4, <3>5
  <2>5. \A i \in 1..Len(sent') : x < sent'[i]
    BY <2>1, <2>4 DEF Old
  <2>6. QED
    BY <2>1, <2>2, <2>5 DEF Old
<1>4. QED
  BY <1>1, <1>2, <1>3 DEF Next, Warn, Store, Stream, Subscribe, ReadBackfill, ReadFails, SendHistory,
       SendLive, SendLagged, Disconnect, Receive, ReceiveLagged, Insert, InsertFails, Trim, TrimFails,
       Drawing, vars, logVars, perVars

LEMMA OriginNext ==
  ASSUME LogInv, LogInv', OriginInv, [Next]_vars, ~ Restart
  PROVE  OriginInv'
<1>a. /\ sent \in Seq(Ids) /\ Len(sent) \in Nat /\ pos \in 0..Len(sent) /\ pos \in Nat
      /\ Ids \subseteq Nat /\ rows \subseteq Ids
  BY LogNumbers, IdsAreNumbers
<1>1. SentGrows
  BY SentOnlyGrows DEF LogInv
<1>2. pos' \in Nat /\ pos <= pos' /\ pos' <= Len(sent')
  <2>1. pos' \in Nat /\ pos' <= Len(sent')
    BY LogNumbers DEF LogInv, TypeOK
  <2>2. pos <= pos'
    <3>1. CASE pos' = pos
      BY <1>a, <3>1
    <3>2. CASE Receive
      BY <1>a, <3>2 DEF Receive
    <3>3. CASE ReceiveLagged
      <4>1. pos < Oldest /\ pos' = Oldest /\ Oldest \in 0..Len(sent)
        BY <3>3, OldestIs DEF ReceiveLagged, LogInv
      <4>2. QED
        BY <1>a, <4>1
    <3>4. QED
      BY <3>1, <3>2, <3>3 DEF Next, Warn, Store, Stream, Subscribe, ReadBackfill, ReadFails,
         SendHistory, SendLive, SendLagged, Disconnect, Insert, InsertFails, Trim, TrimFails, NextEventId,
         Emit, vars, perVars
  <2>3. QED
    BY <2>1, <2>2
<1>3. ASSUME NEW x \in rows PROVE Old(x)' \/ \E j \in 1..pos' : sent'[j] = x
  <2>1. x \in Nat
    BY <1>a
  <2>2. CASE Old(x)
    BY <2>1, <2>2, OldStays
  <2>3. CASE ~ Old(x)
    <3>1. PICK j \in 1..pos : sent[j] = x
      BY <2>3 DEF OriginInv
    <3>2. j \in 1..pos' /\ j \in 1..Len(sent)
      BY <1>a, <1>2
    <3>3. QED
      BY <1>1, <3>1, <3>2 DEF SentGrows
  <2>4. QED
    BY <2>2, <2>3
<1>4. \A x \in rows' : x \in rows \/ (pos' = pos /\ sent' = sent /\ pos \in 1..Len(sent) /\ x = sent[pos])
  <2>1. CASE Insert
    <3>1. rows' = rows \cup {holding} /\ pos' = pos /\ sent' = sent /\ holding # NoId
      BY <2>1 DEF Insert, logVars
    <3>2. pos \in 1..Len(sent) /\ holding = sent[pos]
      BY <3>1 DEF LogInv, NewInv
    <3>3. QED
      BY <3>1, <3>2
  <2>2. CASE rows' \subseteq rows
    BY <2>2
  <2>4. Trim => rows' \subseteq rows
    BY DEF Trim, Newest
  <2>3. QED
    BY <2>1, <2>2, <2>4 DEF Next, Warn, Store, Stream, Subscribe, ReadBackfill, ReadFails,
       SendHistory, SendLive, SendLagged, Disconnect, Receive, ReceiveLagged, InsertFails, TrimFails,
       NextEventId, Emit, vars, perVars
<1>5. QED
  <2> SUFFICES ASSUME NEW x \in rows' PROVE Old(x)' \/ \E j \in 1..pos' : sent'[j] = x
    BY DEF OriginInv
  <2>1. CASE x \in rows
    BY <1>3, <2>1
  <2>2. CASE x \notin rows
    <3>1. pos' = pos /\ sent' = sent /\ pos \in 1..Len(sent) /\ x = sent[pos]
      BY <1>4, <2>2
    <3>2. pos \in 1..pos'
      BY <1>a, <3>1
    <3>3. QED
      BY <3>1, <3>2
  <2>3. QED
    BY <2>1, <2>2

(* Reasons stay reasons while the boot and the connection last.            *)
LEMMA TrimmedStays ==
  ASSUME LogInv, LogInv', SentGrows, NEW i \in 1..Len(sent), TrimmedAway(i)
  PROVE  TrimmedAway(i)'
<1>1. PICK j \in 1..Len(sent) : sent[j] >= sent[i] + Retention
  BY DEF TrimmedAway
<1>2. Len(sent) \in Nat
  BY LogNumbers
<1>3. Len(sent') \in Nat
  BY DEF LogInv, TypeOK
<1>4. j \in 1..Len(sent') /\ sent'[j] = sent[j] /\ sent'[i] = sent[i]
  BY <1>2, <1>3 DEF SentGrows
<1>5. QED
  BY <1>1, <1>4 DEF TrimmedAway

LEMMA FateNext ==
  ASSUME LogInv, LogInv', OriginInv, FateInv, [Next]_vars, ~ Restart
  PROVE  FateInv'
<1>a. /\ sent \in Seq(Ids) /\ Len(sent) \in Nat /\ pos \in 0..Len(sent) /\ pos \in Nat
      /\ Ids \subseteq Nat /\ rows \subseteq Ids /\ Len(sent') \in Nat
  BY LogNumbers, IdsAreNumbers DEF LogInv, TypeOK
<1>2. CASE UNCHANGED perVars
  <2>1. SentGrows /\ pos' = pos /\ rows' = rows /\ skipped' = skipped /\ holding' = holding
    BY <1>2, SentOnlyGrows DEF LogInv, perVars
  <2>2. ASSUME NEW i \in 1..pos
        PROVE  sent'[i] \in rows \/ sent'[i] \in skipped \/ sent'[i] = holding \/ TrimmedAway(i)'
    <3>1. i \in 1..Len(sent) /\ sent'[i] = sent[i]
      BY <1>a, <2>1 DEF SentGrows
    <3>2. QED
      BY <2>1, <3>1, TrimmedStays DEF FateInv
  <2>3. QED
    BY <2>1, <2>2 DEF FateInv
<1>3. ASSUME sent' = sent, pos' = pos, rows \subseteq rows', skipped \subseteq skipped',
             holding \in rows' \cup skipped' \/ holding' = holding
      PROVE  FateInv'
  BY <1>3 DEF FateInv, TrimmedAway
<1>4. ASSUME NEW t \in Drawing, NextEventId(t) PROVE FateInv'
  BY <1>3, <1>4 DEF NextEventId
<1>5. CASE Receive
  <2>1. holding = NoId /\ pos' = pos + 1 /\ holding' = sent[pos + 1] /\ sent' = sent /\ rows' = rows
        /\ skipped' = skipped
    BY <1>5 DEF Receive, PersisterIdle, logVars
  <2>2. ASSUME NEW i \in 1..pos + 1
        PROVE  sent[i] \in rows \/ sent[i] \in skipped \/ sent[i] = sent[pos + 1] \/ TrimmedAway(i)
    <3>1. i \in 1..pos \/ i = pos + 1
      BY <1>a
    <3>2. \A k \in 1..pos : sent[k] # NoId
      <4>1. \A k \in 1..pos : k \in 1..Len(sent)
        BY <1>a
      <4>2. QED
        BY <4>1, LogNumbers
    <3>3. QED
      BY <2>1, <3>1, <3>2 DEF FateInv
  <2>3. QED
    BY <2>1, <2>2 DEF FateInv, TrimmedAway
<1>6. CASE ReceiveLagged
  <2>1. /\ pos < Oldest /\ pos' = Oldest /\ sent' = sent /\ rows' = rows /\ holding' = holding
        /\ skipped' = skipped \cup {sent[i] : i \in pos + 1..Oldest}
    BY <1>6 DEF ReceiveLagged, logVars
  <2>2. Oldest \in 0..Len(sent)
    BY OldestIs DEF LogInv
  <2>3. \A i \in 1..Oldest : i \in 1..pos \/ i \in pos + 1..Oldest
    BY <1>a, <2>2
  <2>4. QED
    BY <2>1, <2>3 DEF FateInv, TrimmedAway
<1>7. CASE Trim
  <2>1. /\ trimming /\ rows' = Newest(rows)
        /\ sent' = sent /\ pos' = pos /\ skipped' = skipped /\ holding' = holding
    BY <1>7 DEF Trim, logVars
  <2>2. rows \in SUBSET Int /\ rows # {} /\ IsFiniteSet(rows)
    BY <1>a, <2>1, RowsFinite DEF LogInv, TrimInv
  <2>3. Max(rows) \in rows /\ Max(rows) \in Int /\ \A x \in rows : x <= Max(rows)
    BY <2>2, MaxIs
  <2>4. ASSUME NEW i \in 1..pos, sent[i] \in rows, sent[i] \notin rows' PROVE TrimmedAway(i)
    <3>1. i \in 1..Len(sent) /\ sent[i] \in Nat
      <4>1. i \in 1..Len(sent)
        BY <1>a
      <4>2. QED
        BY <4>1, LogNumbers
    <3>2. sent[i] <= Max(rows) - Retention /\ Retention \in Nat
      <4>1. Retention \in Nat
        BY SizesAssumption
      <4>2. ~ (sent[i] > Max(rows) - Retention)
        BY <2>1, <2>4 DEF Newest
      <4>3. QED
        BY <2>3, <3>1, <4>1, <4>2
    <3>3. Max(rows) >= sent[i] + Retention
      BY <2>3, <3>1, <3>2
    <3>4. \E j \in 1..Len(sent) : sent[j] = Max(rows)
      <4>1. ~ Old(Max(rows))
        <5>1. Max(rows) >= sent[i]
          BY <2>3, <3>1, <3>2, <3>3
        <5>2. ~ (Max(rows) < sent[i])
          BY <2>3, <3>1, <5>1
        <5>3. QED
          BY <3>1, <5>2 DEF Old
      <4>2. PICK j \in 1..pos : sent[j] = Max(rows)
        BY <2>3, <4>1 DEF OriginInv
      <4>3. j \in 1..Len(sent)
        BY <1>a
      <4>4. QED
        BY <4>2, <4>3
    <3>5. QED
      BY <3>3, <3>4 DEF TrimmedAway
  <2>5. QED
    BY <2>1, <2>4 DEF FateInv, TrimmedAway
<1>8. CASE Insert \/ InsertFails \/ TrimFails
  BY <1>3, <1>8 DEF Insert, InsertFails, TrimFails, logVars
<1>9. QED
  BY <1>2, <1>3, <1>4, <1>5, <1>6, <1>7, <1>8 DEF Next, Warn, Store, Stream, Subscribe,
     ReadBackfill, ReadFails, SendHistory, SendLive, SendLagged, Disconnect, Emit, Drawing, vars, perVars

LEMMA HigherFinite ==
  ASSUME TypeOK, NEW i \in 1..Len(sent)
  PROVE  IsFiniteSet(Higher(i)) /\ \A j \in 1..Len(sent) : sent[j] > sent[i] => sent[j] \in Higher(i)
<1>1. sent \in Seq(Ids) /\ DOMAIN sent = 1..Len(sent)
  BY DEF TypeOK
<1>2. Higher(i) \in SUBSET Ids /\ \A j \in 1..Len(sent) : sent[j] > sent[i] => sent[j] \in Higher(i)
  BY <1>1 DEF Higher, Range
<1>3. IsFiniteSet(Ids)
  BY FS_Interval, SizesAssumption DEF Ids
<1>4. QED
  BY <1>2, <1>3, FS_Subset

LEMMA CauseStays ==
  ASSUME LogInv, LogInv', SentGrows, skipped \subseteq skipped', client'.since = client.since,
         NEW i \in 1..Len(sent), Cause(i)
  PROVE  Cause(i)'
<1>a. Len(sent) \in Nat /\ Len(sent') \in Nat /\ TypeOK /\ TypeOK' /\ Backfill \in Nat
  BY SizesAssumption DEF LogInv, TypeOK
<1>b. i \in 1..Len(sent') /\ sent'[i] = sent[i]
  BY <1>a DEF SentGrows
<1>1. CASE \E j \in 1..i - 1 : sent[j] > sent[i]
  <2>1. \A j \in 1..i - 1 : sent'[j] = sent[j]
    BY <1>a DEF SentGrows
  <2>2. QED
    BY <1>1, <1>b, <2>1 DEF Cause
<1>2. CASE sent[i] \in skipped
  BY <1>2, <1>b DEF Cause
<1>3. CASE client.since # NoId /\ sent[i] <= client.since
  BY <1>3, <1>b DEF Cause
<1>4. CASE client.since = NoId /\ Cardinality(Higher(i)) >= Backfill
  <2>1. Higher(i) \in SUBSET Higher(i)' /\ IsFiniteSet(Higher(i)')
    <3>1. DOMAIN sent = 1..Len(sent) /\ DOMAIN sent' = 1..Len(sent')
      BY <1>a DEF TypeOK
    <3>2. Range(sent) \subseteq Range(sent')
      <4>1. \A j \in 1..Len(sent) : j \in 1..Len(sent') /\ sent'[j] = sent[j]
        BY <1>a DEF SentGrows
      <4>2. QED
        BY <3>1, <4>1 DEF Range
    <3>3. Higher(i) \in SUBSET Higher(i)'
      BY <1>b, <3>2 DEF Higher
    <3>4. IsFiniteSet(Higher(i)')
      <4>1. sent' \in Seq(Ids)
        BY <1>a DEF TypeOK
      <4>2. Higher(i)' \in SUBSET Ids
        BY <3>1, <4>1 DEF Higher, Range
      <4>3. IsFiniteSet(Ids)
        BY FS_Interval, SizesAssumption DEF Ids
      <4>4. QED
        BY <4>2, <4>3, FS_Subset
    <3>5. QED
      BY <3>3, <3>4
  <2>2. Cardinality(Higher(i)) <= Cardinality(Higher(i)') /\ IsFiniteSet(Higher(i))
    BY <2>1, FS_Subset
  <2>3. Cardinality(Higher(i)) \in Nat /\ Cardinality(Higher(i)') \in Nat
    BY <2>1, <2>2, FS_CardinalityType
  <2>4. Cardinality(Higher(i)') >= Backfill
    BY <1>4, <1>a, <2>2, <2>3
  <2>5. QED
    BY <1>4, <2>4 DEF Cause
<1>5. CASE TrimmedAway(i)
  BY <1>5, TrimmedStays DEF Cause
<1>6. QED
  BY <1>1, <1>2, <1>3, <1>4, <1>5 DEF Cause

(* Only the persister takes events out of the channel, and says which.     *)
LEMMA SkippedGrows ==
  ASSUME [Next]_vars, ~ Restart
  PROVE  skipped \subseteq skipped'
BY DEF Next, Warn, Store, Stream, Subscribe, ReadBackfill, ReadFails, SendHistory, SendLive, SendLagged,
       Disconnect, Receive, ReceiveLagged, Insert, InsertFails, Trim, TrimFails, NextEventId, Emit,
       vars, logVars, perVars

(* An event sent now that the client will take for a replayed one was      *)
(* overtaken: the last replayed id is of this boot, and was sent before.   *)
LEMMA GapKept ==
  ASSUME LogInv, LogInv', ClientInv, GapInv, [Next]_vars, ~ Restart, client' = client
  PROVE  GapInv'
<1> SUFFICES ASSUME client.at = "streaming" PROVE GapInv'
  BY DEF GapInv
<1>a. /\ Len(sent) \in Nat /\ Len(sent') \in Nat /\ TypeOK /\ OnceInv /\ SentGrows
      /\ client.from \in Nat /\ client.pos \in Nat /\ client.pos <= Len(sent)
      /\ client.replayed \in Nat /\ skipped \subseteq skipped'
  BY SentOnlyGrows, SkippedGrows DEF LogInv, TypeOK, ClientInv, Client
<1>b. \A i \in 1..Len(sent) : i \in 1..Len(sent') /\ sent'[i] = sent[i]
  BY <1>a DEF SentGrows
<1>1. \/ client.replayed = 0 \/ Old(client.replayed)'
      \/ \E j \in 1..Len(sent') : sent'[j] = client.replayed
  <2>1. CASE client.replayed = 0
    BY <2>1
  <2>2. CASE Old(client.replayed)
    BY <1>a, <2>2, OldStays
  <2>3. CASE \E j \in 1..Len(sent) : sent[j] = client.replayed
    BY <1>b, <2>3
  <2>4. QED
    BY <2>1, <2>2, <2>3 DEF GapInv
<1>2. ASSUME NEW i \in client.from + 1..Len(sent'), sent'[i] <= client.replayed
      PROVE  IsIn(sent'[i], client.got) \/ IsIn(sent'[i], client.backlog) \/ Cause(i)'
  <2>1. CASE i \in 1..Len(sent)
    <3>1. sent'[i] = sent[i] /\ i \in client.from + 1..Len(sent)
      BY <1>a, <1>b, <2>1
    <3>2. CASE IsIn(sent[i], client.got) \/ IsIn(sent[i], client.backlog)
      BY <3>1, <3>2
    <3>3. CASE Cause(i)
      BY <1>a, <2>1, <3>3, CauseStays
    <3>4. QED
      BY <1>2, <3>1, <3>2, <3>3 DEF GapInv
  <2>2. CASE i \notin 1..Len(sent)
    <3>1. sent' # sent
      BY <1>a, <2>2
    <3>2. PICK t \in Drawing : Emit(t)
      BY <3>1 DEF Next, Warn, Store, Stream, Subscribe, ReadBackfill, ReadFails, SendHistory, SendLive,
         SendLagged, Disconnect, Receive, ReceiveLagged, Insert, InsertFails, Trim, TrimFails, NextEventId,
         Drawing, vars, logVars, perVars
    <3>3. drawn[t] \in Ids /\ sent' = Append(sent, drawn[t]) /\ sent \in Seq(Ids)
      BY <1>a, <3>2 DEF Emit, TypeOK, Drawing
    <3>4. Len(sent') = Len(sent) + 1 /\ sent'[Len(sent) + 1] = drawn[t]
      BY <3>3
    <3>5. i = Len(sent) + 1
      BY <1>a, <2>2, <3>4
    <3>6. sent'[i] = drawn[t] /\ drawn[t] \in Nat \ {0} /\ drawn[t] # NoId
      <4>1. Ids \subseteq Nat \ {0} /\ NoId \notin Nat
        BY LogNumbers
      <4>2. drawn[t] \in Nat \ {0}
        BY <3>3, <4>1
      <4>3. drawn[t] # NoId
        BY <4>1, <4>2
      <4>4. QED
        BY <3>4, <3>5, <4>2, <4>3
    <3>7. client.replayed # 0 /\ ~ Old(client.replayed)
      <4>1. ~ (client.replayed < drawn[t]) /\ client.replayed # 0
        BY <1>2, <1>a, <3>6
      <4>2. QED
        BY <3>6, <4>1 DEF Old
    <3>8. PICK j \in 1..Len(sent) : sent[j] = client.replayed
      BY <3>7 DEF GapInv
    <3>9. sent[j] # drawn[t]
      BY <1>a DEF OnceInv
    <3>10. j \in 1..i - 1 /\ sent'[j] > sent'[i]
      <4>1. j \in 1..i - 1 /\ sent'[j] = client.replayed
        BY <1>a, <1>b, <3>5, <3>8
      <4>2. client.replayed # drawn[t]
        BY <3>8, <3>9
      <4>3. QED
        BY <1>2, <1>a, <3>6, <4>1, <4>2
    <3>11. QED
      BY <3>10 DEF Cause
  <2>3. QED
    BY <2>1, <2>2
<1>3. ASSUME ~ client.told, NEW i \in client.from + 1..client.pos, sent'[i] > client.replayed
      PROVE  IsIn(sent'[i], client.got)
  <2>1. i \in 1..Len(sent)
    BY <1>a
  <2>2. sent'[i] = sent[i]
    BY <1>b, <2>1
  <2>3. QED
    BY <1>3, <2>2 DEF GapInv
<1>4. QED
  BY <1>1, <1>2, <1>3 DEF GapInv

(* What the store gives a client that subscribed first: an event sent      *)
(* since then, up to the last replayed id, is in it unless it was overtaken*)
(* on the way to the store, skipped, beyond the page or no longer there.   *)
LEMMA ReplayGap ==
  ASSUME LogInv, ClientInv, OriginInv, FateInv, NEW r, r = Replay(client.since), r # <<>>,
         NEW i \in 1..Len(sent), sent[i] <= Last(r)
  PROVE  (\E k \in 1..Len(r) : r[k] = sent[i]) \/ Cause(i)
<1> DEFINE c == client
           top == Last(r)
<1>a. /\ TypeOK /\ OnceInv /\ sent \in Seq(Ids) /\ Len(sent) \in Nat /\ pos \in 0..Len(sent)
      /\ pos \in Nat /\ Ids \subseteq Nat /\ rows \subseteq Ids
      /\ \A j \in 1..Len(sent) : sent[j] \in Nat
      /\ c.since \in Ids \cup {NoId} /\ NoId \notin Ids /\ Backfill \in Nat \ {0}
  BY LogNumbers, IdsAreNumbers DEF LogInv, ClientInv, Client
<1>1. /\ Page(r)
      /\ c.since # NoId => \A x \in rows : x > c.since =>
           \/ \E k \in 1..Len(r) : r[k] = x
           \/ \A k \in 1..Len(r) : r[k] < x
      /\ c.since = NoId => \A x \in rows :
           \/ \E k \in 1..Len(r) : r[k] = x
           \/ Len(r) = Backfill /\ \A k \in 1..Len(r) : r[k] > x
  <2>1. c.since \in Ids \cup {NoId} /\ TypeOK
    BY <1>a
  <2> HIDE DEF c
  <2>2. QED
    BY <2>1, ReplayIs DEF c
<1>2. /\ r \in Seq(rows) /\ Len(r) \in Nat /\ Len(r) \in 1..Len(r) /\ top = r[Len(r)]
      /\ \A k \in 1..Len(r) : r[k] \in rows
  <2>1. r \in Seq(rows) /\ r # <<>>
    BY <1>1 DEF Page
  <2>2. QED
    BY <2>1 DEF Last
<1> HIDE DEF top
<1>3. \A k \in 1..Len(r) : r[k] \in Nat
  BY <1>a, <1>2
<1>4. ASSUME NEW x \in rows, x >= sent[i] PROVE \E j \in 1..pos : sent[j] = x
  <2>1. x \in Nat /\ sent[i] \in Nat
    BY <1>a
  <2>2. ~ Old(x)
    BY <1>4, <2>1 DEF Old
  <2>3. QED
    BY <2>2 DEF OriginInv
<1>5. PICK j \in 1..pos : sent[j] = top
  <2>1. top \in rows /\ top \in Nat /\ sent[i] \in Nat /\ top >= sent[i]
    BY <1>2, <1>3, <1>a DEF top
  <2>2. QED
    BY <1>4, <2>1
<1>6. ASSUME j < i PROVE sent[i] = top \/ Cause(i)
  <2>1. j \in 1..i - 1 /\ sent[i] \in Nat /\ sent[j] \in Nat
    BY <1>6, <1>a
  <2>2. sent[j] > sent[i] \/ sent[i] = top
    BY <1>5, <2>1 DEF top
  <2>3. QED
    BY <2>1, <2>2 DEF Cause
<1>7. CASE sent[i] = top
  BY <1>2, <1>7
<1>8. CASE i > pos
  <2>1. j < i
    BY <1>8, <1>a
  <2>2. QED
    BY <1>6, <1>7, <2>1
<1>9. CASE i <= pos /\ sent[i] # top
  <2>1. i \in 1..pos
    BY <1>9, <1>a
  <2>2. CASE sent[i] \in skipped \/ TrimmedAway(i)
    BY <2>2 DEF Cause
  <2>3. CASE sent[i] = holding
    <3>1. holding # NoId
      BY <1>a, <2>3
    <3>2. pos \in 1..Len(sent) /\ holding = sent[pos]
      BY <3>1 DEF LogInv, NewInv
    <3>3. i = pos
      BY <1>a, <2>3, <3>2 DEF OnceInv
    <3>4. j # i
      BY <1>5, <1>9
    <3>5. j < i
      BY <1>a, <3>3, <3>4
    <3>6. QED
      BY <1>6, <1>9, <3>5
  <2>4. CASE sent[i] \in rows /\ c.since # NoId
    <3>1. c.since \in Nat /\ sent[i] \in Nat
      BY <1>a, <2>4
    <3>2. CASE sent[i] <= c.since
      BY <2>4, <3>2 DEF Cause
    <3>3. CASE sent[i] > c.since
      <4>1. ~ (top < sent[i]) /\ top \in Nat
        BY <1>2, <1>3, <3>1 DEF top
      <4>2. ~ \A k \in 1..Len(r) : r[k] < sent[i]
        BY <1>2, <4>1
      <4>3. QED
        BY <1>1, <2>4, <3>3, <4>2
    <3>4. QED
      BY <3>1, <3>2, <3>3
  <2>5. CASE sent[i] \in rows /\ c.since = NoId
    <3>1. CASE \E k \in 1..Len(r) : r[k] = sent[i]
      BY <3>1
    <3>2. CASE Len(r) = Backfill /\ \A k \in 1..Len(r) : r[k] > sent[i]
      <4>1. \A k \in 1..Len(r) : r[k] \in Higher(i)
        <5> SUFFICES ASSUME NEW k \in 1..Len(r) PROVE r[k] \in Higher(i)
          OBVIOUS
        <5>1. r[k] \in rows /\ r[k] >= sent[i] /\ r[k] > sent[i]
          BY <1>2, <1>3, <1>a, <3>2
        <5>2. PICK m \in 1..pos : sent[m] = r[k]
          BY <1>4, <5>1
        <5>3. m \in 1..Len(sent)
          BY <1>a
        <5>4. QED
          BY <1>a, <5>1, <5>2, <5>3, HigherFinite
      <4>2. IsFiniteSet(Higher(i))
        BY <1>a, HigherFinite
      <4>3. r \in Injection(1..Len(r), Higher(i))
        <5>1. r \in [1..Len(r) -> Higher(i)]
          BY <1>2, <4>1
        <5>2. \A k, m \in 1..Len(r) : r[k] = r[m] => k = m
          <6> SUFFICES ASSUME NEW k \in 1..Len(r), NEW m \in 1..Len(r), r[k] = r[m], k # m
                       PROVE  FALSE
            OBVIOUS
          <6>1. k < m \/ m < k
            BY <1>2
          <6>2. r[k] < r[m] \/ r[m] < r[k]
            BY <1>1, <6>1 DEF Page
          <6>3. QED
            BY <1>3, <6>2
        <5>3. QED
          BY <5>1, <5>2 DEF Injection, IsInjective
      <4>4. Cardinality(1..Len(r)) <= Cardinality(Higher(i))
        BY <4>2, <4>3, FS_Injection
      <4>5. Cardinality(1..Len(r)) = Len(r)
        <5> DEFINE n == Len(r)
        <5>1. n \in Int /\ 1 \in Int /\ n >= 1
          BY <1>2
        <5> HIDE DEF n
        <5>2. Cardinality(1..n) = IF 1 > n THEN 0 ELSE n - 1 + 1
          BY <5>1, FS_Interval
        <5>3. Cardinality(1..n) = n
          BY <5>1, <5>2
        <5>4. QED
          BY <5>3 DEF n
      <4>6. Cardinality(Higher(i)) \in Nat
        BY <4>2, FS_CardinalityType
      <4>7. Cardinality(Higher(i)) >= Backfill
        BY <1>a, <3>2, <4>4, <4>5, <4>6
      <4>8. QED
        BY <2>5, <4>7 DEF Cause
    <3>3. QED
      BY <1>1, <2>5, <3>1, <3>2
  <2>6. QED
    BY <2>1, <2>2, <2>3, <2>4, <2>5 DEF FateInv
<1>10. QED
  BY <1>7, <1>8, <1>9, <1>a

LEMMA GapNext ==
  ASSUME LogInv, LogInv', ClientInv, FreshInv, OriginInv, FateInv, GapInv,
         [Next]_vars, ~ Restart
  PROVE  GapInv'
<1> DEFINE c == client
<1>a. /\ TypeOK /\ sent \in Seq(Ids) /\ Len(sent) \in Nat /\ Ids \subseteq Nat
      /\ \A i \in 1..Len(sent) : sent[i] \in Ids /\ sent[i] \in Nat /\ sent[i] > 0
      /\ rows \subseteq Ids
  BY LogNumbers, IdsAreNumbers DEF LogInv
<1>b. /\ c \in Client /\ c.last \in Ids \cup {NoId} /\ c.since \in Ids \cup {NoId}
      /\ c.from \in Nat /\ c.pos \in Nat
      /\ c.backlog \in Seq(Ids) /\ c.got \in Seq(Ids) /\ c.replayed \in Nat /\ c.told \in BOOLEAN
      /\ Len(c.backlog) \in Nat /\ Len(c.got) \in Nat
      /\ c.from <= c.pos /\ c.pos <= Len(sent)
  BY DEF ClientInv, Client
<1>1. CASE Disconnect \/ Subscribe
  <2>1. client'.at # "streaming"
    <3>1. CASE Disconnect
      BY <3>1 DEF Disconnect, Away
    <3>2. CASE Subscribe
      <4>1. PICK since \in {NoId, c.last} :
              client' = [Away(c.last) EXCEPT !.at = "subscribed", !.since = since,
                                             !.from = Len(sent), !.pos = Len(sent)]
        BY <3>2 DEF Subscribe
      <4>2. client' = [at |-> "subscribed", last |-> c.last, since |-> since,
                       from |-> Len(sent), pos |-> Len(sent), backlog |-> <<>>,
                       replayed |-> 0, got |-> <<>>, told |-> FALSE]
        BY <4>1 DEF Away
      <4>3. QED
        BY <4>2
    <3>3. QED
      BY <1>1, <3>1, <3>2
  <2>2. QED
    BY <2>1 DEF GapInv
<1>2. CASE client' = client
  BY <1>2, GapKept
<1>3. ASSUME UNCHANGED <<logVars, perVars>>, client'.since = c.since, NEW i \in Nat, Cause(i)
      PROVE  Cause(i)'
  BY <1>3 DEF Cause, TrimmedAway, Higher, logVars, perVars
<1>4. ASSUME UNCHANGED logVars, client'.replayed = c.replayed, c.at = "streaming"
      PROVE  \/ client'.replayed = 0 \/ Old(c.replayed)'
             \/ \E j \in 1..Len(sent') : sent'[j] = client'.replayed
  BY <1>4 DEF GapInv, Old, logVars
<1>5. CASE ReadBackfill
  <2> DEFINE r == Replay(c.since)
             last == IF r = <<>> THEN 0 ELSE Last(r)
  <2>1. /\ c.at = "subscribed" /\ UNCHANGED <<logVars, perVars>>
        /\ client' = [c EXCEPT !.at = "streaming", !.backlog = r, !.replayed = last]
    BY <1>5 DEF ReadBackfill
  <2>2. Page(r) /\ r \in Seq(rows)
    <3>1. Page(r)
      BY <1>a, <1>b, ReplayIs
    <3> HIDE DEF r
    <3>2. QED
      BY <3>1 DEF Page
  <2> HIDE DEF r, last
  <2>3. /\ client'.at = "streaming" /\ client'.from = c.from /\ client'.pos = c.pos
        /\ client'.got = c.got /\ client'.backlog = r /\ client'.replayed = last
        /\ client'.since = c.since /\ c.pos = c.from
    BY <1>b, <2>1 DEF Client, ClientInv
  <2>4. last = 0 \/ Old(last) \/ \E j \in 1..Len(sent) : sent[j] = last
    <3>1. CASE r = <<>>
      BY <3>1 DEF last
    <3>2. CASE r # <<>>
      <4>1. last \in rows
        <5>1. Len(r) \in 1..Len(r) /\ last = r[Len(r)]
          BY <2>2, <3>2 DEF last, Last
        <5>2. QED
          BY <2>2, <5>1
      <4>2. Old(last) \/ \E j \in 1..pos : sent[j] = last
        BY <4>1 DEF OriginInv
      <4>3. \A j \in 1..pos : j \in 1..Len(sent)
        BY LogNumbers
      <4>4. QED
        BY <4>2, <4>3
    <3>3. QED
      BY <3>1, <3>2
  <2>5. ASSUME NEW i \in c.from + 1..Len(sent), sent[i] <= last
        PROVE  (\E k \in 1..Len(r) : r[k] = sent[i]) \/ Cause(i)
    <3>1. i \in 1..Len(sent)
      BY <1>a, <1>b
    <3>2. r # <<>>
      <4>1. last # 0
        BY <1>a, <2>5, <3>1
      <4>2. QED
        BY <4>1 DEF last
    <3>3. last = Last(r) /\ r = Replay(client.since)
      BY <3>2 DEF last, r
    <3>4. QED
      BY <2>5, <3>1, <3>2, <3>3, ReplayGap
  <2>6. \A i \in client'.from + 1..Len(sent') : sent'[i] <= client'.replayed =>
          IsIn(sent'[i], client'.backlog) \/ Cause(i)'
    <3> SUFFICES ASSUME NEW i \in c.from + 1..Len(sent), sent[i] <= last
                 PROVE  IsIn(sent[i], client'.backlog) \/ Cause(i)'
      BY <2>1, <2>3 DEF logVars
    <3>1. i \in Nat
      BY <1>a, <1>b
    <3>2. CASE \E k \in 1..Len(r) : r[k] = sent[i]
      BY <2>1, <2>3, <3>2 DEF IsIn, logVars
    <3>3. CASE Cause(i)
      BY <1>3, <2>1, <2>3, <3>1, <3>3
    <3>4. QED
      BY <2>5, <3>2, <3>3
  <2>7. \A i \in client'.from + 1..client'.pos : FALSE
    BY <1>b, <2>3
  <2>8. sent' = sent /\ nextId' = nextId /\ drawn' = drawn
    BY <2>1 DEF logVars
  <2>9. client'.replayed = 0 \/ Old(c.replayed)'
          \/ \E j \in 1..Len(sent') : sent'[j] = client'.replayed
    BY <2>3, <2>4, <2>8 DEF Old
  <2>10. QED
    BY <2>6, <2>7, <2>8, <2>9 DEF GapInv
<1>6. CASE SendHistory
  <2> DEFINE h == Head(c.backlog)
             b == Tail(c.backlog)
             g == Append(c.got, h)
  <2>1. /\ c.at = "streaming" /\ c.backlog # <<>> /\ UNCHANGED <<logVars, perVars>>
        /\ client' = [Give(c, h) EXCEPT !.backlog = b]
    BY <1>6, <1>b DEF SendHistory, Give, Client
  <2>2. /\ h \in Ids /\ Len(b) = Len(c.backlog) - 1
        /\ \A i \in 1..Len(b) : b[i] = c.backlog[i + 1]
        /\ h = c.backlog[1] /\ Len(c.backlog) >= 1
    BY <1>b, <2>1, HeadTailProperties
  <2>3. /\ Len(g) = Len(c.got) + 1 /\ g[Len(c.got) + 1] = h
        /\ \A i \in 1..Len(c.got) : g[i] = c.got[i]
    BY <1>b, <2>2
  <2> HIDE DEF h, b, g
  <2>4. client' = [[c EXCEPT !.got = g, !.last = h] EXCEPT !.backlog = b]
    BY <2>1 DEF Give, g
  <2>5. /\ client'.at = c.at /\ client'.from = c.from /\ client'.pos = c.pos
        /\ client'.got = g /\ client'.backlog = b /\ client'.replayed = c.replayed
        /\ client'.since = c.since /\ client'.told = c.told
    BY <1>b, <2>4 DEF Client
  <2>6. ASSUME NEW x PROVE /\ IsIn(x, client.got) => IsIn(x, client'.got)
                           /\ IsIn(x, client.backlog) => IsIn(x, client'.got) \/ IsIn(x, client'.backlog)
    <3>1. IsIn(x, client.got) => IsIn(x, client'.got)
      <4>1. \A k \in 1..Len(c.got) : k \in 1..Len(g)
        BY <1>b, <2>3
      <4>2. QED
        BY <2>3, <2>5, <4>1 DEF IsIn
    <3>2. ASSUME NEW k \in 1..Len(c.backlog), c.backlog[k] = x PROVE IsIn(x, client'.got) \/ IsIn(x, client'.backlog)
      <4>1. CASE k = 1
        <5>1. Len(c.got) + 1 \in 1..Len(g) /\ g[Len(c.got) + 1] = x
          BY <1>b, <2>2, <2>3, <3>2, <4>1
        <5>2. QED
          BY <2>5, <5>1 DEF IsIn
      <4>2. CASE k # 1
        <5>1. k - 1 \in 1..Len(b) /\ (k - 1) + 1 = k
          BY <1>b, <2>2, <4>2
        <5>2. b[k - 1] = x
          BY <2>2, <3>2, <5>1
        <5>3. QED
          BY <2>5, <5>1, <5>2 DEF IsIn
      <4>3. QED
        BY <4>1, <4>2
    <3>3. QED
      BY <3>1, <3>2 DEF IsIn
  <2>7. sent' = sent
    BY <2>1 DEF logVars
  <2>8. \A i \in c.from + 1..Len(sent) : i \in Nat
    BY <1>a, <1>b
  <2>9. \A i \in c.from + 1..Len(sent) : sent[i] <= c.replayed =>
          IsIn(sent[i], client'.got) \/ IsIn(sent[i], client'.backlog) \/ Cause(i)'
    BY <1>3, <2>1, <2>5, <2>6, <2>8 DEF GapInv
  <2>10. ~ c.told => \A i \in c.from + 1..c.pos : sent[i] > c.replayed => IsIn(sent[i], client'.got)
    BY <2>1, <2>6 DEF GapInv
  <2>11. QED
    BY <1>4, <2>1, <2>5, <2>7, <2>9, <2>10 DEF GapInv
<1>7. CASE SendLive
  <2> DEFINE id == sent[c.pos + 1]
             moved == [c EXCEPT !.pos = @ + 1]
             g == IF id <= c.replayed THEN c.got ELSE Append(c.got, id)
  <2>1. /\ c.at = "streaming" /\ c.backlog = <<>> /\ c.pos < Len(sent)
        /\ UNCHANGED <<logVars, perVars>>
        /\ client' = IF id <= c.replayed THEN moved ELSE Give(moved, id)
    BY <1>7 DEF SendLive
  <2>2. id \in Ids /\ id \in Nat /\ c.pos + 1 \in 1..Len(sent)
    BY <1>a, <1>b, <2>1
  <2> HIDE DEF id
  <2>3. /\ client'.at = c.at /\ client'.from = c.from /\ client'.pos = c.pos + 1
        /\ client'.got = g /\ client'.backlog = c.backlog /\ client'.replayed = c.replayed
        /\ client'.since = c.since /\ client'.told = c.told
    <3>1. CASE id <= c.replayed
      BY <1>b, <2>1, <3>1 DEF Client
    <3>2. CASE ~ (id <= c.replayed)
      BY <1>b, <2>1, <3>2 DEF Client, Give
    <3>3. QED
      BY <3>1, <3>2
  <2>4. /\ \A k \in 1..Len(c.got) : k \in 1..Len(g) /\ g[k] = c.got[k]
        /\ id > c.replayed => \E k \in 1..Len(g) : g[k] = id
    <3>1. CASE id <= c.replayed
      BY <1>b, <2>2, <3>1
    <3>2. CASE ~ (id <= c.replayed)
      <4>1. /\ Len(g) = Len(c.got) + 1 /\ g[Len(c.got) + 1] = id
            /\ \A k \in 1..Len(c.got) : g[k] = c.got[k]
        BY <1>b, <2>2, <3>2
      <4>2. /\ Len(c.got) + 1 \in 1..Len(c.got) + 1
            /\ \A k \in 1..Len(c.got) : k \in 1..Len(c.got) + 1
        BY <1>b
      <4> HIDE DEF g
      <4>3. QED
        BY <4>1, <4>2
    <3>3. QED
      BY <3>1, <3>2
  <2> HIDE DEF g
  <2>5. ASSUME NEW x PROVE (IsIn(x, client.got) => IsIn(x, client'.got)) /\ (IsIn(x, client.backlog) => IsIn(x, client'.backlog))
    <3>1. IsIn(x, client.got) => IsIn(x, client'.got)
      BY <2>3, <2>4 DEF IsIn
    <3>2. IsIn(x, client.backlog) => IsIn(x, client'.backlog)
      BY <2>3 DEF IsIn
    <3>3. QED
      BY <3>1, <3>2
  <2>6. sent' = sent
    BY <2>1 DEF logVars
  <2>7. \A i \in c.from + 1..Len(sent) : i \in Nat
    BY <1>a, <1>b
  <2>8. \A i \in c.from + 1..Len(sent) : sent[i] <= c.replayed =>
          IsIn(sent[i], client'.got) \/ IsIn(sent[i], client'.backlog) \/ Cause(i)'
    BY <1>3, <2>1, <2>3, <2>5, <2>7 DEF GapInv
  <2>9. ASSUME ~ c.told, NEW i \in c.from + 1..c.pos + 1, sent[i] > c.replayed
        PROVE  IsIn(sent[i], client'.got)
    <3>1. i \in c.from + 1..c.pos \/ i = c.pos + 1
      BY <1>b
    <3>2. CASE i \in c.from + 1..c.pos
      BY <2>1, <2>5, <2>9, <3>2 DEF GapInv
    <3>3. CASE i = c.pos + 1
      <4>1. sent[i] = id
        BY <3>3 DEF id
      <4>2. QED
        BY <2>3, <2>4, <2>9, <4>1 DEF IsIn
    <3>4. QED
      BY <3>1, <3>2, <3>3
  <2>10. QED
    BY <1>4, <2>1, <2>3, <2>6, <2>8, <2>9 DEF GapInv
<1>8. CASE SendLagged
  <2>1. /\ c.at = "streaming" /\ UNCHANGED <<logVars, perVars>>
        /\ client' = [c EXCEPT !.pos = Oldest, !.told = TRUE]
    BY <1>8 DEF SendLagged
  <2>2. /\ client'.at = c.at /\ client'.from = c.from
        /\ client'.got = c.got /\ client'.backlog = c.backlog /\ client'.replayed = c.replayed
        /\ client'.since = c.since /\ client'.told = TRUE
    BY <1>b, <2>1 DEF Client
  <2>3. sent' = sent
    BY <2>1 DEF logVars
  <2>4. \A i \in c.from + 1..Len(sent) : i \in Nat
    BY <1>a, <1>b
  <2>5. \A i \in c.from + 1..Len(sent) : sent[i] <= c.replayed =>
          IsIn(sent[i], client'.got) \/ IsIn(sent[i], client'.backlog) \/ Cause(i)'
    BY <1>3, <2>1, <2>2, <2>4 DEF GapInv
  <2>6. QED
    BY <1>4, <2>1, <2>2, <2>3, <2>5 DEF GapInv
<1>9. CASE ReadFails
  <2>1. /\ c.at = "subscribed" /\ UNCHANGED <<logVars, perVars>>
        /\ client' = [c EXCEPT !.at = "streaming"]
    BY <1>9 DEF ReadFails
  <2>2. /\ client'.from = c.from /\ client'.pos = c.pos /\ client'.replayed = 0 /\ c.pos = c.from
    BY <1>b, <2>1 DEF Client, ClientInv
  <2>3. sent' = sent
    BY <2>1 DEF logVars
  <2>4. \A i \in c.from + 1..Len(sent) : ~ (sent[i] <= 0)
    BY <1>a, <1>b
  <2>5. \A i \in c.from + 1..c.pos : FALSE
    BY <1>b, <2>2
  <2>6. QED
    BY <2>2, <2>3, <2>4, <2>5 DEF GapInv
<1>10. QED
  BY <1>1, <1>2, <1>5, <1>6, <1>7, <1>8, <1>9 DEF Next, Warn, Store, Stream, NextEventId, Emit,
     Receive, ReceiveLagged, Insert, InsertFails, Trim, TrimFails, vars

(* A restart begins with nothing to follow but what the table holds.       *)
LEMMA FollowRestart ==
  ASSUME LogInv', Restart, ~ misnumbered'
  PROVE  OriginInv' /\ FateInv' /\ GapInv'
<1>1. /\ rows' = rows /\ sent' = <<>> /\ pos' = 0 /\ drawn' = [t \in Drawing |-> NoId]
      /\ client' = Away(client.last)
  BY DEF Restart, Drawing
<1>2. \A x \in rows' : x < nextId'
  BY DEF LogInv, BelowInv
<1>3. OriginInv' /\ FateInv'
  BY <1>1, <1>2 DEF OriginInv, Old, FateInv
<1>4. GapInv'
  BY <1>1 DEF GapInv, Away
<1>5. QED
  BY <1>3, <1>4

LEMMA FollowNext ==
  ASSUME LogInv, LogInv', ClientInv, FreshInv, FollowInv, [Next]_vars
  PROVE  FollowInv'
<1> SUFFICES ASSUME ~ misnumbered' PROVE OriginInv' /\ FateInv' /\ GapInv'
  BY DEF FollowInv
<1>1. CASE Restart
  BY <1>1, FollowRestart
<1>2. CASE ~ Restart
  <2>1. misnumbered' = misnumbered
    BY <1>2 DEF Next, Warn, Store, Stream, Subscribe, ReadBackfill, ReadFails, SendHistory, SendLive,
       SendLagged, Disconnect, Receive, ReceiveLagged, Insert, InsertFails, Trim, TrimFails,
       NextEventId, Emit, vars, logVars
  <2>2. OriginInv /\ FateInv /\ GapInv
    BY <2>1 DEF FollowInv
  <2>3. QED
    BY <1>2, <2>2, OriginNext, FateNext, GapNext
<1>3. QED
  BY <1>1, <1>2

(* Subscribing before the store is read loses nothing by itself: an event  *)
(* sent after it that an untold client never gets was overtaken, skipped,  *)
(* claimed by the client, beyond a full page or trimmed (events_stream,    *)
(* spawn_persistence, EventStore).                                         *)
THEOREM GapExplainedHolds == Spec => []GapExplained
<1>1. LogInv /\ ClientInv /\ GapInv => GapExplained
  <2> SUFFICES ASSUME LogInv, ClientInv, GapInv, ~ misnumbered, ~ client.told, client.at = "streaming",
                      client.backlog = <<>>, NEW i \in client.from + 1..client.pos
               PROVE  sent[i] \in Range(client.got) \/ Cause(i)
    BY DEF GapExplained, Cause, Higher, TrimmedAway
  <2>1. /\ i \in client.from + 1..Len(sent) /\ i \in 1..Len(sent)
        /\ sent[i] \in Nat /\ client.replayed \in Nat
    <3>1. /\ client.from \in Nat /\ client.pos \in Nat /\ client.pos <= Len(sent)
          /\ client.replayed \in Nat
      BY DEF ClientInv, Client
    <3>2. Len(sent) \in Nat
      BY LogNumbers
    <3>3. i \in client.from + 1..Len(sent) /\ i \in 1..Len(sent)
      BY <3>1, <3>2
    <3>4. QED
      BY <3>1, <3>3, LogNumbers
  <2>2. IsIn(sent[i], client.got) => sent[i] \in Range(client.got)
    <3>1. DOMAIN client.got = 1..Len(client.got)
      BY DEF ClientInv, Client
    <3>2. QED
      BY <3>1 DEF IsIn, Range
  <2>3. ~ IsIn(sent[i], client.backlog)
    BY DEF IsIn
  <2>4. CASE sent[i] <= client.replayed
    BY <2>1, <2>2, <2>3, <2>4 DEF GapInv
  <2>5. CASE sent[i] > client.replayed
    BY <2>2, <2>5 DEF GapInv
  <2>6. QED
    BY <2>1, <2>4, <2>5
<1>2. LogInv /\ ClientInv /\ FreshInv /\ FollowInv /\ [Next]_vars =>
        LogInv' /\ ClientInv' /\ FreshInv' /\ FollowInv'
  BY LogNext, ClientNext, FollowNext
<1>3. LogInv /\ ClientInv /\ FollowInv => GapExplained
  BY <1>1 DEF FollowInv, GapExplained
<1>4. Init => LogInv /\ ClientInv /\ FreshInv /\ FollowInv
  BY LogInit, ClientInit, FollowInit
<1>5. QED
  BY <1>2, <1>3, <1>4, PTL DEF Spec
=============================================================================
