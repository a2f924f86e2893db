---------------------------- MODULE WebhooksProofs ----------------------------
(***************************************************************************)
(* Routing and the webhooks that use it, proved for any routing document,  *)
(* any request and every bound: destinations_for names the places that     *)
(* concern an event in reading order, each destination once; what is       *)
(* stored names an address for every card it routes; and a request is      *)
(* answered from one document.                                             *)
(***************************************************************************)
EXTENDS Webhooks, FiniteSetTheorems, SequenceTheorems, WellFoundedInduction, TLAPS

(* Some set of numbers has a least one, which is how what holds of every   *)
(* step of a loop is proved here.                                          *)
LEMMA Smallest ==
  ASSUME NEW S \in SUBSET Nat, S # {}
  PROVE  \E x \in S : \A y \in S : x <= y
<1>1. PICK m \in S : \A y \in S : ~ (<<y, m>> \in OpToRel(<, Nat))
  BY NatLessThanWellFounded, WFMin, Zenon
<1>2. \A y \in S : ~ (y < m)
  BY <1>1 DEF OpToRel
<1>3. \A y \in S : m <= y
  BY <1>2
<1>4. QED
  BY <1>3

LEMMA MinIs ==
  ASSUME NEW S \in SUBSET Nat, S # {}
  PROVE  Min(S) \in S
BY Smallest DEF Min

(* A set that holds 0 and, with a number, the next one up to a bound.      *)
LEMMA UpTo ==
  ASSUME NEW N \in Nat, NEW T, 0 \in T,
         \A n \in 1..N : n - 1 \in T => n \in T
  PROVE  \A n \in 0..N : n \in T
<1> SUFFICES ASSUME {n \in 0..N : n \notin T} # {} PROVE FALSE
  OBVIOUS
<1>1. PICK m \in {n \in 0..N : n \notin T} : \A y \in {n \in 0..N : n \notin T} : m <= y
  <2>1. {n \in 0..N : n \notin T} \in SUBSET Nat
    OBVIOUS
  <2>2. QED
    BY <2>1, Smallest
<1>2. m \in 1..N /\ m \notin T /\ m - 1 \in 0..N /\ ~ (m <= m - 1)
  BY <1>1
<1>3. m - 1 \in T
  BY <1>1, <1>2
<1>4. QED
  BY <1>2, <1>3

-----------------------------------------------------------------------------
(* The two loops of destinations_for and the list of lists of addresses,   *)
(* as functions from the number of rounds.                                 *)

LEMMA PushAllRuns ==
  ASSUME NEW out, NEW dests, Len(dests) \in Nat
  PROVE  \E pushed :
           /\ pushed[0] = out
           /\ \A n \in 1..Len(dests) : pushed[n] = PushUnique(dests[n])[pushed[n - 1]]
           /\ PushAll(out, dests) = pushed[Len(dests)]
<1> DEFINE N == Len(dests)
           Round(f, n) == IF n = 0 THEN out ELSE PushUnique(dests[n])[f[n - 1]]
           T == {m \in 0..N : \E f : f = [n \in 0..m |-> Round(f, n)]}
<1>0. N \in Nat
  OBVIOUS
<1>1. 0 \in T
  <2> DEFINE f == [n \in 0..0 |-> out]
  <2>1. f = [n \in 0..0 |-> Round(f, n)]
    OBVIOUS
  <2> HIDE DEF f, Round
  <2>2. \E g : g = [n \in 0..0 |-> Round(g, n)]
    BY <2>1
  <2>3. QED
    BY <1>0, <2>2
<1>2. ASSUME NEW m \in 1..N, m - 1 \in T PROVE m \in T
  <2>1. PICK f : f = [n \in 0..m - 1 |-> Round(f, n)]
    BY <1>2
  <2> DEFINE g == [n \in 0..m |-> IF n = m THEN PushUnique(dests[m])[f[m - 1]] ELSE f[n]]
  <2>2. ASSUME NEW n \in 0..m PROVE g[n] = Round(g, n)
    <3>1. CASE n = 0
      <4>1. g[0] = f[0] /\ f[0] = out
        BY <2>1
      <4>2. QED
        BY <3>1, <4>1
    <3>2. CASE n \in 1..m - 1
      <4>1. g[n] = f[n] /\ g[n - 1] = f[n - 1] /\ n # 0 /\ n \in 0..m - 1
        BY <3>2
      <4>2. f[n] = Round(f, n)
        BY <2>1, <4>1
      <4>3. QED
        BY <4>1, <4>2
    <3>3. CASE n = m
      <4>1. g[n - 1] = f[m - 1] /\ g[n] = PushUnique(dests[m])[f[m - 1]] /\ n # 0
        BY <3>3
      <4>2. QED
        BY <3>3, <4>1
    <3>4. QED
      BY <3>1, <3>2, <3>3
  <2>3. g = [n \in 0..m |-> Round(g, n)]
    <3>1. g = [n \in 0..m |-> g[n]]
      OBVIOUS
    <3> HIDE DEF g, Round
    <3>2. QED
      BY <2>2, <3>1
  <2> HIDE DEF g, Round
  <2>4. QED
    BY <2>3
<1>3. N \in T
  <2> HIDE DEF T, N
  <2>1. \A n \in 0..N : n \in T
    BY <1>0, <1>1, <1>2, UpTo
  <2>2. QED
    BY <1>0, <2>1
<1>4. \E f : f = [n \in 0..N |-> Round(f, n)]
  BY <1>3
<1> DEFINE pushed == CHOOSE f : f = [n \in 0..N |-> Round(f, n)]
<1>5. pushed = [n \in 0..N |-> Round(pushed, n)]
  <2> HIDE DEF Round, N
  <2>1. QED
    BY <1>4, Zenon
<1>6. PushAll(out, dests) = pushed[N]
  BY DEF PushAll
<1> HIDE DEF pushed
<1>7. pushed[0] = out /\ \A n \in 1..N : pushed[n] = PushUnique(dests[n])[pushed[n - 1]]
  BY <1>0, <1>5
<1>8. QED
  BY <1>6, <1>7

LEMMA DestinationsForRuns ==
  ASSUME NEW c, NEW subject, NEW event, Len(c.rules) \in Nat
  PROVE  \E routed :
           /\ routed[0] = <<>>
           /\ \A n \in 1..Len(c.rules) :
                routed[n] = IF Matches(c.rules[n].match, subject) /\ Allows(c.rules[n], event)
                              THEN PushAll(routed[n - 1], c.rules[n].destinations)
                              ELSE routed[n - 1]
           /\ DestinationsFor(c, subject, event) =
                IF \E n \in DOMAIN c.rules : Matches(c.rules[n].match, subject)
                  THEN routed[Len(c.rules)] ELSE PushAll(<<>>, c.defaults)
<1> DEFINE N == Len(c.rules)
           Step(out, n) == IF Matches(c.rules[n].match, subject) /\ Allows(c.rules[n], event)
                             THEN PushAll(out, c.rules[n].destinations) ELSE out
           Round(f, n) == IF n = 0 THEN <<>> ELSE Step(f[n - 1], n)
           T == {m \in 0..N : \E f : f = [n \in 0..m |-> Round(f, n)]}
<1>0. N \in Nat
  OBVIOUS
<1>1. 0 \in T
  <2> DEFINE f == [n \in 0..0 |-> <<>>]
  <2>1. f = [n \in 0..0 |-> Round(f, n)]
    OBVIOUS
  <2> HIDE DEF f, Round
  <2>2. \E g : g = [n \in 0..0 |-> Round(g, n)]
    BY <2>1
  <2>3. QED
    BY <1>0, <2>2
<1>2. ASSUME NEW m \in 1..N, m - 1 \in T PROVE m \in T
  <2>1. PICK f : f = [n \in 0..m - 1 |-> Round(f, n)]
    BY <1>2
  <2> DEFINE g == [n \in 0..m |-> IF n = m THEN Step(f[m - 1], m) ELSE f[n]]
  <2>2. ASSUME NEW n \in 0..m PROVE g[n] = Round(g, n)
    <3>1. CASE n = 0
      <4>1. g[0] = f[0] /\ f[0] = <<>>
        BY <2>1
      <4>2. QED
        BY <3>1, <4>1
    <3>2. CASE n \in 1..m - 1
      <4>1. g[n] = f[n] /\ g[n - 1] = f[n - 1] /\ n # 0 /\ n \in 0..m - 1
        BY <3>2
      <4>2. f[n] = Round(f, n)
        BY <2>1, <4>1
      <4>3. QED
        BY <4>1, <4>2
    <3>3. CASE n = m
      <4>1. g[n - 1] = f[m - 1] /\ g[n] = Step(f[m - 1], m) /\ n # 0
        BY <3>3
      <4>2. QED
        BY <3>3, <4>1
    <3>4. QED
      BY <3>1, <3>2, <3>3
  <2>3. g = [n \in 0..m |-> Round(g, n)]
    <3>1. g = [n \in 0..m |-> g[n]]
      OBVIOUS
    <3> HIDE DEF g, Round
    <3>2. QED
      BY <2>2, <3>1
  <2> HIDE DEF g, Round
  <2>4. QED
    BY <2>3
<1>3. N \in T
  <2> HIDE DEF T, N
  <2>1. \A n \in 0..N : n \in T
    BY <1>0, <1>1, <1>2, UpTo
  <2>2. QED
    BY <1>0, <2>1
<1>4. \E f : f = [n \in 0..N |-> Round(f, n)]
  BY <1>3
<1> DEFINE routed == CHOOSE f : f = [n \in 0..N |-> Round(f, n)]
<1>5. routed = [n \in 0..N |-> Round(routed, n)]
  <2> HIDE DEF Round, N
  <2>1. QED
    BY <1>4, Zenon
<1>6. DestinationsFor(c, subject, event) =
        IF \E n \in DOMAIN c.rules : Matches(c.rules[n].match, subject)
          THEN routed[N] ELSE PushAll(<<>>, c.defaults)
  BY Zenon DEF DestinationsFor
<1> HIDE DEF routed
<1>7. routed[0] = <<>> /\ \A n \in 1..N : routed[n] = Step(routed[n - 1], n)
  <2> HIDE DEF Step
  <2>1. QED
    BY <1>0, <1>5
<1>8. QED
  BY <1>6, <1>7

LEMMA FlattenSeqIs ==
  ASSUME NEW S, NEW lists \in Seq(Seq(S))
  PROVE  FlattenSeq(lists) \in Seq(S)
<1> DEFINE N == Len(lists)
           Round(f, n) == IF n = 1 THEN lists[n] ELSE f[n - 1] \o lists[n]
           T == {m \in 0..N : \E f : f = [n \in 1..m |-> Round(f, n)]}
<1>0. N \in Nat /\ \A n \in 1..N : lists[n] \in Seq(S)
  OBVIOUS
<1>1. 0 \in T
  <2> DEFINE f == [n \in 1..0 |-> <<>>]
  <2>1. f = [n \in 1..0 |-> Round(f, n)]
    OBVIOUS
  <2> HIDE DEF f, Round
  <2>2. \E g : g = [n \in 1..0 |-> Round(g, n)]
    BY <2>1
  <2>3. 0 \in 0..N
    BY <1>0
  <2> HIDE DEF N
  <2>4. QED
    BY <2>2, <2>3, Zenon
<1>2. ASSUME NEW m \in 1..N, m - 1 \in T PROVE m \in T
  <2>1. PICK f : f = [n \in 1..m - 1 |-> Round(f, n)]
    BY <1>2
  <2> DEFINE g == [n \in 1..m |-> IF n = m THEN Round(f, m) ELSE f[n]]
  <2>2. ASSUME NEW n \in 1..m PROVE g[n] = Round(g, n)
    <3>1. CASE n = m
      <4>1. g[n] = Round(f, m) /\ (n # 1 => g[n - 1] = f[n - 1])
        BY <3>1
      <4>2. QED
        BY <3>1, <4>1
    <3>2. CASE n \in 1..m - 1
      <4>1. g[n] = f[n] /\ (n # 1 => g[n - 1] = f[n - 1])
        BY <3>2
      <4>2. f[n] = Round(f, n)
        BY <2>1, <3>2
      <4>3. QED
        BY <4>1, <4>2
    <3>3. QED
      BY <3>1, <3>2
  <2>3. g = [n \in 1..m |-> Round(g, n)]
    <3>1. g = [n \in 1..m |-> g[n]]
      OBVIOUS
    <3> HIDE DEF g, Round
    <3>2. QED
      BY <2>2, <3>1
  <2> HIDE DEF g, Round
  <2>4. QED
    BY <2>3
<1>3. N \in T
  <2> HIDE DEF T, N
  <2>1. \A n \in 0..N : n \in T
    BY <1>0, <1>1, <1>2, UpTo
  <2>2. QED
    BY <1>0, <2>1
<1>4. \E f : f = [n \in 1..N |-> Round(f, n)]
  BY <1>3
<1> DEFINE flatten == CHOOSE f : f = [n \in 1..N |-> Round(f, n)]
<1>5. flatten = [n \in 1..N |-> Round(flatten, n)]
  <2> HIDE DEF Round, N
  <2>1. QED
    BY <1>4, Zenon
<1>6. FlattenSeq(lists) = IF N = 0 THEN lists ELSE flatten[N]
  BY DEF FlattenSeq
<1> HIDE DEF flatten
<1>7. \A n \in 1..N : flatten[n] = Round(flatten, n)
  BY <1>0, <1>5
<1>8. ASSUME N # 0 PROVE flatten[N] \in Seq(S)
  <2> DEFINE U == {n \in 0..N : n # 0 => flatten[n] \in Seq(S)}
  <2>1. 0 \in U
    BY <1>0
  <2>2. ASSUME NEW n \in 1..N, n - 1 \in U PROVE n \in U
    <3>1. CASE n = 1
      BY <1>0, <1>7, <3>1
    <3>2. CASE n # 1
      <4>1. flatten[n - 1] \in Seq(S)
        BY <2>2, <3>2
      <4>2. flatten[n] = flatten[n - 1] \o lists[n] /\ lists[n] \in Seq(S)
        BY <1>0, <1>7, <3>2
      <4>3. flatten[n] \in Seq(S)
        BY <4>1, <4>2
      <4>4. QED
        BY <4>3
    <3>3. QED
      BY <3>1, <3>2
  <2> HIDE DEF U
  <2>3. \A n \in 0..N : n \in U
    BY <1>0, <2>1, <2>2, UpTo
  <2>4. QED
    BY <1>0, <1>8, <2>3 DEF U
<1>9. CASE N = 0
  <2>1. lists = <<>>
    BY <1>9
  <2>2. <<>> \in Seq(S)
    OBVIOUS
  <2>3. QED
    BY <1>6, <1>9, <2>1, <2>2
<1>10. QED
  BY <1>6, <1>8, <1>9

-----------------------------------------------------------------------------
(* A place of a document, and what is known of a list while the places P   *)
(* are gone through in reading order: it is their destinations, each once, *)
(* by the first places ps that name them.                                  *)
Spots == [at : Nat \X Nat, dest : Destinations]

Told(out, ps, P) ==
  /\ out \in Seq(Destinations) /\ ps \in Seq(Spots) /\ Len(ps) = Len(out)
  /\ \A i \in 1..Len(out) : ps[i] \in P /\ ps[i].dest = out[i]
  /\ \A i, j \in 1..Len(out) : i < j => Before(ps[i].at, ps[j].at)
  /\ \A i, j \in 1..Len(out) : out[i] = out[j] => i = j
  /\ \A p \in P : \E i \in 1..Len(out) :
       out[i] = p.dest /\ (ps[i] = p \/ Before(ps[i].at, p.at))

LEMMA BeforeIs ==
  ASSUME NEW a \in Nat \X Nat, NEW b \in Nat \X Nat
  PROVE  ~ (Before(a, b) /\ Before(b, a)) /\ ~ Before(a, a)
BY DEF Before

LEMMA NothingTold == Told(<<>>, <<>>, {})
<1>1. <<>> \in Seq(Destinations) /\ <<>> \in Seq(Spots) /\ Len(<<>>) = 0 /\ 1..0 = {}
  OBVIOUS
<1>2. QED
  BY <1>1 DEF Told

LEMMA PushTold ==
  ASSUME NEW out, NEW ps, NEW P \in SUBSET Spots, Told(out, ps, P),
         NEW q \in Spots, \A p \in P : Before(p.at, q.at)
  PROVE  \E qs : Told(PushUnique(q.dest)[out], qs, P \cup {q})
<1> DEFINE d == q.dest
<1>1. out \in Seq(Destinations) /\ ps \in Seq(Spots) /\ Len(ps) = Len(out) /\ Len(out) \in Nat
      /\ DOMAIN out = 1..Len(out) /\ d \in Destinations
  BY DEF Told, Spots
<1>2. CASE \E i \in 1..Len(out) : out[i] = d
  <2>1. PushUnique(d)[out] = out
    BY <1>1, <1>2 DEF PushUnique, ToSet
  <2>2. \E i \in 1..Len(out) : out[i] = q.dest /\ (ps[i] = q \/ Before(ps[i].at, q.at))
    BY <1>2 DEF Told
  <2> HIDE DEF d
  <2>3. Told(out, ps, P \cup {q})
    BY <2>2 DEF Told
  <2>4. QED
    BY <2>1, <2>3 DEF d
<1>3. CASE \A i \in 1..Len(out) : out[i] # d
  <2> DEFINE new == Append(out, d)
             qs == Append(ps, q)
  <2>1. PushUnique(d)[out] = new
    BY <1>1, <1>3 DEF PushUnique, ToSet
  <2>2. /\ new \in Seq(Destinations) /\ qs \in Seq(Spots)
        /\ Len(new) = Len(out) + 1 /\ Len(qs) = Len(out) + 1
        /\ new[Len(out) + 1] = d /\ qs[Len(out) + 1] = q
        /\ \A i \in 1..Len(out) : new[i] = out[i] /\ qs[i] = ps[i] /\ i \in 1..Len(out) + 1
        /\ \A i \in 1..Len(out) + 1 : i \in 1..Len(out) \/ i = Len(out) + 1
    BY <1>1
  <2> HIDE DEF new, qs
  <2>3. \A i \in 1..Len(new) : qs[i] \in P \cup {q} /\ qs[i].dest = new[i]
    BY <2>2 DEF Told
  <2>4. ASSUME NEW i \in 1..Len(new), NEW j \in 1..Len(new), i < j
        PROVE  Before(qs[i].at, qs[j].at)
    <3>1. i \in 1..Len(out)
      BY <1>1, <2>2, <2>4
    <3>2. CASE j \in 1..Len(out)
      BY <2>2, <2>4, <3>1, <3>2 DEF Told
    <3>3. CASE j = Len(out) + 1
      BY <2>2, <3>1, <3>3 DEF Told
    <3>4. QED
      BY <2>2, <3>2, <3>3
  <2>5. ASSUME NEW i \in 1..Len(new), NEW j \in 1..Len(new), new[i] = new[j]
        PROVE  i = j
    BY <1>3, <2>2, <2>5 DEF Told
  <2>6. ASSUME NEW p \in P \cup {q}
        PROVE  \E i \in 1..Len(new) : new[i] = p.dest /\ (qs[i] = p \/ Before(qs[i].at, p.at))
    <3>1. CASE p \in P
      <4>1. PICK i \in 1..Len(out) : out[i] = p.dest /\ (ps[i] = p \/ Before(ps[i].at, p.at))
        BY <3>1 DEF Told
      <4>2. QED
        BY <2>2, <4>1
    <3>2. CASE p = q
      <4>1. Len(out) + 1 \in 1..Len(new)
        BY <1>1, <2>2
      <4>2. QED
        BY <2>2, <3>2, <4>1
    <3>3. QED
      BY <3>1, <3>2
  <2>7. Told(new, qs, P \cup {q})
    BY <2>2, <2>3, <2>4, <2>5, <2>6 DEF Told
  <2>8. QED
    BY <2>1, <2>7 DEF d
<1>4. QED
  BY <1>2, <1>3

(* The places of a list of destinations that rule r has, r = 0 being the   *)
(* defaults.                                                               *)
Row(r, dests) == {[at |-> <<r, n>>, dest |-> dests[n]] : n \in DOMAIN dests}

LEMMA PushAllTold ==
  ASSUME NEW out, NEW ps, NEW P \in SUBSET Spots, Told(out, ps, P),
         NEW r \in Nat, \A p \in P : p.at[1] < r, NEW dests \in Seq(Destinations)
  PROVE  \E qs : Told(PushAll(out, dests), qs, P \cup Row(r, dests))
<1> DEFINE N == Len(dests)
           spot(n) == [at |-> <<r, n>>, dest |-> dests[n]]
           Q(m) == P \cup {spot(n) : n \in 1..m}
<1>1. N \in Nat /\ DOMAIN dests = 1..N /\ \A n \in 1..N : dests[n] \in Destinations
  OBVIOUS
<1>2. PICK pushed :
        /\ pushed[0] = out
        /\ \A n \in 1..N : pushed[n] = PushUnique(dests[n])[pushed[n - 1]]
        /\ PushAll(out, dests) = pushed[N]
  BY <1>1, PushAllRuns
<1> DEFINE T == {m \in 0..N : \E qs : Told(pushed[m], qs, Q(m))}
<1>3. 0 \in T
  <2>1. Q(0) = P /\ 0 \in 0..N
    BY <1>1
  <2> HIDE DEF Q
  <2>2. QED
    BY <1>2, <2>1
<1>4. ASSUME NEW m \in 1..N, m - 1 \in T PROVE m \in T
  <2>1. PICK qs : Told(pushed[m - 1], qs, Q(m - 1))
    BY <1>4
  <2>2. /\ m - 1 \in Nat /\ \A n \in 1..m - 1 : n \in Nat /\ n \in 1..N /\ n < m
        /\ \A n \in 1..m : n \in 1..m - 1 \/ n = m
        /\ \A n \in 1..m - 1 : n \in 1..m
        /\ m \in 1..m /\ m \in 0..N /\ m \in Nat
    BY <1>1
  <2>3. \A n \in 1..N : spot(n) \in Spots /\ spot(n).at = <<r, n>> /\ spot(n).dest = dests[n]
    BY <1>1 DEF Spots
  <2>4. Q(m) = Q(m - 1) \cup {spot(m)}
    BY <2>2
  <2>5. Q(m - 1) \in SUBSET Spots
    BY <2>2, <2>3
  <2>6. ASSUME NEW p \in Q(m - 1) PROVE Before(p.at, spot(m).at)
    <3>1. CASE p \in P
      <4>1. p.at[1] < r /\ spot(m).at = <<r, m>>
        BY <2>3, <3>1
      <4>2. QED
        BY <4>1 DEF Before
    <3>2. CASE p \in {spot(n) : n \in 1..m - 1}
      <4>1. PICK n \in 1..m - 1 : p = spot(n)
        BY <3>2
      <4>2. p.at = <<r, n>> /\ spot(m).at = <<r, m>> /\ n < m
        BY <2>2, <2>3, <4>1
      <4>3. QED
        BY <4>2 DEF Before
    <3>3. QED
      BY <3>1, <3>2
  <2> HIDE DEF Q, spot, N
  <2>7. \E xs : Told(PushUnique(spot(m).dest)[pushed[m - 1]], xs, Q(m - 1) \cup {spot(m)})
    BY <2>1, <2>3, <2>5, <2>6, PushTold
  <2>8. PushUnique(spot(m).dest)[pushed[m - 1]] = pushed[m]
    BY <1>2, <2>3
  <2>9. QED
    BY <2>2, <2>4, <2>7, <2>8
<1>5. N \in T
  <2> HIDE DEF T, N
  <2>1. \A n \in 0..N : n \in T
    BY <1>1, <1>3, <1>4, UpTo
  <2>2. QED
    BY <1>1, <2>1
<1>6. Q(N) = P \cup Row(r, dests)
  BY <1>1 DEF Row
<1> HIDE DEF Q
<1>7. QED
  BY <1>2, <1>5, <1>6

(* The places of the first m rules that concern an event.                  *)
Asked(c, subject, event, m) ==
  {n \in 1..m : Matches(c.rules[n].match, subject) /\ Allows(c.rules[n], event)}
PlacesTo(c, subject, event, m) ==
  UNION {Row(n, c.rules[n].destinations) : n \in Asked(c, subject, event, m)}

LEMMA RowIs ==
  ASSUME NEW r \in Nat, NEW dests \in Seq(Destinations)
  PROVE  Row(r, dests) \in SUBSET Spots /\ \A p \in Row(r, dests) : p.at[1] = r
<1> SUFFICES ASSUME NEW p \in Row(r, dests) PROVE p \in Spots /\ p.at[1] = r
  OBVIOUS
<1>1. PICK n \in DOMAIN dests : p = [at |-> <<r, n>>, dest |-> dests[n]]
  BY DEF Row
<1>2. n \in Nat /\ dests[n] \in Destinations
  BY <1>1
<1>3. QED
  BY <1>1, <1>2 DEF Spots

LEMMA RulesTold ==
  ASSUME NEW c \in Configs, NEW subject, NEW event,
         \E n \in DOMAIN c.rules : Matches(c.rules[n].match, subject)
  PROVE  \E qs : Told(DestinationsFor(c, subject, event), qs,
                      PlacesTo(c, subject, event, Len(c.rules)))
<1> DEFINE N == Len(c.rules)
           dests(n) == c.rules[n].destinations
           Q(m) == PlacesTo(c, subject, event, m)
<1>1. /\ N \in Nat /\ DOMAIN c.rules = 1..N
      /\ \A n \in 1..N : dests(n) \in Seq(Destinations)
  <2>1. c.rules \in Seq(Rules)
    BY DEF Configs
  <2>2. /\ N \in Nat /\ DOMAIN c.rules = 1..N /\ \A n \in 1..N : c.rules[n] \in Rules
    BY <2>1
  <2> HIDE DEF N
  <2>3. QED
    BY <2>2 DEF Rules
<1>2. PICK routed :
        /\ routed[0] = <<>>
        /\ \A n \in 1..N :
             routed[n] = IF Matches(c.rules[n].match, subject) /\ Allows(c.rules[n], event)
                           THEN PushAll(routed[n - 1], dests(n)) ELSE routed[n - 1]
        /\ DestinationsFor(c, subject, event) = routed[N]
  <2>1. \E routed :
           /\ routed[0] = <<>>
           /\ \A n \in 1..N :
                routed[n] = IF Matches(c.rules[n].match, subject) /\ Allows(c.rules[n], event)
                              THEN PushAll(routed[n - 1], dests(n))
                              ELSE routed[n - 1]
           /\ DestinationsFor(c, subject, event) =
                IF \E n \in DOMAIN c.rules : Matches(c.rules[n].match, subject)
                  THEN routed[N] ELSE PushAll(<<>>, c.defaults)
    BY <1>1, DestinationsForRuns
  <2>2. QED
    BY <2>1
<1> DEFINE T == {m \in 0..N : \E qs : Told(routed[m], qs, Q(m))}
<1>3. 0 \in T
  <2>1. Q(0) = {} /\ 0 \in 0..N
    BY <1>1 DEF PlacesTo, Asked
  <2> HIDE DEF Q
  <2>2. QED
    BY <1>2, <2>1, NothingTold
<1>4. ASSUME NEW m \in 1..N, m - 1 \in T PROVE m \in T
  <2>1. PICK qs : Told(routed[m - 1], qs, Q(m - 1))
    BY <1>4
  <2>2. m \in 0..N /\ m \in Nat
    BY <1>1
  <2> DEFINE asked == Matches(c.rules[m].match, subject) /\ Allows(c.rules[m], event)
  <2>3. Asked(c, subject, event, m)
          = Asked(c, subject, event, m - 1) \cup (IF asked THEN {m} ELSE {})
    <3>1. 1..m = 1..(m - 1) \cup {m}
      BY <2>2, <1>1
    <3>2. QED
      BY <3>1 DEF Asked
  <2>4. Q(m) = Q(m - 1) \cup (IF asked THEN Row(m, dests(m)) ELSE {})
    <3> HIDE DEF asked
    <3>1. QED
      BY <2>3 DEF PlacesTo
  <2>5. CASE ~ asked
    <3>1. routed[m] = routed[m - 1] /\ Q(m) = Q(m - 1)
      BY <1>2, <2>4, <2>5
    <3> HIDE DEF Q
    <3>2. QED
      BY <2>1, <2>2, <3>1
  <2>6. CASE asked
    <3>1. ASSUME NEW p \in Q(m - 1) PROVE p \in Spots /\ p.at[1] < m
      <4>1. PICK n \in Asked(c, subject, event, m - 1) : p \in Row(n, dests(n))
        BY DEF PlacesTo
      <4>2. n \in 1..N /\ n \in Nat /\ n < m
        BY <1>1, <4>1 DEF Asked
      <4>3. p \in Spots /\ p.at[1] = n
        BY <1>1, <4>1, <4>2, RowIs
      <4>4. QED
        BY <4>2, <4>3
    <3> HIDE DEF Q
    <3>2. \E xs : Told(PushAll(routed[m - 1], dests(m)), xs, Q(m - 1) \cup Row(m, dests(m)))
      <4>1. Q(m - 1) \in SUBSET Spots /\ dests(m) \in Seq(Destinations)
        BY <1>1, <3>1
      <4> HIDE DEF dests
      <4>2. QED
        BY <2>1, <2>2, <3>1, <4>1, PushAllTold
    <3>3. routed[m] = PushAll(routed[m - 1], dests(m))
      BY <1>2, <2>6
    <3>4. Q(m) = Q(m - 1) \cup Row(m, dests(m))
      BY <2>4, <2>6
    <3>5. QED
      BY <2>2, <3>2, <3>3, <3>4
  <2>7. QED
    BY <2>5, <2>6
<1>5. N \in T
  <2> HIDE DEF T, N
  <2>1. \A n \in 0..N : n \in T
    BY <1>1, <1>3, <1>4, UpTo
  <2>2. QED
    BY <1>1, <2>1
<1> HIDE DEF Q
<1>6. QED
  BY <1>2, <1>5 DEF Q

-----------------------------------------------------------------------------
LEMMA PlacesAre ==
  ASSUME NEW c \in Configs, NEW subject, NEW event
  PROVE  Places(c, subject, event) =
           IF \E n \in DOMAIN c.rules : Matches(c.rules[n].match, subject)
             THEN PlacesTo(c, subject, event, Len(c.rules))
             ELSE Row(0, c.defaults)
<1>1. DOMAIN c.rules = 1..Len(c.rules)
  BY DEF Configs
<1>2. CASE \E n \in DOMAIN c.rules : Matches(c.rules[n].match, subject)
  <2>1. {n \in {n \in DOMAIN c.rules : Matches(c.rules[n].match, subject)} : Allows(c.rules[n], event)}
          = Asked(c, subject, event, Len(c.rules))
    BY <1>1 DEF Asked
  <2>2. {n \in DOMAIN c.rules : Matches(c.rules[n].match, subject)} # {}
    BY <1>2
  <2>3. QED
    BY <1>2, <2>1, <2>2, Zenon DEF Places, PlacesTo, Row
<1>3. CASE ~ \E n \in DOMAIN c.rules : Matches(c.rules[n].match, subject)
  <2>1. {n \in DOMAIN c.rules : Matches(c.rules[n].match, subject)} = {}
    BY <1>3
  <2>2. QED
    BY <1>3, <2>1, Zenon DEF Places, Row
<1>4. QED
  BY <1>2, <1>3

LEMMA PlacesAreSpots ==
  ASSUME NEW c \in Configs, NEW subject, NEW event
  PROVE  Places(c, subject, event) \in SUBSET Spots
<1>1. c.rules \in Seq(Rules) /\ c.defaults \in Seq(Destinations)
  BY DEF Configs
<1>2. ASSUME NEW n \in 1..Len(c.rules) PROVE Row(n, c.rules[n].destinations) \in SUBSET Spots
  <2>1. c.rules[n] \in Rules /\ n \in Nat
    BY <1>1
  <2>2. c.rules[n].destinations \in Seq(Destinations)
    BY <2>1 DEF Rules
  <2>3. QED
    BY <2>1, <2>2, RowIs
<1>3. PlacesTo(c, subject, event, Len(c.rules)) \in SUBSET Spots
  BY <1>2 DEF PlacesTo, Asked
<1>4. Row(0, c.defaults) \in SUBSET Spots
  BY <1>1, RowIs
<1>5. QED
  BY <1>3, <1>4, PlacesAre

LEMMA AllTold ==
  ASSUME NEW c \in Configs, NEW subject, NEW event
  PROVE  \E qs : Told(DestinationsFor(c, subject, event), qs, Places(c, subject, event))
<1>1. CASE \E n \in DOMAIN c.rules : Matches(c.rules[n].match, subject)
  BY <1>1, RulesTold, PlacesAre
<1>2. CASE ~ \E n \in DOMAIN c.rules : Matches(c.rules[n].match, subject)
  <2>1. DestinationsFor(c, subject, event) = PushAll(<<>>, c.defaults)
    <3>1. Len(c.rules) \in Nat
      BY DEF Configs
    <3>2. QED
      BY <1>2, <3>1, DestinationsForRuns
  <2>2. c.defaults \in Seq(Destinations)
    BY DEF Configs
  <2>3. \E qs : Told(PushAll(<<>>, c.defaults), qs, {} \cup Row(0, c.defaults))
    BY <2>2, NothingTold, PushAllTold
  <2>4. QED
    BY <1>2, <2>1, <2>3, PlacesAre
<1>3. QED
  BY <1>1, <1>2

(* What destinations_for gives is what the document says in reading order: *)
(* the places of the rules that concern the event, or of the defaults when *)
(* no rule matches the subject, every destination once, where it is named  *)
(* first.                                                                  *)
THEOREM RoutesInReadingOrder ==
  ASSUME NEW c \in Configs, NEW subject, NEW event
  PROVE  IsRouteOf(DestinationsFor(c, subject, event), c, subject, event)
<1> DEFINE out == DestinationsFor(c, subject, event)
           P == Places(c, subject, event)
           firsts == {p \in P : \A q \in P : q.dest = p.dest => ~ Before(q.at, p.at)}
<1>1. PICK ps : Told(out, ps, P)
  BY AllTold
<1> HIDE DEF out, P
<1>2. Len(out) \in Nat /\ DOMAIN out = 1..Len(out) /\ ps \in Seq(Spots) /\ Len(ps) = Len(out)
  BY <1>1 DEF Told
<1>3. \A q \in Spots : q.at \in Nat \X Nat
  BY DEF Spots
<1>4. ASSUME NEW i \in 1..Len(out) PROVE ps[i] \in firsts
  <2>1. ASSUME NEW q \in P, q.dest = ps[i].dest, Before(q.at, ps[i].at) PROVE FALSE
    <3>1. PICK k \in 1..Len(out) : out[k] = q.dest /\ (ps[k] = q \/ Before(ps[k].at, q.at))
      BY <1>1 DEF Told
    <3>2. k = i
      BY <1>1, <2>1, <3>1 DEF Told
    <3>3. ps[i] = q \/ Before(ps[i].at, q.at)
      BY <3>1, <3>2
    <3>4. ps[i].at \in Nat \X Nat /\ q.at \in Nat \X Nat
      <4>1. ps[i] \in Spots /\ q \in Spots
        BY <1>2, PlacesAreSpots DEF P
      <4>2. QED
        BY <1>3, <4>1
    <3>5. QED
      BY <2>1, <3>3, <3>4, BeforeIs
  <2>2. ps[i] \in P
    BY <1>1 DEF Told
  <2>3. QED
    BY <2>1, <2>2
<1>5. ASSUME NEW p \in firsts PROVE \E i \in 1..Len(out) : ps[i] = p /\ out[i] = p.dest
  <2>1. PICK i \in 1..Len(out) : out[i] = p.dest /\ (ps[i] = p \/ Before(ps[i].at, p.at))
    BY <1>1 DEF Told
  <2>2. ps[i] \in P /\ ps[i].dest = out[i]
    BY <1>1 DEF Told
  <2>3. QED
    BY <2>1, <2>2
<1> HIDE DEF firsts
<1>6. ToSet(out) = {p.dest : p \in firsts}
  <2>1. \A i \in 1..Len(out) : out[i] = ps[i].dest
    BY <1>1 DEF Told
  <2>2. ToSet(out) = {out[i] : i \in 1..Len(out)}
    BY <1>2 DEF ToSet
  <2>3. QED
    BY <1>4, <1>5, <2>1, <2>2
<1>7. Len(out) = Cardinality(firsts)
  <2>1. \A i, j \in 1..Len(out) : ps[i] = ps[j] => i = j
    BY <1>1 DEF Told
  <2>2. ps \in Bijection(1..Len(out), firsts)
    <3>1. ps \in [1..Len(out) -> firsts]
      <4>1. ps = [i \in 1..Len(out) |-> ps[i]]
        BY <1>2
      <4>2. QED
        BY <1>4, <4>1
    <3>2. QED
      BY <1>5, <2>1, <3>1 DEF Bijection, Injection, Surjection, IsInjective
  <2>3. IsFiniteSet(1..Len(out)) /\ Cardinality(1..Len(out)) = Len(out)
    <3>1. /\ IsFiniteSet(1..Len(out))
          /\ Cardinality(1..Len(out)) = IF 1 > Len(out) THEN 0 ELSE Len(out) - 1 + 1
      <4>1. Len(out) \in Int /\ 1 \in Int
        BY <1>2
      <4>2. QED
        BY <4>1, FS_Interval
    <3>2. QED
      BY <1>2, <3>1
  <2>4. ExistsBijection(1..Len(out), firsts)
    BY <2>2 DEF ExistsBijection
  <2>5. QED
    BY <2>3, <2>4, FS_Bijection
<1>8. \A i, j \in DOMAIN out : i < j =>
        \E p, q \in firsts : p.dest = out[i] /\ q.dest = out[j] /\ Before(p.at, q.at)
  BY <1>1, <1>2, <1>4 DEF Told
<1>9. QED
  BY <1>6, <1>7, <1>8 DEF IsRouteOf, out, P, firsts

-----------------------------------------------------------------------------
(* What a handler makes of a request.                                      *)
LEMMA RoutedIs ==
  ASSUME NEW c \in Configs, NEW subject, NEW event
  PROVE  /\ DestinationsFor(c, subject, event) \in Seq(Destinations)
         /\ \A i \in DOMAIN DestinationsFor(c, subject, event) :
              \E p \in Places(c, subject, event) : p.dest = DestinationsFor(c, subject, event)[i]
<1>1. PICK qs : Told(DestinationsFor(c, subject, event), qs, Places(c, subject, event))
  BY AllTold
<1> HIDE DEF Told
<1>2. DestinationsFor(c, subject, event) \in Seq(Destinations)
  BY <1>1 DEF Told
<1>3. DOMAIN DestinationsFor(c, subject, event) = 1..Len(DestinationsFor(c, subject, event))
  BY <1>2
<1>4. QED
  BY <1>1, <1>2, <1>3 DEF Told

(* Every destination of a valid document has an address.                   *)
LEMMA RoutedAddressed ==
  ASSUME NEW c \in Configs, NEW spec, Valid(c, spec), NEW subject, NEW event,
         NEW i \in DOMAIN DestinationsFor(c, subject, event)
  PROVE  DestinationsFor(c, subject, event)[i].target # Blank
<1>1. PICK p \in Places(c, subject, event) : p.dest = DestinationsFor(c, subject, event)[i]
  BY RoutedIs
<1>2. /\ \A n \in DOMAIN c.rules : \A j \in DOMAIN c.rules[n].destinations :
           c.rules[n].destinations[j].target # Blank
      /\ \A j \in DOMAIN c.defaults : c.defaults[j].target # Blank
  BY DEF Valid, Addressed
<1>3. DOMAIN c.rules = 1..Len(c.rules)
  BY DEF Configs
<1>4. CASE \E n \in DOMAIN c.rules : Matches(c.rules[n].match, subject)
  <2>1. p \in PlacesTo(c, subject, event, Len(c.rules))
    BY <1>4, PlacesAre
  <2>2. PICK n \in DOMAIN c.rules : p \in Row(n, c.rules[n].destinations)
    BY <1>3, <2>1 DEF PlacesTo, Asked
  <2>3. PICK j \in DOMAIN c.rules[n].destinations : p.dest = c.rules[n].destinations[j]
    BY <2>2 DEF Row
  <2>4. QED
    BY <1>1, <1>2, <2>3
<1>5. CASE ~ \E n \in DOMAIN c.rules : Matches(c.rules[n].match, subject)
  <2>1. p \in Row(0, c.defaults)
    BY <1>5, PlacesAre
  <2>2. PICK j \in DOMAIN c.defaults : p.dest = c.defaults[j]
    BY <2>1 DEF Row
  <2>3. QED
    BY <1>1, <1>2, <2>2
<1>6. QED
  BY <1>4, <1>5

LEMMA LarkEmailIs ==
  ASSUME NEW c \in Configs, NEW username
  PROVE  /\ LarkEmail(c, username) \in Seq(Targets \cup {Blank})
         /\ c.users = <<>> => LarkEmail(c, username) = <<>>
<1> DEFINE mine == {n \in DOMAIN c.users : c.users[n].username = username}
           Entries == [username : Usernames, email : Targets \cup {Blank}]
<1>1. c.users \in Seq(Entries)
  BY DEF Configs
<1>2. DOMAIN c.users \subseteq Nat /\ \A n \in DOMAIN c.users : c.users[n].email \in Targets \cup {Blank}
  <2>1. /\ DOMAIN c.users = 1..Len(c.users)
        /\ \A n \in DOMAIN c.users : c.users[n] \in Entries
    <3> HIDE DEF Entries
    <3>1. QED
      BY <1>1
  <2>2. QED
    BY <2>1
<1>3. LarkEmail(c, username) = IF mine = {} THEN <<>> ELSE << c.users[Min(mine)].email >>
  BY DEF LarkEmail
<1>4. mine # {} => Min(mine) \in mine
  BY <1>2, MinIs
<1>5. c.users = <<>> => mine = {}
  BY <1>1
<1>6. mine # {} => c.users[Min(mine)].email \in Targets \cup {Blank}
  BY <1>2, <1>4
<1> HIDE DEF mine
<1>7. CASE mine = {}
  <2>1. <<>> \in Seq(Targets \cup {Blank})
    OBVIOUS
  <2>2. QED
    BY <1>3, <1>7, <2>1
<1>8. CASE mine # {}
  <2> DEFINE email == c.users[Min(mine)].email
  <2>1. email \in Targets \cup {Blank}
    BY <1>6, <1>8
  <2>2. LarkEmail(c, username) = << email >>
    BY <1>3, <1>8
  <2> HIDE DEF email
  <2>3. << email >> \in Seq(Targets \cup {Blank})
    BY <2>1
  <2>4. QED
    BY <1>5, <1>8, <2>2, <2>3
<1>9. QED
  BY <1>7, <1>8

LEMMA DirectToIs ==
  ASSUME NEW r \in Requests, NEW c \in Configs
  PROVE  /\ DirectTo(r, c) \in Seq(Destinations)
         /\ c.users = <<>> => DirectTo(r, c) = <<>>
<1> DEFINE lists == [i \in DOMAIN Reviewers(r) |-> LarkEmail(c, Reviewers(r)[i])]
           emails == FlattenSeq(lists)
<1>1. Reviewers(r) \in Seq(Usernames)
  <2>1. r.reviewers \in Seq(Usernames) /\ r.assignees \in Seq(Usernames) /\ <<>> \in Seq(Usernames)
    BY DEF Requests
  <2>2. QED
    BY <2>1 DEF Reviewers
<1>2. PICK n \in Nat : DOMAIN Reviewers(r) = 1..n
  BY <1>1
<1>3. ASSUME NEW S, \A i \in 1..n : LarkEmail(c, Reviewers(r)[i]) \in Seq(S)
      PROVE  emails \in Seq(S)
  <2>1. lists \in Seq(Seq(S))
    BY <1>2, <1>3
  <2> HIDE DEF lists
  <2>2. QED
    BY <2>1, FlattenSeqIs
<1>4. emails \in Seq(Targets \cup {Blank})
  BY <1>3, LarkEmailIs
<1>5. ASSUME c.users = <<>> PROVE emails = <<>>
  <2>1. <<>> \in Seq({})
    OBVIOUS
  <2>2. \A i \in 1..n : LarkEmail(c, Reviewers(r)[i]) \in Seq({})
    BY <1>5, <2>1, LarkEmailIs
  <2>3. emails \in Seq({})
    <3> HIDE DEF emails
    <3>1. QED
      BY <1>3, <2>2
  <2> HIDE DEF emails
  <2>4. QED
    BY <2>3
<1>6. DirectTo(r, c) = [i \in DOMAIN emails |-> [kind |-> "dm", target |-> emails[i]]]
  BY Zenon DEF DirectTo
<1> HIDE DEF emails
<1>7. DirectTo(r, c) \in Seq(Destinations)
  <2>1. \A i \in DOMAIN emails : [kind |-> "dm", target |-> emails[i]] \in Destinations
    BY <1>4 DEF Destinations
  <2>2. DOMAIN emails = 1..Len(emails) /\ Len(emails) \in Nat
    BY <1>4
  <2>3. QED
    BY <1>6, <2>1, <2>2
<1>8. c.users = <<>> => DirectTo(r, c) = <<>>
  BY <1>5, <1>6
<1>9. QED
  BY <1>7, <1>8

(* The cards of a request, group cards first.                              *)
LEMMA CardsOfIs ==
  ASSUME NEW r \in Requests, NEW c \in Configs, CardsOf(r, c) # <<>>
  PROVE  \E label \in Labels \cup {None} :
           CardsOf(r, c) = Card("group", DestinationsFor(c, r.subject, r.kind), label)
                           \o Card("dm", DirectTo(r, c), None)
<1>1. CASE LabelNews(r, c)
  <2>1. r.current \in Seq(Labels)
    BY DEF Requests
  <2>2. DOMAIN r.current \subseteq Nat /\ \A n \in DOMAIN r.current : r.current[n] \in Labels
    BY <2>1
  <2>3. AlertLabels(r, c) # {} /\ AlertLabels(r, c) \subseteq DOMAIN r.current
    BY <1>1 DEF LabelNews, AlertLabels
  <2>4. Min(AlertLabels(r, c)) \in AlertLabels(r, c)
    BY <2>2, <2>3, MinIs
  <2>5. r.current[Min(AlertLabels(r, c))] \in Labels
    BY <2>2, <2>3, <2>4
  <2>6. QED
    BY <1>1, <2>5, Zenon DEF CardsOf
<1>2. CASE ~ LabelNews(r, c)
  BY <1>2, Zenon DEF CardsOf
<1>3. QED
  BY <1>1, <1>2

LEMMA CardIs ==
  ASSUME NEW dests \in Seq(Destinations), NEW kind \in {"group", "dm"},
         NEW label \in Labels \cup {None}
  PROVE  /\ Card(kind, dests, label) \in Seq(Cards) /\ Len(Card(kind, dests, label)) = Len(dests)
         /\ \A i \in 1..Len(dests) : /\ Card(kind, dests, label)[i].card = kind
                                     /\ Card(kind, dests, label)[i].dest = dests[i]
<1>1. /\ Len(dests) \in Nat /\ DOMAIN dests = 1..Len(dests)
      /\ \A i \in 1..Len(dests) : dests[i] \in Destinations
  OBVIOUS
<1> DEFINE card(i) == [card |-> kind, dest |-> dests[i], label |-> label]
<1>2. \A i \in 1..Len(dests) : card(i) \in Cards /\ card(i).card = kind /\ card(i).dest = dests[i]
  BY <1>1 DEF Cards
<1>3. Card(kind, dests, label) = [i \in 1..Len(dests) |-> card(i)]
  BY <1>1 DEF Card
<1> HIDE DEF card
<1>4. QED
  BY <1>1, <1>2, <1>3

LEMMA CardsTyped ==
  ASSUME NEW r \in Requests, NEW c \in Configs
  PROVE  CardsOf(r, c) \in Seq(Cards)
<1>1. CASE CardsOf(r, c) = <<>>
  <2>1. <<>> \in Seq(Cards)
    OBVIOUS
  <2>2. QED
    BY <1>1, <2>1
<1>2. CASE CardsOf(r, c) # <<>>
  <2>1. PICK label \in Labels \cup {None} :
          CardsOf(r, c) = Card("group", DestinationsFor(c, r.subject, r.kind), label)
                          \o Card("dm", DirectTo(r, c), None)
    BY <1>2, CardsOfIs
  <2>2. /\ Card("group", DestinationsFor(c, r.subject, r.kind), label) \in Seq(Cards)
        /\ Card("dm", DirectTo(r, c), None) \in Seq(Cards)
    BY RoutedIs, DirectToIs, CardIs
  <2>3. QED
    BY <2>1, <2>2, ConcatProperties
<1>3. QED
  BY <1>1, <1>2

LEMMA EmptyConfigIs == EmptyConfig \in Configs /\ EmptyConfig.users = <<>>
<1>1. <<>> \in Seq(Rules) /\ <<>> \in Seq(Destinations)
      /\ <<>> \in Seq([username : Usernames, email : Targets \cup {Blank}])
  OBVIOUS
<1>2. QED
  BY <1>1 DEF EmptyConfig, Configs

(* Without a document nothing is sent.                                     *)
LEMMA NoCards ==
  ASSUME NEW r \in Requests
  PROVE  CardsOf(r, EmptyConfig) = <<>>
<1>1. DestinationsFor(EmptyConfig, r.subject, r.kind) = <<>>
  <2> DEFINE out == DestinationsFor(EmptyConfig, r.subject, r.kind)
  <2>1. EmptyConfig.rules = <<>> /\ EmptyConfig.defaults = <<>>
    BY DEF EmptyConfig
  <2>2. Places(EmptyConfig, r.subject, r.kind) = {}
    BY <2>1, EmptyConfigIs, PlacesAre DEF Row
  <2>3. out \in Seq(Destinations) /\ DOMAIN out = {}
    BY <2>2, EmptyConfigIs, RoutedIs
  <2> HIDE DEF out
  <2>4. out = <<>>
    BY <2>3
  <2>5. QED
    BY <2>4 DEF out
<1>2. DirectTo(r, EmptyConfig) = <<>>
  BY EmptyConfigIs, DirectToIs
<1>3. \A kind, label : Card(kind, <<>>, label) = <<>>
  BY DEF Card
<1>4. SUFFICES ASSUME CardsOf(r, EmptyConfig) # <<>> PROVE FALSE
  OBVIOUS
<1>5. PICK label : CardsOf(r, EmptyConfig) =
                     Card("group", DestinationsFor(EmptyConfig, r.subject, r.kind), label)
                     \o Card("dm", DirectTo(r, EmptyConfig), None)
  BY <1>4, EmptyConfigIs, CardsOfIs
<1>6. CardsOf(r, EmptyConfig) = <<>> \o <<>>
  BY <1>1, <1>2, <1>3, <1>5
<1>7. <<>> \o <<>> = <<>>
  OBVIOUS
<1>8. QED
  BY <1>4, <1>6, <1>7

-----------------------------------------------------------------------------
(* A request has seen documents its App accepts only; it holds the present *)
(* one until it loads; and what it sends, sent already or not, are the     *)
(* cards one of them makes of it.                                          *)
HookInv(h) ==
  /\ phase[h] # "none" => req[h] \in Menu
  /\ \A d \in seen[h] : d # None => d \in Docs /\ Valid(Text[d], RoutingSpec(app))
  /\ phase[h] # "answered" => status[h] = 0
  /\ phase[h] \in {"none", "taken", "checked"} => sent[h] = <<>> /\ todo[h] = <<>>
  /\ phase[h] \in {"taken", "checked"} => store \in seen[h]
  /\ sent[h] \o todo[h] # <<>> =>
       \E d \in seen[h] \ {None} :
         phase[h] # "none" /\ sent[h] \o todo[h] = CardsOf(req[h], Text[d])
  /\ status[h] = 200 => todo[h] = <<>>

HooksInv == TypeOK /\ \A h \in Hooks : HookInv(h)

LEMMA HooksInit == Init => HooksInv
<1> SUFFICES ASSUME Init PROVE HooksInv
  OBVIOUS
<1>1. <<>> \in Seq(Cards) /\ <<>> \o <<>> = <<>>
  OBVIOUS
<1>2. TypeOK
  <2>1. app \in Apps /\ gen = 1 /\ live = 1 /\ 1 \in Generations(app)
    BY BuiltAssumption DEF Init
  <2>2. gen \in DOMAIN Built[app] /\ live \in Generations(app) \cup {None}
    BY <2>1 DEF Generations
  <2>3. store # None => store \in Docs /\ Valid(Text[store], RoutingSpec(app))
    BY StoredAssumption DEF Init
  <2>4. /\ phase \in [Hooks -> Phases] /\ req \in [Hooks -> Menu \cup {None}]
        /\ home \in [Hooks -> Generations(app) \cup {None}]
        /\ todo \in [Hooks -> Seq(Cards)] /\ sent \in [Hooks -> Seq(Cards)]
        /\ seen \in [Hooks -> SUBSET (Docs \cup {None})]
        /\ status \in [Hooks -> {0, 200, 400, 401, 503}]
    BY <1>1 DEF Init, Phases
  <2>5. edits \in 0..MaxEdits /\ faults \in 0..MaxFaults
    BY BoundsAssumption DEF Init
  <2>6. QED
    BY <2>1, <2>2, <2>3, <2>4, <2>5 DEF TypeOK
<1>3. ASSUME NEW h \in Hooks PROVE HookInv(h)
  BY <1>1 DEF Init, HookInv
<1>4. QED
  BY <1>2, <1>3 DEF HooksInv

(* A request none of whose parts changes.                                  *)
LEMMA HookStays ==
  ASSUME NEW h \in Hooks, HookInv(h), app' = app,
         req'[h] = req[h], phase'[h] = phase[h], todo'[h] = todo[h], sent'[h] = sent[h],
         status'[h] = status[h], seen'[h] = seen[h],
         phase[h] \in {"taken", "checked"} => store' = store
  PROVE  HookInv(h)'
BY DEF HookInv

LEMMA ArriveInv ==
  ASSUME HooksInv, NEW h \in Hooks, NEW r \in Menu, Arrive(h, r)
  PROVE  HooksInv'
<1>1. TypeOK'
  <2>1. /\ phase \in [Hooks -> Phases] /\ status \in [Hooks -> {0, 200, 400, 401, 503}]
        /\ req \in [Hooks -> Menu \cup {None}] /\ seen \in [Hooks -> SUBSET (Docs \cup {None})]
        /\ home \in [Hooks -> Generations(app) \cup {None}]
        /\ store \in Docs \cup {None} /\ live \in Generations(app) \cup {None}
    BY DEF HooksInv, TypeOK
  <2>2. /\ req' = [req EXCEPT ![h] = r] /\ seen' = [seen EXCEPT ![h] = {store}]
        /\ UNCHANGED <<app, gen, live, store, todo, sent, edits, faults>>
    BY DEF Arrive
  <2>3. \/ /\ phase' = [phase EXCEPT ![h] = "answered"]
           /\ status' = [status EXCEPT ![h] = 503] /\ home' = home
        \/ /\ phase' = [phase EXCEPT ![h] = "taken"]
           /\ status' = status /\ home' = [home EXCEPT ![h] = live]
    BY DEF Arrive, Answer
  <2>4. phase' \in [Hooks -> Phases] /\ status' \in [Hooks -> {0, 200, 400, 401, 503}]
    <3>1. {"answered", "taken"} \subseteq Phases
      BY DEF Phases
    <3> HIDE DEF Phases
    <3>2. QED
      BY <2>1, <2>3, <3>1
  <2>5. home' \in [Hooks -> Generations(app) \cup {None}]
    BY <2>1, <2>3
  <2>6. /\ req' \in [Hooks -> Menu \cup {None}]
        /\ seen' \in [Hooks -> SUBSET (Docs \cup {None})]
    BY <2>1, <2>2
  <2>7. QED
    BY <2>2, <2>4, <2>5, <2>6 DEF HooksInv, TypeOK, Generations
<1>2. ASSUME NEW k \in Hooks, k # h PROVE HookInv(k)'
  <2>1. /\ app' = app /\ store' = store /\ req'[k] = req[k] /\ phase'[k] = phase[k]
        /\ todo'[k] = todo[k] /\ sent'[k] = sent[k] /\ status'[k] = status[k] /\ seen'[k] = seen[k]
    BY <1>2 DEF HooksInv, TypeOK, Arrive, Answer
  <2>2. QED
    BY <2>1, HookStays DEF HooksInv
<1>3. HookInv(h)'
  <2>1. /\ app' = app /\ store' = store /\ req'[h] = r /\ seen'[h] = {store}
        /\ sent'[h] = <<>> /\ todo'[h] = <<>>
        /\ \/ phase'[h] = "taken" /\ status'[h] = 0
           \/ phase'[h] = "answered" /\ status'[h] = 503
    BY DEF HooksInv, HookInv, TypeOK, Arrive, Answer
  <2>2. <<>> \o <<>> = <<>>
    OBVIOUS
  <2>3. store # None => store \in Docs /\ Valid(Text[store], RoutingSpec(app))
    BY DEF HooksInv, TypeOK
  <2>4. QED
    BY <2>1, <2>2, <2>3 DEF HookInv
<1>4. QED
  BY <1>1, <1>2, <1>3 DEF HooksInv

LEMMA CheckInv ==
  ASSUME HooksInv, NEW h \in Hooks, Check(h)
  PROVE  HooksInv'
<1>1. /\ phase[h] = "taken"
      /\ \/ phase' = [phase EXCEPT ![h] = "checked"] /\ status' = status
         \/ /\ phase' = [phase EXCEPT ![h] = "answered"]
            /\ \E code \in {400, 401} : status' = [status EXCEPT ![h] = code]
      /\ UNCHANGED <<app, gen, live, store, req, home, todo, sent, seen, edits, faults>>
  BY Zenon DEF Check, Answer
<1>2. TypeOK'
  <2>1. phase' \in [Hooks -> Phases] /\ status' \in [Hooks -> {0, 200, 400, 401, 503}]
    <3>1. phase \in [Hooks -> Phases] /\ status \in [Hooks -> {0, 200, 400, 401, 503}]
      BY DEF HooksInv, TypeOK
    <3>2. {"answered", "checked"} \subseteq Phases
      BY DEF Phases
    <3> HIDE DEF Phases
    <3>3. QED
      BY <1>1, <3>1, <3>2
  <2>2. QED
    BY <1>1, <2>1 DEF HooksInv, TypeOK, Generations
<1>3. ASSUME NEW k \in Hooks, k # h PROVE HookInv(k)'
  <2>1. phase'[k] = phase[k] /\ status'[k] = status[k]
    BY <1>1, <1>3 DEF HooksInv, TypeOK
  <2>2. QED
    BY <1>1, <2>1, HookStays DEF HooksInv
<1>4. HookInv(h)'
  <2>1. \/ phase'[h] = "checked" /\ status'[h] = 0
        \/ phase'[h] = "answered" /\ status'[h] \in {400, 401}
    BY <1>1 DEF HooksInv, HookInv, TypeOK
  <2>2. HookInv(h)
    BY DEF HooksInv
  <2>3. sent[h] = <<>> /\ todo[h] = <<>> /\ <<>> \o <<>> = <<>>
    BY <1>1, <2>2 DEF HookInv
  <2>4. QED
    BY <1>1, <2>1, <2>2, <2>3 DEF HookInv
<1>5. QED
  BY <1>2, <1>3, <1>4 DEF HooksInv

LEMMA LoadInv ==
  ASSUME HooksInv, NEW h \in Hooks, Load(h)
  PROVE  HooksInv'
<1>1. /\ phase[h] = "checked" /\ faults' \in 0..MaxFaults
      /\ UNCHANGED <<app, gen, live, store, req, home, sent, seen, edits>>
  BY BoundsAssumption DEF Load, HooksInv, TypeOK
<1>2. PICK x \in {Document(store), EmptyConfig} : Accept(h, x)
  BY DEF Load
<1>3. req[h] \in Requests /\ HookInv(h) /\ store \in seen[h] /\ sent[h] = <<>> /\ todo[h] = <<>>
      /\ status[h] = 0
  BY <1>1, MenuAssumption DEF HooksInv, HookInv
<1>4. store # None => store \in Docs /\ Text[store] \in Configs
  BY DocsAssumption DEF HooksInv, TypeOK
<1>5. x \in Configs
  BY <1>4, EmptyConfigIs DEF Document
<1>6. /\ CardsOf(req[h], x) \in Seq(Cards)
      /\ CardsOf(req[h], x) # <<>> => store # None /\ x = Text[store]
  BY <1>2, <1>3, <1>5, CardsTyped, NoCards DEF Document
<1>7. \/ /\ phase' = [phase EXCEPT ![h] = "answered"]
         /\ status' = [status EXCEPT ![h] = 400] /\ todo' = todo
      \/ /\ phase' = [phase EXCEPT ![h] = "sending"] /\ status' = status
         /\ todo' = [todo EXCEPT ![h] = CardsOf(req[h], x)]
  BY <1>2, Zenon DEF Accept, Answer
<1>8. /\ phase \in [Hooks -> Phases] /\ status \in [Hooks -> {0, 200, 400, 401, 503}]
      /\ todo \in [Hooks -> Seq(Cards)]
  BY DEF HooksInv, TypeOK
<1>9. TypeOK'
  <2> DEFINE cards == CardsOf(req[h], x)
  <2>1. "answered" \in Phases /\ "sending" \in Phases /\ cards \in Seq(Cards)
    BY <1>6 DEF Phases
  <2> HIDE DEF cards
  <2>2. /\ phase' \in [Hooks -> Phases] /\ status' \in [Hooks -> {0, 200, 400, 401, 503}]
        /\ todo' \in [Hooks -> Seq(Cards)]
    <3>1. CASE /\ phase' = [phase EXCEPT ![h] = "answered"]
               /\ status' = [status EXCEPT ![h] = 400] /\ todo' = todo
      BY <1>8, <2>1, <3>1
    <3>2. CASE /\ phase' = [phase EXCEPT ![h] = "sending"] /\ status' = status
               /\ todo' = [todo EXCEPT ![h] = cards]
      BY <1>8, <2>1, <3>2
    <3>3. QED
      BY <1>7, <3>1, <3>2 DEF cards
  <2>3. QED
    BY <1>1, <2>2 DEF HooksInv, TypeOK, Generations
<1>10. ASSUME NEW k \in Hooks, k # h PROVE HookInv(k)'
  <2>1. phase'[k] = phase[k] /\ status'[k] = status[k] /\ todo'[k] = todo[k]
    BY <1>7, <1>8, <1>10
  <2>2. QED
    BY <1>1, <2>1, HookStays DEF HooksInv
<1>11. HookInv(h)'
  <2>1. \/ phase'[h] = "answered" /\ status'[h] = 400 /\ todo'[h] = <<>>
        \/ phase'[h] = "sending" /\ status'[h] = 0 /\ todo'[h] = CardsOf(req[h], x)
    BY <1>3, <1>7, <1>8
  <2>2. sent'[h] = <<>> /\ <<>> \o <<>> = <<>>
    BY <1>1, <1>3
  <2>3. sent'[h] \o todo'[h] = todo'[h]
    <3>1. todo'[h] \in Seq(Cards)
      BY <1>9 DEF TypeOK
    <3>2. QED
      BY <2>2, <3>1
  <2>4. sent'[h] \o todo'[h] # <<>> =>
          /\ store \in seen[h] \ {None} /\ phase'[h] # "none"
          /\ sent'[h] \o todo'[h] = CardsOf(req[h], Text[store])
    BY <1>3, <1>6, <2>1, <2>3
  <2>5. QED
    BY <1>1, <1>3, <2>1, <2>4 DEF HookInv
<1>12. QED
  BY <1>9, <1>10, <1>11 DEF HooksInv

LEMMA DeliverInv ==
  ASSUME HooksInv, NEW h \in Hooks, Deliver(h)
  PROVE  HooksInv'
<1>1. /\ phase[h] = "sending" /\ todo[h] # <<>>
      /\ sent' = [sent EXCEPT ![h] = Append(sent[h], todo[h][1])]
      /\ todo' = [todo EXCEPT ![h] = Tail(todo[h])]
      /\ UNCHANGED <<app, gen, live, store, req, phase, home, status, seen, edits, faults>>
  BY DEF Deliver
<1>2. /\ todo \in [Hooks -> Seq(Cards)] /\ sent \in [Hooks -> Seq(Cards)]
      /\ todo[h] \in Seq(Cards) /\ sent[h] \in Seq(Cards)
  BY DEF HooksInv, TypeOK
<1>3. /\ Append(sent[h], todo[h][1]) \in Seq(Cards) /\ Tail(todo[h]) \in Seq(Cards)
      /\ Append(sent[h], todo[h][1]) \o Tail(todo[h]) = sent[h] \o todo[h]
  BY <1>1, <1>2
<1>4. TypeOK'
  <2>1. todo' \in [Hooks -> Seq(Cards)] /\ sent' \in [Hooks -> Seq(Cards)]
    BY <1>1, <1>2, <1>3
  <2>2. QED
    BY <1>1, <2>1 DEF HooksInv, TypeOK, Generations
<1>5. ASSUME NEW k \in Hooks, k # h PROVE HookInv(k)'
  <2>1. sent'[k] = sent[k] /\ todo'[k] = todo[k]
    BY <1>1, <1>2, <1>5
  <2>2. QED
    BY <1>1, <2>1, HookStays DEF HooksInv
<1>6. HookInv(h)'
  <2>1. sent'[h] \o todo'[h] = sent[h] \o todo[h]
    BY <1>1, <1>2, <1>3
  <2>2. HookInv(h) /\ status[h] = 0
    BY <1>1 DEF HooksInv, HookInv
  <2>3. QED
    BY <1>1, <2>1, <2>2 DEF HookInv
<1>7. QED
  BY <1>4, <1>5, <1>6 DEF HooksInv

LEMMA FinishInv ==
  ASSUME HooksInv, NEW h \in Hooks, Finish(h)
  PROVE  HooksInv'
<1>1. /\ phase[h] = "sending" /\ todo[h] = <<>>
      /\ phase' = [phase EXCEPT ![h] = "answered"] /\ status' = [status EXCEPT ![h] = 200]
      /\ UNCHANGED <<app, gen, live, store, req, home, todo, sent, seen, edits, faults>>
  BY DEF Finish, Answer
<1>2. phase \in [Hooks -> Phases] /\ status \in [Hooks -> {0, 200, 400, 401, 503}]
  BY DEF HooksInv, TypeOK
<1>3. TypeOK'
  <2>1. phase' \in [Hooks -> Phases] /\ status' \in [Hooks -> {0, 200, 400, 401, 503}]
    <3>1. "answered" \in Phases
      BY DEF Phases
    <3> HIDE DEF Phases
    <3>2. QED
      BY <1>1, <1>2, <3>1
  <2>2. QED
    BY <1>1, <2>1 DEF HooksInv, TypeOK, Generations
<1>4. ASSUME NEW k \in Hooks, k # h PROVE HookInv(k)'
  <2>1. phase'[k] = phase[k] /\ status'[k] = status[k]
    BY <1>1, <1>2, <1>4
  <2>2. QED
    BY <1>1, <2>1, HookStays DEF HooksInv
<1>5. HookInv(h)'
  <2>1. phase'[h] = "answered" /\ status'[h] = 200 /\ HookInv(h)
    BY <1>1, <1>2 DEF HooksInv
  <2>2. QED
    BY <1>1, <2>1 DEF HookInv
<1>6. QED
  BY <1>3, <1>4, <1>5 DEF HooksInv

LEMMA PutInv ==
  ASSUME HooksInv, NEW d \in Docs, Put(d)
  PROVE  HooksInv'
<1>1. /\ Valid(Text[d], RoutingSpec(app)) /\ store' = d /\ edits' \in 0..MaxEdits
      /\ seen' = [h \in Hooks |-> IF phase[h] \in {"taken", "checked"}
                                    THEN seen[h] \cup {d} ELSE seen[h]]
      /\ UNCHANGED <<app, gen, live, req, phase, home, todo, sent, status, faults>>
  BY BoundsAssumption DEF Put, HooksInv, TypeOK
<1>2. TypeOK'
  <2>1. seen' \in [Hooks -> SUBSET (Docs \cup {None})]
    BY <1>1 DEF HooksInv, TypeOK
  <2>2. QED
    BY <1>1, <2>1 DEF HooksInv, TypeOK, Generations
<1>3. ASSUME NEW h \in Hooks PROVE HookInv(h)'
  <2>1. HookInv(h)
    BY DEF HooksInv
  <2>2. CASE phase[h] \in {"taken", "checked"}
    <3>1. seen'[h] = seen[h] \cup {d} /\ sent[h] = <<>> /\ todo[h] = <<>> /\ <<>> \o <<>> = <<>>
      BY <1>1, <2>1, <2>2 DEF HookInv
    <3>2. QED
      BY <1>1, <2>1, <2>2, <3>1 DEF HookInv
  <2>3. CASE phase[h] \notin {"taken", "checked"}
    <3>1. seen'[h] = seen[h]
      BY <1>1, <2>3
    <3>2. QED
      BY <1>1, <2>1, <2>3, <3>1, HookStays
  <2>4. QED
    BY <2>2, <2>3
<1>4. QED
  BY <1>2, <1>3 DEF HooksInv

LEMMA CrashInv ==
  ASSUME HooksInv, Crash
  PROVE  HooksInv'
<1>1. /\ faults' \in 0..MaxFaults
      /\ phase' = [h \in Hooks |-> IF phase[h] \in {"taken", "checked", "sending"}
                                     THEN "lost" ELSE phase[h]]
      /\ live' \in Generations(app) \cup {None}
      /\ UNCHANGED <<app, gen, store, req, home, todo, sent, status, seen, edits>>
  BY BoundsAssumption DEF Crash, HooksInv, TypeOK
<1>2. TypeOK'
  <2>1. phase' \in [Hooks -> Phases]
    BY <1>1 DEF HooksInv, TypeOK, Phases
  <2>2. QED
    BY <1>1, <2>1 DEF HooksInv, TypeOK, Generations
<1>3. ASSUME NEW h \in Hooks PROVE HookInv(h)'
  <2>1. HookInv(h)
    BY DEF HooksInv
  <2>2. \/ phase'[h] = phase[h]
        \/ phase'[h] = "lost" /\ phase[h] \in {"taken", "checked", "sending"}
    BY <1>1
  <2>3. QED
    BY <1>1, <2>1, <2>2 DEF HookInv
<1>4. QED
  BY <1>2, <1>3 DEF HooksInv

LEMMA HooksNext ==
  HooksInv /\ [Next]_vars => HooksInv'
<1> SUFFICES ASSUME HooksInv, [Next]_vars PROVE HooksInv'
  OBVIOUS
<1>1. CASE \E h \in Hooks : (\E r \in Menu : Arrive(h, r)) \/ Handle(h)
  BY <1>1, ArriveInv, CheckInv, LoadInv, DeliverInv, FinishInv DEF Handle
<1>2. CASE Stop \/ Start \/ UNCHANGED vars
  <2>1. /\ gen' \in DOMAIN Built[app] /\ live' \in Generations(app) \cup {None}
        /\ UNCHANGED <<app, store, req, phase, home, todo, sent, status, seen, edits, faults>>
    <3>1. CASE Stop
      BY <3>1 DEF Stop, HooksInv, TypeOK
    <3>2. CASE Start
      BY <3>2 DEF Start, HooksInv, TypeOK
    <3>3. CASE UNCHANGED vars
      BY <3>3 DEF vars, HooksInv, TypeOK
    <3>4. QED
      BY <1>2, <3>1, <3>2, <3>3
  <2>2. TypeOK'
    BY <2>1 DEF HooksInv, TypeOK, Generations
  <2>3. \A h \in Hooks : HookInv(h)'
    BY <2>1, HookStays DEF HooksInv
  <2>4. QED
    BY <2>2, <2>3 DEF HooksInv
<1>3. CASE Crash
  BY <1>3, CrashInv
<1>4. CASE \E d \in Docs : Put(d)
  BY <1>4, PutInv
<1>5. QED
  BY <1>1, <1>2, <1>3, <1>4 DEF Next

LEMMA HooksAlways == Spec => []HooksInv
BY HooksInit, HooksNext, PTL DEF Spec

Parts(dests, label, direct) == Card("group", dests, label) \o Card("dm", direct, None)

(* What a request sends are cards of one valid document it has seen.       *)
LEMMA SentIs ==
  ASSUME HooksInv, NEW h \in Hooks, sent[h] # <<>>
  PROVE  \E d \in seen[h] \ {None} :
           \E label \in Labels \cup {None} :
             /\ Text[d] \in Configs /\ Valid(Text[d], RoutingSpec(app)) /\ req[h] \in Requests
             /\ sent[h] \o todo[h] =
                  Parts(DestinationsFor(Text[d], req[h].subject, req[h].kind), label,
                        DirectTo(req[h], Text[d]))
<1>1. sent[h] \in Seq(Cards) /\ todo[h] \in Seq(Cards) /\ HookInv(h)
  BY DEF HooksInv, TypeOK
<1>2. sent[h] \o todo[h] # <<>>
  BY <1>1
<1>3. PICK d \in seen[h] \ {None} :
        phase[h] # "none" /\ sent[h] \o todo[h] = CardsOf(req[h], Text[d])
  BY <1>1, <1>2 DEF HookInv
<1>4. Text[d] \in Configs /\ Valid(Text[d], RoutingSpec(app)) /\ req[h] \in Requests
  BY <1>1, <1>3, DocsAssumption, MenuAssumption DEF HookInv
<1>5. QED
  BY <1>2, <1>3, <1>4, CardsOfIs DEF Parts

LEMMA Joined ==
  ASSUME NEW S, NEW s \in Seq(S), NEW t \in Seq(S)
  PROVE  /\ s \o t \in Seq(S) /\ Len(s \o t) = Len(s) + Len(t)
         /\ \A i \in 1..Len(s) : (s \o t)[i] = s[i] /\ i \in 1..Len(s \o t)
         /\ \A i \in 1..Len(t) : (s \o t)[Len(s) + i] = t[i]
<1> DEFINE st == s \o t
<1>1. st \in Seq(S) /\ Len(st) = Len(s) + Len(t) /\ Len(s) \in Nat /\ Len(t) \in Nat
  OBVIOUS
<1>2. ASSUME NEW i \in 1..Len(s) PROVE st[i] = s[i] /\ i \in 1..Len(st)
  OBVIOUS
<1>3. ASSUME NEW i \in 1..Len(t) PROVE st[Len(s) + i] = t[i]
  OBVIOUS
<1>4. QED
  BY <1>1, <1>2, <1>3

(* A list of cards in two parts, by kind.                                  *)
LEMMA JoinedCards ==
  ASSUME NEW g \in Seq(Cards), NEW e \in Seq(Cards)
  PROVE  /\ g \o e \in Seq(Cards) /\ Len(g \o e) = Len(g) + Len(e)
         /\ \A i \in 1..Len(g) : (g \o e)[i] = g[i] /\ i \in 1..Len(g \o e)
         /\ \A i \in 1..Len(e) : (g \o e)[Len(g) + i] = e[i]
BY Joined

InTwoParts(cards, dests, direct) ==
  /\ cards \in Seq(Cards) /\ Len(cards) = Len(dests) + Len(direct)
  /\ Len(dests) \in Nat /\ Len(direct) \in Nat
  /\ \A i \in 1..Len(dests) : cards[i].card = "group" /\ cards[i].dest = dests[i]
  /\ \A i \in 1..Len(direct) : /\ cards[Len(dests) + i].card = "dm"
                               /\ cards[Len(dests) + i].dest = direct[i]

LEMMA TwoParts ==
  ASSUME NEW dests \in Seq(Destinations), NEW direct \in Seq(Destinations),
         NEW label \in Labels \cup {None}
  PROVE  InTwoParts(Parts(dests, label, direct), dests, direct)
<1> DEFINE cards == Parts(dests, label, direct)
<1>1. PICK g \in Seq(Cards) :
        /\ g = Card("group", dests, label) /\ Len(g) = Len(dests)
        /\ \A i \in 1..Len(dests) : g[i].card = "group" /\ g[i].dest = dests[i]
  BY CardIs
<1>2. PICK e \in Seq(Cards) :
        /\ e = Card("dm", direct, None) /\ Len(e) = Len(direct)
        /\ \A i \in 1..Len(direct) : e[i].card = "dm" /\ e[i].dest = direct[i]
  BY CardIs
<1>3. cards = g \o e
  BY <1>1, <1>2 DEF Parts
<1> HIDE DEF cards
<1>4. Len(dests) \in Nat /\ Len(direct) \in Nat
  OBVIOUS
<1>5. /\ g \o e \in Seq(Cards) /\ Len(g \o e) = Len(g) + Len(e)
      /\ \A i \in 1..Len(g) : (g \o e)[i] = g[i] /\ i \in 1..Len(g \o e)
      /\ \A i \in 1..Len(e) : (g \o e)[Len(g) + i] = e[i]
  BY JoinedCards
<1>6. /\ cards \in Seq(Cards) /\ Len(cards) = Len(dests) + Len(direct)
      /\ \A i \in 1..Len(dests) : cards[i] = g[i]
      /\ \A i \in 1..Len(direct) : cards[Len(dests) + i] = e[i]
  BY <1>1, <1>2, <1>3, <1>5
<1>7. InTwoParts(cards, dests, direct)
  BY <1>1, <1>2, <1>4, <1>6 DEF InTwoParts
<1>8. QED
  BY <1>7 DEF cards

(* What the store holds passed the check of its App, and no group card is  *)
(* for nobody, however the document is replaced while requests are on      *)
(* their way: the console's check covers every card routed later           *)
(* (validate_for, destinations_for, deliver).                              *)
THEOREM StoredInvHolds == Spec => []StoredInv
<1>1. ASSUME HooksInv, NEW h \in Hooks, NEW i \in DOMAIN sent[h], sent[h][i].card = "group"
      PROVE  sent[h][i].dest.target # Blank
  <2>1. sent[h] \in Seq(Cards) /\ todo[h] \in Seq(Cards) /\ i \in 1..Len(sent[h]) /\ sent[h] # <<>>
    BY <1>1 DEF HooksInv, TypeOK
  <2>2. PICK d \in seen[h] \ {None}, label \in Labels \cup {None} :
          /\ Text[d] \in Configs /\ Valid(Text[d], RoutingSpec(app)) /\ req[h] \in Requests
          /\ sent[h] \o todo[h] =
               Parts(DestinationsFor(Text[d], req[h].subject, req[h].kind), label,
                     DirectTo(req[h], Text[d]))
    BY <1>1, <2>1, SentIs
  <2>3. PICK dests \in Seq(Destinations) :
          /\ dests = DestinationsFor(Text[d], req[h].subject, req[h].kind)
          /\ \A k \in DOMAIN dests : dests[k].target # Blank
    BY <2>2, RoutedIs, RoutedAddressed
  <2>4. PICK direct \in Seq(Destinations) : direct = DirectTo(req[h], Text[d])
    BY <2>2, DirectToIs
  <2>5. PICK cards : cards = sent[h] \o todo[h]
    OBVIOUS
  <2>6. cards[i] = sent[h][i] /\ i \in 1..Len(cards)
    BY <2>1, <2>5, JoinedCards
  <2>7. InTwoParts(cards, dests, direct)
    <3>1. InTwoParts(Parts(dests, label, direct), dests, direct)
      BY <2>3, <2>4, TwoParts
    <3>2. cards = Parts(dests, label, direct)
      BY <2>2, <2>3, <2>4, <2>5
    <3>3. QED
      BY <3>1, <3>2
  <2>8. CASE i \in 1..Len(dests)
    <3>1. i \in DOMAIN dests
      BY <2>8
    <3>2. QED
      BY <2>3, <2>6, <2>7, <2>8, <3>1 DEF InTwoParts
  <2>9. CASE i \notin 1..Len(dests)
    <3>1. i - Len(dests) \in 1..Len(direct) /\ Len(dests) + (i - Len(dests)) = i
      BY <2>6, <2>7, <2>9 DEF InTwoParts
    <3>2. cards[i].card = "dm"
      BY <2>7, <3>1 DEF InTwoParts
    <3>3. QED
      BY <1>1, <2>6, <3>2
  <2>10. QED
    BY <2>8, <2>9
<1>2. HooksInv => StoredInv
  BY <1>1 DEF StoredInv, NeverToNobody, HooksInv
<1>3. QED
  BY <1>2, HooksAlways, PTL

(* Where the parts of a list of cards are sent.                            *)
LEMMA SplitAt ==
  ASSUME NEW cards \in Seq(Cards), NEW m \in Nat, NEW n \in Nat, NEW dests \in Seq(Destinations),
         m + Len(dests) = n, n <= Len(cards),
         \A i \in 1..Len(dests) : cards[m + i].dest = dests[i]
  PROVE  DestsOf(SubSeq(cards, m + 1, n)) = dests
<1>1. Len(dests) \in Nat /\ Len(cards) \in Nat
  OBVIOUS
<1>2. \A i \in (m + 1)..n : cards[i] \in Cards
  BY <1>1
<1>3. m + 1 \in Int /\ n \in Int /\ n - (m + 1) + 1 = Len(dests)
  BY <1>1
<1>4. PICK part : part = SubSeq(cards, m + 1, n)
  OBVIOUS
<1>5. /\ part \in Seq(Cards) /\ Len(part) = IF m + 1 <= n THEN n - (m + 1) + 1 ELSE 0
      /\ \A i \in 1..(n - (m + 1) + 1) : part[i] = cards[m + 1 + i - 1]
  BY <1>2, <1>3, <1>4, SubSeqProperties
<1>6. Len(part) = Len(dests)
  BY <1>1, <1>3, <1>5
<1>7. ASSUME NEW i \in 1..Len(dests) PROVE part[i].dest = dests[i]
  <2>1. m + 1 + i - 1 = m + i
    BY <1>1
  <2>2. part[i] = cards[m + i]
    BY <1>3, <1>5, <2>1
  <2>3. QED
    BY <2>2
<1>8. DOMAIN part = 1..Len(dests)
  BY <1>5, <1>6
<1>9. DestsOf(part) = [i \in 1..Len(dests) |-> dests[i]]
  BY <1>7, <1>8 DEF DestsOf
<1>10. dests = [i \in 1..Len(dests) |-> dests[i]]
  OBVIOUS
<1>11. QED
  BY <1>4, <1>9, <1>10

LEMMA SplitByKind ==
  ASSUME NEW dests \in Seq(Destinations), NEW direct \in Seq(Destinations),
         NEW cards, InTwoParts(cards, dests, direct)
  PROVE  /\ Cardinality({i \in DOMAIN cards : cards[i].card = "group"}) = Len(dests)
         /\ DestsOf(SubSeq(cards, 1, Len(dests))) = dests
         /\ DestsOf(SubSeq(cards, Len(dests) + 1, Len(cards))) = direct
<1>1. /\ cards \in Seq(Cards) /\ Len(cards) = Len(dests) + Len(direct)
      /\ Len(dests) \in Nat /\ Len(direct) \in Nat
      /\ \A i \in 1..Len(dests) : cards[i].card = "group" /\ cards[i].dest = dests[i]
      /\ \A i \in 1..Len(direct) : /\ cards[Len(dests) + i].card = "dm"
                                   /\ cards[Len(dests) + i].dest = direct[i]
  BY DEF InTwoParts
<1>2. {i \in DOMAIN cards : cards[i].card = "group"} = 1..Len(dests)
  <2>1. DOMAIN cards = 1..(Len(dests) + Len(direct))
    BY <1>1
  <2>2. ASSUME NEW i \in DOMAIN cards, i \notin 1..Len(dests) PROVE cards[i].card # "group"
    <3>1. i - Len(dests) \in 1..Len(direct) /\ Len(dests) + (i - Len(dests)) = i
      BY <1>1, <2>1, <2>2
    <3>2. cards[i].card = "dm"
      BY <1>1, <3>1
    <3>3. QED
      BY <3>2
  <2>3. 1..Len(dests) \subseteq DOMAIN cards
    BY <1>1, <2>1
  <2>4. QED
    BY <1>1, <2>2, <2>3
<1>3. Cardinality(1..Len(dests)) = Len(dests)
  <2>1. Len(dests) \in Int /\ 1 \in Int
    BY <1>1
  <2>2. Cardinality(1..Len(dests)) = IF 1 > Len(dests) THEN 0 ELSE Len(dests) - 1 + 1
    BY <2>1, FS_Interval
  <2>3. QED
    BY <1>1, <2>2
<1>4. DestsOf(SubSeq(cards, 1, Len(dests))) = dests
  <2>1. DestsOf(SubSeq(cards, 0 + 1, Len(dests))) = dests
    <3>1. 0 \in Nat /\ 0 + Len(dests) = Len(dests) /\ Len(dests) <= Len(cards)
      BY <1>1
    <3>2. \A i \in 1..Len(dests) : cards[0 + i].dest = dests[i]
      BY <1>1
    <3>3. QED
      BY <1>1, <3>1, <3>2, SplitAt
  <2>2. QED
    BY <2>1
<1>5. DestsOf(SubSeq(cards, Len(dests) + 1, Len(cards))) = direct
  <2>1. Len(cards) \in Nat /\ Len(dests) + Len(direct) = Len(cards) /\ Len(cards) <= Len(cards)
    BY <1>1
  <2>2. \A i \in 1..Len(direct) : cards[Len(dests) + i].dest = direct[i]
    BY <1>1
  <2>3. cards \in Seq(Cards) /\ Len(dests) \in Nat
    BY <1>1
  <2>4. QED
    BY <2>1, <2>2, <2>3, SplitAt
<1>6. QED
  BY <1>2, <1>3, <1>4, <1>5

(* Every card of a request goes where one document sends it, among those   *)
(* that were the current one between its arrival and its load, and a 200   *)
(* tells that none was left out, with any edit, restart and crash on the   *)
(* way (webhook_handler, Config::load, deliver).                           *)
THEOREM RoutedByOneVersionHolds == Spec => []RoutedByOneVersion
<1> DEFINE Split(h, n) ==
      LET cards  == sent[h] \o todo[h]
          group  == SubSeq(cards, 1, n)
          direct == SubSeq(cards, n + 1, Len(cards))
      IN /\ \A i \in 1..n : cards[i].card = "group"
         /\ \E d \in seen[h] :
              /\ IsRouteOf(DestsOf(group), Document(d), req[h].subject, req[h].kind)
              /\ DestsOf(direct) = DirectTo(req[h], Document(d))
         /\ status[h] = 200 => todo[h] = <<>>
      Groups(h) == {i \in DOMAIN (sent[h] \o todo[h]) : (sent[h] \o todo[h])[i].card = "group"}
<1>1. ASSUME HooksInv, NEW h \in Hooks, sent[h] # <<>>
      PROVE  Split(h, Cardinality(Groups(h)))
  <2>1. PICK d \in seen[h] \ {None}, label \in Labels \cup {None} :
          /\ Text[d] \in Configs /\ Valid(Text[d], RoutingSpec(app)) /\ req[h] \in Requests
          /\ sent[h] \o todo[h] =
               Parts(DestinationsFor(Text[d], req[h].subject, req[h].kind), label,
                     DirectTo(req[h], Text[d]))
    BY <1>1, SentIs
  <2>2. PICK dests \in Seq(Destinations) :
          /\ dests = DestinationsFor(Text[d], req[h].subject, req[h].kind)
          /\ IsRouteOf(dests, Text[d], req[h].subject, req[h].kind)
    BY <2>1, RoutedIs, RoutesInReadingOrder
  <2>3. PICK direct \in Seq(Destinations) : direct = DirectTo(req[h], Text[d])
    BY <2>1, DirectToIs
  <2>4. PICK cards : cards = sent[h] \o todo[h]
    OBVIOUS
  <2>5. InTwoParts(cards, dests, direct)
    <3>1. InTwoParts(Parts(dests, label, direct), dests, direct)
      BY <2>2, <2>3, TwoParts
    <3>2. cards = Parts(dests, label, direct)
      BY <2>1, <2>2, <2>3, <2>4
    <3>3. QED
      BY <3>1, <3>2
  <2>6. /\ Cardinality({i \in DOMAIN cards : cards[i].card = "group"}) = Len(dests)
        /\ DestsOf(SubSeq(cards, 1, Len(dests))) = dests
        /\ DestsOf(SubSeq(cards, Len(dests) + 1, Len(cards))) = direct
    BY <2>5, SplitByKind
  <2>7. \A i \in 1..Len(dests) : cards[i].card = "group"
    BY <2>5 DEF InTwoParts
  <2>8. d \in seen[h] /\ Document(d) = Text[d]
    BY <2>1 DEF Document
  <2>9. status[h] = 200 => todo[h] = <<>>
    BY <1>1 DEF HooksInv, HookInv
  <2>10. Cardinality(Groups(h)) = Len(dests)
    BY <2>4, <2>6
  <2> HIDE DEF Groups
  <2>11. Split(h, Len(dests))
    BY <2>2, <2>3, <2>4, <2>6, <2>7, <2>8, <2>9
  <2> HIDE DEF Split
  <2>12. QED
    BY <2>10, <2>11
<1>2. HooksInv => RoutedByOneVersion
  BY <1>1, Zenon DEF RoutedByOneVersion
<1>3. QED
  BY <1>2, HooksAlways, PTL
=============================================================================
