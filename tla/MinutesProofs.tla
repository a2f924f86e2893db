---------------------------- MODULE MinutesProofs ----------------------------
(***************************************************************************)
(* What the Minutes run checks of two calls of process_meeting, proved for *)
(* any number of calls, meetings, recordings, segments and generations.    *)
(***************************************************************************)
EXTENDS Minutes, SequenceTheorems, FiniteSetTheorems, TLAPS

USE DEF marks, CleanUp

(* A run that has begun has a job, of a generation there has been, and has *)
(* open what it writes to.                                                 *)
JobOf(r) ==
  /\ stage[r] = "idle" <=> job[r] = None
  /\ stage[r] # "idle" => job[r] \in Jobs /\ job[r].gen <= gen
  /\ stage[r] \in {"idle", "waiting", "fetch"} => index[r] = 0
  /\ r \in orphans => stage[r] \in {"aborted", "lost"}
  /\ stage[r] = "download" => open[r].src \in Runs /\ open[r].audio = None
  /\ stage[r] = "ffmpeg" \/ r \in orphans => open[r].src \in Runs /\ open[r].audio \in Runs
  /\ stage[r] \notin {"download", "ffmpeg"} /\ r \notin orphans => open[r] = Closed

JobsInv == \A r \in Runs : JobOf(r)

-----------------------------------------------------------------------------
LEMMA MaxOfTwo == ASSUME NEW a \in Int, NEW b \in Int PROVE Max({a, b}) = IF a >= b THEN a ELSE b
<1> DEFINE m == IF a >= b THEN a ELSE b
<1>1. m \in {a, b} /\ \A y \in {a, b} : m >= y
  OBVIOUS
<1>2. \A x \in {a, b} : (\A y \in {a, b} : x >= y) => x = m
  OBVIOUS
<1>3. QED
  BY <1>1, <1>2 DEF Max

LEMMA MinOfTwo == ASSUME NEW a \in Int, NEW b \in Int PROVE Min({a, b}) = IF a <= b THEN a ELSE b
<1> DEFINE m == IF a <= b THEN a ELSE b
<1>1. m \in {a, b} /\ \A y \in {a, b} : m <= y
  OBVIOUS
<1>2. \A x \in {a, b} : (\A y \in {a, b} : x <= y) => x = m
  OBVIOUS
<1>3. QED
  BY <1>1, <1>2 DEF Min

(* A function on 1..n is a sequence of length n.                           *)
LEMMA SeqOf ==
  ASSUME NEW S, NEW n \in Nat, NEW f \in [1..n -> S]
  PROVE  f \in Seq(S) /\ Len(f) = n
OBVIOUS

LEMMA WriteAtSeq ==
  ASSUME NEW s \in Seq(Recordings \cup {None}), NEW k \in Nat, NEW c \in Recordings
  PROVE  /\ WriteAt(s, k, c) \in Seq(Recordings \cup {None})
         /\ k = Len(s) => /\ Len(WriteAt(s, k, c)) = k + 1
                          /\ \A i \in 1..k + 1 : WriteAt(s, k, c)[i] = IF i = k + 1 THEN c ELSE s[i]
<1> DEFINE n == Max({Len(s), k + 1})
<1>1. n \in Nat /\ n = IF Len(s) >= k + 1 THEN Len(s) ELSE k + 1
  BY MaxOfTwo
<1> DEFINE f == [i \in 1..n |-> IF i = k + 1 THEN c ELSE IF i <= Len(s) THEN s[i] ELSE None]
<1>2. WriteAt(s, k, c) = f
  BY DEF WriteAt
<1> HIDE DEF n
<1>3. \A i \in 1..n : (IF i = k + 1 THEN c ELSE IF i <= Len(s) THEN s[i] ELSE None)
                        \in Recordings \cup {None}
  OBVIOUS
<1>4. f \in [1..n -> Recordings \cup {None}]
  BY <1>3
<1>5. f \in Seq(Recordings \cup {None}) /\ Len(f) = n
  <2> HIDE DEF f
  <2>1. QED
    BY <1>1, <1>4, SeqOf
<1>6. k = Len(s) => \A i \in 1..k + 1 : f[i] = IF i = k + 1 THEN c ELSE s[i]
  BY <1>1
<1>7. QED
  BY <1>1, <1>2, <1>5, <1>6

-----------------------------------------------------------------------------
(* The document.                                                           *)

(* The k-th block of a document for n segments.                            *)
Block(n, k) == IF k <= HeaderSize \/ n = 0 THEN 0 ELSE k - HeaderSize

(* While it is written it ends where the next batch goes, and something is *)
(* left to write.                                                          *)
DocOf(r) ==
  /\ stage[r] = "body" =>
       /\ index[r] = Len(doc[r]) /\ index[r] >= HeaderSize
       /\ IF segments[r] = 0 THEN index[r] = HeaderSize
                             ELSE index[r] < HeaderSize + segments[r]
       /\ \A k \in 1..index[r] : doc[r][k] = Block(segments[r], k)
  /\ stage[r] \in {"notify", "unlinkSrc", "unlinkAudio", "done"} => doc[r] = Full(r)

LEMMA Joined ==
  ASSUME NEW a \in Seq(Nat), NEW b \in Seq(Nat), NEW n, NEW m, Len(a) = n, Len(b) = m
  PROVE  /\ a \o b \in Seq(Nat) /\ Len(a \o b) = n + m
         /\ \A k \in 1..n + m : (a \o b)[k] = IF k <= n THEN a[k] ELSE b[k - n]
BY ConcatProperties

LEMMA OtherSeq ==
  ASSUME NEW n \in Nat
  PROVE  Other(n) \in Seq(Nat) /\ Len(Other(n)) = n /\ \A k \in 1..n : Other(n)[k] = 0
<1>1. Other(n) \in [1..n -> Nat] /\ \A k \in 1..n : Other(n)[k] = 0
  BY DEF Other
<1>2. QED
  BY <1>1, SeqOf

LEMMA FullIs ==
  ASSUME NEW r \in Runs, segments[r] \in Nat
  PROVE  /\ Full(r) \in Seq(Nat)
         /\ Len(Full(r)) = HeaderSize + (IF segments[r] = 0 THEN 1 ELSE segments[r])
         /\ \A k \in 1..Len(Full(r)) : Full(r)[k] = Block(segments[r], k)
<1> DEFINE n == segments[r]
           rest == IF n = 0 THEN Other(1) ELSE [i \in 1..n |-> i]
<1>1. /\ rest \in Seq(Nat) /\ Len(rest) = IF n = 0 THEN 1 ELSE n
      /\ \A k \in 1..Len(rest) : rest[k] = IF n = 0 THEN 0 ELSE k
  <2>1. CASE n = 0
    BY <2>1, OtherSeq
  <2>2. CASE n # 0
    <3>1. [i \in 1..n |-> i] \in [1..n -> Nat]
      OBVIOUS
    <3>2. QED
      BY <2>2, <3>1, SeqOf
  <2>3. QED
    BY <2>1, <2>2
<1>2. Full(r) = Other(HeaderSize) \o rest
  BY DEF Full
<1> HIDE DEF rest
<1> DEFINE top == Other(HeaderSize)
<1>3. top \in Seq(Nat) /\ Len(top) = 3 /\ \A k \in 1..3 : top[k] = 0
  BY OtherSeq DEF HeaderSize
<1> HIDE DEF top
<1> DEFINE all == top \o rest
<1>4. /\ all \in Seq(Nat) /\ Len(all) = 3 + Len(rest)
      /\ \A k \in 1..3 + Len(rest) : all[k] = IF k <= 3 THEN top[k] ELSE rest[k - 3]
  <2>1. top \in Seq(Nat) /\ rest \in Seq(Nat) /\ Len(top) = 3
    BY <1>1, <1>3
  <2>2. QED
    <3>1. /\ all \in Seq(Nat) /\ Len(all) = Len(top) + Len(rest)
          /\ \A k \in 1..Len(top) + Len(rest) :
               all[k] = IF k <= Len(top) THEN top[k] ELSE rest[k - Len(top)]
      BY <2>1, ConcatProperties
    <3> HIDE DEF all
    <3>2. QED
      BY <2>1, <3>1
<1> HIDE DEF all
<1>5. Len(rest) \in Nat
  BY <1>1
<1>6. \A k \in 1..3 + Len(rest) : all[k] = Block(n, k)
  <2> SUFFICES ASSUME NEW k \in 1..3 + Len(rest) PROVE all[k] = Block(n, k)
    OBVIOUS
  <2>1. k \in Nat /\ k >= 1 /\ (k > 3 => k - 3 \in 1..Len(rest))
    BY <1>5
  <2>2. CASE k <= 3
    BY <1>3, <1>4, <2>1, <2>2 DEF Block, HeaderSize
  <2>3. CASE k > 3
    <3>1. all[k] = rest[k - 3]
      BY <1>4, <2>1, <2>3
    <3>2. rest[k - 3] = IF n = 0 THEN 0 ELSE k - 3
      BY <1>1, <2>1, <2>3
    <3>3. QED
      BY <2>1, <2>3, <3>1, <3>2 DEF Block, HeaderSize
  <2>4. QED
    BY <2>1, <2>2, <2>3
<1>7. QED
  BY <1>1, <1>2, <1>4, <1>6 DEF HeaderSize, top, all

LEMMA InsertAtEnd ==
  ASSUME NEW d \in Seq(Nat), NEW blocks \in Seq(Nat)
  PROVE  InsertChildren(d, Len(d), blocks) = d \o blocks
<1>1. SubSeq(d, 1, Len(d)) = d
  BY SubSeqFull
<1>2. SubSeq(d, Len(d) + 1, Len(d)) = <<>>
  BY SubSeqEmpty
<1>3. d \o blocks \in Seq(Nat)
  OBVIOUS
<1>4. QED
  BY <1>1, <1>2, <1>3, ConcatEmptySeq DEF InsertChildren

LEMMA DocCreated ==
  ASSUME TypeOK, NEW r \in Runs, CreateDoc(r)
  PROVE  /\ segments'[r] \in Nat /\ doc'[r] \in Seq(Nat) /\ index'[r] \in Nat
         /\ DocOf(r)'
<1>1. segments'[r] \in Nat /\ index'[r] = 3 /\ stage'[r] = "body"
  BY SizeAssumption DEF CreateDoc, TypeOK, Goto, HeaderSize
<1>2. <<>> \in Seq(Nat) /\ Len(<<>>) = 0
  OBVIOUS
<1>3. /\ Other(3) \in Seq(Nat) /\ Len(Other(3)) = 3
      /\ \A k \in 1..3 : Other(3)[k] = 0
  BY OtherSeq
<1>4. InsertChildren(<<>>, 0, Other(3)) = Other(3)
  <2>1. InsertChildren(<<>>, Len(<<>>), Other(3)) = <<>> \o Other(3)
    BY <1>2, <1>3, InsertAtEnd
  <2>2. QED
    BY <1>2, <1>3, <2>1, ConcatEmptySeq
<1>5. doc'[r] = Other(3)
  BY <1>4 DEF CreateDoc, TypeOK, HeaderSize
<1>6. QED
  BY <1>1, <1>3, <1>5 DEF DocOf, Block, HeaderSize

LEMMA BatchWritten ==
  ASSUME TypeOK, NEW r \in Runs, DocOf(r), WriteBatch(r)
  PROVE  doc'[r] \in Seq(Nat) /\ index'[r] \in Nat /\ DocOf(r)'
<1> DEFINE n == segments[r]
           d == doc[r]
           i == index[r]
           blocks == IF n = 0 THEN Other(1) ELSE NextBatch(r)
           left == n - (i - 3)
           size == IF n = 0 THEN 1 ELSE IF Batch <= left THEN Batch ELSE left
<1>1. /\ n \in Nat /\ d \in Seq(Nat) /\ i = Len(d) /\ i \in Nat /\ i >= 3
      /\ IF n = 0 THEN i = 3 ELSE i < 3 + n
      /\ \A k \in 1..i : d[k] = Block(n, k)
      /\ Batch \in Nat \ {0}
  BY SizeAssumption DEF TypeOK, DocOf, WriteBatch, HeaderSize
<1>2. size \in Nat \ {0} /\ left \in Int /\ Left(r) = left
  BY <1>1 DEF Left, HeaderSize
<1>3. /\ blocks \in Seq(Nat) /\ Len(blocks) = size
      /\ \A k \in 1..size : blocks[k] = Block(n, i + k)
  <2>1. CASE n = 0
    BY <1>1, <2>1, OtherSeq DEF Block
  <2>2. CASE n # 0
    <3>1. Min({Batch, Left(r)}) = size
      BY <1>1, <1>2, <2>2, MinOfTwo
    <3>2. blocks = [k \in 1..size |-> i - 3 + k]
      BY <2>2, <3>1 DEF NextBatch, HeaderSize
    <3>3. blocks \in [1..size -> Nat]
      <4>1. i \in Nat /\ i >= 3 /\ size \in Nat
        BY <1>1, <1>2
      <4> HIDE DEF blocks, size, i
      <4>2. \A k \in 1..size : i - 3 + k \in Nat
        BY <4>1
      <4>3. QED
        BY <3>2, <4>2
    <3>4. blocks \in Seq(Nat) /\ Len(blocks) = size
      <4> HIDE DEF blocks, size
      <4>1. QED
        BY <1>2, <3>3, SeqOf
    <3>5. \A k \in 1..size : blocks[k] = i - 3 + k
      BY <3>2
    <3>6. \A k \in 1..size : Block(n, i + k) = i - 3 + k
      BY <1>1, <2>2 DEF Block, HeaderSize
    <3>7. QED
      BY <3>4, <3>5, <3>6
  <2>3. QED
    BY <2>1, <2>2
<1>4. /\ doc'[r] = InsertChildren(d, i, blocks) /\ index'[r] = i + Len(blocks)
      /\ segments' = segments
      /\ stage'[r] = IF Left(r) > Batch THEN "body" ELSE "notify"
  BY DEF WriteBatch, TypeOK, Goto
<1> HIDE DEF blocks, size
<1>5. /\ doc'[r] \in Seq(Nat) /\ Len(doc'[r]) = i + size
      /\ index'[r] = i + size
      /\ \A k \in 1..i + size : doc'[r][k] = IF k <= i THEN d[k] ELSE blocks[k - i]
  <2>1. InsertChildren(d, i, blocks) = d \o blocks
    BY <1>1, <1>3, InsertAtEnd
  <2>2. /\ d \o blocks \in Seq(Nat) /\ Len(d \o blocks) = i + size
        /\ \A k \in 1..i + size : (d \o blocks)[k] = IF k <= i THEN d[k] ELSE blocks[k - i]
    BY <1>1, <1>3, Joined
  <2>3. QED
    BY <1>3, <1>4, <2>1, <2>2
<1>6. \A k \in 1..i + size : doc'[r][k] = Block(n, k)
  <2>1. TAKE k \in 1..i + size
  <2>2. CASE k <= i
    <3>1. doc'[r][k] = d[k] /\ d[k] = Block(n, k)
      <4>1. k \in 1..i
        BY <1>1, <2>2
      <4>2. QED
        BY <1>1, <1>5, <2>2, <4>1
    <3>2. QED
      BY <3>1
  <2>3. CASE k > i
    <3>1. i \in Nat /\ size \in Nat
      BY <1>1, <1>2
    <3>2. k - i \in 1..size /\ i + (k - i) = k
      BY <2>3, <3>1
    <3>3. blocks[k - i] = Block(n, i + (k - i))
      BY <1>3, <3>2
    <3>4. QED
      <4>1. doc'[r][k] = blocks[k - i]
        BY <1>5, <2>3, <3>1
      <4>2. QED
        BY <3>2, <3>3, <4>1
  <2>4. QED
    BY <1>1, <1>2, <2>2, <2>3
<1>7. CASE Left(r) > Batch
  <2>1. n # 0 /\ size = Batch
    BY <1>1, <1>2, <1>7 DEF size
  <2>2. i + size < 3 + n /\ i + size >= 3
    BY <1>1, <1>2, <1>7, <2>1
  <2>3. QED
    <3>1. stage'[r] = "body" /\ segments'[r] = n
      BY <1>4, <1>7
    <3>2. QED
      BY <1>5, <1>6, <2>1, <2>2, <3>1 DEF DocOf, HeaderSize, Block
<1>8. CASE ~ Left(r) > Batch
  <2>1. i + size = 3 + (IF n = 0 THEN 1 ELSE n)
    <3>1. CASE n = 0
      BY <1>1, <3>1 DEF size
    <3>2. CASE n # 0
      <4>1. left <= Batch /\ left \in Int /\ Batch \in Int
        BY <1>1, <1>2, <1>8
      <4>2. size = left
        <5> HIDE DEF left, n
        <5>1. QED
          BY <3>2, <4>1 DEF size
      <4>3. i + left = 3 + n
        BY <1>1
      <4>4. QED
        BY <3>2, <4>2, <4>3
    <3>3. QED
      BY <3>1, <3>2
  <2>2. /\ Full(r) \in Seq(Nat) /\ Len(Full(r)) = i + size
        /\ \A k \in 1..i + size : Full(r)[k] = Block(n, k)
    BY <1>1, <2>1, FullIs DEF HeaderSize
  <2>3. doc'[r] = Full(r)
    <3>1. doc'[r] \in Seq(Nat) /\ Len(doc'[r]) = i + size
      BY <1>5
    <3>2. \A k \in 1..Len(doc'[r]) : doc'[r][k] = Full(r)[k]
      BY <1>6, <2>2, <3>1
    <3>3. QED
      BY <2>2, <3>1, <3>2, SeqEqual
  <2>4. Full(r)' = Full(r)
    BY <1>4 DEF Full
  <2>5. QED
    BY <1>1, <1>2, <1>4, <1>5, <1>8, <2>3, <2>4 DEF DocOf
<1>9. QED
  BY <1>7, <1>8

BaseInv == TypeOK /\ JobsInv /\ \A r \in Runs : DocOf(r)

Linked == {"notify", "unlinkSrc", "unlinkAudio", "done"}

LEMMA DocKept ==
  ASSUME NEW r \in Runs, DocOf(r),
         segments'[r] = segments[r],
         stage[r] \in {"body"} \cup Linked => doc'[r] = doc[r] /\ index'[r] = index[r],
         \/ stage'[r] = stage[r] \/ stage'[r] \notin {"body"} \cup Linked
         \/ stage[r] \in Linked /\ stage'[r] \in Linked
  PROVE  DocOf(r)'
<1>1. Full(r)' = Full(r)
  BY DEF Full
<1>2. QED
  BY <1>1 DEF DocOf, Linked, Block, HeaderSize

-----------------------------------------------------------------------------
(* Types, jobs and documents.                                              *)

LEMMA JobKept ==
  ASSUME NEW r \in Runs, JobOf(r), gen \in Nat, gen' \in Nat, gen' >= gen,
         stage'[r] = stage[r], job'[r] = job[r], index'[r] = index[r], open'[r] = open[r],
         r \in orphans' <=> r \in orphans
  PROVE  JobOf(r)'
BY DEF JobOf, Jobs, Closed

LEMMA ConfType == ASSUME NEW x \in Sections PROVE Built(x) \in {None} \cup SUBSET Fields
<1>1. x \in Section
  BY ConfigAssumption
<1>2. x.inline \subseteq Fields
  BY <1>1 DEF Section
<1>3. QED
  BY <1>2, ConfigAssumption DEF Built, FromToml, Fields

LEMMA JobType ==
  ASSUME BaseInv, NEW m \in Meetings, NEW e \in BOOLEAN, NEW rec \in Recordings
  PROVE  Job(m, e, rec) \in Jobs /\ Job(m, e, rec).gen = gen
BY DEF BaseInv, TypeOK, Job, Jobs

LEMMA BaseInit == Init => BaseInv
<1> SUFFICES ASSUME Init PROVE BaseInv
  OBVIOUS
<1>1. conf \in {None} \cup SUBSET Fields
  BY ConfType DEF Init
<1>2. TypeOK
  BY <1>1, SizeAssumption DEF Init, TypeOK, Closed, Silence, Sounds, Stages
<1>3. QED
  BY <1>2 DEF Init, BaseInv, JobsInv, JobOf, DocOf

LEMMA BaseNext ==
  ASSUME BaseInv, [Next]_vars
  PROVE  BaseInv'
<1> USE DEF text, files, contents, Goto
<1>a. TypeOK /\ JobsInv /\ \A r \in Runs : DocOf(r)
  BY DEF BaseInv
<1>b. \A r \in Runs : job[r] # None => job[r] \in Jobs
  BY <1>a DEF JobsInv, JobOf
<1>c. gen \in Nat /\ MaxGens \in Nat /\ gen <= MaxGens
  BY <1>a, SizeAssumption DEF TypeOK
<1>1. CASE UNCHANGED vars
  BY <1>1, <1>a, <1>c, DocKept DEF vars, BaseInv, TypeOK, JobsInv, JobOf
<1>2. ASSUME NEW r \in Runs, RecordingReady(r) PROVE BaseInv'
  <2>1. PICK m \in Meetings : job' = [job EXCEPT ![r] = Job(m, TRUE, RecordingOf[m])]
    BY <1>2 DEF RecordingReady
  <2>2. Job(m, TRUE, RecordingOf[m]) \in Jobs /\ Job(m, TRUE, RecordingOf[m]).gen = gen
    BY JobType, MeetingAssumption
  <2>3. TypeOK' /\ JobsInv'
    <3>1. TypeOK'
      BY <1>2, <1>a, <1>c, <2>1, <2>2 DEF RecordingReady, TypeOK, Stages, Queued
    <3>2. JobOf(r)'
      <4>1. /\ stage[r] = "idle" /\ stage'[r] = "waiting"
            /\ job'[r] = Job(m, TRUE, RecordingOf[m])
            /\ index'[r] = index[r] /\ open'[r] = open[r] /\ orphans' = orphans /\ gen' = gen
        BY <1>2, <1>a, <2>1 DEF RecordingReady, TypeOK, Queued
      <4>2. JobOf(r)
        BY <1>a DEF JobsInv
      <4>3. index[r] = 0 /\ r \notin orphans /\ open[r] = Closed
        BY <4>1, <4>2 DEF JobOf
      <4>4. job'[r] \in Jobs /\ job'[r].gen <= gen /\ job'[r] # None
        <5>1. job'[r] \in Jobs /\ job'[r].gen = gen
          BY <2>2, <4>1, Zenon
        <5>2. QED
          BY <1>c, <5>1, JobAssumption
      <4>5. QED
        BY <4>1, <4>3, <4>4 DEF JobOf
    <3>3. ASSUME NEW q \in Runs \ {r} PROVE JobOf(q)'
      <4>1. /\ stage'[q] = stage[q] /\ job'[q] = job[q]
            /\ index'[q] = index[q] /\ open'[q] = open[q] /\ orphans' = orphans /\ gen' = gen
        BY <1>2, <1>a, <2>1 DEF RecordingReady, TypeOK
      <4>2. JobOf(q)
        BY <1>a DEF JobsInv
      <4>3. QED
        BY <1>c, <4>1, <4>2, JobKept
    <3>4. QED
      BY <3>1, <3>2, <3>3 DEF JobsInv
  <2>4. QED
    BY <1>2, <1>a, <1>c, <2>3, DocKept DEF RecordingReady, BaseInv, Queued, TypeOK, Linked
<1>3. ASSUME NEW r \in Runs, ProcessMeeting(r) PROVE BaseInv'
  <2>0. PICK m \in Meetings : \E rec \in Hints \cup {RecordingOf[m]} :
          job' = [job EXCEPT ![r] = Job(m, FALSE, rec)]
    BY <1>3 DEF ProcessMeeting
  <2>1. PICK rec \in Hints \cup {RecordingOf[m]} : job' = [job EXCEPT ![r] = Job(m, FALSE, rec)]
    BY <2>0
  <2>2. Job(m, FALSE, rec) \in Jobs /\ Job(m, FALSE, rec).gen = gen
    BY JobType, MeetingAssumption
  <2>3. TypeOK' /\ JobsInv'
    <3>1. TypeOK'
      BY <1>3, <1>a, <1>c, <2>1, <2>2 DEF ProcessMeeting, TypeOK, Stages, Active
    <3>2. JobOf(r)'
      <4>1. /\ stage[r] = "idle" /\ stage'[r] = "fetch"
            /\ job'[r] = Job(m, FALSE, rec)
            /\ index'[r] = index[r] /\ open'[r] = open[r] /\ orphans' = orphans /\ gen' = gen
        BY <1>3, <1>a, <2>1 DEF ProcessMeeting, TypeOK, Queued
      <4>2. JobOf(r)
        BY <1>a DEF JobsInv
      <4>3. index[r] = 0 /\ r \notin orphans /\ open[r] = Closed
        BY <4>1, <4>2 DEF JobOf
      <4>4. job'[r] \in Jobs /\ job'[r].gen <= gen /\ job'[r] # None
        <5>1. job'[r] \in Jobs /\ job'[r].gen = gen
          BY <2>2, <4>1, Zenon
        <5>2. QED
          BY <1>c, <5>1, JobAssumption
      <4>5. QED
        BY <4>1, <4>3, <4>4 DEF JobOf
    <3>3. ASSUME NEW q \in Runs \ {r} PROVE JobOf(q)'
      <4>1. /\ stage'[q] = stage[q] /\ job'[q] = job[q]
            /\ index'[q] = index[q] /\ open'[q] = open[q] /\ orphans' = orphans /\ gen' = gen
        BY <1>3, <1>a, <2>1 DEF ProcessMeeting, TypeOK
      <4>2. JobOf(q)
        BY <1>a DEF JobsInv
      <4>3. QED
        BY <1>c, <4>1, <4>2, JobKept
    <3>4. QED
      BY <3>1, <3>2, <3>3 DEF JobsInv
  <2>4. QED
    BY <1>3, <1>a, <1>c, <2>3, DocKept DEF ProcessMeeting, BaseInv, TypeOK, Linked
<1>4. ASSUME NEW r \in Runs, Acquire(r) PROVE BaseInv'
  <2>1. TypeOK' /\ JobsInv'
    <3>1. TypeOK'
      BY <1>4, <1>a, <1>c DEF Acquire, TypeOK, Stages, Active, Queued
    <3>2. JobOf(r)'
      BY <1>4, <1>a, <1>c DEF Acquire, TypeOK, JobsInv, JobOf, Stages, Active, Queued
    <3>3. \A q \in Runs \ {r} : JobOf(q)'
      BY <1>4, <1>a, <1>c, JobKept DEF Acquire, TypeOK, JobsInv, Stages, Active, Queued
    <3>4. QED
      BY <3>1, <3>2, <3>3 DEF JobsInv
  <2>2. QED
    BY <1>4, <1>a, <1>c, <2>1, DocKept DEF Acquire, BaseInv, TypeOK, Linked, Queued
<1>5. ASSUME NEW r \in Runs, GiveUp(r), stage[r] \in Active, faults' \in 0..MaxFaults
      PROVE  BaseInv'
  <2>1. TypeOK' /\ JobsInv'
    <3>1. TypeOK'
      BY <1>5, <1>a, <1>c DEF GiveUp, Close, Closed, TypeOK, Stages, Active, WithFiles, Ended
    <3>2. JobOf(r)'
      BY <1>5, <1>a, <1>c DEF GiveUp, Close, Closed, TypeOK, JobsInv, JobOf, Stages, Active, WithFiles, Ended
    <3>3. \A q \in Runs \ {r} : JobOf(q)'
      BY <1>5, <1>a, <1>c, JobKept DEF GiveUp, Close, Closed, TypeOK, JobsInv, Stages, Active, WithFiles, Ended
    <3>4. QED
      BY <3>1, <3>2, <3>3 DEF JobsInv
  <2>2. QED
    BY <1>5, <1>a, <1>c, <2>1, DocKept DEF GiveUp, BaseInv, TypeOK, Linked
<1>6. ASSUME NEW r \in Runs, CallFails(r) \/ NoFolder(r) \/ NoInput(r) PROVE BaseInv'
  <2>1. GiveUp(r) /\ stage[r] \in Active /\ faults' \in 0..MaxFaults
    BY <1>6, <1>a, <1>c, SizeAssumption DEF CallFails, Fault, NoFolder, NoInput, TypeOK, Active, WithFiles
  <2>2. QED
    BY <1>5, <2>1
<1>7. ASSUME NEW r \in Runs, Fetch(r) PROVE BaseInv'
  <2>1. MeetingOf(r) \in Meetings
    BY <1>7, <1>a, <1>c DEF Fetch, JobsInv, JobOf, Jobs, MeetingOf
  <2>2. TypeOK'
    <3> DEFINE f == IF src[MeetingOf(r)] = None THEN r ELSE src[MeetingOf(r)]
    <3>1. f \in Runs
      BY <1>a, <2>1 DEF TypeOK
    <3>2. /\ src' = [src EXCEPT ![MeetingOf(r)] = f]
          /\ open' = [open EXCEPT ![r] = [open[r] EXCEPT !.src = f]]
          /\ media' = [media EXCEPT ![f] = <<>>]
      BY <1>7 DEF Fetch, CreateFile
    <3> HIDE DEF f
    <3>3. [open[r] EXCEPT !.src = f] \in [src : Runs \cup {None}, audio : Runs \cup {None}]
      <4>1. open[r] \in [src : Runs \cup {None}, audio : Runs \cup {None}]
        BY <1>a DEF TypeOK
      <4>2. QED
        BY <3>1, <4>1
    <3>4. shared' \subseteq Runs
      BY <1>7, <1>a, <1>c DEF Fetch, Others, TypeOK
    <3>5. QED
      <4>1. /\ src' \in [Meetings -> Runs \cup {None}]
            /\ open' \in [Runs -> [src : Runs \cup {None}, audio : Runs \cup {None}]]
            /\ media' \in [Runs -> Seq(Recordings \cup {None})]
        <5>1. src' \in [Meetings -> Runs \cup {None}]
          BY <1>a, <2>1, <3>1, <3>2 DEF TypeOK
        <5>2. open' \in [Runs -> [src : Runs \cup {None}, audio : Runs \cup {None}]]
          <6>1. open \in [Runs -> [src : Runs \cup {None}, audio : Runs \cup {None}]]
            BY <1>a DEF TypeOK
          <6>2. QED
            BY <3>2, <3>3, <6>1
        <5>3. media' \in [Runs -> Seq(Recordings \cup {None})]
          <6>1. <<>> \in Seq(Recordings \cup {None})
            OBVIOUS
          <6>2. QED
            BY <1>a, <3>1, <3>2, <6>1 DEF TypeOK
        <5>4. QED
          BY <5>1, <5>2, <5>3
      <4>2. stage' \in [Runs -> Stages]
        BY <1>7, <1>a DEF Fetch, TypeOK, Stages, Active, WithFiles
      <4>3. QED
        BY <1>7, <1>a, <3>4, <4>1, <4>2 DEF Fetch, TypeOK
  <2>3. JobsInv'
    <3>1. JobOf(r)'
      <4>1. JobOf(r) /\ stage[r] = "fetch"
        BY <1>7, <1>a DEF Fetch, JobsInv
      <4>2. /\ stage'[r] = "download" /\ job' = job /\ index' = index /\ orphans' = orphans
            /\ gen' = gen
        BY <1>7, <1>a DEF Fetch, TypeOK
      <4>3. open[r] = Closed /\ r \notin orphans /\ job[r] # None /\ job[r] \in Jobs
            /\ job[r].gen <= gen
        BY <4>1 DEF JobOf
      <4>4. open'[r].src \in Runs /\ open'[r].audio = None
        <5> DEFINE f == IF src[MeetingOf(r)] = None THEN r ELSE src[MeetingOf(r)]
        <5>1. f \in Runs
          BY <1>a, <2>1 DEF TypeOK
        <5>2. open'[r] = [Closed EXCEPT !.src = f]
          BY <1>7, <1>a, <4>3 DEF Fetch, CreateFile, TypeOK
        <5>3. QED
          BY <5>1, <5>2 DEF Closed
      <4>5. QED
        BY <4>1, <4>2, <4>3, <4>4 DEF JobOf
    <3>2. \A q \in Runs \ {r} : JobOf(q)'
      BY <1>7, <1>a, <1>c, JobKept DEF Fetch, CreateFile, JobsInv, TypeOK
    <3>3. QED
      BY <3>1, <3>2 DEF JobsInv
  <2>4. QED
    BY <1>7, <1>a, <1>c, <2>2, <2>3, DocKept DEF Fetch, BaseInv, TypeOK, Linked
<1>8. ASSUME NEW r \in Runs, Download(r) PROVE BaseInv'
  <2>1. Recording(r) \in Recordings
    BY <1>8, <1>a, <1>c DEF Download, JobsInv, JobOf, Jobs, Recording
  <2>2. /\ media' \in [Runs -> Seq(Recordings \cup {None})]
        /\ index' \in [Runs -> Nat]
    <3>1. open[r].src \in Runs /\ index[r] \in Nat
      BY <1>8, <1>a DEF Download, JobsInv, JobOf, TypeOK
    <3>2. media[open[r].src] \in Seq(Recordings \cup {None})
      BY <1>a, <3>1 DEF TypeOK
    <3>3. WriteAt(media[open[r].src], index[r], Recording(r)) \in Seq(Recordings \cup {None})
      BY <2>1, <3>1, <3>2, WriteAtSeq
    <3>4. QED
      BY <1>8, <1>a, <3>1, <3>3 DEF Download, TypeOK
  <2>3. TypeOK' /\ JobsInv'
    <3>0. \/ stage' = stage /\ open' = open
          \/ stage' = [stage EXCEPT ![r] = "extract"] /\ open' = [open EXCEPT ![r] = Closed]
      BY <1>8 DEF Download, Close
    <3>1. TypeOK'
      <4>1. stage' \in [Runs -> Stages]
        BY <1>a, <3>0 DEF TypeOK, Stages, Active, WithFiles
      <4>2. open' \in [Runs -> [src : Runs \cup {None}, audio : Runs \cup {None}]]
        <5>1. Closed \in [src : Runs \cup {None}, audio : Runs \cup {None}]
          BY DEF Closed
        <5>2. open \in [Runs -> [src : Runs \cup {None}, audio : Runs \cup {None}]]
          BY <1>a DEF TypeOK
        <5>3. QED
          BY <3>0, <5>1, <5>2
      <4>3. QED
        BY <1>8, <1>a, <2>2, <4>1, <4>2 DEF Download, TypeOK
    <3>2. JobOf(r)'
      <4>1. JobOf(r) /\ stage[r] = "download"
        BY <1>8, <1>a DEF Download, JobsInv
      <4>2. /\ job' = job /\ orphans' = orphans /\ gen' = gen
            /\ \/ stage'[r] = "download" /\ open'[r] = open[r]
               \/ stage'[r] = "extract" /\ open'[r] = Closed
        BY <1>8, <1>a, <3>0, <4>1 DEF Download, TypeOK
      <4>3. QED
        BY <4>1, <4>2 DEF JobOf
    <3>3. \A q \in Runs \ {r} : JobOf(q)'
      BY <1>8, <1>a, <1>c, <2>2, JobKept DEF Download, Close, Closed, TypeOK, JobsInv, Stages, Active, WithFiles
    <3>4. QED
      BY <3>1, <3>2, <3>3 DEF JobsInv
  <2>4. QED
    BY <1>8, <1>a, <1>c, <2>3, DocKept DEF Download, BaseInv, TypeOK, Linked
<1>9. ASSUME NEW r \in Runs, Extract(r) PROVE BaseInv'
  <2>1. MeetingOf(r) \in Meetings
    BY <1>9, <1>a, <1>c DEF Extract, JobsInv, JobOf, Jobs, MeetingOf
  <2>2. TypeOK' /\ JobsInv'
    <3>1. TypeOK'
      BY <1>9, <1>a, <1>c, <2>1 DEF Extract, TypeOK, Stages, Active, WithFiles, Silence, Sounds
    <3>2. JobOf(r)'
      BY <1>9, <1>a, <1>c, <2>1 DEF Extract, TypeOK, JobsInv, JobOf, Stages, Active, WithFiles, Silence, Sounds
    <3>3. \A q \in Runs \ {r} : JobOf(q)'
      BY <1>9, <1>a, <1>c, <2>1, JobKept DEF Extract, TypeOK, JobsInv, Stages, Active, WithFiles, Silence, Sounds
    <3>4. QED
      BY <3>1, <3>2, <3>3 DEF JobsInv
  <2>3. QED
    BY <1>9, <1>a, <1>c, <2>2, DocKept DEF Extract, BaseInv, TypeOK, Linked
<1>10. ASSUME NEW r \in Runs, stage[r] = "ffmpeg" \/ r \in orphans, Encode(r)
      PROVE  sound' \in [Runs -> Sounds]
  <2> DEFINE in == media[open[r].src]
             recs == {in[i] : i \in DOMAIN in} \ {None}
             new == [of |-> sound[open[r].audio].of \cup recs,
                     whole |-> \E rec \in recs : Intact(in, rec)]
  <2>1. open[r].src \in Runs /\ open[r].audio \in Runs
    BY <1>10, <1>a, <1>c DEF JobsInv, JobOf
  <2>2. in \in Seq(Recordings \cup {None})
    BY <1>a, <2>1 DEF TypeOK
  <2>3. recs \subseteq Recordings
    BY <2>2
  <2>4. sound' = [sound EXCEPT ![open[r].audio] = new]
    BY <1>10 DEF Encode
  <2>5. new \in Sounds
    <3>1. sound[open[r].audio].of \subseteq Recordings
      BY <1>a, <2>1 DEF TypeOK, Sounds
    <3> HIDE DEF recs, in
    <3>2. QED
      BY <2>3, <3>1 DEF Sounds
  <2> HIDE DEF new
  <2>6. QED
    BY <1>a, <2>4, <2>5 DEF TypeOK
<1>11. ASSUME NEW r \in Runs, ExtractEnds(r) PROVE BaseInv'
  <2>1. sound' \in [Runs -> Sounds]
    BY <1>11, <1>a, <1>c, <1>10 DEF ExtractEnds, TypeOK
  <2>2. TypeOK' /\ JobsInv'
    <3>1. TypeOK'
      BY <1>11, <1>a, <1>c, <2>1 DEF ExtractEnds, Close, Closed, TypeOK, Stages, Active, WithFiles, Ended
    <3>2. JobOf(r)'
      BY <1>11, <1>a, <1>c, <2>1 DEF ExtractEnds, Close, Closed, TypeOK, JobsInv, JobOf, Stages, Active, WithFiles, Ended
    <3>3. \A q \in Runs \ {r} : JobOf(q)'
      BY <1>11, <1>a, <1>c, <2>1, JobKept DEF ExtractEnds, Close, Closed, TypeOK, JobsInv, Stages, Active, WithFiles, Ended
    <3>4. QED
      BY <3>1, <3>2, <3>3 DEF JobsInv
  <2>3. QED
    BY <1>11, <1>a, <1>c, <2>2, DocKept DEF ExtractEnds, BaseInv, TypeOK, Linked
<1>12. ASSUME NEW r \in Runs, OrphanEnds(r) PROVE BaseInv'
  <2>1. sound' \in [Runs -> Sounds]
    BY <1>12, <1>10 DEF OrphanEnds
  <2>2. TypeOK' /\ JobsInv'
    <3>1. TypeOK'
      BY <1>12, <1>a, <1>c, <2>1 DEF OrphanEnds, Close, Closed, TypeOK
    <3>2. JobOf(r)'
      BY <1>12, <1>a, <1>c, <2>1 DEF OrphanEnds, Close, Closed, TypeOK, JobsInv, JobOf
    <3>3. ASSUME NEW q \in Runs \ {r} PROVE JobOf(q)'
      <4>1. JobOf(q)
        BY <1>a DEF JobsInv
      <4>2. /\ stage' = stage /\ job' = job /\ index' = index /\ gen' = gen
            /\ open'[q] = open[q] /\ (q \in orphans' <=> q \in orphans)
        BY <1>12, <1>a DEF OrphanEnds, Close, TypeOK
      <4>3. QED
        BY <1>c, <4>1, <4>2, JobKept
    <3>4. QED
      BY <3>1, <3>2, <3>3 DEF JobsInv
  <2>3. QED
    BY <1>12, <1>a, <1>c, <2>2, DocKept DEF OrphanEnds, BaseInv
<1>13. ASSUME NEW r \in Runs, Read(r) PROVE BaseInv'
  <2>1. MeetingOf(r) \in Meetings
    BY <1>13, <1>a, <1>c DEF Read, JobsInv, JobOf, Jobs, MeetingOf
  <2>2. TypeOK' /\ JobsInv'
    <3>1. TypeOK'
      BY <1>13, <1>a, <1>c, <2>1 DEF Read, TypeOK, Stages, Active, WithFiles
    <3>2. JobOf(r)'
      BY <1>13, <1>a, <1>c, <2>1 DEF Read, TypeOK, JobsInv, JobOf, Stages, Active, WithFiles
    <3>3. \A q \in Runs \ {r} : JobOf(q)'
      BY <1>13, <1>a, <1>c, <2>1, JobKept DEF Read, TypeOK, JobsInv, Stages, Active, WithFiles
    <3>4. QED
      BY <3>1, <3>2, <3>3 DEF JobsInv
  <2>3. QED
    BY <1>13, <1>a, <1>c, <2>2, DocKept DEF Read, BaseInv, TypeOK, Linked
<1>14. ASSUME NEW r \in Runs, CreateDoc(r) PROVE BaseInv'
  <2>1. segments'[r] \in Nat /\ doc'[r] \in Seq(Nat) /\ index'[r] \in Nat /\ DocOf(r)'
    BY <1>14, <1>a, <1>c, DocCreated
  <2>2. /\ segments' = [segments EXCEPT ![r] = segments'[r]]
        /\ doc' = [doc EXCEPT ![r] = doc'[r]] /\ index' = [index EXCEPT ![r] = index'[r]]
    BY <1>14, <1>a, <1>c DEF CreateDoc, TypeOK
  <2>3. TypeOK' /\ JobsInv'
    <3>1. TypeOK'
      BY <1>14, <1>a, <1>c, <2>1, <2>2 DEF CreateDoc, TypeOK, Stages, Active, WithFiles
    <3>2. JobOf(r)'
      <4>1. JobOf(r) /\ stage[r] = "decode"
        BY <1>14, <1>a DEF CreateDoc, JobsInv
      <4>2. stage'[r] = "body" /\ job' = job /\ orphans' = orphans /\ gen' = gen /\ open' = open
        BY <1>14, <1>a DEF CreateDoc, TypeOK
      <4>3. QED
        BY <4>1, <4>2 DEF JobOf
    <3>3. \A q \in Runs \ {r} : JobOf(q)'
      BY <1>14, <1>a, <1>c, <2>1, <2>2, JobKept DEF CreateDoc, TypeOK, JobsInv, Stages, Active, WithFiles
    <3>4. QED
      BY <3>1, <3>2, <3>3 DEF JobsInv
  <2>4. \A q \in Runs \ {r} : DocOf(q)'
    BY <1>14, <1>a, <1>c, <2>2, DocKept DEF CreateDoc, TypeOK
  <2>5. QED
    BY <2>1, <2>3, <2>4 DEF BaseInv
<1>15. ASSUME NEW r \in Runs, WriteBatch(r) PROVE BaseInv'
  <2>1. doc'[r] \in Seq(Nat) /\ index'[r] \in Nat /\ DocOf(r)'
    BY <1>15, <1>a, <1>c, BatchWritten
  <2>2. /\ doc' = [doc EXCEPT ![r] = doc'[r]] /\ index' = [index EXCEPT ![r] = index'[r]]
        /\ stage[r] = "body" /\ UNCHANGED segments
        /\ stage' = [stage EXCEPT ![r] = "body"] \/ stage' = [stage EXCEPT ![r] = "notify"]
    BY <1>15, <1>a, <1>c DEF WriteBatch, TypeOK
  <2>3. TypeOK' /\ JobsInv'
    <3>1. TypeOK'
      BY <1>15, <1>a, <1>c, <2>1, <2>2 DEF WriteBatch, TypeOK, Stages, Active, WithFiles
    <3>2. JobOf(r)'
      <4>1. JobOf(r) /\ stage[r] = "body"
        BY <1>15, <1>a DEF WriteBatch, JobsInv
      <4>2. stage'[r] \in {"body", "notify"} /\ job' = job /\ orphans' = orphans /\ gen' = gen /\ open' = open
        BY <1>15, <1>a DEF WriteBatch, TypeOK
      <4>3. QED
        BY <4>1, <4>2 DEF JobOf
    <3>3. \A q \in Runs \ {r} : JobOf(q)'
      BY <1>15, <1>a, <1>c, <2>1, <2>2, JobKept DEF WriteBatch, TypeOK, JobsInv, Stages, Active, WithFiles
    <3>4. QED
      BY <3>1, <3>2, <3>3 DEF JobsInv
  <2>4. \A q \in Runs \ {r} : DocOf(q)'
    BY <1>a, <2>2, DocKept DEF TypeOK
  <2>5. QED
    BY <2>1, <2>3, <2>4 DEF BaseInv
<1>16. ASSUME NEW r \in Runs, Notify(r) PROVE BaseInv'
  <2>1. TypeOK' /\ JobsInv'
    <3>1. TypeOK'
      BY <1>16, <1>a, <1>c DEF Notify, TypeOK, Stages, Active, WithFiles
    <3>2. JobOf(r)'
      BY <1>16, <1>a, <1>c DEF Notify, TypeOK, JobsInv, JobOf, Stages, Active, WithFiles
    <3>3. \A q \in Runs \ {r} : JobOf(q)'
      BY <1>16, <1>a, <1>c, JobKept DEF Notify, TypeOK, JobsInv, Stages, Active, WithFiles
    <3>4. QED
      BY <3>1, <3>2, <3>3 DEF JobsInv
  <2>2. QED
    BY <1>16, <1>a, <1>c, <2>1, DocKept DEF Notify, BaseInv, TypeOK, Linked
<1>17. ASSUME NEW r \in Runs, UnlinkSrc(r) PROVE BaseInv'
  <2>1. <<>> \in Seq(Recordings \cup {None})
    OBVIOUS
  <2>2. TypeOK' /\ JobsInv'
    <3>1. TypeOK'
      BY <1>17, <1>a, <1>c, <2>1 DEF UnlinkSrc, TypeOK, Stages, Active, WithFiles
    <3>2. JobOf(r)'
      BY <1>17, <1>a, <1>c, <2>1 DEF UnlinkSrc, TypeOK, JobsInv, JobOf, Stages, Active, WithFiles
    <3>3. \A q \in Runs \ {r} : JobOf(q)'
      BY <1>17, <1>a, <1>c, <2>1, JobKept DEF UnlinkSrc, TypeOK, JobsInv, Stages, Active, WithFiles
    <3>4. QED
      BY <3>1, <3>2, <3>3 DEF JobsInv
  <2>3. QED
    BY <1>17, <1>a, <1>c, <2>2, DocKept DEF UnlinkSrc, BaseInv, TypeOK, Linked
<1>18. ASSUME NEW r \in Runs, UnlinkAudio(r) PROVE BaseInv'
  <2>1. TypeOK' /\ JobsInv'
    <3>1. TypeOK'
      BY <1>18, <1>a, <1>c DEF UnlinkAudio, TypeOK, Stages, Ended, Silence, Sounds
    <3>2. JobOf(r)'
      BY <1>18, <1>a, <1>c DEF UnlinkAudio, TypeOK, JobsInv, JobOf, Stages, Ended, Silence, Sounds
    <3>3. \A q \in Runs \ {r} : JobOf(q)'
      BY <1>18, <1>a, <1>c, JobKept DEF UnlinkAudio, TypeOK, JobsInv, Stages, Ended, Silence, Sounds
    <3>4. QED
      BY <3>1, <3>2, <3>3 DEF JobsInv
  <2>2. QED
    BY <1>18, <1>a, <1>c, <2>1, DocKept DEF UnlinkAudio, BaseInv, TypeOK, Linked
<1>19. CASE Restart
  <2>1. conf' \in {None} \cup SUBSET Fields
    BY <1>19, ConfType DEF Restart
  <2>2. gen' \in 1..MaxGens /\ gen' > gen
    BY <1>19, <1>c DEF Restart
  <2>3. ActionRuns(gen) \subseteq {r \in Runs : stage[r] \in Active}
    BY DEF ActionRuns, AtWork
  <2>4. stage' \in [Runs -> Stages] /\ orphans' \subseteq Runs
    BY <1>19, <1>a, <2>3 DEF Restart, WithChild, TypeOK, Stages, Ended
  <2>5. open' \in [Runs -> [src : Runs \cup {None}, audio : Runs \cup {None}]]
    BY <1>19, <1>a DEF Restart, Closed, TypeOK
  <2>6. TypeOK'
    BY <1>19, <1>a, <2>1, <2>2, <2>4, <2>5 DEF Restart, TypeOK
  <2>7. ASSUME NEW r \in Runs PROVE JobOf(r)'
    <3>1. CASE r \in ActionRuns(gen)
      <4>1. stage'[r] = "aborted" /\ stage[r] \in Active /\ job'[r] = job[r]
        BY <1>19, <2>3, <3>1 DEF Restart
      <4>2. JobOf(r) /\ r \notin orphans
        BY <1>a, <4>1 DEF JobsInv, JobOf, Active, WithFiles
      <4>3. r \in orphans' <=> stage[r] = "ffmpeg"
        BY <1>19, <3>1, <4>2 DEF Restart, WithChild
      <4>4. open'[r] = IF stage[r] = "ffmpeg" THEN open[r] ELSE Closed
        BY <1>19, <3>1, <4>3 DEF Restart
      <4>5. job[r] \in Jobs /\ job[r].gen <= gen' /\ job[r] # None
        BY <1>c, <2>2, <4>1, <4>2 DEF JobOf, Active, WithFiles, Jobs
      <4>6. QED
        BY <4>1, <4>2, <4>3, <4>4, <4>5 DEF JobOf
    <3>2. CASE r \notin ActionRuns(gen)
      BY <1>19, <1>a, <1>c, <2>2, <3>2, JobKept DEF Restart, WithChild, JobsInv
    <3>3. QED
      BY <3>1, <3>2
  <2>8. QED
    BY <1>19, <1>a, <2>6, <2>7, DocKept DEF Restart, BaseInv, JobsInv, Linked
<1>20. CASE Crash
  <2>1. gen' \in 1..MaxGens /\ gen' > gen /\ faults' \in 0..MaxFaults
    BY <1>20, <1>a, <1>c, SizeAssumption DEF Crash, TypeOK
  <2>2. TypeOK'
    BY <1>20, <1>a, <2>1 DEF Crash, WithChild, Closed, TypeOK, Stages, Ended
  <2>3. ASSUME NEW r \in Runs PROVE JobOf(r)'
    <3>1. CASE AtWork(r) \/ stage[r] = Queued
      <4>1. stage'[r] = "lost" /\ stage[r] \in Active \cup {Queued} /\ job'[r] = job[r]
        BY <1>20, <3>1 DEF Crash, AtWork
      <4>2. JobOf(r) /\ r \notin orphans
        BY <1>a, <4>1 DEF JobsInv, JobOf, Active, WithFiles, Queued
      <4>3. r \in orphans' <=> stage[r] = "ffmpeg"
        BY <1>20, <3>1, <4>2 DEF Crash, WithChild
      <4>4. open'[r] = IF stage[r] = "ffmpeg" THEN open[r] ELSE Closed
        BY <1>20, <3>1, <4>3 DEF Crash
      <4>5. job[r] \in Jobs /\ job[r].gen <= gen' /\ job[r] # None
        BY <1>c, <2>1, <4>1, <4>2 DEF JobOf, Active, WithFiles, Jobs, Queued
      <4>6. QED
        BY <4>1, <4>2, <4>3, <4>4, <4>5 DEF JobOf
    <3>2. CASE ~ (AtWork(r) \/ stage[r] = Queued)
      BY <1>20, <1>a, <1>c, <2>1, <3>2, JobKept DEF Crash, WithChild, JobsInv
    <3>3. QED
      BY <3>1, <3>2
  <2>4. QED
    BY <1>20, <1>a, <2>2, <2>3, DocKept DEF Crash, BaseInv, JobsInv, Linked
<1>21. ASSUME NEW r \in Runs, Remains(r) PROVE BaseInv'
  <2>1. MeetingOf(r) \in Meetings
    BY <1>21, <1>a, <1>c DEF Remains, JobsInv, JobOf, Jobs, MeetingOf
  <2>2. /\ stage[r] \in CleanUp /\ UNCHANGED <<gen, conf, job, files, text, shared>>
        /\ \/ stage[r] = "unlinkSrc" /\ stage' = [stage EXCEPT ![r] = "unlinkAudio"]
           \/ stage[r] = "unlinkAudio" /\ stage' = [stage EXCEPT ![r] = "done"]
    BY <1>21 DEF Remains
  <2>3. TypeOK' /\ JobsInv'
    <3>1. TypeOK'
      <4>1. /\ kept' \subseteq Meetings \X CleanUp
            /\ faults' \in 0..MaxFaults /\ permit' \subseteq Runs
        BY <1>21, <1>a, <2>1, SizeAssumption DEF Remains, TypeOK
      <4>2. stage' \in [Runs -> Stages]
        BY <1>a, <2>2 DEF TypeOK, Stages, Active, WithFiles, Ended
      <4>3. QED
        BY <1>a, <2>2, <4>1, <4>2 DEF TypeOK
    <3>2. JobOf(r)'
      BY <1>a, <1>c, <2>2 DEF TypeOK, JobsInv, JobOf
    <3>3. \A q \in Runs \ {r} : JobOf(q)'
      BY <1>a, <1>c, <2>2, JobKept DEF TypeOK, JobsInv
    <3>4. QED
      BY <3>1, <3>2, <3>3 DEF JobsInv
  <2>4. \A q \in Runs : DocOf(q)'
    BY <1>a, <2>2, DocKept DEF TypeOK, Linked
  <2>5. QED
    BY <2>3, <2>4 DEF BaseInv
<1>22. QED
  BY <1>1, <1>2, <1>3, <1>4, <1>6, <1>7, <1>8, <1>9, <1>11, <1>12, <1>13, <1>14, <1>15, <1>16,
     <1>17, <1>18, <1>19, <1>20, <1>21
  DEF Next, Step

(* The document is written in order.                                       *)
LEMMA DocsInOrder == BaseInv => DocInOrder
<1> SUFFICES ASSUME BaseInv, NEW r \in Runs, stage[r] = "body"
             PROVE  doc[r] = SubSeq(Full(r), 1, Len(doc[r]))
  BY DEF BaseInv, DocOf, DocInOrder
<1> DEFINE d == doc[r]
           i == index[r]
           n == segments[r]
           part == SubSeq(Full(r), 1, i)
<1>1. /\ d \in Seq(Nat) /\ i \in Nat /\ n \in Nat /\ Len(d) = i
      /\ IF n = 0 THEN i = 3 ELSE i < 3 + n
      /\ \A k \in 1..i : d[k] = Block(n, k)
  BY DEF BaseInv, TypeOK, DocOf, HeaderSize
<1>2. /\ Full(r) \in Seq(Nat) /\ Len(Full(r)) = 3 + (IF n = 0 THEN 1 ELSE n)
      /\ \A k \in 1..Len(Full(r)) : Full(r)[k] = Block(n, k)
  BY <1>1, FullIs DEF HeaderSize
<1>3. i <= Len(Full(r)) /\ Len(Full(r)) \in Nat
  BY <1>1, <1>2
<1>4. part \in Seq(Nat) /\ Len(part) = i /\ \A k \in 1..i : part[k] = Full(r)[k]
  BY <1>1, <1>2, <1>3
<1> HIDE DEF part
<1>5. \A k \in 1..i : d[k] = part[k]
  BY <1>1, <1>2, <1>3, <1>4
<1>6. d = part
  BY <1>1, <1>4, <1>5, SeqEqual
<1>7. QED
  BY <1>1, <1>6 DEF part

LEMMA BaseInvariant == Spec => []BaseInv
BY BaseInit, BaseNext, PTL DEF Spec

(* Once the card is out, the document it links has the header and then     *)
(* every segment of the transcript once, in order; while it is written it  *)
(* is an initial part of that (create_transcript_doc).                     *)
THEOREM DocInOrderHolds == Spec => []DocInOrder
BY BaseInvariant, DocsInOrder, PTL

-----------------------------------------------------------------------------
(* Permits.                                                                *)

AtWorkForEvent == {r \in Runs : AtWork(r) /\ EventRun(r)}

PermitInv ==
  /\ permit = AtWorkForEvent
  /\ \A r \in Runs : stage[r] = "waiting" => EventRun(r)
  /\ \A g \in 1..MaxGens : Cardinality(Held(g)) <= Cap

LEMMA CapKept ==
  ASSUME TypeOK, PermitInv, TypeOK',
         permit' \subseteq permit, \A r \in permit' : job'[r] = job[r]
  PROVE  \A g \in 1..MaxGens : Cardinality(Held(g))' <= Cap
<1> TAKE g \in 1..MaxGens
<1>1. Held(g)' \subseteq Held(g)
  BY DEF Held
<1>2. IsFiniteSet(Held(g))
  BY SizeAssumption, FS_Subset DEF Held, TypeOK
<1>3. /\ Cardinality(Held(g)') <= Cardinality(Held(g)) /\ IsFiniteSet(Held(g)')
      /\ Cardinality(Held(g)) \in Nat /\ Cardinality(Held(g)') \in Nat
  BY <1>1, <1>2, FS_Subset, FS_CardinalityType
<1>4. Cardinality(Held(g)) <= Cap /\ Cap \in Nat
  BY SizeAssumption DEF PermitInv
<1>5. QED
  BY <1>3, <1>4

LEMMA PermitInit == Init => PermitInv
<1> SUFFICES ASSUME Init PROVE PermitInv
  OBVIOUS
<1>1. permit = AtWorkForEvent
  BY DEF Init, AtWorkForEvent, AtWork, Active, WithFiles
<1>2. \A g \in 1..MaxGens : Held(g) = {}
  BY DEF Init, Held
<1>3. \A g \in 1..MaxGens : Cardinality(Held(g)) <= Cap
  BY <1>2, FS_EmptySet, SizeAssumption
<1>4. QED
  BY <1>1, <1>3 DEF PermitInv, Init

(* A step of one run, by which it may stop working and give its permit     *)
(* back.                                                                   *)
LEMMA PermitStep ==
  ASSUME TypeOK, TypeOK', PermitInv, job' = job, NEW r \in Runs,
         \A q \in Runs \ {r} : stage'[q] = stage[q],
         AtWork(r), stage'[r] # "waiting",
         \/ stage'[r] \in Active /\ permit' = permit
         \/ stage'[r] \notin Active /\ permit' = permit \ {r}
  PROVE  PermitInv'
<1>1. permit' = AtWorkForEvent'
  BY DEF PermitInv, AtWorkForEvent, AtWork, EventRun
<1>2. \A q \in Runs : stage'[q] = "waiting" => EventRun(q)'
  BY DEF PermitInv, EventRun, Active, WithFiles
<1>3. QED
  BY <1>1, <1>2, CapKept DEF PermitInv

LEMMA PermitNext ==
  ASSUME BaseInv, BaseInv', PermitInv, [Next]_vars
  PROVE  PermitInv'
<1> USE DEF text, files, contents, Goto
<1>a. TypeOK /\ TypeOK' /\ JobsInv
  BY DEF BaseInv
<1>1. CASE UNCHANGED vars
  BY <1>1 DEF vars, PermitInv, AtWorkForEvent, AtWork, EventRun, Held
<1>2. ASSUME NEW r \in Runs, RecordingReady(r) \/ ProcessMeeting(r) PROVE PermitInv'
  <2>1. /\ stage[r] = "idle" /\ permit' = permit /\ job'[r] # None
        /\ \A q \in Runs \ {r} : stage'[q] = stage[q] /\ job'[q] = job[q]
        /\ \/ stage'[r] = "waiting" /\ job'[r].event
           \/ stage'[r] \in Active /\ stage'[r] # "waiting" /\ ~ job'[r].event
    <3>1. CASE RecordingReady(r)
      <4>1. stage'[r] = "waiting" /\ stage[r] = "idle" /\ permit' = permit
        BY <1>a, <3>1 DEF RecordingReady, TypeOK, Queued
      <4>2. job'[r] # None
        BY <1>a, <4>1 DEF BaseInv, JobsInv, JobOf
      <4>3. job'[r].event
        BY <1>a, <3>1 DEF RecordingReady, TypeOK, Job
      <4>4. QED
        BY <1>a, <3>1, <4>1, <4>2, <4>3 DEF RecordingReady, TypeOK
    <3>2. CASE ProcessMeeting(r)
      <4>1. stage'[r] = "fetch" /\ stage[r] = "idle" /\ permit' = permit
        BY <1>a, <3>2 DEF ProcessMeeting, TypeOK
      <4>2. job'[r] # None
        BY <1>a, <4>1 DEF BaseInv, JobsInv, JobOf
      <4>3. ~ job'[r].event
        BY <1>a, <3>2 DEF ProcessMeeting, TypeOK, Job
      <4>4. QED
        BY <1>a, <3>2, <4>1, <4>2, <4>3 DEF ProcessMeeting, TypeOK, Active
    <3>3. QED
      BY <1>2, <3>1, <3>2
  <2>2. r \notin permit
    BY <2>1 DEF PermitInv, AtWorkForEvent, AtWork, Active, WithFiles
  <2>3. permit' = AtWorkForEvent'
    BY <2>1, <2>2 DEF PermitInv, AtWorkForEvent, AtWork, EventRun, Active, WithFiles
  <2>4. \A q \in Runs : stage'[q] = "waiting" => EventRun(q)'
    BY <2>1 DEF PermitInv, EventRun
  <2>5. permit' \subseteq permit /\ \A q \in permit' : job'[q] = job[q]
    BY <1>a, <2>1, <2>2 DEF TypeOK
  <2>6. \A g \in 1..MaxGens : Cardinality(Held(g))' <= Cap
    BY <1>a, <2>5, CapKept
  <2>7. QED
    BY <2>3, <2>4, <2>6 DEF PermitInv
<1>3. ASSUME NEW r \in Runs, Acquire(r) PROVE PermitInv'
  <2>1. /\ stage[r] = "waiting" /\ stage'[r] = "fetch" /\ permit' = permit \cup {r}
        /\ job' = job /\ \A q \in Runs \ {r} : stage'[q] = stage[q]
    BY <1>3, <1>a DEF Acquire, TypeOK, Queued
  <2>2. EventRun(r) /\ r \notin permit
    BY <2>1 DEF PermitInv, AtWorkForEvent, AtWork, Active, WithFiles
  <2>3. permit' = AtWorkForEvent'
    BY <2>1, <2>2 DEF PermitInv, AtWorkForEvent, AtWork, EventRun, Active, WithFiles
  <2>4. \A q \in Runs : stage'[q] = "waiting" => EventRun(q)'
    BY <2>1 DEF PermitInv, EventRun
  <2>5. ASSUME NEW g \in 1..MaxGens PROVE Cardinality(Held(g))' <= Cap
    <3>1. Held(g)' = IF job[r].gen = g THEN Held(g) \cup {r} ELSE Held(g)
      BY <2>1 DEF Held
    <3>2. IsFiniteSet(Held(g)) /\ r \notin Held(g)
      BY <1>a, <2>2, SizeAssumption, FS_Subset DEF Held, TypeOK
    <3>3. Cardinality(Held(g)) \in Nat /\ Cap \in Nat /\ Cardinality(Held(g)) <= Cap
      BY <3>2, FS_CardinalityType, SizeAssumption DEF PermitInv
    <3>4. CASE job[r].gen = g
      <4>1. Cardinality(Held(g)) < Cap
        BY <1>3, <3>4 DEF Acquire
      <4>2. Cardinality(Held(g) \cup {r}) = Cardinality(Held(g)) + 1
        BY <3>2, FS_AddElement
      <4>3. QED
        BY <3>1, <3>3, <3>4, <4>1, <4>2
    <3>5. CASE job[r].gen # g
      BY <3>1, <3>3, <3>5
    <3>6. QED
      BY <3>4, <3>5
  <2>6. QED
    BY <2>3, <2>4, <2>5 DEF PermitInv
<1>4. ASSUME NEW r \in Runs, GiveUp(r), stage[r] \in Active PROVE PermitInv'
  <2>1. /\ stage'[r] = "failed" /\ permit' = permit \ {r} /\ job' = job
        /\ \A q \in Runs \ {r} : stage'[q] = stage[q]
    BY <1>4, <1>a DEF GiveUp, TypeOK
  <2>2. QED
    BY <1>4, <1>a, <2>1, PermitStep DEF AtWork, Active, WithFiles
<1>5. ASSUME NEW r \in Runs, CallFails(r) \/ NoFolder(r) \/ NoInput(r) PROVE PermitInv'
  <2>1. GiveUp(r) /\ stage[r] \in Active
    BY <1>5 DEF CallFails, Fault, NoFolder, NoInput, Active, WithFiles
  <2>2. QED
    BY <1>4, <2>1
<1>6. ASSUME NEW r \in Runs, NEW from \in Active, NEW to \in Active \cup {"done", "failed"},
             stage[r] = from, stage' = [stage EXCEPT ![r] = to], job' = job,
             permit' = IF to \in Active THEN permit ELSE permit \ {r}
      PROVE  PermitInv'
  <2>1. stage'[r] = to /\ \A q \in Runs \ {r} : stage'[q] = stage[q]
    BY <1>6, <1>a DEF TypeOK
  <2>2. QED
    BY <1>6, <1>a, <2>1, PermitStep DEF AtWork, Active, WithFiles
<1>7. ASSUME NEW r \in Runs, Fetch(r) PROVE PermitInv'
  BY <1>6, <1>7 DEF Fetch, Active, WithFiles
<1>8. ASSUME NEW r \in Runs, Download(r) PROVE PermitInv'
  <2>1. stage[r] = "download" /\ job' = job /\ permit' = permit
    BY <1>8 DEF Download
  <2>2. CASE stage' = stage
    <3>1. stage' = [stage EXCEPT ![r] = "download"]
      BY <1>a, <2>1, <2>2 DEF TypeOK
    <3>2. QED
      BY <1>6, <2>1, <3>1 DEF Active, WithFiles
  <2>3. CASE stage' = [stage EXCEPT ![r] = "extract"]
    BY <1>6, <2>1, <2>3 DEF Active, WithFiles
  <2>4. QED
    BY <1>8, <2>2, <2>3 DEF Download
<1>9. ASSUME NEW r \in Runs, Extract(r) PROVE PermitInv'
  BY <1>6, <1>9 DEF Extract, Active, WithFiles
<1>10. ASSUME NEW r \in Runs, ExtractEnds(r) PROVE PermitInv'
  BY <1>6, <1>10 DEF ExtractEnds, Active, WithFiles
<1>11. ASSUME NEW r \in Runs, Read(r) PROVE PermitInv'
  BY <1>6, <1>11 DEF Read, Active, WithFiles
<1>12. ASSUME NEW r \in Runs, CreateDoc(r) PROVE PermitInv'
  BY <1>6, <1>12 DEF CreateDoc, Active, WithFiles
<1>13. ASSUME NEW r \in Runs, WriteBatch(r) PROVE PermitInv'
  BY <1>6, <1>13 DEF WriteBatch, Active, WithFiles
<1>14. ASSUME NEW r \in Runs, Notify(r) PROVE PermitInv'
  BY <1>6, <1>14 DEF Notify, Active, WithFiles
<1>15. ASSUME NEW r \in Runs, UnlinkSrc(r) PROVE PermitInv'
  BY <1>6, <1>15 DEF UnlinkSrc, Active, WithFiles
<1>16. ASSUME NEW r \in Runs, UnlinkAudio(r) PROVE PermitInv'
  BY <1>6, <1>16 DEF UnlinkAudio, Active, WithFiles
<1>17. ASSUME NEW r \in Runs, OrphanEnds(r) PROVE PermitInv'
  BY <1>17 DEF OrphanEnds, PermitInv, AtWorkForEvent, AtWork, EventRun, Held
<1>18. CASE Restart
  <2>1. /\ permit' = permit /\ job' = job
        /\ \A q \in Runs : stage'[q] = IF q \in ActionRuns(gen) THEN "aborted" ELSE stage[q]
    BY <1>18 DEF Restart
  <2>2. permit' = AtWorkForEvent'
    BY <2>1 DEF PermitInv, AtWorkForEvent, AtWork, EventRun, ActionRuns, Active, WithFiles
  <2>3. \A q \in Runs : stage'[q] = "waiting" => EventRun(q)'
    BY <2>1 DEF PermitInv, EventRun
  <2>4. QED
    BY <1>a, <2>1, <2>2, <2>3, CapKept DEF PermitInv
<1>19. CASE Crash
  <2>1. /\ permit' = {} /\ job' = job
        /\ \A q \in Runs : stage'[q] = IF AtWork(q) \/ stage[q] = "waiting" THEN "lost" ELSE stage[q]
    BY <1>19 DEF Crash, Queued
  <2>2. permit' = AtWorkForEvent'
    BY <2>1 DEF AtWorkForEvent, AtWork, Active, WithFiles
  <2>3. \A q \in Runs : stage'[q] = "waiting" => EventRun(q)'
    BY <2>1
  <2>4. QED
    BY <1>a, <2>1, <2>2, <2>3, CapKept DEF PermitInv
<1>20. ASSUME NEW r \in Runs, Remains(r) PROVE PermitInv'
  BY <1>6, <1>20 DEF Remains, Active, WithFiles
<1>21. QED
  BY <1>1, <1>2, <1>3, <1>5, <1>7, <1>8, <1>9, <1>10, <1>11, <1>12, <1>13, <1>14, <1>15, <1>16,
     <1>17, <1>18, <1>19, <1>20
  DEF Next, Step

LEMMA PermitsCap == BaseInv /\ PermitInv => WithinCap
<1> SUFFICES ASSUME BaseInv, PermitInv PROVE WithinCap
  OBVIOUS
<1>1. permit = {r \in Runs : AtWork(r) /\ EventRun(r)}
  BY DEF PermitInv, AtWorkForEvent
<1>2. \A g \in 1..MaxGens : Held(g) = {r \in Runs : AtWork(r) /\ EventRun(r) /\ job[r].gen = g}
  BY <1>1 DEF Held
<1>3. QED
  BY <1>1, <1>2 DEF WithinCap, PermitInv

-----------------------------------------------------------------------------
(* Files: one that is there has a run that has yet to remove it, or never  *)
(* will, or one that tried in vain.                                        *)
GivenUp == {"failed", "aborted", "lost"}
SrcUsers == {"download", "extract", "ffmpeg", "read", "decode", "body", "notify", "unlinkSrc"}
              \cup GivenUp
AudioUsers == {"ffmpeg", "read", "decode", "body", "notify", "unlinkSrc", "unlinkAudio"}
                \cup GivenUp

FilesInv ==
  \A m \in Meetings :
    /\ src[m] # None /\ <<m, "unlinkSrc">> \notin kept
         => \E r \in Runs : stage[r] \in SrcUsers /\ MeetingOf(r) = m
    /\ audio[m] # None /\ <<m, "unlinkAudio">> \notin kept
         => \E r \in Runs : stage[r] \in AudioUsers /\ MeetingOf(r) = m

LEMMA FilesStep ==
  ASSUME FilesInv, kept \subseteq kept',
         \A r \in Runs : stage[r] # "idle" => job'[r] = job[r],
         \A m \in Meetings : src'[m] # None /\ <<m, "unlinkSrc">> \notin kept' =>
           \/ \E r \in Runs : stage'[r] \in SrcUsers /\ MeetingOf(r)' = m
           \/ src[m] # None /\ \A r \in Runs : stage[r] \in SrcUsers /\ MeetingOf(r) = m
                                               => stage'[r] \in SrcUsers,
         \A m \in Meetings : audio'[m] # None /\ <<m, "unlinkAudio">> \notin kept' =>
           \/ \E r \in Runs : stage'[r] \in AudioUsers /\ MeetingOf(r)' = m
           \/ audio[m] # None /\ \A r \in Runs : stage[r] \in AudioUsers /\ MeetingOf(r) = m
                                                 => stage'[r] \in AudioUsers
  PROVE  FilesInv'
<1> SUFFICES ASSUME NEW m \in Meetings
    PROVE  /\ src'[m] # None /\ <<m, "unlinkSrc">> \notin kept' => \E r \in Runs : stage'[r] \in SrcUsers /\ MeetingOf(r)' = m
           /\ audio'[m] # None /\ <<m, "unlinkAudio">> \notin kept' => \E r \in Runs : stage'[r] \in AudioUsers /\ MeetingOf(r)' = m
  BY DEF FilesInv
<1>1. src'[m] # None /\ <<m, "unlinkSrc">> \notin kept' => \E r \in Runs : stage'[r] \in SrcUsers /\ MeetingOf(r)' = m
  <2> SUFFICES ASSUME src[m] # None, <<m, "unlinkSrc">> \notin kept,
                      \A r \in Runs : stage[r] \in SrcUsers /\ MeetingOf(r) = m
                                                    => stage'[r] \in SrcUsers
               PROVE  \E r \in Runs : stage'[r] \in SrcUsers /\ MeetingOf(r)' = m
    OBVIOUS
  <2>1. PICK r \in Runs : stage[r] \in SrcUsers /\ MeetingOf(r) = m
    BY DEF FilesInv
  <2>2. MeetingOf(r)' = MeetingOf(r)
    BY <2>1 DEF MeetingOf, SrcUsers, GivenUp
  <2>3. QED
    BY <2>1, <2>2
<1>2. audio'[m] # None /\ <<m, "unlinkAudio">> \notin kept' => \E r \in Runs : stage'[r] \in AudioUsers /\ MeetingOf(r)' = m
  <2> SUFFICES ASSUME audio[m] # None, <<m, "unlinkAudio">> \notin kept,
                      \A r \in Runs : stage[r] \in AudioUsers /\ MeetingOf(r) = m
                                                      => stage'[r] \in AudioUsers
               PROVE  \E r \in Runs : stage'[r] \in AudioUsers /\ MeetingOf(r)' = m
    OBVIOUS
  <2>1. PICK r \in Runs : stage[r] \in AudioUsers /\ MeetingOf(r) = m
    BY DEF FilesInv
  <2>2. MeetingOf(r)' = MeetingOf(r)
    BY <2>1 DEF MeetingOf, AudioUsers, GivenUp
  <2>3. QED
    BY <2>1, <2>2
<1>3. QED
  BY <1>1, <1>2

(* A step that leaves the two names as they are.                           *)
LEMMA NamesKept ==
  ASSUME FilesInv, UNCHANGED <<src, audio>>, kept' = kept,
         \A r \in Runs : stage[r] # "idle" => job'[r] = job[r],
         \A r \in Runs : stage[r] \in SrcUsers => stage'[r] \in SrcUsers,
         \A r \in Runs : stage[r] \in AudioUsers => stage'[r] \in AudioUsers
  PROVE  FilesInv'
BY FilesStep

LEMMA FilesNext ==
  ASSUME BaseInv, FilesInv, [Next]_vars
  PROVE  FilesInv'
<1> USE DEF text, files, contents, Goto, SrcUsers, AudioUsers, GivenUp
<1>a. stage \in [Runs -> Stages] /\ job \in [Runs -> Jobs \cup {None}]
  BY DEF BaseInv, TypeOK
<1>m. \A r \in Runs : stage[r] # "idle" => MeetingOf(r) \in Meetings
  BY DEF BaseInv, JobsInv, JobOf, Jobs, MeetingOf
<1>s. src \in [Meetings -> Runs \cup {None}] /\ audio \in [Meetings -> Runs \cup {None}]
  BY DEF BaseInv, TypeOK
<1>1. CASE UNCHANGED vars
  BY <1>1, NamesKept DEF vars
<1>2. ASSUME NEW r \in Runs, RecordingReady(r) \/ ProcessMeeting(r) PROVE FilesInv'
  BY <1>2, <1>a, NamesKept DEF RecordingReady, ProcessMeeting
<1>3. ASSUME NEW r \in Runs, Acquire(r) \/ CallFails(r) \/ NoFolder(r) \/ NoInput(r)
      PROVE FilesInv'
  <2>1. /\ job' = job /\ src' = src /\ audio' = audio /\ kept' = kept
        /\ \/ stage[r] = "waiting" /\ stage' = [stage EXCEPT ![r] = "fetch"]
           \/ stage' = [stage EXCEPT ![r] = "failed"]
    BY <1>3 DEF Acquire, CallFails, Fault, NoFolder, NoInput, GiveUp, Queued
  <2>2. QED
    BY <1>a, <2>1, NamesKept
<1>4. ASSUME NEW r \in Runs, Fetch(r) PROVE FilesInv'
  <2>1. /\ stage[r] = "fetch" /\ stage'[r] = "download" /\ job' = job /\ audio' = audio /\ kept' = kept
        /\ \A q \in Runs \ {r} : stage'[q] = stage[q]
        /\ \A m \in Meetings : m = MeetingOf(r) \/ src'[m] = src[m]
    BY <1>4, <1>a, <1>s DEF Fetch, CreateFile
  <2>2. MeetingOf(r)' = MeetingOf(r)
    BY <2>1 DEF MeetingOf
  <2>3. QED
    BY <2>1, <2>2, FilesStep
<1>5. ASSUME NEW r \in Runs,
             Download(r) \/ ExtractEnds(r) \/ Read(r) \/ CreateDoc(r) \/ WriteBatch(r) \/ Notify(r)
      PROVE  FilesInv'
  <2>1. job' = job /\ src' = src /\ audio' = audio /\ kept' = kept
    BY <1>5 DEF Download, ExtractEnds, Read, CreateDoc, WriteBatch, Notify
  <2>2. \/ stage' = stage
        \/ stage[r] = "download" /\ stage' = [stage EXCEPT ![r] = "extract"]
        \/ stage[r] = "ffmpeg" /\ stage' = [stage EXCEPT ![r] = "read"]
        \/ stage[r] = "ffmpeg" /\ stage' = [stage EXCEPT ![r] = "failed"]
        \/ stage[r] = "read" /\ stage' = [stage EXCEPT ![r] = "decode"]
        \/ stage[r] = "decode" /\ stage' = [stage EXCEPT ![r] = "body"]
        \/ stage[r] = "body" /\ stage' = [stage EXCEPT ![r] = "body"]
        \/ stage[r] = "body" /\ stage' = [stage EXCEPT ![r] = "notify"]
        \/ stage[r] = "notify" /\ stage' = [stage EXCEPT ![r] = "unlinkSrc"]
    BY <1>5 DEF Download, ExtractEnds, Read, CreateDoc, WriteBatch, Notify
  <2>3. QED
    BY <1>a, <2>1, <2>2, NamesKept
<1>6. ASSUME NEW r \in Runs, Extract(r) PROVE FilesInv'
  <2>1. /\ stage[r] = "extract" /\ stage'[r] = "ffmpeg" /\ job' = job /\ src' = src /\ kept' = kept
        /\ \A q \in Runs \ {r} : stage'[q] = stage[q]
        /\ \A m \in Meetings : m = MeetingOf(r) \/ audio'[m] = audio[m]
    BY <1>6, <1>a, <1>s DEF Extract
  <2>2. MeetingOf(r)' = MeetingOf(r)
    BY <2>1 DEF MeetingOf
  <2>3. QED
    BY <2>1, <2>2, FilesStep
<1>7. ASSUME NEW r \in Runs, UnlinkSrc(r) PROVE FilesInv'
  <2>1. /\ stage[r] = "unlinkSrc" /\ stage'[r] = "unlinkAudio" /\ job' = job /\ audio' = audio /\ kept' = kept
        /\ \A q \in Runs \ {r} : stage'[q] = stage[q]
        /\ \A m \in Meetings : IF m = MeetingOf(r) THEN src'[m] = None ELSE src'[m] = src[m]
    BY <1>7, <1>a, <1>s DEF UnlinkSrc
  <2>2. \A q \in Runs : stage[q] \in AudioUsers => stage'[q] \in AudioUsers
    BY <2>1
  <2>3. \A m \in Meetings : src'[m] # None =>
          src[m] # None /\ \A q \in Runs : stage[q] \in SrcUsers /\ MeetingOf(q) = m
                                          => stage'[q] \in SrcUsers
    BY <2>1
  <2>4. QED
    BY <2>1, <2>2, <2>3, FilesStep
<1>8. ASSUME NEW r \in Runs, UnlinkAudio(r) PROVE FilesInv'
  <2>1. /\ stage[r] = "unlinkAudio" /\ stage'[r] = "done" /\ job' = job /\ src' = src /\ kept' = kept
        /\ \A q \in Runs \ {r} : stage'[q] = stage[q]
        /\ \A m \in Meetings : IF m = MeetingOf(r) THEN audio'[m] = None ELSE audio'[m] = audio[m]
    BY <1>8, <1>a, <1>s DEF UnlinkAudio
  <2>2. \A q \in Runs : stage[q] \in SrcUsers => stage'[q] \in SrcUsers
    BY <2>1
  <2>3. \A m \in Meetings : audio'[m] # None =>
          audio[m] # None /\ \A q \in Runs : stage[q] \in AudioUsers /\ MeetingOf(q) = m
                                            => stage'[q] \in AudioUsers
    BY <2>1
  <2>4. QED
    BY <2>1, <2>2, <2>3, FilesStep
<1>9. ASSUME NEW r \in Runs, OrphanEnds(r) PROVE FilesInv'
  BY <1>9, NamesKept DEF OrphanEnds
<1>10. CASE Restart
  <2>1. /\ UNCHANGED <<src, audio, job, kept>>
        /\ \A r \in Runs : stage'[r] = stage[r] \/ stage'[r] = "aborted"
    BY <1>10 DEF Restart
  <2>2. QED
    BY <2>1, NamesKept
<1>11. CASE Crash
  <2>1. /\ UNCHANGED <<src, audio, job, kept>>
        /\ \A r \in Runs : stage'[r] = stage[r] \/ stage'[r] = "lost"
    BY <1>11 DEF Crash
  <2>2. QED
    BY <2>1, NamesKept
<1>12. ASSUME NEW r \in Runs, Remains(r) PROVE FilesInv'
  <2>1. /\ UNCHANGED <<src, audio, job>> /\ kept' = kept \cup {<<MeetingOf(r), stage[r]>>}
        /\ \A q \in Runs \ {r} : stage'[q] = stage[q]
        /\ \/ stage[r] = "unlinkSrc" /\ stage'[r] = "unlinkAudio"
           \/ stage[r] = "unlinkAudio" /\ stage'[r] = "done"
    BY <1>12, <1>a DEF Remains
  <2>2. \A m \in Meetings : <<m, "unlinkSrc">> \notin kept' =>
          \A q \in Runs : stage[q] \in SrcUsers /\ MeetingOf(q) = m => stage'[q] \in SrcUsers
    BY <2>1
  <2>3. \A m \in Meetings : <<m, "unlinkAudio">> \notin kept' =>
          \A q \in Runs : stage[q] \in AudioUsers /\ MeetingOf(q) = m => stage'[q] \in AudioUsers
    BY <2>1
  <2>4. QED
    BY <2>1, <2>2, <2>3, FilesStep
<1>13. QED
  BY <1>1, <1>2, <1>3, <1>4, <1>5, <1>6, <1>7, <1>8, <1>9, <1>10, <1>11, <1>12 DEF Next, Step

LEMMA NothingLeft == BaseInv /\ FilesInv => NothingLeftBehind
<1> SUFFICES ASSUME BaseInv, FilesInv, NEW m \in Meetings,
                    \A r \in Runs : job[r] # None /\ MeetingOf(r) = m => stage[r] = "done"
             PROVE  /\ src[m] = None \/ <<m, "unlinkSrc">> \in kept
                    /\ audio[m] = None \/ <<m, "unlinkAudio">> \in kept
  BY DEF NothingLeftBehind
<1>1. \A r \in Runs : stage[r] \in SrcUsers \cup AudioUsers => job[r] # None
  BY DEF BaseInv, JobsInv, JobOf, SrcUsers, AudioUsers, GivenUp
<1>2. QED
  BY <1>1 DEF FilesInv, SrcUsers, AudioUsers, GivenUp

(* No generation works on more event runs than it has permits, the runs at *)
(* work for an event are those that hold one, and a meeting all of whose   *)
(* runs ended well leaves no temp file but one that one of them could not  *)
(* remove (RecordingReadyHandler's semaphore, process_meeting's last step),*)
(* whatever failed, aborted or crashed.                                    *)
THEOREM RunInvHolds == Spec => []RunInv
<1> DEFINE I == BaseInv /\ PermitInv /\ FilesInv
<1>1. Init => I
  <2>1. Init => FilesInv
    BY DEF Init, FilesInv
  <2>2. QED
    BY <2>1, BaseInit, PermitInit
<1>2. I /\ [Next]_vars => I'
  BY BaseNext, PermitNext, FilesNext
<1>3. I => RunInv
  BY PermitsCap, NothingLeft DEF RunInv, BaseInv
<1>4. QED
  BY <1>1, <1>2, <1>3, PTL DEF Spec

-----------------------------------------------------------------------------
(* What a run hears.                                                       *)

Using(r) == stage[r] \in WithFiles \/ r \in orphans
Begun(f) == stage[f] # "idle"

(* A file bears the name of a run of the meeting it belongs to.            *)
Belongs(f, m) == f \in Runs /\ Begun(f) /\ MeetingOf(f) = m

NamesInv ==
  /\ \A m \in Meetings : /\ src[m] # None => Belongs(src[m], m)
                         /\ audio[m] # None => Belongs(audio[m], m)
  /\ \A r \in Runs : /\ open[r].src # None => Belongs(open[r].src, MeetingOf(r))
                     /\ open[r].audio # None => Belongs(open[r].audio, MeetingOf(r))

(* Two runs of a meeting that use its files at once are both on record.    *)
AloneInv ==
  \A r, q \in Runs : r # q /\ Using(r) /\ Using(q) /\ MeetingOf(r) = MeetingOf(q) => r \in shared

Own(r) == [of |-> {Recording(r)}, whole |-> TRUE]

(* What a run that is alone with its meeting's files finds in them.        *)
Finds(r) ==
  LET m == MeetingOf(r)
  IN /\ stage[r] = "download" =>
          /\ src[m] # None /\ open[r].src = src[m] /\ index[r] <= Chunks
          /\ media[src[m]] = [i \in 1..index[r] |-> Recording(r)]
     /\ stage[r] = "extract" => src[m] # None /\ Intact(media[src[m]], Recording(r))
     /\ stage[r] = "ffmpeg" =>
          /\ Intact(media[open[r].src], Recording(r))
          /\ audio[m] # None /\ open[r].audio = audio[m] /\ sound[audio[m]] = Silence
     /\ stage[r] = "read" => audio[m] # None /\ sound[audio[m]] = Own(r)
     /\ stage[r] \in Heard => heard[r] = Own(r)

FindsInv == \A r \in Runs \ shared : Finds(r)

OwnInv == NamesInv /\ AloneInv /\ FindsInv

LEMMA NamesStep ==
  ASSUME BaseInv, BaseInv', NamesInv,
         \A r \in Runs : IF Begun(r) THEN stage'[r] # "idle" /\ job'[r] = job[r]
                                     ELSE open'[r] = open[r],
         \A m \in Meetings : /\ src'[m] \in {None, src[m]} \/ Belongs(src'[m], m)
                             /\ audio'[m] \in {None, audio[m]} \/ Belongs(audio'[m], m),
         \A r \in Runs :
           /\ open'[r].src \in {None, open[r].src} \/ Belongs(open'[r].src, MeetingOf(r))
           /\ open'[r].audio \in {None, open[r].audio} \/ Belongs(open'[r].audio, MeetingOf(r))
  PROVE  NamesInv'
<1>1. ASSUME NEW f, NEW m, Belongs(f, m)
      PROVE  f \in Runs /\ stage'[f] # "idle" /\ job'[f].meeting = m
  BY <1>1 DEF Belongs, Begun, MeetingOf
<1>2. ASSUME NEW m \in Meetings
      PROVE  /\ src'[m] # None => Belongs(src'[m], m)
             /\ audio'[m] # None => Belongs(audio'[m], m)
  BY DEF NamesInv
<1>3. ASSUME NEW r \in Runs
      PROVE  /\ open'[r].src # None => Belongs(open'[r].src, MeetingOf(r))
             /\ open'[r].audio # None => Belongs(open'[r].audio, MeetingOf(r))
  BY DEF NamesInv
<1>4. ASSUME NEW r \in Runs, open'[r].src # None \/ open'[r].audio # None
      PROVE  job'[r] = job[r]
  <2>1. CASE Begun(r)
    BY <2>1
  <2>2. CASE ~ Begun(r)
    <3>1. open'[r] = Closed
      BY <2>2 DEF BaseInv, JobsInv, JobOf, Begun
    <3>2. QED
      BY <1>4, <3>1 DEF Closed
  <2>3. QED
    BY <2>1, <2>2
<1>5. QED
  BY <1>1, <1>2, <1>3, <1>4 DEF NamesInv, Belongs, Begun, MeetingOf

(* A step of run q writes to files of its own meeting only.                *)
OnlyFilesOf(q) ==
  /\ \A m \in Meetings : m # MeetingOf(q) => src'[m] = src[m] /\ audio'[m] = audio[m]
  /\ \A f \in Runs : Begun(f) /\ MeetingOf(f) # MeetingOf(q)
                       => media'[f] = media[f] /\ sound'[f] = sound[f]

LEMMA OthersFind ==
  ASSUME BaseInv, OwnInv, NEW q \in Runs, OnlyFilesOf(q), shared \subseteq shared',
         Using(q) \/ Others(q) \subseteq shared',
         NEW r \in Runs \ {q}, r \notin shared',
         UNCHANGED <<stage[r], job[r], open[r], index[r], heard[r]>>
  PROVE  Finds(r)'
<1>1. Finds(r)
  BY DEF OwnInv, FindsInv
<1>2. Recording(r)' = Recording(r) /\ MeetingOf(r)' = MeetingOf(r) /\ Own(r)' = Own(r)
  BY DEF Recording, MeetingOf, Own
<1>3. CASE stage[r] \notin {"download", "extract", "ffmpeg", "read"}
  BY <1>1, <1>2, <1>3 DEF Finds
<1>4. CASE stage[r] \in {"download", "extract", "ffmpeg", "read"}
  <2>1. Using(r) /\ MeetingOf(r) \in Meetings
    BY <1>4 DEF Using, WithFiles, BaseInv, JobsInv, JobOf, Jobs, MeetingOf
  <2>2. MeetingOf(r) # MeetingOf(q)
    BY <2>1 DEF OwnInv, AloneInv, Using, Others
  <2>3. src'[MeetingOf(r)] = src[MeetingOf(r)] /\ audio'[MeetingOf(r)] = audio[MeetingOf(r)]
    BY <2>1, <2>2 DEF OnlyFilesOf
  <2>4. \A f : Belongs(f, MeetingOf(r)) => media'[f] = media[f] /\ sound'[f] = sound[f]
    BY <2>2 DEF OnlyFilesOf, Belongs
  <2>5. /\ src[MeetingOf(r)] # None => Belongs(src[MeetingOf(r)], MeetingOf(r))
        /\ audio[MeetingOf(r)] # None => Belongs(audio[MeetingOf(r)], MeetingOf(r))
        /\ open[r].src # None => Belongs(open[r].src, MeetingOf(r))
    BY <2>1 DEF OwnInv, NamesInv
  <2>6. stage[r] = "ffmpeg" => open[r].src # None
    BY NoneAssumption DEF BaseInv, JobsInv, JobOf
  <2>7. QED
    BY <1>1, <1>2, <1>4, <2>3, <2>4, <2>5, <2>6 DEF Finds, Heard, Intact
<1>5. QED
  BY <1>3, <1>4

(* A step that leaves the files alone.                                     *)
LEMMA FilesAlone ==
  ASSUME UNCHANGED <<src, audio, media, sound>>, NEW r \in Runs, Finds(r),
         UNCHANGED <<stage[r], job[r], open[r], index[r], heard[r]>>
  PROVE  Finds(r)'
<1>1. Recording(r)' = Recording(r) /\ MeetingOf(r)' = MeetingOf(r) /\ Own(r)' = Own(r)
  BY DEF Recording, MeetingOf, Own
<1>2. QED
  BY <1>1 DEF Finds, Intact

(* No run comes to use files.                                              *)
LEMMA AloneKept ==
  ASSUME AloneInv, shared \subseteq shared',
         \A r \in Runs : Using(r)' => Using(r) /\ job'[r] = job[r]
  PROVE  AloneInv'
BY DEF AloneInv, MeetingOf

Finding == {"download", "extract", "ffmpeg", "read"} \cup Heard

LEMMA FindsNothing ==
  ASSUME NEW r \in Runs, stage'[r] \notin Finding
  PROVE  Finds(r)'
BY DEF Finds, Finding

(* A step that leaves files and their names alone.                         *)
LEMMA OwnQuiet ==
  ASSUME BaseInv, BaseInv', OwnInv, UNCHANGED <<src, audio, media, sound, shared>>,
         \A r \in Runs : Begun(r) => stage'[r] # "idle" /\ job'[r] = job[r],
         \A r \in Runs : Using(r)' => Using(r),
         \A r \in Runs : open'[r] \in {open[r], Closed},
         \A r \in Runs \ shared :
           \/ UNCHANGED <<stage[r], job[r], open[r], index[r], heard[r]>>
           \/ stage'[r] \notin Finding
           \/ Finds(r)'
  PROVE  OwnInv'
<1>1. \A r \in Runs : Begun(r) \/ open'[r] = open[r]
  BY DEF BaseInv, JobsInv, JobOf, Begun
<1>2. \A r \in Runs : /\ open'[r].src \in {None, open[r].src}
                       /\ open'[r].audio \in {None, open[r].audio}
  BY DEF Closed
<1>3. NamesInv'
  BY <1>1, <1>2, NamesStep DEF OwnInv
<1>4. \A r \in Runs : Using(r) => Begun(r)
  BY DEF Using, WithFiles, Begun, BaseInv, JobsInv, JobOf
<1>5. AloneInv'
  BY <1>4, AloneKept DEF OwnInv
<1>6. FindsInv'
  BY FindsNothing, FilesAlone DEF FindsInv, OwnInv
<1>7. QED
  BY <1>3, <1>5, <1>6 DEF OwnInv

(* A step of a run that uses its meeting's files.                          *)
LEMMA OwnStep ==
  ASSUME BaseInv, BaseInv', OwnInv, NEW q \in Runs, Using(q),
         UNCHANGED <<job, shared>>, orphans' \subseteq orphans, stage'[q] # "idle",
         \A r \in Runs \ {q} : UNCHANGED <<stage[r], open[r], index[r], heard[r]>>,
         OnlyFilesOf(q),
         src'[MeetingOf(q)] \in {None, src[MeetingOf(q)]} \/ Belongs(src'[MeetingOf(q)], MeetingOf(q)),
         audio'[MeetingOf(q)] \in {None, audio[MeetingOf(q)]}
           \/ Belongs(audio'[MeetingOf(q)], MeetingOf(q)),
         open'[q].src \in {None, open[q].src} \/ Belongs(open'[q].src, MeetingOf(q)),
         open'[q].audio \in {None, open[q].audio} \/ Belongs(open'[q].audio, MeetingOf(q)),
         q \in shared \/ Finds(q)'
  PROVE  OwnInv'
<1>1. \A r \in Runs : Using(r) => Begun(r)
  BY DEF Using, WithFiles, Begun, BaseInv, JobsInv, JobOf
<1>2. \A r \in Runs : IF Begun(r) THEN stage'[r] # "idle" /\ job'[r] = job[r] ELSE open'[r] = open[r]
  BY <1>1 DEF Begun
<1>3. \A m \in Meetings : src'[m] \in {None, src[m]} \/ Belongs(src'[m], m)
  BY DEF OnlyFilesOf
<1>4. \A m \in Meetings : audio'[m] \in {None, audio[m]} \/ Belongs(audio'[m], m)
  BY DEF OnlyFilesOf
<1>5. NamesInv'
  BY <1>2, <1>3, <1>4, NamesStep DEF OwnInv
<1>6. \A r \in Runs : Using(r)' => Using(r) /\ job'[r] = job[r]
  BY DEF Using
<1>7. AloneInv'
  BY <1>6, AloneKept DEF OwnInv
<1>8. \A r \in Runs \ {q} : r \notin shared => Finds(r)'
  BY OthersFind
<1>9. FindsInv'
  BY <1>8 DEF FindsInv
<1>10. QED
  BY <1>5, <1>7, <1>9 DEF OwnInv

LEMMA OwnFetch ==
  ASSUME BaseInv, BaseInv', OwnInv, NEW q \in Runs, Fetch(q)
  PROVE  OwnInv'
<1> DEFINE m == MeetingOf(q)
           f == IF src[m] = None THEN q ELSE src[m]
<1>1. /\ stage[q] = "fetch" /\ stage' = [stage EXCEPT ![q] = "download"]
      /\ UNCHANGED <<job, audio, sound, orphans, heard, index>>
      /\ src' = [src EXCEPT ![m] = f] /\ media' = [media EXCEPT ![f] = <<>>]
      /\ open' = [open EXCEPT ![q].src = f]
      /\ shared' = shared \cup (IF Others(q) = {} THEN {} ELSE Others(q) \cup {q})
  BY DEF Fetch, CreateFile, Goto, text
<1>2. m \in Meetings /\ q \notin orphans /\ index[q] = 0 /\ open[q] = Closed
  BY <1>1 DEF BaseInv, JobsInv, JobOf, Jobs, MeetingOf
<1>3. Belongs(f, m)
  BY <1>1, <1>2 DEF OwnInv, NamesInv, Belongs, Begun
<1> HIDE DEF f
<1>4. TypeOK
  BY DEF BaseInv
<1>5. /\ src'[m] = f /\ media'[f] = <<>> /\ open'[q] = [src |-> f, audio |-> None]
      /\ \A x \in Meetings : x # m => src'[x] = src[x]
      /\ \A r \in Runs : r # f => media'[r] = media[r]
      /\ \A r \in Runs \ {q} : stage'[r] = stage[r] /\ open'[r] = open[r]
      /\ stage'[q] = "download"
  BY <1>1, <1>2, <1>3, <1>4 DEF TypeOK, Belongs, Closed
<1>6. NamesInv'
  <2>1. \A r \in Runs : IF Begun(r) THEN stage'[r] # "idle" /\ job'[r] = job[r] ELSE open'[r] = open[r]
    BY <1>1, <1>5 DEF Begun
  <2>2. \A r \in Runs :
          /\ open'[r].src \in {None, open[r].src} \/ Belongs(open'[r].src, MeetingOf(r))
          /\ open'[r].audio \in {None, open[r].audio} \/ Belongs(open'[r].audio, MeetingOf(r))
    BY <1>3, <1>5
  <2>3. \A x \in Meetings : src'[x] \in {None, src[x]} \/ Belongs(src'[x], x)
    BY <1>3, <1>5
  <2>4. QED
    BY <1>1, <2>1, <2>2, <2>3, NamesStep DEF OwnInv
<1>7. AloneInv'
  <2> SUFFICES ASSUME NEW r \in Runs, NEW t \in Runs, r # t, Using(r)', Using(t)',
                      MeetingOf(r) = MeetingOf(t)
               PROVE  r \in shared'
    BY <1>1 DEF AloneInv, MeetingOf
  <2>1. \A x \in Runs \ {q} : Using(x)' => Using(x)
    BY <1>1, <1>5 DEF Using
  <2>2. CASE r # q /\ t # q
    BY <1>1, <2>1, <2>2 DEF OwnInv, AloneInv
  <2>3. CASE r = q
    <3>1. t \in Others(q)
      BY <2>1, <2>3 DEF Using, Others
    <3>2. QED
      BY <1>1, <2>3, <3>1
  <2>4. CASE t = q
    <3>1. r \in Others(q)
      BY <2>1, <2>4 DEF Using, Others
    <3>2. QED
      BY <1>1, <3>1
  <2>5. QED
    BY <2>2, <2>3, <2>4
<1>8. FindsInv'
  <2>1. Others(q) \subseteq shared' /\ shared \subseteq shared'
    BY <1>1
  <2>2. OnlyFilesOf(q)
    BY <1>1, <1>3, <1>5 DEF OnlyFilesOf, Belongs
  <2>3. \A r \in Runs \ {q} : r \notin shared' => Finds(r)'
    BY <1>1, <1>5, <2>1, <2>2, OthersFind
  <2>4. Finds(q)'
    <3>1. MeetingOf(q)' = m /\ index'[q] = 0
      BY <1>1, <1>2 DEF MeetingOf
    <3>2. [i \in 1..0 |-> Recording(q)'] = <<>>
      OBVIOUS
    <3>3. f # None
      BY <1>3, NoneAssumption DEF Belongs
    <3>4. QED
      BY <1>5, <3>1, <3>2, <3>3, SizeAssumption DEF Finds, Heard
  <2>5. QED
    BY <2>3, <2>4 DEF FindsInv
<1>9. QED
  BY <1>6, <1>7, <1>8 DEF OwnInv

(* A chunk that lands at the end of what is there.                         *)
LEMMA Appended ==
  ASSUME NEW k \in Nat, NEW c \in Recordings, NEW s, s = [i \in 1..k |-> c]
  PROVE  WriteAt(s, k, c) = [i \in 1..k + 1 |-> c]
<1> DEFINE w == WriteAt(s, k, c)
           v == [i \in 1..k + 1 |-> c]
<1>1. s \in [1..k -> Recordings \cup {None}] /\ \A i \in 1..k : s[i] = c
  OBVIOUS
<1>2. s \in Seq(Recordings \cup {None}) /\ Len(s) = k
  BY <1>1, SeqOf
<1>3. /\ w \in Seq(Recordings \cup {None}) /\ Len(w) = k + 1
      /\ \A i \in 1..k + 1 : w[i] = IF i = k + 1 THEN c ELSE s[i]
  BY <1>2, WriteAtSeq
<1>4. \A i \in 1..k + 1 : i = k + 1 \/ i \in 1..k
  OBVIOUS
<1>5. v \in [1..k + 1 -> Recordings \cup {None}] /\ \A i \in 1..k + 1 : v[i] = c
  OBVIOUS
<1> HIDE DEF v, w
<1>6. v \in Seq(Recordings \cup {None}) /\ Len(v) = k + 1
  BY <1>5, SeqOf
<1>7. w = v
  BY <1>1, <1>3, <1>4, <1>5, <1>6, SeqEqual
<1>8. QED
  BY <1>7 DEF v, w

LEMMA OwnDownload ==
  ASSUME BaseInv, BaseInv', OwnInv, NEW q \in Runs, Download(q)
  PROVE  OwnInv'
<1> DEFINE m == MeetingOf(q)
           f == open[q].src
           k == index[q]
           c == Recording(q)
<1>1. /\ stage[q] = "download" /\ k < Chunks
      /\ media' = [media EXCEPT ![f] = WriteAt(@, k, c)] /\ index' = [index EXCEPT ![q] = @ + 1]
      /\ UNCHANGED <<job, src, audio, sound, orphans, heard, shared>>
      /\ \/ index'[q] = Chunks /\ stage' = [stage EXCEPT ![q] = "extract"]
            /\ open' = [open EXCEPT ![q] = Closed]
         \/ index'[q] # Chunks /\ stage' = stage /\ open' = open
  BY DEF Download, Goto, Close
<1>2. /\ m \in Meetings /\ c \in Recordings /\ f \in Runs /\ k \in Nat /\ Chunks \in Nat
  BY <1>1, SizeAssumption DEF BaseInv, TypeOK, JobsInv, JobOf, Jobs, MeetingOf, Recording
<1>3. Belongs(f, m) /\ media[f] \in Seq(Recordings \cup {None})
  BY <1>2, NoneAssumption DEF OwnInv, NamesInv, BaseInv, TypeOK
<1>4. /\ media'[f] = WriteAt(media[f], k, c) /\ index'[q] = k + 1
      /\ \A r \in Runs : r # f => media'[r] = media[r]
      /\ \A r \in Runs \ {q} : stage'[r] = stage[r] /\ open'[r] = open[r] /\ index'[r] = index[r]
      /\ \/ k + 1 = Chunks /\ stage'[q] = "extract" /\ open'[q] = Closed
         \/ k + 1 # Chunks /\ stage'[q] = "download" /\ open'[q] = open[q]
  BY <1>1, <1>2 DEF BaseInv, TypeOK
<1>5. OnlyFilesOf(q)
  BY <1>1, <1>3, <1>4 DEF OnlyFilesOf, Belongs
<1>6. q \in shared \/ Finds(q)'
  <2> SUFFICES ASSUME q \notin shared PROVE Finds(q)'
    OBVIOUS
  <2>1. src[m] # None /\ f = src[m] /\ media[f] = [i \in 1..k |-> c]
    BY <1>1 DEF OwnInv, FindsInv, Finds
  <2>2. WriteAt(media[f], k, c) = [i \in 1..k + 1 |-> c]
    BY <1>2, <2>1, Appended
  <2>3. MeetingOf(q)' = m /\ Recording(q)' = c /\ src'[m] = f
    BY <1>1, <2>1 DEF MeetingOf, Recording
  <2>4. CASE stage'[q] = "download"
    <3>1. media'[f] = [i \in 1..index'[q] |-> c] /\ index'[q] <= Chunks
      BY <1>1, <1>2, <1>4, <2>2
    <3>2. open'[q].src = f /\ f # None
      BY <1>4, <2>1, <2>4
    <3>3. QED
      BY <2>3, <2>4, <3>1, <3>2 DEF Finds, Heard
  <2>5. CASE stage'[q] = "extract"
    <3>1. media'[f] = [i \in 1..Chunks |-> c]
      BY <1>4, <2>2, <2>5
    <3>2. QED
      BY <2>1, <2>3, <2>5, <3>1 DEF Finds, Heard, Intact
  <2>6. QED
    BY <1>4, <2>4, <2>5
<1>7. QED
  <2>1. Using(q) /\ stage'[q] # "idle" /\ open'[q] \in {open[q], Closed}
    BY <1>1, <1>4 DEF Using, WithFiles
  <2>2. QED
    BY <1>1, <1>4, <1>5, <1>6, <2>1, OwnStep DEF Closed

LEMMA OwnExtract ==
  ASSUME BaseInv, BaseInv', OwnInv, NEW q \in Runs, Extract(q)
  PROVE  OwnInv'
<1> DEFINE m == MeetingOf(q)
           f == IF audio[m] = None THEN q ELSE audio[m]
<1>1. /\ stage[q] = "extract" /\ src[m] # None /\ stage' = [stage EXCEPT ![q] = "ffmpeg"]
      /\ audio' = [audio EXCEPT ![m] = f] /\ sound' = [sound EXCEPT ![f] = Silence]
      /\ open' = [open EXCEPT ![q] = [src |-> src[m], audio |-> f]]
      /\ UNCHANGED <<job, src, media, orphans, heard, index, shared>>
  BY DEF Extract, Goto, text
<1>2. m \in Meetings
  BY <1>1 DEF BaseInv, JobsInv, JobOf, Jobs, MeetingOf
<1>3. Belongs(f, m) /\ Belongs(src[m], m)
  BY <1>1, <1>2 DEF OwnInv, NamesInv, Belongs, Begun
<1> HIDE DEF f
<1>4. /\ audio'[m] = f /\ sound'[f] = Silence /\ open'[q] = [src |-> src[m], audio |-> f]
      /\ \A x \in Meetings : x # m => audio'[x] = audio[x]
      /\ \A r \in Runs : r # f => sound'[r] = sound[r]
      /\ \A r \in Runs \ {q} : stage'[r] = stage[r] /\ open'[r] = open[r]
      /\ stage'[q] = "ffmpeg"
  BY <1>1, <1>2, <1>3 DEF BaseInv, TypeOK, Belongs
<1>5. OnlyFilesOf(q)
  BY <1>1, <1>3, <1>4 DEF OnlyFilesOf, Belongs
<1>6. q \in shared \/ Finds(q)'
  <2> SUFFICES ASSUME q \notin shared PROVE Finds(q)'
    OBVIOUS
  <2>1. Intact(media[src[m]], Recording(q))
    BY <1>1 DEF OwnInv, FindsInv, Finds
  <2>2. MeetingOf(q)' = m /\ Recording(q)' = Recording(q) /\ media' = media /\ f # None
    BY <1>1, <1>3, NoneAssumption DEF MeetingOf, Recording, Belongs
  <2>3. QED
    BY <1>4, <2>1, <2>2 DEF Finds, Heard, Intact
<1>7. QED
  <2>1. Using(q) /\ stage'[q] # "idle"
    BY <1>1, <1>4 DEF Using, WithFiles
  <2>2. QED
    BY <1>1, <1>3, <1>4, <1>5, <1>6, <2>1, OwnStep

(* ffmpeg writes the file it has open, and only that.                      *)
LEMMA Encoded ==
  ASSUME BaseInv, OwnInv, NEW q \in Runs, stage[q] = "ffmpeg" \/ q \in orphans,
         Encode(q), UNCHANGED <<src, audio, media, job>>
  PROVE  /\ OnlyFilesOf(q)
         /\ stage[q] = "ffmpeg" /\ q \notin shared => sound'[audio[MeetingOf(q)]] = Own(q)
<1> DEFINE a == open[q].audio
           in == media[open[q].src]
           recs == {in[i] : i \in DOMAIN in} \ {None}
           new == [of |-> sound[a].of \cup recs, whole |-> \E rec \in recs : Intact(in, rec)]
<1>1. a \in Runs /\ Begun(q)
  BY DEF BaseInv, JobsInv, JobOf, Begun
<1>2. Belongs(a, MeetingOf(q))
  BY <1>1, NoneAssumption DEF OwnInv, NamesInv
<1>3. sound' = [sound EXCEPT ![a] = new]
  BY DEF Encode
<1> HIDE DEF new
<1>4. sound'[a] = new /\ \A r \in Runs : r # a => sound'[r] = sound[r]
  BY <1>1, <1>3 DEF BaseInv, TypeOK
<1>5. OnlyFilesOf(q)
  BY <1>2, <1>4 DEF OnlyFilesOf, Belongs
<1>6. ASSUME stage[q] = "ffmpeg", q \notin shared
      PROVE  a = audio[MeetingOf(q)] /\ new = Own(q)
  <2> DEFINE c == Recording(q)
  <2>1. in = [i \in 1..Chunks |-> c] /\ a = audio[MeetingOf(q)] /\ sound[a] = Silence
    BY <1>6 DEF OwnInv, FindsInv, Finds, Intact
  <2>2. c \in Recordings /\ c # None /\ Chunks \in Nat /\ 1 \in 1..Chunks
    BY <1>6, NoneAssumption, SizeAssumption DEF BaseInv, JobsInv, JobOf, Jobs, Recording
  <2>3. recs = {c}
    <3> HIDE DEF c
    <3>1. DOMAIN in = 1..Chunks /\ \A i \in 1..Chunks : in[i] = c
      BY <2>1
    <3>2. QED
      BY <2>2, <3>1
  <2>4. \E rec \in recs : Intact(in, rec)
    BY <2>1, <2>3 DEF Intact
  <2>5. new = [of |-> {} \cup {c}, whole |-> TRUE]
    <3>1. sound[a].of = {}
      BY <2>1 DEF Silence
    <3>2. new = [of |-> sound[a].of \cup recs, whole |-> \E rec \in recs : Intact(in, rec)]
      BY DEF new
    <3> HIDE DEF in, recs, c
    <3>3. (\E rec \in recs : Intact(in, rec)) = TRUE
      BY <2>4
    <3>4. QED
      BY <2>3, <3>1, <3>2, <3>3
  <2>6. QED
    BY <2>1, <2>5 DEF Own
<1>7. QED
  BY <1>4, <1>5, <1>6

LEMMA OwnNext ==
  ASSUME BaseInv, BaseInv', OwnInv, [Next]_vars
  PROVE  OwnInv'
<1> USE DEF text, files, contents, Goto
<1>a. TypeOK /\ JobsInv
  BY DEF BaseInv
<1>b. \A r \in Runs : Finds(r) \/ r \in shared
  BY DEF OwnInv, FindsInv
<1>1. CASE UNCHANGED vars
  BY <1>1, OwnQuiet DEF vars, Using, Begun
<1>2. ASSUME NEW q \in Runs, RecordingReady(q) \/ ProcessMeeting(q) PROVE OwnInv'
  <2>1. /\ stage[q] = "idle" /\ stage'[q] \in {"waiting", "fetch"}
        /\ \A r \in Runs \ {q} : stage'[r] = stage[r] /\ job'[r] = job[r]
        /\ UNCHANGED <<files, text, shared>>
    BY <1>2, <1>a DEF RecordingReady, ProcessMeeting, TypeOK, Queued
  <2>2. QED
    BY <2>1, OwnQuiet DEF Using, Begun, WithFiles, Finding, Heard
<1>3. ASSUME NEW q \in Runs, Acquire(q) PROVE OwnInv'
  <2>1. /\ stage[q] = "waiting" /\ stage'[q] = "fetch"
        /\ \A r \in Runs \ {q} : stage'[r] = stage[r]
        /\ UNCHANGED <<job, files, text, shared>>
    BY <1>3, <1>a DEF Acquire, TypeOK, Queued
  <2>2. QED
    BY <2>1, OwnQuiet DEF Using, Begun, WithFiles, Finding, Heard
<1>4. ASSUME NEW q \in Runs, CallFails(q) \/ NoFolder(q) \/ NoInput(q) PROVE OwnInv'
  <2>1. /\ stage'[q] = "failed"
        /\ \A r \in Runs \ {q} : stage'[r] = stage[r] /\ open'[r] = open[r]
        /\ open'[q] = Closed
        /\ UNCHANGED <<job, contents, text, shared>>
    BY <1>4, <1>a DEF CallFails, Fault, NoFolder, NoInput, GiveUp, Close, TypeOK
  <2>2. QED
    BY <2>1, OwnQuiet DEF Using, Begun, WithFiles, Finding, Heard
<1>5. ASSUME NEW q \in Runs, Read(q) PROVE OwnInv'
  <2>1. /\ stage[q] = "read" /\ stage'[q] = "decode"
        /\ \A r \in Runs \ {q} : stage'[r] = stage[r] /\ heard'[r] = heard[r]
        /\ heard'[q] = sound[audio[MeetingOf(q)]]
        /\ UNCHANGED <<job, files, index, shared>>
    BY <1>5, <1>a DEF Read, TypeOK
  <2>2. q \in shared \/ Finds(q)'
    <3>1. q \in shared \/ heard'[q] = Own(q)
      BY <1>b, <2>1 DEF Finds
    <3>2. Own(q)' = Own(q)
      BY <2>1 DEF Own, Recording
    <3>3. QED
      BY <2>1, <3>1, <3>2 DEF Finds
  <2>3. QED
    BY <2>1, <2>2, OwnQuiet DEF Using, Begun, WithFiles
<1>6. ASSUME NEW q \in Runs, CreateDoc(q) \/ WriteBatch(q) \/ Notify(q) PROVE OwnInv'
  <2>1. /\ stage[q] \in {"decode", "body", "notify"} /\ stage'[q] \in {"body", "notify", "unlinkSrc"}
        /\ \A r \in Runs \ {q} : stage'[r] = stage[r] /\ index'[r] = index[r]
        /\ UNCHANGED <<job, files, heard, shared>>
    BY <1>6, <1>a DEF CreateDoc, WriteBatch, Notify, TypeOK
  <2>2. q \in shared \/ Finds(q)'
    <3>1. Own(q)' = Own(q)
      BY <2>1 DEF Own, Recording
    <3>2. q \in shared \/ heard[q] = Own(q)
      BY <1>b, <2>1 DEF Finds, Heard
    <3>3. QED
      BY <2>1, <3>1, <3>2 DEF Finds, Heard
  <2>3. QED
    BY <2>1, <2>2, OwnQuiet DEF Using, Begun, WithFiles
<1>7. ASSUME NEW q \in Runs, ExtractEnds(q) PROVE OwnInv'
  <2>1. /\ stage[q] = "ffmpeg" /\ stage'[q] \in {"read", "failed"}
        /\ \A r \in Runs \ {q} : stage'[r] = stage[r] /\ open'[r] = open[r]
        /\ open'[q] = Closed
        /\ UNCHANGED <<job, src, audio, media, orphans, text, shared>>
    BY <1>7, <1>a DEF ExtractEnds, Close, TypeOK
  <2>2. CASE UNCHANGED sound /\ stage'[q] = "failed"
    BY <2>1, <2>2, OwnQuiet DEF Using, Begun, WithFiles, Finding, Heard
  <2>3. CASE Encode(q) /\ stage'[q] = "read"
    <3>1. OnlyFilesOf(q) /\ (q \in shared \/ sound'[audio[MeetingOf(q)]] = Own(q))
      BY <2>1, <2>3, Encoded
    <3>2. q \in shared \/ Finds(q)'
      <4>1. Own(q)' = Own(q) /\ MeetingOf(q)' = MeetingOf(q)
        BY <2>1 DEF Own, Recording, MeetingOf
      <4>2. q \in shared \/ audio[MeetingOf(q)] # None
        BY <1>b, <2>1 DEF Finds
      <4>3. QED
        BY <2>1, <2>3, <3>1, <4>1, <4>2 DEF Finds, Heard
    <3>3. QED
      BY <2>1, <3>1, <3>2, OwnStep DEF Using, WithFiles, Closed
  <2>4. QED
    BY <1>7, <1>a, <2>2, <2>3 DEF ExtractEnds, TypeOK
<1>8. ASSUME NEW q \in Runs, OrphanEnds(q) PROVE OwnInv'
  <2>1. /\ q \in orphans /\ Encode(q) /\ orphans' = orphans \ {q}
        /\ \A r \in Runs \ {q} : open'[r] = open[r]
        /\ open'[q] = Closed
        /\ UNCHANGED <<stage, job, src, audio, media, text, shared>>
    BY <1>8, <1>a DEF OrphanEnds, Close, TypeOK
  <2>2. stage[q] \in {"aborted", "lost"}
    BY <1>a, <2>1 DEF JobsInv, JobOf
  <2>3. Finds(q)'
    BY <2>1, <2>2, FindsNothing DEF Finding, Heard
  <2>4. OnlyFilesOf(q)
    BY <2>1, Encoded
  <2>5. QED
    BY <2>1, <2>2, <2>3, <2>4, OwnStep DEF Using, Closed
<1>9. ASSUME NEW q \in Runs, UnlinkSrc(q) PROVE OwnInv'
  <2> DEFINE m == MeetingOf(q)
  <2>1. /\ stage[q] = "unlinkSrc" /\ stage'[q] = "unlinkAudio"
        /\ \A r \in Runs \ {q} : stage'[r] = stage[r]
        /\ \A f \in Runs : media'[f] = media[f] \/ f = src[m]
        /\ \A x \in Meetings : x # m => src'[x] = src[x]
        /\ UNCHANGED <<job, audio, open, sound, orphans, text, shared>>
    BY <1>9, <1>a DEF UnlinkSrc, TypeOK
  <2>2. m \in Meetings
    BY <1>a, <2>1 DEF JobsInv, JobOf, Jobs, MeetingOf
  <2>3. src'[m] = None
    BY <1>9, <1>a, <2>2 DEF UnlinkSrc, TypeOK
  <2>4. OnlyFilesOf(q)
    BY <2>1, <2>2, NoneAssumption DEF OnlyFilesOf, OwnInv, NamesInv, Belongs
  <2>5. q \in shared \/ Finds(q)'
    <3>1. Own(q)' = Own(q)
      BY <2>1 DEF Own, Recording
    <3>2. QED
      BY <1>b, <2>1, <3>1 DEF Finds, Heard
  <2>6. QED
    BY <2>1, <2>3, <2>4, <2>5, OwnStep DEF Using, WithFiles
<1>10. ASSUME NEW q \in Runs, UnlinkAudio(q) PROVE OwnInv'
  <2> DEFINE m == MeetingOf(q)
  <2>1. /\ stage[q] = "unlinkAudio" /\ stage'[q] = "done"
        /\ \A r \in Runs \ {q} : stage'[r] = stage[r]
        /\ \A f \in Runs : sound'[f] = sound[f] \/ f = audio[m]
        /\ \A x \in Meetings : x # m => audio'[x] = audio[x]
        /\ UNCHANGED <<job, src, open, media, orphans, text, shared>>
    BY <1>10, <1>a DEF UnlinkAudio, TypeOK
  <2>2. m \in Meetings
    BY <1>a, <2>1 DEF JobsInv, JobOf, Jobs, MeetingOf
  <2>3. audio'[m] = None
    BY <1>10, <1>a, <2>2 DEF UnlinkAudio, TypeOK
  <2>4. OnlyFilesOf(q)
    BY <2>1, <2>2, NoneAssumption DEF OnlyFilesOf, OwnInv, NamesInv, Belongs
  <2>5. q \in shared \/ Finds(q)'
    <3>1. Own(q)' = Own(q)
      BY <2>1 DEF Own, Recording
    <3>2. QED
      BY <1>b, <2>1, <3>1 DEF Finds, Heard
  <2>6. QED
    BY <2>1, <2>3, <2>4, <2>5, OwnStep DEF Using, WithFiles
<1>11. CASE Restart
  <2>1. /\ UNCHANGED <<src, audio, media, sound, job, index, heard, shared>>
        /\ \A r \in Runs : \/ stage'[r] = "aborted" /\ AtWork(r)
                           \/ stage'[r] = stage[r] /\ open'[r] = open[r]
        /\ \A r \in Runs : open'[r] \in {open[r], Closed}
        /\ \A r \in orphans' : r \in orphans \/ stage[r] = "ffmpeg"
    BY <1>11 DEF Restart, ActionRuns, WithChild
  <2>2. \A r \in Runs : Using(r)' => Using(r)
    BY <2>1 DEF Using, WithFiles
  <2>3. QED
    BY <2>1, <2>2, OwnQuiet DEF Begun, Finding, Heard
<1>12. CASE Crash
  <2>1. /\ UNCHANGED <<src, audio, media, sound, job, index, heard, shared>>
        /\ \A r \in Runs : \/ stage'[r] = "lost"
                           \/ stage'[r] = stage[r] /\ open'[r] = open[r]
        /\ \A r \in Runs : open'[r] \in {open[r], Closed}
        /\ \A r \in orphans' : r \in orphans \/ stage[r] = "ffmpeg"
    BY <1>12 DEF Crash, WithChild
  <2>2. \A r \in Runs : Using(r)' => Using(r)
    BY <2>1 DEF Using, WithFiles
  <2>3. QED
    BY <2>1, <2>2, OwnQuiet DEF Begun, Finding, Heard
<1>13. ASSUME NEW q \in Runs, Remains(q) PROVE OwnInv'
  <2>1. /\ stage[q] \in CleanUp /\ stage'[q] \in {"unlinkAudio", "done"}
        /\ \A r \in Runs \ {q} : stage'[r] = stage[r]
        /\ UNCHANGED <<job, files, text, shared>>
    BY <1>13, <1>a DEF Remains, TypeOK
  <2>2. q \in shared \/ Finds(q)'
    <3>1. Own(q)' = Own(q)
      BY <2>1 DEF Own, Recording
    <3>2. QED
      BY <1>b, <2>1, <3>1 DEF Finds, Heard
  <2>3. QED
    BY <2>1, <2>2, OwnQuiet DEF Using, Begun, WithFiles
<1>14. QED
  BY <1>1, <1>2, <1>3, <1>4, <1>5, <1>6, <1>7, <1>8, <1>9, <1>10, <1>11, <1>12, <1>13, OwnFetch,
     OwnDownload, OwnExtract
  DEF Next, Step

(* A run that never had its meeting's temp files in use together with      *)
(* another hears its whole recording and nothing else, whatever earlier    *)
(* runs, and their ffmpeg children, have left there (process_meeting).     *)
THEOREM OwnRecordingHolds == Spec => []OwnRecording
<1> DEFINE I == BaseInv /\ OwnInv
<1>1. Init => I
  <2>1. Init => OwnInv
    BY DEF Init, OwnInv, NamesInv, AloneInv, FindsInv, Finds, Using, WithFiles, Heard, Closed
  <2>2. QED
    BY <2>1, BaseInit
<1>2. I /\ [Next]_vars => I'
  BY BaseNext, OwnNext
<1>3. I => OwnRecording
  BY DEF OwnInv, FindsInv, Finds, OwnRecording, Own
<1>4. QED
  BY <1>1, <1>2, <1>3, PTL DEF Spec
=============================================================================
