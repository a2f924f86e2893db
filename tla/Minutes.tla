------------------------------ MODULE Minutes ------------------------------
(***************************************************************************)
(* Meeting digests (apps/automations/minutes/src): a recording is fetched  *)
(* to a temp file, its audio extracted to another, transcribed, written to *)
(* a Lark document in batches, and announced.                              *)
(*                                                                         *)
(* A run is one call of process_meeting.  An event spawns one as a task    *)
(* nobody joins, which takes a permit of its generation's semaphore; the   *)
(* action runs one inside the action task, without a permit, and dies with *)
(* that task.  Runs of one meeting share its two temp files by name.       *)
(***************************************************************************)
EXTENDS Integers, FiniteSets, Sequences, FiniteSetsExt

CONSTANTS
  Runs,        \* calls of process_meeting, each named once
  Meetings,
  Recordings,
  RecordingOf, \* the recording Lark has of a meeting
  Hints,       \* recordings whose URL a caller of the action may give instead
  Chunks,      \* chunks a recording arrives in
  Batch,       \* segments to a request (BATCH_SIZE)
  SegCounts,   \* numbers of segments a transcript may have
  Cap,         \* permits of a generation (DEFAULT_CONCURRENCY)
  Env,         \* config fields the environment supplies
  Sections,    \* [minutes] sections an edit may write
  None,        \* no file, no hint, no such config
  MaxGens,     \* bound: generations
  MaxFaults    \* bound: calls that fail, and process crashes

Fields == {"lark", "stt", "folder"}

(* What one layer of configuration says: the [lark-apps] entry the section *)
(* names, and the fields it sets inline.                                   *)
Section == [app : {"unnamed", "known", "missing"}, inline : SUBSET Fields]

ASSUME MeetingAssumption == RecordingOf \in [Meetings -> Recordings] /\ Hints \subseteq Recordings
ASSUME ConfigAssumption == Env \subseteq Fields /\ Sections \subseteq Section
ASSUME NoneAssumption == None \notin Runs \cup Recordings
ASSUME SizeAssumption ==
  /\ IsFiniteSet(Runs)
  /\ {Chunks, Batch, Cap} \subseteq Nat \ {0} /\ SegCounts \subseteq Nat
  /\ MaxGens \in Nat \ {0} /\ MaxFaults \in Nat

VARIABLES
  gen,       \* number of the current generation
  conf,      \* fields its config resolved to, or None when it was not built
  stage,     \* where each run stands
  job,       \* what each run was asked for
  permit,    \* runs holding a permit of their generation
  src,       \* the file <meeting>.src names, or None; a file has the name of
             \* the run that made it
  audio,     \* the file <meeting>.mp3 or .wav names
  open,      \* the files a run has open: what it downloads to, and ffmpeg's output
  media,     \* chunks in a .src file: each of a recording, or None for a hole
  sound,     \* recordings in an audio file, and whether all of one
  orphans,   \* runs whose ffmpeg child outlived them
  heard,     \* the audio a run handed to the backend
  segments,  \* segments of a run's transcript
  doc,       \* blocks of a run's document, each the segment it carries, 0 for the rest
  index,     \* next index the run inserts at
  shared,    \* history: runs that had a meeting's files in use with another
  kept,      \* history: the files of meetings that a run failed to remove
  faults

contents == <<src, audio, media, sound, orphans>>
files == <<contents, open>>
text == <<heard, segments, doc, index>>
marks == <<shared, kept>>
vars == <<gen, conf, stage, job, permit, files, text, marks, faults>>

Queued == "waiting"
CleanUp == {"unlinkSrc", "unlinkAudio"}
WithFiles == {"download", "extract", "ffmpeg", "read", "decode", "body", "notify"} \cup CleanUp
Active == {"fetch"} \cup WithFiles
Ended == {"done", "failed", "aborted", "lost"}
Stages == {"idle", Queued} \cup Active \cup Ended

Jobs == [meeting : Meetings, gen : 1..MaxGens, event : BOOLEAN,
         recording : Recordings, folder : BOOLEAN]

ASSUME JobAssumption == None \notin Jobs

Silence == [of |-> {}, whole |-> FALSE]
Sounds == [of : SUBSET Recordings, whole : BOOLEAN]

Closed == [src |-> None, audio |-> None]

TypeOK ==
  /\ gen \in 1..MaxGens /\ conf \in {None} \cup SUBSET Fields
  /\ stage \in [Runs -> Stages] /\ job \in [Runs -> Jobs \cup {None}]
  /\ permit \subseteq Runs /\ orphans \subseteq Runs /\ shared \subseteq Runs
  /\ src \in [Meetings -> Runs \cup {None}] /\ audio \in [Meetings -> Runs \cup {None}]
  /\ open \in [Runs -> [src : Runs \cup {None}, audio : Runs \cup {None}]]
  /\ media \in [Runs -> Seq(Recordings \cup {None})]
  /\ sound \in [Runs -> Sounds] /\ heard \in [Runs -> Sounds]
  /\ kept \subseteq Meetings \X CleanUp
  /\ segments \in [Runs -> Nat] /\ doc \in [Runs -> Seq(Nat)] /\ index \in [Runs -> Nat]
  /\ faults \in 0..MaxFaults

-----------------------------------------------------------------------------
(* Configuration: the environment, overlaid by the named [lark-apps] entry *)
(* and then by what the section sets; a name that is not there is an error *)
FromToml(s) ==
  IF s.app = "missing" THEN None
  ELSE Env \cup s.inline \cup (IF s.app = "known" THEN {"lark"} ELSE {})

(* build_pipeline: an empty folder token passes, and is refused per run.   *)
Builds(c) == c # None /\ {"lark", "stt"} \subseteq c

Built(s) == IF Builds(FromToml(s)) THEN FromToml(s) ELSE None

Init ==
  /\ gen = 1 /\ conf \in {Built(s) : s \in Sections}
  /\ stage = [r \in Runs |-> "idle"] /\ job = [r \in Runs |-> None]
  /\ permit = {} /\ orphans = {} /\ shared = {} /\ kept = {} /\ faults = 0
  /\ src = [m \in Meetings |-> None] /\ audio = [m \in Meetings |-> None]
  /\ open = [r \in Runs |-> Closed]
  /\ media = [r \in Runs |-> <<>>]
  /\ sound = [r \in Runs |-> Silence] /\ heard = [r \in Runs |-> Silence]
  /\ segments = [r \in Runs |-> 0] /\ doc = [r \in Runs |-> <<>>] /\ index = [r \in Runs |-> 0]

-----------------------------------------------------------------------------
(* A run starts: by an event of the live generation's WebSocket client, or *)
(* by the action, of which the action task handles one at a time.          *)

(* The URL an event carries is that of its meeting's recording; a caller's *)
(* may be any.                                                             *)
Job(m, event, rec) ==
  [meeting |-> m, gen |-> gen, event |-> event, recording |-> rec, folder |-> "folder" \in conf]

(* handle_event: the task is spawned and the event is answered.            *)
RecordingReady(r) ==
  /\ stage[r] = "idle" /\ conf # None
  /\ \E m \in Meetings : job' = [job EXCEPT ![r] = Job(m, TRUE, RecordingOf[m])]
  /\ stage' = [stage EXCEPT ![r] = Queued]
  /\ UNCHANGED <<gen, conf, permit, files, text, marks, faults>>

AtWork(r) == stage[r] \in Active
EventRun(r) == job[r] # None /\ job[r].event
ActionRuns(g) == {r \in Runs : AtWork(r) /\ ~ EventRun(r) /\ job[r].gen = g}

ProcessMeeting(r) ==
  /\ stage[r] = "idle" /\ conf # None
  /\ ActionRuns(gen) = {}
  /\ \E m \in Meetings : \E rec \in Hints \cup {RecordingOf[m]} :
       job' = [job EXCEPT ![r] = Job(m, FALSE, rec)]
  /\ stage' = [stage EXCEPT ![r] = "fetch"]
  /\ UNCHANGED <<gen, conf, permit, files, text, marks, faults>>

(* sem.acquire_owned: the permit is held until the task ends.              *)
Held(g) == {r \in permit : job[r].gen = g}

Acquire(r) ==
  /\ stage[r] = Queued
  /\ Cardinality(Held(job[r].gen)) < Cap
  /\ stage' = [stage EXCEPT ![r] = "fetch"]
  /\ permit' = permit \cup {r}
  /\ UNCHANGED <<gen, conf, job, files, text, marks, faults>>

Close(r) == open' = [open EXCEPT ![r] = Closed]

(* An error ends process_meeting where it stands: the task ends and its    *)
(* permit goes back; the temp files stay.  Mutant: the permit is forgotten.*)
GiveUpHoldingOn(r) ==
  /\ stage' = [stage EXCEPT ![r] = "failed"]
  /\ Close(r)
  /\ UNCHANGED <<gen, conf, job, permit, contents, text, marks>>

GiveUp(r) ==
  /\ stage' = [stage EXCEPT ![r] = "failed"]
  /\ permit' = permit \ {r}
  /\ Close(r)
  /\ UNCHANGED <<gen, conf, job, contents, text, marks>>

(* A call that fails of its own.  One that removes a file has its error    *)
(* dropped instead: see Remains.                                           *)
Fault(r) ==
  /\ faults < MaxFaults /\ faults' = faults + 1
  /\ GiveUp(r)

CallFails(r) == stage[r] \in Active \ CleanUp /\ Fault(r)

Goto(r, next) == stage' = [stage EXCEPT ![r] = next]

(* The folder token, which build_pipeline does not ask for.                *)
NoFolder(r) ==
  /\ stage[r] = "fetch" /\ ~ job[r].folder
  /\ GiveUp(r)
  /\ UNCHANGED faults

-----------------------------------------------------------------------------
(* The temp files.                                                         *)

MeetingOf(r) == job[r].meeting
Recording(r) == job[r].recording
Others(r) == {q \in Runs \ {r} : /\ stage[q] \in WithFiles \/ q \in orphans
                                 /\ MeetingOf(q) = MeetingOf(r)}

(* File::create: an existing file is truncated, whoever has it open.       *)
CreateFile(r) ==
  LET f == IF src[MeetingOf(r)] = None THEN r ELSE src[MeetingOf(r)]
  IN /\ src' = [src EXCEPT ![MeetingOf(r)] = f]
     /\ open' = [open EXCEPT ![r].src = f]
     /\ media' = [media EXCEPT ![f] = <<>>]

(* get_meeting, get_recording, create_dir_all and the request come before  *)
(* it, and leave no trace when one of them fails.                          *)
Fetch(r) ==
  /\ stage[r] = "fetch" /\ job[r].folder
  /\ CreateFile(r)
  /\ Goto(r, "download")
  /\ shared' = shared \cup (IF Others(r) = {} THEN {} ELSE Others(r) \cup {r})
  /\ UNCHANGED <<gen, conf, job, permit, audio, sound, orphans, text, kept, faults>>

(* A chunk lands at the writer's own offset; what lies between the end of  *)
(* a file truncated meanwhile and that offset is a hole.                   *)
WriteAt(s, offset, c) ==
  [i \in 1..Max({Len(s), offset + 1}) |->
     IF i = offset + 1 THEN c ELSE IF i <= Len(s) THEN s[i] ELSE None]

Download(r) ==
  /\ stage[r] = "download" /\ index[r] < Chunks
  /\ media' = [media EXCEPT ![open[r].src] = WriteAt(@, index[r], Recording(r))]
  /\ index' = [index EXCEPT ![r] = @ + 1]
  /\ IF index'[r] = Chunks
     THEN Goto(r, "extract") /\ Close(r)
     ELSE UNCHANGED <<stage, open>>
  /\ UNCHANGED <<gen, conf, job, permit, src, audio, sound, orphans, heard, segments, doc,
                 marks, faults>>

(* ffmpeg -y opens its input by name and truncates its output.             *)
(* Mutant: an audio file that is there already is taken as it is.          *)
ExtractUnlessThere(r) ==
  LET m == MeetingOf(r)
  IN /\ stage[r] = "extract" /\ src[m] # None
     /\ IF audio[m] # None
        THEN Goto(r, "read") /\ UNCHANGED <<audio, open>>
        ELSE /\ audio' = [audio EXCEPT ![m] = r]
             /\ open' = [open EXCEPT ![r] = [src |-> src[m], audio |-> r]]
             /\ Goto(r, "ffmpeg")
     /\ UNCHANGED <<gen, conf, job, permit, src, media, sound, orphans, text, marks, faults>>

Extract(r) ==
  LET m == MeetingOf(r)
      f == IF audio[m] = None THEN r ELSE audio[m]
  IN /\ stage[r] = "extract" /\ src[m] # None
     /\ audio' = [audio EXCEPT ![m] = f]
     /\ open' = [open EXCEPT ![r] = [src |-> src[m], audio |-> f]]
     /\ sound' = [sound EXCEPT ![f] = Silence]
     /\ Goto(r, "ffmpeg")
     /\ UNCHANGED <<gen, conf, job, permit, src, media, orphans, text, marks, faults>>

(* The input, or the audio, another run of the meeting has taken away.     *)
NoInput(r) ==
  /\ \/ stage[r] = "extract" /\ src[MeetingOf(r)] = None
     \/ stage[r] = "read" /\ audio[MeetingOf(r)] = None
  /\ GiveUp(r)
  /\ UNCHANGED faults

Intact(s, rec) == s = [i \in 1..Chunks |-> rec]

(* What ffmpeg makes of its input as it is when it ends.                   *)
Encode(r) ==
  LET in == media[open[r].src]
      recs == {in[i] : i \in DOMAIN in} \ {None}
  IN sound' = [sound EXCEPT ![open[r].audio] =
       [of |-> @.of \cup recs, whole |-> \E rec \in recs : Intact(in, rec)]]

(* The child ends; of a damaged input it makes what it can, or fails.      *)
ExtractEnds(r) ==
  /\ stage[r] = "ffmpeg"
  /\ \/ Encode(r) /\ Goto(r, "read") /\ UNCHANGED permit
     \/ ~ Intact(media[open[r].src], Recording(r)) /\ UNCHANGED sound
        /\ Goto(r, "failed") /\ permit' = permit \ {r}
  /\ Close(r)
  /\ UNCHANGED <<gen, conf, job, src, audio, media, orphans, text, marks, faults>>

(* A child nobody waits for writes on.                                     *)
OrphanEnds(r) ==
  /\ r \in orphans
  /\ Encode(r)
  /\ orphans' = orphans \ {r}
  /\ Close(r)
  /\ UNCHANGED <<gen, conf, stage, job, permit, src, audio, media, text, marks, faults>>

-----------------------------------------------------------------------------
(* Transcription: the file is read by name, and handed to the backend.     *)
Read(r) ==
  LET f == audio[MeetingOf(r)]
  IN /\ stage[r] = "read" /\ f # None
     /\ heard' = [heard EXCEPT ![r] = sound[f]]
     /\ Goto(r, "decode")
     /\ UNCHANGED <<gen, conf, job, permit, files, segments, doc, index, marks, faults>>

-----------------------------------------------------------------------------
(* The document.                                                           *)

(* insert_document_children at an index of the page.                       *)
InsertChildren(d, i, blocks) == SubSeq(d, 1, i) \o blocks \o SubSeq(d, i + 1, Len(d))

Other(n) == [i \in 1..n |-> 0]
HeaderSize == 3

(* The backend answers; create_docx_in_folder, then the header blocks.     *)
CreateDoc(r) ==
  /\ stage[r] = "decode"
  /\ \E n \in SegCounts : segments' = [segments EXCEPT ![r] = n]
  /\ doc' = [doc EXCEPT ![r] = InsertChildren(<<>>, 0, Other(HeaderSize))]
  /\ index' = [index EXCEPT ![r] = HeaderSize]
  /\ Goto(r, "body")
  /\ UNCHANGED <<gen, conf, job, permit, files, heard, marks, faults>>

(* Segments go in Batch at a time; with none, a paragraph stands for them. *)
Left(r) == segments[r] - (index[r] - HeaderSize)
NextBatch(r) == [i \in 1..Min({Batch, Left(r)}) |-> index[r] - HeaderSize + i]

(* Mutant: every batch is inserted after the header.                       *)
WriteBatchOnTop(r) ==
  LET blocks == IF segments[r] = 0 THEN Other(1) ELSE NextBatch(r)
  IN /\ stage[r] = "body"
     /\ doc' = [doc EXCEPT ![r] = InsertChildren(@, HeaderSize, blocks)]
     /\ index' = [index EXCEPT ![r] = @ + Len(blocks)]
     /\ Goto(r, IF Left(r) > Batch THEN "body" ELSE "notify")
     /\ UNCHANGED <<gen, conf, job, permit, files, heard, segments, marks, faults>>

WriteBatch(r) ==
  LET blocks == IF segments[r] = 0 THEN Other(1) ELSE NextBatch(r)
  IN /\ stage[r] = "body"
     /\ doc' = [doc EXCEPT ![r] = InsertChildren(@, index[r], blocks)]
     /\ index' = [index EXCEPT ![r] = @ + Len(blocks)]
     /\ Goto(r, IF Left(r) > Batch THEN "body" ELSE "notify")
     /\ UNCHANGED <<gen, conf, job, permit, files, heard, segments, marks, faults>>

(* list_files_in_folder for the link, then the cards to the owner and the  *)
(* fallback chat, whose failures are only logged.                          *)
Notify(r) ==
  /\ stage[r] = "notify"
  /\ Goto(r, "unlinkSrc")
  /\ UNCHANGED <<gen, conf, job, permit, files, text, marks, faults>>

(* Cleaning up, by name: a file nobody has open is gone with its name.     *)
Gone(f) == f # None /\ \A r \in Runs : f # open[r].src /\ f # open[r].audio

UnlinkSrc(r) ==
  /\ stage[r] = "unlinkSrc"
  /\ src' = [src EXCEPT ![MeetingOf(r)] = None]
  /\ media' = [f \in Runs |-> IF f = src[MeetingOf(r)] /\ Gone(f) THEN <<>> ELSE media[f]]
  /\ Goto(r, "unlinkAudio")
  /\ UNCHANGED <<gen, conf, job, permit, audio, open, sound, orphans, text, marks,
                 faults>>

(* Mutant: only the recording is removed.                                  *)
LeaveAudio(r) ==
  /\ stage[r] = "unlinkAudio"
  /\ Goto(r, "done")
  /\ permit' = permit \ {r}
  /\ UNCHANGED <<gen, conf, job, files, text, marks, faults>>

UnlinkAudio(r) ==
  /\ stage[r] = "unlinkAudio"
  /\ audio' = [audio EXCEPT ![MeetingOf(r)] = None]
  /\ sound' = [f \in Runs |-> IF f = audio[MeetingOf(r)] /\ Gone(f) THEN Silence ELSE sound[f]]
  /\ Goto(r, "done")
  /\ permit' = permit \ {r}
  /\ UNCHANGED <<gen, conf, job, src, open, media, orphans, text, marks, faults>>

(* remove_file fails, the file stays under its name, and the run goes on   *)
(* all the same: it ends well.                                             *)
Remains(r) ==
  /\ stage[r] \in CleanUp
  /\ faults < MaxFaults /\ faults' = faults + 1
  /\ kept' = kept \cup {<<MeetingOf(r), stage[r]>>}
  /\ IF stage[r] = "unlinkSrc"
     THEN Goto(r, "unlinkAudio") /\ UNCHANGED permit
     ELSE Goto(r, "done") /\ permit' = permit \ {r}
  /\ UNCHANGED <<gen, conf, job, files, text, shared>>

-----------------------------------------------------------------------------
(* The supervisor replaces the generation: its WebSocket client is dropped *)
(* and its action task aborted, and an ffmpeg child is not killed with it; *)
(* the tasks its events spawned go on.  The new one has a semaphore of its *)
(* own, all of whose permits are free.                                     *)
WithChild(S) == {r \in S : stage[r] = "ffmpeg"}

Restart ==
  LET killed == ActionRuns(gen)
  IN /\ gen < MaxGens /\ gen' = gen + 1
     /\ \E s \in Sections : conf' = Built(s)
     /\ stage' = [r \in Runs |-> IF r \in killed THEN "aborted" ELSE stage[r]]
     /\ orphans' = orphans \cup WithChild(killed)
     /\ open' = [r \in Runs |-> IF r \in killed \ orphans' THEN Closed ELSE open[r]]
     /\ UNCHANGED <<job, permit, src, audio, media, sound, text, marks, faults>>

(* The process dies and is started again: files stay, tasks do not.        *)
Crash ==
  LET killed == {r \in Runs : AtWork(r) \/ stage[r] = Queued}
  IN /\ gen < MaxGens /\ gen' = gen + 1
     /\ faults < MaxFaults /\ faults' = faults + 1
     /\ stage' = [r \in Runs |-> IF r \in killed THEN "lost" ELSE stage[r]]
     /\ orphans' = orphans \cup WithChild(killed)
     /\ permit' = {}
     /\ open' = [r \in Runs |-> IF r \in killed \ orphans' THEN Closed ELSE open[r]]
     /\ UNCHANGED <<conf, job, src, audio, media, sound, text, marks>>

-----------------------------------------------------------------------------
Step(r) ==
  \/ Acquire(r) \/ NoFolder(r) \/ Fetch(r) \/ Download(r) \/ Extract(r) \/ NoInput(r)
  \/ ExtractEnds(r) \/ Read(r) \/ CreateDoc(r)
  \/ WriteBatch(r) \/ Notify(r) \/ UnlinkSrc(r) \/ UnlinkAudio(r)

Next ==
  \/ \E r \in Runs : Step(r) \/ RecordingReady(r) \/ ProcessMeeting(r) \/ CallFails(r)
                     \/ Remains(r) \/ OrphanEnds(r)
  \/ Restart \/ Crash

(* A task that can go on does, and an outside call answers in the end: the *)
(* HTTP clients are built without a timeout, so this is trust in the       *)
(* services, not in the code.                                              *)
Spec == Init /\ [][Next]_vars /\ \A r \in Runs : WF_vars(Step(r))

-----------------------------------------------------------------------------
(* Properties.                                                             *)

(* A run that never had its meeting's temp files in use together with      *)
(* another hears the whole of the recording it was to process and nothing  *)
(* else, whatever failed, aborted or crashed runs have left in those files *)
(* (process_meeting: File::create, ffmpeg -y).                             *)
Heard == {"decode", "body", "notify", "done"} \cup CleanUp

OwnRecording ==
  \A r \in Runs \ shared :
    stage[r] \in Heard => heard[r] = [of |-> {Recording(r)}, whole |-> TRUE]

(* Permits are held by the runs at work that an event of their generation  *)
(* started, and no generation works on more than Cap of those at a time    *)
(* ("Cap on concurrent transcriptions", RecordingReadyHandler).            *)
WithinCap ==
  /\ permit = {r \in Runs : AtWork(r) /\ EventRun(r)}
  /\ \A g \in 1..MaxGens : Cardinality({r \in Runs : AtWork(r) /\ EventRun(r)
                                                     /\ job[r].gen = g}) <= Cap

(* When the card goes out, the document it links has the header and then   *)
(* every segment once, in order; until then it holds an initial part of it *)
(* (create_transcript_doc).                                                *)
Full(r) ==
  Other(HeaderSize) \o (IF segments[r] = 0 THEN Other(1) ELSE [i \in 1..segments[r] |-> i])

DocInOrder ==
  \A r \in Runs :
    /\ stage[r] = "body" => doc[r] = SubSeq(Full(r), 1, Len(doc[r]))
    /\ stage[r] \in {"notify", "done"} \cup CleanUp => doc[r] = Full(r)

(* A meeting all of whose runs have ended well leaves no temp file behind, *)
(* however they overlapped, but one that a run of it could not remove      *)
(* (process_meeting, step 7).                                              *)
NothingLeftBehind ==
  \A m \in Meetings :
    (\A r \in Runs : job[r] # None /\ MeetingOf(r) = m => stage[r] = "done") =>
      /\ src[m] = None \/ <<m, "unlinkSrc">> \in kept
      /\ audio[m] = None \/ <<m, "unlinkAudio">> \in kept

(* A run takes what it was granted and gives it back: its permit always,   *)
(* its files as far as they can be removed.                                *)
RunInv == TypeOK /\ WithinCap /\ NothingLeftBehind

(* A recording an event announced is processed, or given up on an error or *)
(* with the process: no run waits for a permit for good.                   *)
EveryEventEnds == \A r \in Runs : stage[r] = Queued ~> stage[r] \in Ended
=============================================================================
