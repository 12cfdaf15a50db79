---------------------------- MODULE WorkerEntry ----------------------------
(***************************************************************************)
(* The worker processes seen from inside (whisper_mp_worker,               *)
(* voxtral_mp_worker, pyannote_mp_worker, nemotron_mp_worker): the stages  *)
(* each goes through, what it puts on its queue, and what becomes of a     *)
(* failure of a stage, of one item of the work, or of the queue.  What     *)
(* happens to the messages afterwards is in LocalWorker.                   *)
(***************************************************************************)
EXTENDS Integers, Sequences, FiniteSets, SequencesExt, FiniteSetsExt

CONSTANTS
  Jobs,      \* what a worker is asked for
  MaxItems   \* bound: segments, spans or turns of a job

ASSUME EntryAssumption == MaxItems \in Nat

\* A job: the kind of worker; the language asked for ("auto", "multi" or one of
\* its own), and whether the model is only for English; whose diarization there
\* is; the device asked for and the machine; and how many items it is about.
AJob(kind, language, english, diarizer, requested, machine, items) ==
  [kind |-> kind, language |-> language, english |-> english, diarizer |-> diarizer,
   requested |-> requested, machine |-> machine, items |-> items]

VARIABLES
  asked,    \* the job
  stage,    \* WorkerState.stage
  device,   \* WorkerState.device
  swapped,  \* what is swapped in the libraries: faster-whisper's source of speech,
            \* or SpeechBrain for nothing
  items,    \* what has become of each item
  sent,     \* the messages on the queue
  beats,    \* Nemotron's thread repeats the progress
  returned  \* the entry point has returned

entryVars == <<asked, stage, device, swapped, items, sent, beats, returned>>

Automatic(job) == job.requested = "auto"

\* select_device: the accelerator, where it works.
SelectDevice(job) ==
  IF ~Automatic(job) THEN job.requested
  ELSE IF job.machine \in {"mps", "small mps"} THEN "mps"
  ELSE IF job.machine = "cuda" THEN "cuda" ELSE "cpu"

\* _embed_device: every length of a span costs memory on MPS.
EmbedDevice(job) ==
  IF Automatic(job) /\ SelectDevice(job) = "mps" /\ job.machine = "small mps"
  THEN "cpu" ELSE SelectDevice(job)

\* Whisper leaves the choice to CTranslate2 on a Mac, and says afterwards which it
\* was.
WhisperDevice(job) ==
  IF Automatic(job) /\ job.machine \in {"mps", "small mps"} THEN "auto" ELSE SelectDevice(job)

\* An English model, or several languages, leave nothing to detect.
Detects(job) == job.language = "auto" /\ ~job.english

\* Only pyannote's turns are taken for the speech map (speech_turns_from).
HasTurns(job) == job.diarizer = "pyannote"

\* The stages of each worker, in order.
Stages(job) ==
  IF job.kind = "whisper"
  THEN <<"imports", "device_selection", "model_loading", "audio_loading">>
       \o (IF Detects(job) THEN <<"language_detection">> ELSE <<>>) \o <<"preprocessing", "transcription">>
  ELSE IF job.kind = "voxtral" THEN <<"imports", "transcription">>
  ELSE IF job.kind = "embed"
  THEN <<"imports", "device_selection", "model_loading", "audio_loading", "device_transfer", "voice_check">>
  ELSE IF job.kind = "pyannote"
  THEN <<"imports", "device_selection", "model_loading", "audio_loading", "device_transfer", "diarization">>
  ELSE <<"imports", "device_selection", "model_loading", "audio_loading", "diarization">>

Working == Last(Stages(asked))
NextStage == Stages(asked)[CHOOSE k \in 2..Len(Stages(asked)) : Stages(asked)[k - 1] = stage]

\* The workers that stream what they find; the others return it with the result.
Streams == asked.kind \in {"whisper", "voxtral"}

EntryInit ==
  /\ asked \in Jobs
  /\ stage = "imports" /\ swapped = "nothing" /\ items = <<>> /\ sent = <<>>
  /\ device = IF asked.kind = "voxtral" THEN "mps"
              ELSE IF asked.requested = "cpu" THEN "cpu" ELSE "unknown"
  /\ beats = FALSE /\ returned = FALSE

\* A failure may be the GPU's only on a device that is not known to be another
\* (classify_worker_error).
MayBeGpu == device \notin {"cpu", "mps"}

\* WorkerState.failure: the last word of a worker that fails is where it failed;
\* on a queue that is broken it is not heard.
EndsInFailure(heard) ==
  /\ \E gpu \in {FALSE} \cup {MayBeGpu} :
       sent' = IF heard THEN Append(sent, [type |-> "result", ok |-> FALSE, stage |-> stage, gpu |-> gpu]) ELSE sent
  /\ returned' = TRUE
  /\ swapped' = "nothing" /\ beats' = FALSE
  /\ UNCHANGED <<asked, stage, device, items>>

\* pyannote is loaded without SpeechBrain (hide_speechbrain).
Shadowed(job, next) == job.kind \in {"pyannote", "embed"} /\ next = "model_loading"

\* What is swapped while a stage lasts: for the call that detects the language and
\* the one that collects the speech, the speech map is the diarization's
\* (_speech_map_from), unless faster-whisper asks for speech by another name.
SwappedFor(job, next) ==
  IF job.kind = "whisper" /\ HasTurns(job) /\ next \in {"language_detection", "preprocessing"}
  THEN {"speech", "nothing"}
  ELSE IF Shadowed(job, next) THEN {"speechbrain"} ELSE {"nothing"}

\* The device is said before the model is loaded, and Whisper's again after it.
DeviceAt(next) ==
  IF next = "model_loading"
  THEN IF asked.kind = "whisper" THEN WhisperDevice(asked)
       ELSE IF asked.kind = "embed" THEN EmbedDevice(asked) ELSE SelectDevice(asked)
  ELSE IF next = "audio_loading" /\ device = "auto" THEN "cpu" ELSE device

\* The stages under `with Progress(q)`.
Beaten(at) == at \in {"model_loading", "audio_loading", "diarization"}

\* A stage ends well, and WorkerState.update says which is next.
StageEnds ==
  /\ ~returned /\ stage # Working
  /\ stage' = NextStage /\ device' = DeviceAt(NextStage)
  /\ swapped' \in SwappedFor(asked, NextStage)
  /\ beats' = (asked.kind = "nemotron" /\ Beaten(NextStage))
  /\ UNCHANGED <<asked, items, sent, returned>>

StageFails == ~returned /\ \E heard \in BOOLEAN : EndsInFailure(heard)

\* A fault: what cannot be put on the queue is passed over.
PutsSegmentIfItCan ==
  /\ ~returned /\ stage = Working /\ Streams /\ Len(items) < asked.items
  /\ \/ items' = Append(items, "sent") /\ sent' = Append(sent, [type |-> "segment"])
     \/ items' = Append(items, "lost") /\ UNCHANGED sent
  /\ UNCHANGED <<asked, stage, device, swapped, beats, returned>>

\* A segment is found, and cannot always be put on the queue: Whisper goes on
\* without it, Voxtral must fail the job.
PutsSegment ==
  /\ ~returned /\ stage = Working /\ Streams /\ Len(items) < asked.items
  /\ \/ /\ items' = Append(items, "sent")
        /\ sent' = Append(sent, [type |-> "segment"])
        /\ UNCHANGED <<asked, stage, device, swapped, beats, returned>>
     \/ /\ asked.kind = "whisper"
        /\ items' = Append(items, "lost")
        /\ UNCHANGED <<asked, stage, device, swapped, sent, beats, returned>>
     \/ asked.kind = "voxtral" /\ \E heard \in BOOLEAN : EndsInFailure(heard)

\* _embed_spans: one span after the other; one that the model rejects, or for
\* which too little audio is left, costs only itself.
EmbedsSpan ==
  /\ ~returned /\ stage = Working /\ asked.kind = "embed" /\ Len(items) < asked.items
  /\ \E outcome \in {"vector", "none"} : items' = Append(items, outcome)
  /\ UNCHANGED <<asked, stage, device, swapped, sent, beats, returned>>

\* The diarization in one call: its turns, and the centroids or the probabilities.
FindsTurns ==
  /\ ~returned /\ stage = Working /\ asked.kind \in {"pyannote", "nemotron"} /\ Len(items) < asked.items
  /\ items' = Append(items, "turn")
  /\ UNCHANGED <<asked, stage, device, swapped, sent, beats, returned>>

\* Progress._repeat: a server's client must not wait in silence.
KeepsAlive ==
  /\ beats /\ Len(sent) < MaxItems
  /\ sent' = Append(sent, [type |-> "progress"])
  /\ UNCHANGED <<asked, stage, device, swapped, items, beats, returned>>

\* Progress.__exit__ waits for the thread.
StopsBeating ==
  /\ ~returned /\ beats /\ stage = Working /\ Len(items) = asked.items
  /\ beats' = FALSE
  /\ UNCHANGED <<asked, stage, device, swapped, items, sent, returned>>

\* A check in which no span could be embedded did not run.
NothingEmbedded == asked.kind = "embed" /\ items # <<>> /\ \A k \in 1..Len(items) : items[k] = "none"

\* The result carries what was not streamed.  Whisper and pyannote return all the
\* same when it cannot be put.
Results ==
  /\ ~returned /\ ~beats /\ stage = Working /\ Len(items) = asked.items /\ ~NothingEmbedded
  /\ \/ sent' = Append(sent, [type |-> "result", ok |-> TRUE, holds |-> IF Streams THEN 0 ELSE Len(items)])
     \/ asked.kind \in {"whisper", "pyannote"} /\ UNCHANGED sent
  /\ returned' = TRUE
  /\ UNCHANGED <<asked, stage, device, swapped, items, beats>>

ChecksNothing == ~returned /\ stage = Working /\ Len(items) = asked.items /\ NothingEmbedded /\ EndsInFailure(TRUE)

EntryNext ==
  \/ StageEnds \/ StageFails \/ PutsSegment \/ EmbedsSpan \/ FindsTurns
  \/ KeepsAlive \/ StopsBeating \/ Results \/ ChecksNothing

EntrySpec == EntryInit /\ [][EntryNext]_entryVars

-----------------------------------------------------------------------------
(* The speech map: faster-whisper's chunks from the diarization's turns.   *)

SpeechPad == 1      \* SPEECH_MAP_PAD_S, and
SpeechMinGap == 10  \* SPEECH_MAP_MIN_GAP_S, in twentieths of a second

AtMost(a, b) == IF a < b THEN a ELSE b
AtLeast(a, b) == IF a > b THEN a ELSE b

\* The turns padded and clipped; the empty ones and those past the end are none.
PaddedTurns(turns, length) ==
  LET spans == {<<AtLeast(0, t[1] - SpeechPad), AtMost(length, t[2] + SpeechPad)>> :
                  t \in {t \in turns : t[2] > t[1]}}
  IN  SetToSortSeq({s \in spans : s[1] < s[2]},
                   LAMBDA a, b : a[1] < b[1] \/ (a[1] = b[1] /\ a[2] < b[2]))

\* A turn that begins within the gap of the chunk before prolongs it, if it does.
MergedEnd(chunk, span) == AtLeast(chunk[2], span[2])

SpeechMap(turns, length) ==
  FoldLeft(LAMBDA out, s :
             IF out # <<>> /\ s[1] - Last(out)[2] < SpeechMinGap
             THEN Append(Front(out), <<Last(out)[1], MergedEnd(Last(out), s)>>)
             ELSE Append(out, s),
           <<>>, PaddedTurns(turns, length))

-----------------------------------------------------------------------------
(* A worker says once how it ended, and last; what it calls a success is   *)
(* whole: Voxtral has streamed every segment, a voice check answers for    *)
(* every span and for one of them at least with a voice; the libraries are *)
(* as they were; and a worker that was put on the CPU never blames a GPU,  *)
(* so that it is tried again only once.  (Whisper goes on without a        *)
(* segment that cannot be put: "Best-effort; continue on serialization     *)
(* issues".)                                                               *)
ResultIsWhole ==
  /\ \A k \in 1..Len(sent) : sent[k].type = "result" => k = Len(sent) /\ returned
  /\ (returned /\ sent # <<>> /\ Last(sent).type = "result") =>
       IF Last(sent).ok
       THEN /\ stage = Working
            /\ asked.kind = "voxtral" => Len(sent) = asked.items + 1
            /\ asked.kind = "embed" =>
                 Last(sent).holds = asked.items /\ (asked.items > 0 => "vector" \in ToSet(items))
       ELSE Last(sent).gpu => asked.requested # "cpu" /\ asked.kind # "voxtral"
  /\ returned \/ stage \in {"transcription", "diarization", "voice_check"} => swapped = "nothing"

\* The chunks of the speech map lie in the audio, one after the other and a gap
\* apart; all that was said is in one; and each begins and ends with a turn.
MapsSpeech(turns, length) ==
  LET map == SpeechMap(turns, length)
      said == {t \in turns : t[1] < t[2]}
  IN  /\ \A k \in 1..Len(map) :
           /\ 0 <= map[k][1] /\ map[k][1] < map[k][2] /\ map[k][2] <= length
           /\ k > 1 => map[k][1] - map[k - 1][2] >= SpeechMinGap
           /\ \E t \in said : map[k][1] = AtLeast(0, t[1] - SpeechPad)
           /\ \E t \in said : map[k][2] = AtMost(length, t[2] + SpeechPad)
      /\ \A t \in said : t[1] < length =>
           \E k \in 1..Len(map) : map[k][1] <= t[1] /\ AtMost(t[2], length) <= map[k][2]
=============================================================================
