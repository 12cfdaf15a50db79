--------------------------- MODULE TranscriptJob ---------------------------
(***************************************************************************)
(* How one job of the desktop application writes its transcript            *)
(* (noScribe/main.py, _process_single_job): conversion, speaker            *)
(* identification, the segments of the engine written one by one with      *)
(* saves in between, the voice check that writes the transcript a second   *)
(* time, the retry on the CPU, and Stop, errors and refused writes at any  *)
(* point.                                                                  *)
(*                                                                         *)
(*   setup    the job's options, and whether a server does the work        *)
(*   talk     what is said: segments, turns and the pauses' frame          *)
(*   at       where the thread of the queue is                             *)
(*   status   job.status, its running states as one                        *)
(*   page     d and the writer's variables: the pieces written, speaker,   *)
(*            prev_speaker, first_segment, and voice_segments              *)
(*   named    job.speaker_name_map                                         *)
(*   turns    diarization                                                  *)
(*   told     how many segments the engine has sent in this try            *)
(*   check    the voice check: the passages, how many of them are written, *)
(*            and what is put back if it fails                             *)
(*   files    what is on the disk under the n-th name; file, the name of   *)
(*            job.transcript_file; partial, has_partial_transcript         *)
(*   flags    cancel, the fallbacks to the CPU, whether the server retried *)
(*            and whether the transcription failed; history: whether a     *)
(*            rescue failed (hurt) and how often the job ran               *)
(*   wholes   history: the rewritten transcripts                           *)
(* A piece of the document is [start, end, under, as, form, ends]: the     *)
(* anchor's times, the speaker and the name; how it stands to the piece    *)
(* before; and whether it ends overlapping speech.  Pause marks, time      *)
(* stamps and the layout of the three file types are left out.             *)
(***************************************************************************)
EXTENDS VoiceCheck

CONSTANTS
  Setups,    \* [diarize, remote, autosave, overlapping, names, runs]; runs: how
             \* often the job is run
  Talks,     \* [segments, turns, chunks, duration]
  Voices,    \* the evidence's labels, in its order
  Scores,    \* what the evidence may say of a unit
  Files,     \* how many file names there are
  Refusals   \* how many writes are refused

ASSUME TranscriptAssumption ==
  Files \in Nat \ {0} /\ \A t \in Talks : Len(t.segments) \in Nat

VARIABLES setup, talk, at, status, page, named, turns, told, check,
          files, file, partial, flags, wholes

vars == <<setup, talk, at, status, page, named, turns, told, check,
          files, file, partial, flags, wholes>>

NewPage == [doc |-> << >>, speaker |-> Silent, prev |-> Silent,
            first |-> TRUE, voice |-> << >>]

NoCheck == [passages |-> << >>, done |-> 0, doc |-> << >>, named |-> NoNames]

\* What a file holds.
Absent == [is |-> "absent", doc |-> << >>]
Broken == [is |-> "broken", doc |-> << >>]
Holds(doc) == [is |-> "whole", doc |-> doc]

TranscriptInit ==
  /\ setup \in Setups /\ talk \in Talks
  /\ at = "queue" /\ status = "waiting"
  /\ page = NewPage /\ named = NoNames /\ turns = << >> /\ told = 0 /\ check = NoCheck
  /\ files = [n \in 1..Files |-> Absent] /\ file = 1 /\ partial = FALSE
  /\ flags = [cancel |-> FALSE, whisper |-> FALSE, pyannote |-> FALSE, again |-> FALSE,
              retry |-> FALSE, failed |-> FALSE, refused |-> 0, hurt |-> FALSE, runs |-> 0]
  /\ wholes = {}

-----------------------------------------------------------------------------
(* Writing.                                                                *)

Form(p, new) ==
  IF new.who = Nobody \/ new = p.speaker THEN "same"
  ELSE IF new.over THEN "overlap"
  ELSE IF p.speaker.over /\ new = p.prev THEN "back"
  ELSE "turn"

NameUnder(names, who) == IF who = Nobody THEN <<"", 0>> ELSE names[who]

\* on_segment, of a segment under the speaker `new`.  w: [page, named]
WritesUnder(w, segment, new) ==
  LET span    == AdjustForPause([start |-> segment.start, end |-> segment.end],
                                talk.chunks, talk.duration)
      names   == ApplySpeakerName(w.named, new.who, setup.names)
      form    == Form(w.page, new)
      speaker == IF form = "same" THEN w.page.speaker ELSE new
      piece   == [start |-> span.start, end |-> span.end, under |-> speaker,
                  as |-> NameUnder(names, speaker.who), form |-> form,
                  ends |-> form = "turn" /\ w.page.speaker.over]
  IN  [named |-> names,
       page |-> [w.page EXCEPT
                  !.doc = Append(@, piece), !.speaker = speaker, !.first = FALSE,
                  !.prev = IF form = "overlap" THEN w.page.speaker ELSE @]]

\* The speaker that the diarization ds has for a segment.
SpeakerIn(ds, segment) ==
  IF ~setup.diarize THEN Silent
  ELSE FindSpeaker(ds, AdjustForPause([start |-> segment.start, end |-> segment.end],
                                      talk.chunks, talk.duration), setup.overlapping)

\* on_segment as the engine calls it, with the diarization ds.  A segment without
\* text leaves no trace.
OnSegment(w, segment, ds) ==
  IF segment.blank THEN w
  ELSE LET new     == SpeakerIn(ds, segment)
           written == WritesUnder(w, segment, new)
           heard   == [segment |-> segment, by |-> written.page.speaker,
                       inherited |-> setup.diarize /\ new.who = Nobody]
       IN  [named |-> written.named,
            page |-> [written.page EXCEPT !.voice = Append(@, heard)]]

\* Fault: the second attempt goes on in the document of the first.
ResetButDocument == [page |-> [NewPage EXCEPT !.doc = page.doc], named |-> NoNames]

\* Fault: voice_segments keeps the segments of the first attempt.
ResetButVoices == [page |-> [NewPage EXCEPT !.voice = page.voice], named |-> NoNames]

\* reset_transcript
Reset == [page |-> NewPage, named |-> NoNames]

\* What save_doc may come to: [files, file, failed].  A write is refused with the
\* file as it was, or broken; then another name is tried.
Outcomes(doc) ==
  LET free == {n \in 1..Files : files[n] = Absent}
      other == Min(free)
      hit(n, content) == [files EXCEPT ![n] = content]
      refused == IF free = {} \/ flags.refused = Refusals THEN {}
                 ELSE {hit(file, files[file]), hit(file, Broken)}
  IN  {[files |-> hit(file, Holds(doc)), file |-> file, failed |-> FALSE, refused |-> 0]}
      \cup UNION {{[files |-> [fs EXCEPT ![other] = Holds(doc)], file |-> other, failed |-> FALSE, refused |-> 1],
                   [files |-> fs, file |-> file, failed |-> TRUE, refused |-> 1],
                   [files |-> fs, file |-> other, failed |-> TRUE, refused |-> 1]} : fs \in refused}

\* save_doc, of a document; o is what comes of it.
Saves(o) ==
  /\ files' = o.files /\ file' = o.file

Refused(o, fs) ==
  [fs EXCEPT !.refused = @ + o.refused, !.hurt = @ \/ o.failed]

-----------------------------------------------------------------------------
(* The stages before the transcript.                                       *)

\* transcription_worker takes the job: set_running.
Starts ==
  /\ at = "queue" /\ status = "waiting"
  /\ at' = "converting" /\ status' = "running"
  /\ named' = NoNames /\ page' = NewPage /\ turns' = << >> /\ told' = 0
  /\ flags' = [flags EXCEPT !.cancel = FALSE, !.whisper = FALSE, !.pyannote = FALSE,
                            !.again = FALSE, !.retry = FALSE, !.failed = FALSE,
                            !.runs = @ + 1]
  /\ UNCHANGED <<setup, talk, check, files, file, partial, wholes>>

\* The job ends with an exception: transcription_worker.
Fails ==
  /\ at' = "queue"
  /\ status' = IF flags.cancel THEN "canceled" ELSE "error"

Converts ==
  /\ at = "converting"
  /\ \/ /\ at' = IF setup.diarize /\ ~setup.remote THEN "identifying" ELSE "preparing"
        /\ UNCHANGED status
     \/ Fails
  /\ UNCHANGED <<setup, talk, page, named, turns, told, check, files, file, partial, flags, wholes>>

\* _handle_cuda_fallback: once per component, never for a server or after Stop.
FallsBack(component) == ~flags.cancel /\ ~setup.remote /\ ~flags[component]

Identifies ==
  /\ at = "identifying"
  /\ \/ turns' = talk.turns /\ at' = "preparing" /\ UNCHANGED <<status, flags>>
     \/ FallsBack("pyannote") /\ flags' = [flags EXCEPT !.pyannote = TRUE]
        /\ UNCHANGED <<at, status, turns>>
     \/ Fails /\ UNCHANGED <<turns, flags>>
  /\ UNCHANGED <<setup, talk, page, named, told, check, files, file, partial, wholes>>

\* The head of the transcription's loop: a fresh document.
Prepares ==
  /\ at = "preparing"
  /\ at' = "streaming" /\ told' = 0
  /\ page' = NewPage /\ named' = NoNames
  /\ flags' = [flags EXCEPT !.retry = FALSE, !.failed = FALSE]
  /\ UNCHANGED <<setup, talk, status, turns, check, files, file, partial, wholes>>

-----------------------------------------------------------------------------
(* The engine's stream.                                                    *)

\* receive_diarization
ReceivesDiarization ==
  /\ at = "streaming" /\ setup.remote /\ setup.diarize /\ told = 0 /\ turns = << >>
  /\ turns' = talk.turns
  /\ UNCHANGED <<setup, talk, at, status, page, named, told, check, files, file, partial, flags, wholes>>

Segment(n) == talk.segments[n]

\* A server sends the diarization first.
MayTell == told < Len(talk.segments) /\ (setup.remote /\ setup.diarize => turns # << >>)

\* on_segment, and the save when the last one is more than five seconds ago.
SegmentArrives ==
  /\ at = "streaming" /\ MayTell
  /\ LET w == OnSegment([page |-> page, named |-> named], Segment(told + 1), turns) IN
     /\ page' = w.page /\ named' = w.named /\ told' = told + 1
     /\ \/ UNCHANGED <<at, files, file, partial, flags>>
        \/ /\ setup.autosave /\ ~Segment(told + 1).blank
           /\ \E o \in Outcomes(w.page.doc) :
                /\ Saves(o)
                /\ at' = IF o.failed THEN "saving" ELSE at
                /\ partial' = (partial \/ ~o.failed)
                /\ flags' = [Refused(o, flags) EXCEPT !.failed = o.failed]
  /\ UNCHANGED <<setup, talk, status, turns, check, wholes>>

\* task_started with retry, or on_reset: the server tells everything again.
ServerRetries ==
  /\ at = "streaming" /\ setup.remote /\ ~flags.again
  /\ setup.diarize => turns # << >>
  /\ page' = Reset.page /\ named' = Reset.named /\ told' = 0 /\ partial' = FALSE
  /\ flags' = [flags EXCEPT !.again = TRUE]
  /\ UNCHANGED <<setup, talk, at, status, turns, check, files, file, wholes>>

\* The engine returns; a transcript without text is an error.
EngineEnds ==
  /\ at = "streaming" /\ told = Len(talk.segments)
  /\ at' = IF page.first THEN "saving" ELSE "checking"
  /\ flags' = [flags EXCEPT !.failed = page.first]
  /\ UNCHANGED <<setup, talk, status, page, named, turns, told, check, files, file, partial, wholes>>

\* It raises: after Stop, or by itself, perhaps with an error of the GPU.
EngineFails ==
  /\ at = "streaming"
  /\ at' = "saving"
  /\ \/ flags' = [flags EXCEPT !.failed = TRUE]
     \/ FallsBack("whisper") /\ flags' = [flags EXCEPT !.whisper = TRUE, !.failed = TRUE, !.retry = TRUE]
  /\ UNCHANGED <<setup, talk, status, page, named, turns, told, check, files, file, partial, wholes>>

-----------------------------------------------------------------------------
(* The voice check.                                                        *)

\* run_voice_check is over; the transcription has succeeded.
Checked == at' = "saving" /\ partial' = FALSE /\ check' = NoCheck

NoCheckNeeded == turns = << >> \/ Len(Voices) < 2 \/ page.voice = << >>

\* No evidence, Stop before anything is begun, or the check is switched off.
SkipsCheck ==
  /\ at = "checking" /\ Checked
  /\ UNCHANGED <<setup, talk, status, page, named, turns, told, files, file, flags, wholes>>

\* check_voices saves the transcript first; if that fails there is no check.
ChecksVoices ==
  /\ at = "checking" /\ ~NoCheckNeeded /\ ~flags.cancel
  /\ \E o \in Outcomes(page.doc) :
       /\ Saves(o)
       /\ flags' = Refused(o, flags)
       /\ IF o.failed THEN Checked
          ELSE at' = "relabeling" /\ UNCHANGED <<partial, check>>
  /\ UNCHANGED <<setup, talk, status, page, named, turns, told, wholes>>

\* The writer after so many of the passages.
Written(start, passages) ==
  LET w[k \in Nat] == IF k = 0 THEN start
                      ELSE WritesUnder(w[k - 1], passages[k].segment, passages[k].by)
  IN  w

HeardIn(passages) ==
  FoldLeft(LAMBDA heard, p :
    IF p.by.who = Nobody \/ p.by.who \in ToSet(heard) THEN heard ELSE Append(heard, p.by.who),
    << >>, passages)

\* relabel, with what the evidence says of every unit; the embeddings may fail or
\* be stopped.  With moves, the transcript is begun anew under the names given out
\* again.
Relabels ==
  /\ at = "relabeling"
  /\ \/ Checked /\ UNCHANGED <<page, named, wholes>>
     \/ \E said \in [1..Len(FlattenSeq([i \in DOMAIN page.voice |->
                              UnitsOf(page.voice[i], Voices)])) -> Scores] :
          LET before(i) == Len(FlattenSeq([j \in 1..i - 1 |-> UnitsOf(page.voice[j], Voices)]))
              scores == [i \in DOMAIN page.voice |->
                          [k \in DOMAIN UnitsOf(page.voice[i], Voices) |-> said[before(i) + k]]]
              new == Relabel(page.voice, turns, Voices, scores, 0)
              fresh == [Reset EXCEPT !.named = NamesAfterCheck(named, HeardIn(new.passages), setup.names)]
          IN  IF new.moves = << >>
              THEN Checked /\ UNCHANGED <<page, named, wholes>>
              ELSE /\ at' = "rewriting" /\ partial' = FALSE
                   /\ check' = [passages |-> new.passages, done |-> 0, doc |-> page.doc, named |-> named]
                   /\ page' = fresh.page /\ named' = fresh.named
                   /\ wholes' = wholes \cup {Written(fresh, new.passages)[Len(new.passages)].page.doc}
  /\ UNCHANGED <<setup, talk, status, turns, told, files, file, flags>>

RewritesOne ==
  /\ at = "rewriting" /\ ~flags.cancel /\ check.done < Len(check.passages)
  /\ LET passage == check.passages[check.done + 1]
         w == WritesUnder([page |-> page, named |-> named], passage.segment, passage.by)
     IN  page' = w.page /\ named' = w.named
  /\ check' = [check EXCEPT !.done = @ + 1]
  /\ UNCHANGED <<setup, talk, at, status, turns, told, files, file, partial, flags, wholes>>

\* Fault: the transcript is put back, the names are not.
PutsBackPage ==
  /\ at = "rewriting" /\ flags.cancel /\ check.done < Len(check.passages)
  /\ page' = [page EXCEPT !.doc = check.doc, !.first = FALSE]
  /\ Checked
  /\ UNCHANGED <<setup, talk, status, named, turns, told, files, file, flags, wholes>>

\* Stop before a passage: names and document as they were.  (Of the writer's state
\* only first_segment is still read.)
PutsBack ==
  /\ at = "rewriting" /\ flags.cancel /\ check.done < Len(check.passages)
  /\ page' = [page EXCEPT !.doc = check.doc, !.first = FALSE]
  /\ named' = check.named
  /\ Checked
  /\ UNCHANGED <<setup, talk, status, turns, told, files, file, flags, wholes>>

RewriteEnds ==
  /\ at = "rewriting" /\ check.done = Len(check.passages) /\ Checked
  /\ UNCHANGED <<setup, talk, status, page, named, turns, told, files, file, flags, wholes>>

-----------------------------------------------------------------------------
(* The end of a try, and of the job.                                       *)

\* After the finally clause: again on the CPU, the exception goes on, or the job
\* is finished, whatever Stop has made of its status.
Leaves(failed, retry) ==
  IF retry THEN at' = "preparing" /\ UNCHANGED status
  ELSE IF failed THEN Fails
  ELSE at' = "queue" /\ status' = "finished"

SavesAtEnd ==
  /\ at = "saving"
  /\ IF page.first
     THEN /\ partial' = FALSE /\ Leaves(flags.failed, flags.retry)
          /\ UNCHANGED <<files, file, flags>>
     ELSE \E o \in Outcomes(page.doc) :
            /\ Saves(o)
            /\ flags' = Refused(o, flags)
            /\ partial' = (partial \/ ~o.failed)
            /\ Leaves(flags.failed \/ o.failed, flags.retry /\ ~o.failed)
  /\ UNCHANGED <<setup, talk, page, named, turns, told, check, wholes>>

\* Stop: on_queue_stop, _on_queue_row_action.
UserStops ==
  /\ status = "running" /\ ~flags.cancel
  /\ status' = "canceling" /\ flags' = [flags EXCEPT !.cancel = TRUE]
  /\ UNCHANGED <<setup, talk, at, page, named, turns, told, check, files, file, partial, wholes>>

\* _on_queue_row_repeat
Repeats ==
  /\ at = "queue" /\ status \in {"error", "canceled"} /\ flags.runs < setup.runs
  /\ status' = "waiting"
  /\ UNCHANGED <<setup, talk, at, page, named, turns, told, check, files, file, partial, flags, wholes>>

TranscriptNext ==
  \/ Starts \/ Converts \/ Identifies \/ Prepares
  \/ ReceivesDiarization \/ SegmentArrives \/ ServerRetries \/ EngineEnds \/ EngineFails
  \/ SkipsCheck \/ ChecksVoices \/ Relabels \/ RewritesOne \/ PutsBack \/ RewriteEnds
  \/ SavesAtEnd \/ UserStops \/ Repeats

TranscriptSpec == TranscriptInit /\ [][TranscriptNext]_vars

-----------------------------------------------------------------------------
(* Properties.                                                             *)

\* The writer after so many segments of the talk, written without a break under the
\* speakers of the diarization; and the whole document.
Tellings[k \in Nat] ==
  IF k = 0 THEN [page |-> NewPage, named |-> NoNames]
  ELSE OnSegment(Tellings[k - 1], Segment(k), talk.turns)

Telling == Tellings[Len(talk.segments)].page.doc

\* Every file holds the segments of one try, each once and in order, wholly under
\* the speakers of the diarization or wholly under those of the voice check; and
\* the file of a finished job holds all of them.
FileIsOneTelling ==
  /\ \A n \in 1..Files :
       files[n] = Absent \/ files[n] = Broken \/ files[n].doc \in wholes
         \/ IsPrefix(files[n].doc, Telling)
  /\ status = "finished" =>
       files[file].is = "whole" /\ files[file].doc \in {Telling} \cup wholes

\* However the job ended, all that was recognised in its last try is in its file,
\* under the names of its key (_speaker_key); unless neither the file nor its
\* rescue could be written.
SavedAsShown ==
  at = "queue" /\ ~page.first /\ ~flags.hurt =>
    /\ files[file] = Holds(page.doc)
    /\ \A i \in DOMAIN page.doc :
         LET who == page.doc[i].under.who IN
         who \in DOMAIN named \cup {Nobody} /\ page.doc[i].as = NameUnder(named, who)

\* No passage is told twice, or before an earlier one.
InOrder(doc) == \A i \in 1..Len(doc) - 1 : doc[i].start < doc[i + 1].start

\* What the voice check writes a second time it tells once and in order, and it
\* takes no name that the user gave from a voice that has it, as long as the voice
\* is heard at all.
CheckKeepsOrderAndNames ==
  [][/\ \A doc \in wholes' \ wholes : InOrder(doc)
     /\ at = "rewriting" /\ at' = "saving" /\ named' = named =>
          \A label \in DOMAIN check.named \cap DOMAIN named :
            check.named[label] \in ToSet(setup.names) => named[label] \in ToSet(setup.names)]_vars

=============================================================================
