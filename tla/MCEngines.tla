----------------------------- MODULE MCEngines -----------------------------
(***************************************************************************)
(* The machines of the Voxtral engine and the algorithms on words, turns   *)
(* and voices, each by itself on an instance of its own: `part` is which,  *)
(* and the others stand still.  The algorithms are held against what they  *)
(* are for on the inputs `sample` goes through.                            *)
(***************************************************************************)
EXTENDS VoxtralCuts, VoxtralLadder, VoxtralFile, VoxtralBreaker, VoxtralAligner, VoiceEvidence,
        AudioConvert, CtcAlign, WorkerEntry, TranscriptExports, WordCorrections,
        VoxtralEmission, SpeakerEmbeddings, EditorNames

VARIABLES part, sample

Parts == {"cuts", "ladder", "file", "breaker", "align", "convert", "entry", "sample"}

-----------------------------------------------------------------------------
(* The instances.                                                          *)

\* Machines from one that cannot run the model to one that can do anything.
MCMachines ==
  [fixed : {10}, slope : {1}, ram : {20, 26, 30, 60}, reserve : {0, 8},
   pinned : {0, 1, 11, 40}, length : {5, 16, 29, 43}]

Spoken(lang, n) == [k \in 1..n |-> lang]

MCRecordings ==
  [spoken : {Spoken("de", 18), Spoken("de", 8) \o Spoken("fr", 10)},
   bounds : {<<0, 8, 13, 18>>}, pinned : {"none", "de", "cs"}, aligns : BOOLEAN]

MCNames == {"de", "en", "fr"}

MCDownloaded == {{}, {"de", "en", "fr", "multi"}}

Letters(start, end, n, known) ==
  [start |-> start, end |-> end, tokens |-> n, known |-> known]

MCTasks ==
  {[words |-> <<Letters(0, 3, 2, k[1]), Letters(4, 5, 3, k[2]),
                Letters(5, 8, 1, k[3]), Letters(11, 14, 2, k[4])>>,
    length |-> t[1], prefix |-> t[2]] :
     k \in [1..4 -> BOOLEAN], t \in {<<6, FALSE>>, <<14, FALSE>>, <<24, FALSE>>, <<24, TRUE>>}}

\* Frames of 2 that follow one another from the first on, in packets of one or
\* two; the second packet may be unreadable, and the frames may have no times.
Frames(origin, timed, first, n) ==
  [k \in 1..n |-> AFrame(IF timed THEN origin + 2 * (first + k - 2) ELSE NoTime, 2)]

MCMedia ==
  {[video |-> c[1], container |-> c[2], audio |-> c[3],
    packets |-> <<Frames(c[4], t[1], 1, 2), IF t[2] THEN Frames(c[4], t[1], 3, 1) ELSE Unreadable,
                  Frames(c[4], t[1], 4, 2), Frames(c[4], t[1], 6, 1)>>] :
     c \in {<<FALSE, 4, 7, 7>>, <<TRUE, 4, 7, 7>>, <<TRUE, NoTime, 7, 7>>, <<FALSE, NoTime, NoTime, 0>>},
     t \in BOOLEAN \X BOOLEAN}

MCRequests == [start : {NoTime, 0, 1, 4, 7, 40}, stop : {NoTime, 3, 6, 11}]

MCJobs ==
  {AJob("whisper", l, e, d, r, c, 2) : e \in BOOLEAN, l \in {"auto", "multi"}, d \in {"none", "pyannote", "nemotron"},
                                    r \in {"auto", "cpu"}, c \in {"cuda", "mps"}}
    \cup {AJob(k, "auto", FALSE, "none", r, c, n) :
             k \in {"voxtral", "embed", "pyannote", "nemotron"}, r \in {"auto", "cpu"},
             c \in {"cuda", "small mps"}, n \in {0, 2, 3}}

-----------------------------------------------------------------------------
(* The inputs of the algorithms.                                           *)

SeqsOfLen(S, n) == [1..n -> S]

LoopSamples ==
  [kind : {"loop"}, words : SeqsOfLen({1, 2}, 9), ends : {{}, {3, 6}, {2, 5, 8}}]

\* Words that are spoken or drawn out, with and without pauses.
Timed(gaps, stops) ==
  [k \in 1..Len(gaps) |->
     LET start == FoldLeft(LAMBDA t, g : t + g[1] + g[2], 0, SubSeq(gaps, 1, k - 1)) + gaps[k][1]
     IN  [start |-> start, end |-> start + gaps[k][2], stop |-> stops[k]]]

CaptionSamples ==
  {[kind |-> "captions", words |-> Timed(g, s)] :
     g \in SeqsOfLen({<<0, 6>>, <<2, 25>>, <<90, 6>>}, 4), s \in SeqsOfLen(0..2, 4)}

SomeTurn(start, length, label) == [start |-> start, end |-> start + length, label |-> label]

SomeTurns ==
  {SomeTurn(s, l, v) : s \in {0, 7, 20}, l \in {4, 11, 30}, v \in {"a", "b"}}

InOrder(turns) == \A k \in 2..Len(turns) : turns[k - 1].start <= turns[k].start

TurnSamples ==
  {[kind |-> "turns", turns |-> t, from |-> w] :
     t \in {t \in SeqsOfLen(SomeTurns, 3) : InOrder(t)}, w \in {0, 10}}

\* Three segments, the second of two units, as the transcript has them; and whom
\* each unit sounds like.  The diarization gives the fourth unit to "b".
Speakers == [who : {"a", "b"}, over : BOOLEAN]

Passage(spans) ==
  [start |-> spans[1][1], end |-> spans[Len(spans)][2],
   words |-> [k \in 1..Len(spans) |-> [start |-> spans[k][1], end |-> spans[k][2], stop |-> TRUE]]]

Written(i, by, inherited) ==
  [segment |-> Passage(<< << <<0, 4>> >>, << <<5, 9>>, <<10, 14>> >>, << <<15, 19>> >> >>[i]),
   by |-> by, inherited |-> inherited]

VoiceSamples ==
  {[kind |-> "voices",
    segments |-> <<Written(1, b[1], FALSE), Written(2, b[2], i[2]), Written(3, b[3], i[3])>>,
    sounds |-> v] :
     b \in SeqsOfLen(Speakers, 3), i \in [2..3 -> BOOLEAN],
     v \in SeqsOfLen({"a", "b"}, 4)}

\* Who inherits a speaker has the one before.
LegalVoices ==
  {v \in VoiceSamples : \A k \in 2..3 : v.segments[k].inherited => v.segments[k].by = v.segments[k - 1].by}

\* How a frame scores for each label: none, one or two of them stand out.
Scores == {[l \in {Blank, 1, 2} |-> IF l \in likely THEN -1 ELSE -3] : likely \in {{}, {Blank}, {1}, {2}, {1, 2}}}
            \cup {[l \in {Blank, 1, 2} |-> IF l = 1 THEN -2 ELSE -5]}

AlignSamples ==
  {[kind |-> "ctc", probs |-> p, targets |-> t] :
     p \in SeqsOfLen(Scores, 4), t \in {<<1>>, <<1, 2>>, <<1, 1>>, <<1, 2, 1>>}}

SpeechSamples ==
  {[kind |-> "speech", turns |-> {<<s[1], s[1] + l[1]>>, <<s[2], s[2] + l[2]>>, <<s[3], s[3] + l[3]>>},
    length |-> 60] :
     s \in {0, 5, 28} \X {5, 14, 28} \X {30, 59, 70}, l \in SeqsOfLen({0, 3, 20}, 3)}

\* Three passages by two speakers, over each other or not, one of which may say
\* no more than a name; a time may be due.
SomePassage(k, by, words, due) ==
  [by |-> by, from |-> 1000 * k, to |-> 1000 * k + 999, due |-> due, words |-> words]

ExportSamples ==
  {[kind |-> "export", options |-> o,
    passages |-> <<SomePassage(0, b[1], << <<"word", "yes">>, <<"word", "no">> >>, TRUE),
                   SomePassage(1, b[2], w, TRUE),
                   SomePassage(2, b[3], << <<"word", "well">> >>, FALSE)>>] :
     o \in [stamps : BOOLEAN, diarized : BOOLEAN, format : {"html", "vtt"}],
     b \in SeqsOfLen({Unknown, Shown("Mona", FALSE), Shown("Lena", FALSE),
                      Shown("Mona", TRUE), Shown("Lena", TRUE)}, 3),
     w \in {<< <<"word", "Mona">> >>, << <<"word", "Mona">>, <<"word", "no">> >>}}

\* The raw label says whether a passage is over another's, and nobody speaks
\* over silence.
LegalExports ==
  {x \in ExportSamples : ~x.passages[1].by.over /\ (~x.options.diarized => \A k \in 1..3 : x.passages[k].by = Unknown)}

TypedSamples ==
  {[kind |-> "typed", name |-> n] : n \in SeqsOfLen({"x", "_", " ", ":"}, 5)}

FileSamples ==
  {[kind |-> "files", inputs |-> n, disk |-> d] :
     n \in SeqsOfLen({<<1>>, <<1, 1>>, <<1, 2>>, <<2>>}, 3),
     d \in SUBSET {<<1>>, <<1, 1>>, <<1, 2>>, <<1, 1, 1>>}}

ClockSamples ==
  {[kind |-> "clock", ms |-> h * 3600000 + m] : h \in {0, 9, 23}, m \in {0, 999, 1000, 59999, 60000, 3599999}}

\* "Mohna" sounds like Mona, "Lehna" like both Lenas.
SomeNames == {AWord("mona", "mona", TRUE, {}), AWord("lena", "lena", TRUE, {}), AWord("lena", "lehna", TRUE, {})}

SomeWords ==
  {AWord("mona", "mohna", u, k) : u \in BOOLEAN, k \in {{}, {"de"}}}
    \cup {AWord("lena", "laena", TRUE, {}), AWord("vita", "vita", FALSE, {"de"}), AWord("flor", "flor", FALSE, {})}

ListSamples ==
  {[kind |-> "list", text |-> t, entries |-> e, dictionaries |-> d] :
     t \in SeqsOfLen(SomeWords, 4), d \in {{}, {"de", "en"}},
     e \in {<< >>, <<[from |-> {<<"vita">>, <<"vita", "flor">>, <<"flor", "flor">>},
                      to |-> <<AWord("vitaflor", "vitaflor", TRUE, {})>>]>>}}

\* Two conv layers: four samples a frame, six in the first.
MCLayers == << [kernel |-> 4, stride |-> 2], [kernel |-> 2, stride |-> 2] >>

EmissionSamples ==
  {[kind |-> "emission", length |-> n, host |-> h] :
     n \in 0..12 \cup 40..49 \cup {75} \cup 84..90 \cup {121, 125},
     h \in {[mac |-> TRUE, recent |-> TRUE, mps |-> m, moves |-> TRUE, fails |-> {"mps"}] : m \in BOOLEAN}}

\* Where three words are put, by one alignment and by another.
SomeStamps ==
  {[k \in 1..3 |-> [start |-> a[k], end |-> a[k] + 4, real |-> r]] :
     a \in {<<0, 5, 10>>, <<0, 20, 25>>, <<0, 20, 44>>, <<30, 35, 44>>}, r \in BOOLEAN}

LevelSamples ==
  {[kind |-> "level", turns |-> t, first |-> f, second |-> s] :
     t \in {<<SomeTurn(0, 9, "a"), SomeTurn(9, 15, b), SomeTurn(20, 28, "a")>> : b \in {"a", "b"}}
            \cup {<<SomeTurn(0, 1, "a"), SomeTurn(3, 0, "b")>>},
     f \in SomeStamps, s \in SomeStamps}

LanguageSamples ==
  {[kind |-> "language",
    text |-> [letters |-> l, tokens |-> t,
              scripts |-> << [code |-> "ja", n |-> s[1]], [code |-> "zh", n |-> s[2]] >>,
              hits |-> << [code |-> "de", n |-> h[1]], [code |-> "en", n |-> h[2]], [code |-> "nl", n |-> h[3]] >>]] :
     l \in {39, 100}, t \in {39, 80}, s \in {<<0, 0>>, <<31, 20>>, <<31, 60>>, <<10, 30>>},
     h \in SeqsOfLen({0, 7, 8, 12, 18}, 3)}

\* Chunks of three frames for two speakers.
SomeChunks == {<<f, g, <<1, 0>> >> : f \in SeqsOfLen({0, 1, Nan}, 2), g \in SeqsOfLen({0, 1}, 2)}

EmbeddingSamples ==
  {[kind |-> "embeddings", chunks |-> <<c, d, <<f, f, f>> >>,
    p |-> [model |-> m, exclude |-> e, least |-> 1, batch |-> 2, fails |-> x, pipeline |-> "diarization"]] :
     c \in SomeChunks, d \in {<< <<1, 0>>, <<0, 1>>, <<1, Nan>> >>, << <<1, 1>>, <<1, 0>>, <<1, 0>> >>}, f \in {<<1, 1>>},
     m \in {"pools", "mixes", "one"}, e \in BOOLEAN, x \in {"no", "raises", "ends early"}}

\* "x:a" and "y:b" are said by x and y, or by z, in two anchors; names have one
\* or two letters.
SomeNamesTyped == {<<"x">>, <<"y">>, <<"z", "x">>}

RenameSamples ==
  {[kind |-> "rename", speakers |-> s, old |-> o, new |-> n, colon |-> c, whole |-> w] :
     s \in SeqsOfLen(SomeNamesTyped, 3), o \in SomeNamesTyped,
     n \in {<<"v">>, <<"x", "v">>}, c \in BOOLEAN, w \in BOOLEAN}

FeatureSamples ==
  [kind : {"features"}, length : 0 .. 60,
   h : {[hop |-> 2, reach |-> 3, chunk |-> c, back |-> 2] : c \in {3, 4}}]

\* Five frames of three columns, which are silent, heard alone or with another.
SomeFrames == {<<10, 20, 5>>, <<90, 20, 50>>, <<60, 95, 5>>, <<10, 55, 10>>, <<80, 5, 60>>}

EvidenceSamples == [kind : {"evidence"}, rows : SeqsOfLen(SomeFrames, 5)]

\* Two speakers, or three of whom one has no voice of its own, each a while, and
\* embeddings that may end before the spans.
HeardSamples ==
  {[kind |-> "heard", recording |-> FlattenSeq([k \in 1..3 |-> [x \in 1..r[k][2] |-> r[k][1]]]),
    matrix |-> m, missing |-> n] :
     r \in SeqsOfLen({"a", "b", "nobody"} \X {2, 5}, 3), n \in {0, 2},
     m \in {<< <<1, 0>>, <<0, 3>>, <<0, 0>> >>, << <<3, 4>>, Broken >>, << <<5, 0>>, <<0, 1>>, <<4, 3>> >>}}

Samples ==
  FeatureSamples \cup EvidenceSamples \cup HeardSamples \cup LoopSamples \cup CaptionSamples \cup TurnSamples \cup LegalVoices \cup AlignSamples \cup SpeechSamples
    \cup LegalExports \cup TypedSamples \cup FileSamples \cup ClockSamples \cup ListSamples
    \cup EmissionSamples \cup LevelSamples \cup LanguageSamples \cup EmbeddingSamples
    \cup RenameSamples

NoSample == [kind |-> "none"]

-----------------------------------------------------------------------------
(* All of it.                                                              *)

\* Where a part that stands still is.
OneMachine == CHOOSE m \in Machines : TRUE
OneRecording == CHOOSE r \in Recordings : TRUE
OneTask == CHOOSE t \in Tasks : TRUE
OneMedium == CHOOSE m \in Media : TRUE
OneRequest == CHOOSE r \in Requests : TRUE
OneJob == CHOOSE j \in Jobs : TRUE

EnginesInit ==
  /\ part \in Parts
  /\ IF part = "sample" THEN sample \in Samples ELSE sample = NoSample
  /\ part # "cuts" => machine = OneMachine
  /\ CutsInit
  /\ part # "ladder" => setup = [expects |-> TRUE, aligns |-> TRUE]
  /\ LadderInit
  /\ part # "file" => file = OneRecording /\ disk = {}
  /\ FileInit /\ BreakerInit
  /\ part # "align" => task = OneTask
  /\ AlignInit
  /\ part # "convert" => media = OneMedium /\ request = OneRequest /\ packet = 1
  /\ ConvertInit
  /\ part # "entry" => asked = OneJob
  /\ EntryInit

CutsAlone ==
  /\ part = "cuts" /\ CutsNext
  /\ UNCHANGED <<ladderVars, fileVars, breakerVars, alignVars, convertVars, entryVars>>
LadderAlone ==
  /\ part = "ladder" /\ LadderNext
  /\ UNCHANGED <<cutVars, fileVars, breakerVars, alignVars, convertVars, entryVars>>
FileAlone ==
  /\ part = "file" /\ FileNext
  /\ UNCHANGED <<cutVars, ladderVars, breakerVars, alignVars, convertVars, entryVars>>
BreakerAlone ==
  /\ part = "breaker" /\ Generates
  /\ UNCHANGED <<cutVars, ladderVars, fileVars, alignVars, convertVars, entryVars>>
AlignerAlone ==
  /\ part = "align" /\ AlignNext
  /\ UNCHANGED <<cutVars, ladderVars, fileVars, breakerVars, convertVars, entryVars>>
ConvertAlone ==
  /\ part = "convert" /\ ConvertNext
  /\ UNCHANGED <<cutVars, ladderVars, fileVars, breakerVars, alignVars, entryVars>>
EntryAlone ==
  /\ part = "entry" /\ EntryNext
  /\ UNCHANGED <<cutVars, ladderVars, fileVars, breakerVars, alignVars, convertVars>>

EnginesNext ==
  /\ \/ CutsAlone
     \/ LadderAlone
     \/ FileAlone
     \/ BreakerAlone
     \/ AlignerAlone
     \/ ConvertAlone
     \/ EntryAlone
  /\ UNCHANGED <<part, sample>>

EnginesSpec ==
  EnginesInit /\ [][EnginesNext]_<<part, sample, cutVars, ladderVars, fileVars, breakerVars, alignVars, convertVars, entryVars>>

-----------------------------------------------------------------------------
(* What the algorithms are for.                                            *)

Sampled(kind) == part = "sample" /\ sample.kind = kind

\* What is kept of a looping text does not loop (_salvage_prefix).
KeptIsClean == Sampled("loop") => LoopsAreCutOut(sample.words, sample.ends)

\* Every word is in one caption, in order; and a caption of several words stays
\* about as short as it may be, whatever pauses there are
\* (_segments_from_words).
CaptionsAreShort ==
  Sampled("captions") =>
    LET cues == Captions(sample.words)
    IN  /\ FlattenSeq(cues) = sample.words
        /\ \A k \in 1..Len(cues) : Len(cues[k]) > 1 => Duration(cues[k]) <= CueTime + 20

\* A window is never split where somebody is in the middle of a turn, though a
\* short turn lies within a longer one; 0.2 s of it may go (_turn_gap_split).
SplitsBetweenTurns ==
  Sampled("turns") =>
    LET window == Clip(sample.turns, sample.from, sample.from + 60)
    IN  window # << >> =>
          \A p \in TurnGapSplit(window, 60), k \in 1..Len(window) :
            ~(window[k].start < p - 2 /\ p < window[k].end)

\* The search for the turns in a span, which begins at the first turn it may
\* find, finds what looking at all of them does (turns_inside).
TurnsInsideAreAll ==
  Sampled("turns") =>
    \A span \in {[start |-> s, end |-> s + 8] : s \in {0, 5, 12, 24, 40}} :
      TurnsInside(sample.turns, span)
        = SelectSeq(sample.turns, LAMBDA t : Inside(t, span) > 0)

\* No word is lost or moved when the voices are heard, and where no passage goes
\* to another speaker the transcript comes back as it was, with every mark of
\* overlapping speech and every segment that follows its predecessor (relabel).
RelabelReproduces ==
  Sampled("voices") =>
    LET score(l) == [k \in {"a", "b"} |-> IF k = l THEN 90 ELSE 10]
        v == sample.sounds
        heard == << <<score(v[1])>>, <<score(v[2]), score(v[3])>>, <<score(v[4])>> >>
        done == Relabel(sample.segments, <<SomeTurn(10, 4, "b")>>, <<"a", "b">>, heard, 0)
        words(passages) ==
          FlattenSeq([k \in 1..Len(passages) |-> passages[k].segment.words])
    IN  /\ words(done.passages) = words(sample.segments)
        /\ done.moves = << >> =>
             done.passages = [k \in 1..3 |->
               [segment |-> sample.segments[k].segment,
                by |-> IF sample.segments[k].inherited THEN Silent ELSE sample.segments[k].by]]

\* The features that Nemotron hears are those of one pass, whatever their number,
\* though they are computed in pieces (features).
FeaturesAreOnePass ==
  Sampled("features") => Features(sample.length, sample.h) = OnePass(sample.length, sample.h)

\* Whom the diarization hears alone in all the frames that a unit touches gets
\* the unit, whoever had it; behind the last frame it stays whose it was
\* (encode_probabilities to Probabilities).
SoleVoiceGetsUnit ==
  Sampled("evidence") =>
    LET turns == TurnsOf(SpeakerDicts(sample.rows))
        e     == Probabilities(Encode(sample.rows), turns)
        known == DOMAIN e.columns
        touched(span) == span.start \div 2 + 1 .. Max({span.start \div 2 + 1, (span.end + 1) \div 2})
        alone(f, c) == Loud(sample.rows, f, c) /\ \A d \in 1..3 \ {c} : ~Loud(sample.rows, f, d)
        decided(span, own) ==
          Decide(own, Nobody, ProbabilityScores(e, span, 2), SetToSeq(known), ProbabilityMargins)
    IN  \A start \in 0..10, length \in 0..5, own \in known :
          LET span == [start |-> start, end |-> start + length] IN
          /\ \A c \in 1..3 : (\A f \in touched(span) : alone(f, c)) => decided(span, own) = ColumnLabel(c)
          /\ start = 10 => decided(span, own) = own

\* Who says all of a unit, and more than half of what is heard at least, gets it
\* where he has a voice of his own; and nobody gets one that is not heard
\* (_centroids, _embed_spans and Voice).
OwnVoiceGetsUnit ==
  Sampled("heard") =>
    LET centroids  == Centroids(<<"a", "b", "c">>, sample.matrix)
        known      == DOMAIN centroids
        length     == Len(sample.recording)
        spans      == FlattenSeq([s \in 1 .. length |-> [n \in 1 .. 3 |-> [start |-> s - 1, end |-> s - 1 + <<0, 3, 4>>[n]]]])
        embeddings == EmbedSpans(spans, 4, sample.recording)
        scores     == VoiceScores(centroids, spans, SubSeq(embeddings, 1, Len(spans) - sample.missing))
        decided(k, own) == Decide(own, Nobody, scores[k], SetToSeq(known), VoiceMargins(<< >>))
    IN  \A k \in 1..Len(spans), own \in known :
          LET says == {sample.recording[x] : x \in spans[k].start + 1 .. Min({length, spans[k].end})} IN
          /\ k > Len(spans) - sample.missing => decided(k, own) = own
          /\ \A l \in {"a", "b"} \cap known :
               (k <= Len(spans) - sample.missing /\ spans[k].start + 3 <= Min({length, spans[k].end})
                  /\ says = {l} /\ {"a", "b"} \subseteq known)
               => decided(k, own) = l

\* The frames of the audio are given to the letters in the way that scores best
\* (ctc_align.forced_align).
AlignmentIsBest ==
  Sampled("ctc") =>
    (Alignable(Len(sample.probs), sample.targets) => IsBestAlignment(sample.probs, sample.targets))

\* What the diarization takes for speech is what Whisper is given to transcribe
\* (speech_map).
SpeechIsMapped ==
  Sampled("speech") => MapsSpeech(sample.turns, sample.length)

\* Whatever file is made of a transcript, and by whom, it has the same words of
\* the same speakers at the same times, each once and in order: the text has the
\* page by its lines, the captions of the application leave the names and times
\* out, those of the editor the names and marks.  What is lost is a passage that
\* says no more than the name of its speaker (html_to_text, html_to_webvtt of
\* both programs).
SaidIn(pieces) == SelectSeq(pieces, LAMBDA x : x[1] = "word")

ExportsAgree ==
  Sampled("export") =>
    LET page == WrittenPage(sample.passages, sample.options)
        anchors == FlattenSeq(page)
        vtt == WebVtt(Page(page))
        lost(a) == SaidIn(FlattenSeq(a.data)) = << <<"word", a.speaker.name>> >>
        kept == SelectSeq(anchors, LAMBDA a : ~lost(a))
        edited == EditorCues(page)
    IN  /\ SaidIn(FlattenSeq(FlattenSeq([k \in 1..Len(anchors) |-> anchors[k].data])))
             = FlattenSeq([k \in 1..3 |-> sample.passages[k].words])
        /\ SaidIn(TextOf(Page(page)))
             = <<Title, Info, Info>> \o FlattenSeq([k \in 1..3 |-> sample.passages[k].words])
        /\ vtt.title = <<Title>> /\ vtt.info = <<Info, Info>>
        /\ Len(vtt.cues) \in Len(kept)..Len(anchors)
        /\ \A k \in 1..Len(kept) : \E c \in ToSet(vtt.cues) :
             /\ c.from = kept[k].from /\ c.to = kept[k].to /\ c.speaker = kept[k].speaker
             /\ SaidIn(c.text) = SaidIn(FlattenSeq(kept[k].data))
        /\ \A c \in ToSet(vtt.cues) : sample.options.format = "vtt" /\ ~c.speaker.over =>
             LabelPiece(c.speaker.name) \notin ToSet(c.text) /\ TimePiece \notin ToSet(c.text)
        /\ \A k \in 1..Len(anchors) :
             /\ SaidIn(edited[k].text) = SaidIn(FlattenSeq(anchors[k].data))
             /\ LabelPiece(edited[k].speaker) \notin ToSet(edited[k].text)

\* The name of a speaker, however it is typed, comes out of an anchor as it went
\* in, for the application, which splits it three times, and for the editor,
\* which may split it further (parse_speaker_names).
AnchorsRoundTrip ==
  Sampled("typed") =>
    LET name == Sanitized(sample.name)
    IN  \A limit \in {3, 4} : Split(AnchorName(name), limit) = <<<<"t">>, <<"1">>, <<"2">>, name>>

\* A time that is written and read again, as the start of another transcription is,
\* is the whole second it is in (ms_to_str, str_to_ms).
TimesRoundTrip ==
  Sampled("clock") =>
    LET t == MsToStr(sample.ms)
    IN  /\ \A k \in 1..4 : 0 <= t[k] /\ t[k] < <<24, 60, 60, 1000>>[k]
        /\ StrToMs(t) + t[4] = sample.ms

\* Each new file has a name that neither an old nor another new one has; and
\* all get one, or all that can be tried are taken (create_unique_filenames).
FilesAreNew ==
  Sampled("files") =>
    LET done == UniqueNames(sample.inputs, sample.disk)
    IN  /\ IsInjective(done.names)
        /\ ToSet(done.names) \cap sample.disk = {}
        /\ Len(done.names) < Len(sample.inputs) =>
             \E k \in 1..Len(sample.inputs) : \A i \in 0..(MaxTries - 1) :
               Incremented(sample.inputs[k], i) \in sample.disk \cup ToSet(done.names)

\* The corrections leave nothing to be corrected, touch no word that a
\* dictionary knows or that may be two people's name, and do nothing else
\* (apply_corrections, apply_name_corrections).
CorrectionsSettle ==
  Sampled("list") =>
    LET listed == ApplyCorrections(sample.text, sample.entries)
        done == Corrected(sample.text, sample.entries, SomeNames, sample.dictionaries)
        new == AWord("vitaflor", "vitaflor", TRUE, {})
    IN  /\ Corrected(done, sample.entries, SomeNames, sample.dictionaries) = done
        /\ Len(done) = Len(listed)
        /\ \A k \in 1..Len(done) : done[k] # listed[k] =>
             /\ sample.dictionaries # {} /\ listed[k].known = {} /\ listed[k].upper
             /\ done[k] \in SomeNames /\ done[k].sound = listed[k].sound /\ listed[k].sound = "mona"
        /\ LET left == SelectSeq(listed, LAMBDA w : w # new)
           IN  \A w \in ToSet(sample.text) : w.sound \notin {"vita", "flor"} =>
                 Len(SelectSeq(left, LAMBDA x : x = w)) = Len(SelectSeq(sample.text, LAMBDA x : x = w))
        /\ sample.entries # << >> => \A k \in 1..(Len(listed)) : listed[k].sound # "vita"

\* The windows the aligner is fed leave out less than it could take, a window's
\* level is its own, a device that fails costs no frame, and a frame's time,
\* which is told from its number by one rate for all, is off by less than two
\* frames and what was left out (_emission, _forward_windows, align_words).
FramesTellTime ==
  Sampled("emission") =>
    LET n == sample.length
        windows == EmissionWindows(n)
        heard == Emission(n, sample.host)
        left == IF windows = << >> THEN n ELSE n - Last(windows).to
    IN  /\ \A k \in 1..Len(windows) :
             /\ windows[k].from = IF k = 1 THEN 0 ELSE windows[k - 1].to
             /\ LevelOf(windows[k]).from <= windows[k].from /\ LevelOf(windows[k]).to = windows[k].to
             /\ LevelOf(windows[k]).to - LevelOf(windows[k]).from = Least(EmissionWindow, windows[k].to)
        /\ left \in 0..(Receptive - 1)
        /\ Len(heard) = PredictFrames(n)
        /\ \A f \in 1..Len(heard) : Apart((f - 1) * n, heard[f] * Len(heard)) <= (8 + left) * Len(heard)

\* The second alignment is never missed where it would have been taken; where it
\* is taken more of the speech has words near it and no more words are guessed.
\* Words that are spread evenly are near everything, and are not enough; where
\* somebody speaks alone nothing is levelled (_AlignerPool.align_words).
LevelsOnlyForSpeech ==
  Sampled("level") =>
    LET first == sample.first
        second == sample.second
        turns == sample.turns
        taken == TakenStamps(first, second, turns)
        all == << [start |-> 0, end |-> 60, real |-> TRUE] >>
    IN  /\ Covered(all, turns) = Cardinality(SpeechFrames(turns))
        /\ Covered(taken, turns) >= Covered(first, turns) /\ Guessed(taken) <= Guessed(first)
        /\ Cardinality(Voices(turns)) = 1 => taken = first
        /\ Cardinality(Voices(turns)) > 1 /\ IsBetter(second, first, turns) => taken = second

\* A language is told only where it clearly leads, so that the order of the tables
\* never decides; and never on thin evidence (_detect_language).
LanguageLeads ==
  Sampled("language") =>
    LET t == sample.text
        code == DetectLanguage(t)
        turned == [t EXCEPT !.hits = Reverse(@)]
    IN  /\ code = DetectLanguage(turned)
        /\ code # "none" => t.letters >= 40
        /\ code \in {"de", "en", "nl"} => 2 * Max({t.hits[k].n : k \in 1..3}) >= 16

\* Whatever the model does with masks and wherever the fast way fails, the
\* speakers get the embeddings pyannote would have given them
\* (install_fast_embeddings, fast_get_embeddings).
EmbeddingsAreStock ==
  Sampled("embeddings") =>
    Embeddings(sample.chunks, sample.p) = StockEmbeddings(sample.chunks, sample.p)

\* When a speaker is renamed everywhere to a name of one word, and nobody else's
\* name has the old one in it, the captions name him, nobody else is renamed,
\* and no label is left in a text (replace_all, replace_in_anchor_hrefs).
RenamedEverywhere ==
  Sampled("rename") =>
    LET label(name) == Append(name, ":")
        said == <<" ", "w">>
        document == [k \in 1..3 |-> [tail |-> sample.speakers[k], text |-> label(sample.speakers[k]) \o said]]
        typed(name) == IF sample.colon THEN label(name) ELSE name
        renamed == EditorReplacesAll(document, typed(sample.old), typed(sample.new), sample.whole)
        within(a, b) == \E i \in 1..Len(b) : IsAt(b, a, i)
        clear == \A k \in 1..3 : within(sample.old, sample.speakers[k]) => sample.speakers[k] = sample.old
        expected(name) == IF name = sample.old THEN sample.new ELSE name
        one == EditorReplaces(document, 2, 1, sample.speakers[2], sample.new)
    IN  /\ clear => \A k \in 1..3 :
             CaptionOf(renamed[k]) = [speaker |-> expected(sample.speakers[k]), text |-> <<"w">>]
        /\ CaptionOf(one[2]) = [speaker |-> sample.new, text |-> <<"w">>]
        /\ \A k \in {1, 3} : one[k] = document[k]

-----------------------------------------------------------------------------
(* The properties of the run that are made of several of these.            *)

\* Who speaks when stays what the diarization says and the sounds suggest, for the
\* one who cuts the audio, the one who transcribes it, the one who puts the words
\* in their places, and the one who listens to the voices.
TurnsAreKept == 
  SplitsBetweenTurns /\ TurnsInsideAreAll /\ SpeechIsMapped /\ RelabelReproduces /\ EmbeddingsAreStock
    /\ FeaturesAreOnePass /\ SoleVoiceGetsUnit /\ OwnVoiceGetsUnit /\ AlignmentIsBest /\ FramesTellTime
    /\ LevelsOnlyForSpeech

\* A text is the same in whatever form it leaves the program: in captions, as a
\* page, as text, for the application and for the editor, under a file name of
\* its own, without its loops, in the language it is in, and corrected where it
\* was to be and nowhere else.
TextIsKept ==
  CaptionsAreShort /\ ExportsAgree /\ AnchorsRoundTrip /\ TimesRoundTrip /\ FilesAreNew /\ CorrectionsSettle
    /\ RenamedEverywhere /\ KeptIsClean /\ LanguageLeads

=============================================================================
