--------------------------- MODULE VoxtralEmission ---------------------------
(***************************************************************************)
(* What the Voxtral engine's aligner hears and which alignment is taken    *)
(* (noScribe/voxtral_engine.py): the windows the audio is fed to the model *)
(* in and their frames (_emission, _forward_windows, _predict_frames), the *)
(* second, level-matched alignment (_AlignerPool.align_words), the         *)
(* language a text is in (_detect_language), and the memory profile a      *)
(* build's name stands for (_model_kind).                                  *)
(***************************************************************************)
EXTENDS Integers, FiniteSetsExt, SequencesExt

CONSTANTS
  EmissionWindow,  \* EMISSION_WINDOW_SEC
  Receptive,       \* the shortest audio the model takes
  Layers,          \* its convolutions, each [kernel, stride]
  CoverFrame,      \* COVERAGE_FRAME_SEC
  CoverReach       \* COVERAGE_REACH_SEC

ASSUME EmissionAssumption ==
  /\ EmissionWindow \in Nat \ {0} /\ Receptive \in 1..EmissionWindow
  /\ CoverFrame \in Nat \ {0} /\ CoverReach \in Nat

-----------------------------------------------------------------------------
(* Windows and frames.  Samples are the unit of time.                      *)

\* The model runs on the graphics chip of a Mac that is new enough and has one,
\* if it can be moved there.
AlignDevice(host) == IF host.mac /\ host.recent /\ host.mps THEN "mps" ELSE "cpu"
Device(host) == IF host.moves THEN AlignDevice(host) ELSE "cpu"

\* A rest that is too short for the model is left out.
EmissionWindows(n) ==
  LET all == [k \in 1..((n + EmissionWindow - 1) \div EmissionWindow) |->
                [from |-> (k - 1) * EmissionWindow, to |-> Min({k * EmissionWindow, n})]]
  IN  SelectSeq(all, LAMBDA w : w.to - w.from >= Receptive)

\* The samples a window's level is taken from: as many as a window has, up to its end.
LevelOf(w) == [from |-> Max({0, w.to - EmissionWindow}), to |-> w.to]

\* The frames of a window of some length.
FramesIn(length) ==
  Max({0, FoldLeft(LAMBDA out, l : (out - l.kernel) \div l.stride + 1, length, Layers)})

PredictFrames(n) ==
  FoldLeft(LAMBDA total, w : total + FramesIn(w.to - w.from), 0, EmissionWindows(n))

\* When each frame was heard: where its stride begins.
HeardAt(n) ==
  LET stride == FoldLeft(LAMBDA s, l : s * l.stride, 1, Layers)
      windows == EmissionWindows(n)
  IN  FlattenSeq([k \in 1..Len(windows) |->
        [f \in 1..FramesIn(windows[k].to - windows[k].from) |-> windows[k].from + (f - 1) * stride]])

\* Where a device fails the CPU does all of it again; if that fails it raises.
Raised == << -1 >>

Emission(n, host) ==
  IF Device(host) \in host.fails /\ "cpu" \in host.fails THEN Raised ELSE HeardAt(n)

-----------------------------------------------------------------------------
(* The level-matched alignment.  Turns and stamps are relative to the      *)
(* window; a stamp is [start, end, real].                                  *)

FramesOf(from, to) == (from \div CoverFrame)..(to \div CoverFrame - 1)

SpeechFrames(turns) == UNION {FramesOf(turns[k].start, turns[k].end) : k \in 1..Len(turns)}

NearFrames(stamps) ==
  UNION {(Max({0, stamps[k].start - CoverReach}) \div CoverFrame)
            ..((stamps[k].end + CoverReach) \div CoverFrame) : k \in 1..Len(stamps)}

\* _speech_coverage, in frames of those that are speech.
Covered(stamps, turns) == Cardinality(SpeechFrames(turns) \cap NearFrames(stamps))
Speech(turns) == Max({1, Cardinality(SpeechFrames(turns))})

Guessed(stamps) == Cardinality({k \in 1..Len(stamps) : ~stamps[k].real})

Voices(turns) == {turns[k].label : k \in 1..Len(turns)}

\* Coverage that misses less than a twentieth of the speech cannot be bettered.
NeedsLevelling(first, turns) ==
  Cardinality(Voices(turns)) > 1 /\ 20 * Covered(first, turns) < 19 * Speech(turns)

IsBetter(second, first, turns) ==
  /\ 20 * Covered(second, turns) > 20 * Covered(first, turns) + Speech(turns)
  /\ Guessed(second) <= Guessed(first)

TakenStamps(first, second, turns) ==
  IF NeedsLevelling(first, turns) /\ IsBetter(second, first, turns) THEN second ELSE first

-----------------------------------------------------------------------------
(* The language of a text.                                                 *)

\* `letters` and `tokens` count; `scripts` are the letters of each script and
\* `hits` the function words of each language, in the order of their tables.
DetectLanguage(text) ==
  LET script == {k \in 1..Len(text.scripts) : 10 * text.scripts[k].n > 3 * text.letters}
      ranked == {k \in 1..Len(text.hits) :
                   \A j \in 1..Len(text.hits) :
                     IF j < k THEN text.hits[j].n < text.hits[k].n
                     ELSE text.hits[j].n <= text.hits[k].n}
      best == CHOOSE k \in ranked : TRUE
      second == Max({text.hits[j].n : j \in (1..Len(text.hits)) \ {best}})
      n == text.hits[best].n
  IN  CASE text.letters < 40 -> "none"
        [] text.letters >= 40 /\ script # {} -> text.scripts[Min(script)].code
        [] OTHER ->
             IF text.tokens >= 40 /\ n >= 8 /\ 2 * n >= 3 * Max({second, 1}) /\ 25 * n >= text.tokens
             THEN text.hits[best].code ELSE "none"

-----------------------------------------------------------------------------
(* The profile of a build, by what its name has in it.                     *)

ModelKind(name) ==
  IF {"small", "24b"} \cap name # {} THEN
    CASE "8bit" \in name -> "small8"
      [] "8bit" \notin name /\ "6bit" \in name -> "small6"
      [] {"8bit", "6bit"} \cap name = {} /\ "4bit" \in name -> "small"
      [] OTHER -> "small8"
  ELSE IF {"mini", "3b"} \cap name # {} THEN (IF "8bit" \in name THEN "mini8" ELSE "mini")
  ELSE "small8"

\* MEM_MODEL, in tenths of a gigabyte and ten-thousandths for each second.
Profile(kind) ==
  CASE kind = "mini"   -> [fixed |-> 79,  slope |-> 160]
    [] kind = "mini8"  -> [fixed |-> 65,  slope |-> 60]
    [] kind = "small"  -> [fixed |-> 165, slope |-> 70]
    [] kind = "small6" -> [fixed |-> 209, slope |-> 135]
    [] kind = "small8" -> [fixed |-> 274, slope |-> 135]

=============================================================================
