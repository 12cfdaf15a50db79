---------------------------- MODULE VoxtralText ----------------------------
(***************************************************************************)
(* What the Voxtral engine computes from words, turns and time stamps      *)
(* (noScribe/voxtral_engine.py): where a text loops and what of it can be  *)
(* kept, the opening a long pass dropped, the turn boundary to split at,   *)
(* the language of the file, and captions.                                 *)
(* Words are model values or small numbers; a sequence is indexed from 1.  *)
(* Times are in tenths of a second.                                        *)
(***************************************************************************)
EXTENDS Integers, Sequences, SequencesExt, FiniteSets, FiniteSetsExt

CONSTANTS
  CycleWords,   \* DEGENERATE_CYCLE_MAX_WORDS
  CycleRepeats, \* DEGENERATE_CYCLE_REPEATS
  AnchorWords,  \* HEAD_ANCHOR_WORDS
  AnchorHits,   \* HEAD_ANCHOR_MIN_HITS
  CueWords,     \* SUB_MAX_WORDS
  CueTime,      \* SUB_MAX_SEC
  CueMin        \* SUB_MIN_WORDS

ASSUME TextAssumption ==
  /\ CycleWords \in Nat \ {0} /\ CycleRepeats \in Nat \ {0}
  /\ AnchorWords \in Nat \ {0} /\ AnchorHits \in 1..AnchorWords

-----------------------------------------------------------------------------
(* Loops.                                                                  *)

\* The words from first-k to last are a cycle of k words, again and again.
Cycle(words, k, first, last) ==
  first > k /\ last <= Len(words) /\ \A i \in first..last : words[i] = words[i - k]

\* How often the k words stand there, of a run of n positions.
Times(n, k) == (n + k) \div k

LongestCycle(words) ==
  Max({0} \cup {Times(r[3] - r[2] + 1, r[1]) :
                  r \in {r \in (1..CycleWords) \X (1..Len(words)) \X (1..Len(words)) :
                           r[2] <= r[3] /\ Cycle(words, r[1], r[2], r[3])}})

LooksDegenerate(words) == LongestCycle(words) >= CycleRepeats

\* The maximal runs that repeat a cycle of k words often enough, as [first, last]
\* of the words they take up.
Spans(words, k) ==
  {[first |-> r[1] - k, last |-> r[2]] :
     r \in {r \in (1..Len(words)) \X (1..Len(words)) :
              /\ r[1] <= r[2] /\ Cycle(words, k, r[1], r[2])
              /\ ~Cycle(words, k, r[1] - 1, r[2]) /\ ~Cycle(words, k, r[1], r[2] + 1)
              /\ (r[2] - r[1] + 1 + k) \div k >= CycleRepeats}}

\* The earliest one; none is the empty set.
DegenerateSpan(words) ==
  LET all == UNION {Spans(words, k) : k \in 1..CycleWords}
  IN  {s \in all : \A t \in all : s.first <= t.first}

\* How many words to keep: up to the last sentence that ends before the loop.
PrefixEnd(ends, first) == Max({0} \cup {i \in ends : i < first})

\* _salvage_prefix: what is kept of `words`, whose sentences end at `ends`.
KeptPrefix(words, ends) ==
  LET spans == DegenerateSpan(words)
  IN  IF spans = {} THEN << >>
      ELSE SubSeq(words, 1, PrefixEnd(ends, Min({s.first : s \in spans})))

\* What is kept of a looping text does not loop, and where a text that looks
\* degenerate loops can be said (_looks_degenerate, _degenerate_span,
\* _salvage_prefix).
LoopsAreCutOut(words, ends) ==
  /\ ~LooksDegenerate(KeptPrefix(words, ends))
  /\ LooksDegenerate(words) <=> DegenerateSpan(words) # {}

-----------------------------------------------------------------------------
(* The opening a long pass dropped (_find_anchor, _recover_lost_head).     *)

Hits(probe, anchor, i) ==
  Cardinality({k \in 1..Len(anchor) : probe[i + k - 1] = anchor[k]})

\* The first of the best places.
AnchorPlace(places, hits) == Min({i \in places : \A j \in places : hits[j] <= hits[i]})

\* How many words of the probe come before the anchor: a set of at most one.
FindAnchor(probe, anchor) ==
  LET places == 1..(Len(probe) - Len(anchor) + 1)
      hits == [i \in places |-> Hits(probe, anchor, i)]
      at == AnchorPlace(places, hits)
  IN  IF places = {} \/ hits[at] < AnchorHits THEN {} ELSE {at - 1}

\* `probes`: what the heads of growing length read, while they may grow.
RecoverHead(text, probes) ==
  LET found(p) == FindAnchor(probes[p], SubSeq(text, 1, AnchorWords))
      usable == {p \in 1..Len(probes) : \A q \in 1..p : ~LooksDegenerate(probes[q])}
      hit == {p \in usable : found(p) # {}}
  IN  IF Len(text) < AnchorWords \/ hit = {} THEN text
      ELSE LET p == Min(hit)
               at == CHOOSE n \in found(p) : TRUE
           IN  SubSeq(probes[p], 1, at) \o text

-----------------------------------------------------------------------------
(* Where to split (_clip_turns, _turn_gap_split).                          *)

\* What is left of the turns in a window, a twentieth of a second or more.
Clip(turns, w0, w1) ==
  SelectSeq([k \in 1..Len(turns) |->
               [turns[k] EXCEPT !.start = Max({@, w0}) - w0, !.end = Min({@, w1}) - w0]],
            LAMBDA t : t.end > t.start)

\* A bug: only the turn before counts.
SpeaksUntilLast(ordered, k) == k - 1

\* Who speaks furthest before the k-th turn; of two, the later.
SpeaksUntil(ordered, k) ==
  Max({i \in 1..(k - 1) : \A j \in 1..(k - 1) : ordered[j].end <= ordered[i].end})

\* The boundaries to split at, of turns ordered by their start: another speaker
\* begins when nobody speaks, 0.2 s of overlap aside.
TurnGaps(ordered, length) ==
  {p \in {LET before == ordered[SpeaksUntil(ordered, k)]
          IN  IF ordered[k].label # before.label /\ ordered[k].start >= before.end - 2
              THEN (before.end + Max({ordered[k].start, before.end})) \div 2 ELSE -1
            : k \in 2..Len(ordered)} :
     length \div 4 <= p /\ p <= (3 * length) \div 4}

Distance(a, b) == IF a < b THEN b - a ELSE a - b

\* The ones closest to the middle, before they are moved to a quiet frame nearby.
TurnGapSplit(ordered, length) ==
  LET gaps == TurnGaps(ordered, length)
  IN  {p \in gaps : \A q \in gaps : Distance(p, length \div 2) <= Distance(q, length \div 2)}

-----------------------------------------------------------------------------
(* Language.                                                               *)

\* _reads_as_other; `Names` are the languages the detector can name.
ReadsAsOther(got, want, names) ==
  got # "none" /\ want # "none" /\ got # want /\ (want \in names \/ got = "en")

\* _file_language
FileLanguage(tally) ==
  LET best == {l \in DOMAIN tally : \A k \in DOMAIN tally \ {l} : tally[l] > tally[k]}
  IN  IF \E l \in best : tally[l] >= 2 THEN CHOOSE l \in best : TRUE ELSE "none"

-----------------------------------------------------------------------------
(* Captions (_segments_from_words): words [start, end, stop], stop 2 at the *)
(* end of a sentence, 1 at that of a clause, 0 else.  The width of a line  *)
(* in characters is left to CueWords.                                      *)

Duration(cue) == cue[Len(cue)].end - cue[1].start

EndsCue(cue) ==
  \/ cue[Len(cue)].stop = 2
  \/ /\ Len(cue) >= CueMin /\ cue[Len(cue)].stop = 1 /\ 20 * Duration(cue) >= 11 * CueTime
  \/ Len(cue) >= CueWords \/ Duration(cue) >= CueTime

AddsWord(acc, w) ==
  LET full == acc.cue # << >> /\ w.end - acc.cue[1].start > CueTime
      done == IF full THEN Append(acc.done, acc.cue) ELSE acc.done
      cue  == IF full THEN <<w>> ELSE Append(acc.cue, w)
  IN  IF EndsCue(cue) THEN [done |-> Append(done, cue), cue |-> << >>]
      ELSE [done |-> done, cue |-> cue]

\* A fragment goes back to the cue before, if that stays short enough.
Fragment(cue) == Len(cue) = 1 \/ (Len(cue) = 2 /\ Duration(cue) < 12)

MergesCue(cues, cue) ==
  IF /\ cues # << >> /\ Fragment(cue)
     /\ Len(Last(cues) \o cue) <= CueWords + 3 /\ Duration(Last(cues) \o cue) <= CueTime + 20
  THEN Append(Front(cues), Last(cues) \o cue)
  ELSE Append(cues, cue)

Captions(words) ==
  LET made == FoldLeft(AddsWord, [done |-> << >>, cue |-> << >>], words)
      cues == IF made.cue = << >> THEN made.done ELSE Append(made.done, made.cue)
  IN  FoldLeft(MergesCue, << >>, cues)

=============================================================================
