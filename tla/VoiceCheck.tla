----------------------------- MODULE VoiceCheck -----------------------------
(***************************************************************************)
(* The second opinion on who speaks (noScribe/voice_check.py): a segment   *)
(* is cut into units where a speaker can change, every unit is held        *)
(* against the voices, and the segments come back as passages, each with   *)
(* the speaker to write it under.                                          *)
(*   a word     [start, end, stop]; stop: it ends a sentence               *)
(*   a segment  [start, end, words]; words is << >> too when a word has no *)
(*              times                                                      *)
(*   a score    in hundredths                                              *)
(***************************************************************************)
EXTENDS SpeakerTurns

CONSTANT UnitPause  \* UNIT_PAUSE_S, in the unit of the times

ASSUME UnitAssumption == UnitPause \in Nat \ {0}

MarginAgree    == 0   \* MARGIN_AGREE
MarginOverrule == 12  \* MARGIN_OVERRULE
ScaleFloor     == 50  \* MARGIN_SCALE_FLOOR, in hundredths

-----------------------------------------------------------------------------
(* split_units *)

CutAfter(words, i) ==
  \/ i = Len(words)
  \/ words[i].stop
  \/ words[i + 1].start - words[i].end >= UnitPause

SplitUnits(words) ==
  LET cuts == SetToSortSeq({i \in DOMAIN words : CutAfter(words, i)}, <) IN
  [k \in DOMAIN cuts |-> SubSeq(words, IF k = 1 THEN 1 ELSE cuts[k - 1] + 1, cuts[k])]

SpanOf(words) == [start |-> words[1].start, end |-> words[Len(words)].end]

-----------------------------------------------------------------------------
(* turns_inside *)

\* Where the first of the greatest values is: max() over a dict.
FirstBest(values) == SelectInSeq(values, LAMBDA v : \A w \in ToSet(values) : w <= v)

Inside(turn, span) ==
  Max({0, Min({turn.end, span.end}) - Max({turn.start, span.start})})

\* The running maximum of the ends, and the first turn whose maximum reaches the
\* span: no turn before it can overlap it.
EndsSoFar(turns, i) == Max({turns[j].end : j \in 1..i})

FirstTurn(turns, span) ==
  LET reaching == {i \in DOMAIN turns : EndsSoFar(turns, i) >= span.start} IN
  IF reaching = {} THEN Len(turns) + 1 ELSE Min(reaching)

\* The scan ends at a turn that begins after the span.
Scanned(turns, span) ==
  {i \in FirstTurn(turns, span)..Len(turns) :
     \A j \in FirstTurn(turns, span)..i : turns[j].start <= span.end}

TurnsAt(turns, places) ==
  LET order == SetToSortSeq(places, <) IN [k \in DOMAIN order |-> turns[order[k]]]

\* The turns that have a part in the span, in their order.
TurnsInside(turns, span) ==
  TurnsAt(turns, {i \in Scanned(turns, span) : Inside(turns[i], span) > 0})

TimeOf(label, inside, span) ==
  FoldLeft(LAMBDA sum, turn : IF turn.label = label THEN sum + Inside(turn, span) ELSE sum,
           0, inside)

\* The label with most of the turns' time in the span; Nobody when there is none.
NamedByTurns(inside, span) ==
  IF inside = << >> THEN Nobody
  ELSE inside[FirstBest([k \in DOMAIN inside |-> TimeOf(inside[k].label, inside, span)])].label

-----------------------------------------------------------------------------
(* margin_scale and decide.  The scores of a unit are a function on the    *)
(* labels that have one, empty when there is nothing to go by; `labels` is *)
(* the order of the evidence's labels.                                     *)

\* By how much a unit favours its own speaker over the best of the others.
OwnMargin(own, scores) ==
  scores[own] - Max({scores[l] : l \in DOMAIN scores \ {own}})

\* units: a sequence of [own, scores, long], long: UNIT_SCALE_MIN_S or more.
\* Hundredths of the median of the positive margins over MARGIN_SCALE_REF (0.5).
MarginScale(units) ==
  LET telling == SelectSeq(units, LAMBDA u :
                   u.long /\ u.own \in DOMAIN u.scores /\ Cardinality(DOMAIN u.scores) > 1
                     /\ OwnMargin(u.own, u.scores) > 0)
      sorted  == SortSeq([i \in DOMAIN telling |-> OwnMargin(telling[i].own, telling[i].scores)], <)
      n       == Len(sorted)
      middle  == n \div 2
      typical == IF n % 2 = 1 THEN 2 * sorted[middle + 1]
                 ELSE sorted[middle] + sorted[middle + 1]
  IN  IF n = 0 THEN 100 ELSE Max({ScaleFloor, Min({100, typical})})

\* margins: [agree, overrule], in ten-thousandths.
VoiceMargins(units) ==
  [agree |-> MarginAgree * MarginScale(units), overrule |-> MarginOverrule * MarginScale(units)]

Decide(current, named, scores, labels, margins) ==
  LET agreed == IF named # current /\ named \in DOMAIN scores
                   /\ 100 * (scores[named] - scores[current]) > margins.agree
                THEN named ELSE current
      known  == SelectSeq(labels, LAMBDA l : l \in DOMAIN scores)
      best   == known[FirstBest([k \in DOMAIN known |-> scores[known[k]]])]
  IN  IF current \notin DOMAIN scores THEN current
      ELSE IF best # agreed /\ 100 * (scores[best] - scores[agreed]) > margins.overrule
      THEN best ELSE agreed

-----------------------------------------------------------------------------
(* relabel *)

\* The units of a segment that was written under a speaker the evidence knows.
UnitsOf(written, labels) ==
  IF written.by.who \in ToSet(labels) THEN SplitUnits(written.segment.words) ELSE << >>

\* A unit without length goes with the unit before it, or the one after.
Filled(labels, base) ==
  [i \in DOMAIN labels |->
     LET known == {j \in DOMAIN labels : labels[j] # Nobody}
         before == {j \in known : j <= i}
     IN  IF before # {} THEN labels[Max(before)]
         ELSE IF known # {} THEN labels[Min(known)] ELSE base]

\* The labels of a segment's units: `base` is held against turns and scores.
LabelsOf(units, scores, base, turns, labels, margins) ==
  Filled([i \in DOMAIN units |->
    LET span  == SpanOf(units[i])
        named == IF Len(units) > 1 THEN NamedByTurns(TurnsInside(turns, span), span) ELSE Nobody
    IN  IF span.end <= span.start THEN Nobody
        ELSE Decide(base, named, scores[i], labels, margins)], base)

\* Units that follow one another under one label are one passage; a segment that
\* is one passage stays itself.
RunsOf(segment, units, labels, base) ==
  LET heads == SetToSortSeq({i \in DOMAIN labels : i = 1 \/ labels[i] # labels[i - 1]}, <)
      last(k) == IF k = Len(heads) THEN Len(units) ELSE heads[k + 1] - 1
      words(k) == FlattenSeq(SubSeq(units, heads[k], last(k)))
  IN  IF Len(heads) < 2
      THEN << [label |-> IF labels = << >> THEN base ELSE labels[1], passage |-> segment] >>
      ELSE [k \in DOMAIN heads |->
              [label |-> labels[heads[k]],
               passage |-> [segment EXCEPT !.start = SpanOf(words(k)).start,
                                           !.end = SpanOf(words(k)).end, !.words = words(k)]]]

\* The speaker to write a passage under.  s: floorWas and floor, who holds the
\* floor in the transcript and after the moves so far; state, whom the writer is
\* in.  Overlapping speech stays marked, unless the voice now is the one that
\* holds the floor.
SpeakerOf(s, written, label, first, base) ==
  IF written.inherited /\ first /\ label = base THEN Silent
  ELSE [who |-> label,
        over |-> /\ written.by.over /\ ~written.inherited
                 /\ ~(label = s.floor /\ (label # written.by.who \/ s.floor # s.floorWas))]

Writes(s, written, run, first, base) ==
  LET speaker == SpeakerOf(s, written, run.label, first, base)
      under   == IF speaker = Silent THEN s.state ELSE speaker
  IN  [s EXCEPT
        !.moves = IF under.who # written.by.who
                  THEN Append(@, [passage |-> run.passage, before |-> written.by, after |-> under])
                  ELSE @,
        !.passages = Append(@, [segment |-> run.passage, by |-> speaker]),
        !.state = under,
        !.floor = IF speaker = Silent \/ speaker.over THEN @ ELSE run.label]

\* The passages of one segment; scores are those of its units.
RelabelSegment(s, written, scores, turns, labels, margins) ==
  LET base  == IF written.inherited /\ s.state.who \in ToSet(labels)
               THEN s.state.who ELSE written.by.who
      units == UnitsOf(written, labels)
      runs  == RunsOf(written.segment, units,
                 LabelsOf(units, scores, base, turns, labels, margins), base)
      done  == FoldLeftDomain(LAMBDA t, k : Writes(t, written, runs[k], k = 1, base), s, runs)
  IN  [done EXCEPT !.floorWas = IF written.by.over THEN @ ELSE written.by.who]

\* segments: a sequence of [segment, by, inherited]; scores: for each of them the
\* scores of its units; least: UNIT_SCALE_MIN_S.
Relabel(segments, turns, labels, scores, least) ==
  LET units   == FlattenSeq([i \in DOMAIN segments |->
                   LET us == UnitsOf(segments[i], labels) IN
                   [k \in DOMAIN us |-> [own |-> segments[i].by.who, scores |-> scores[i][k],
                                         long |-> SpanOf(us[k]).end - SpanOf(us[k]).start >= least]]])
      margins == VoiceMargins(units)
      start   == [passages |-> << >>, moves |-> << >>, floorWas |-> Nobody,
                  floor |-> Nobody, state |-> Silent]
  IN  IF Cardinality(ToSet(labels)) < 2
      THEN [start EXCEPT !.passages =
             [i \in DOMAIN segments |->
                [segment |-> segments[i].segment,
                 by |-> IF segments[i].inherited THEN Silent ELSE segments[i].by]]]
      ELSE FoldLeftDomain(LAMBDA s, i :
             RelabelSegment(s, segments[i], scores[i], turns, labels, margins), start, segments)

=============================================================================
