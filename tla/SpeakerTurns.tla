---------------------------- MODULE SpeakerTurns ----------------------------
(***************************************************************************)
(* Who speaks, as the transcript has it (noScribe/main.py): the turn of    *)
(* the diarization that a segment goes under, its boundaries after the     *)
(* pauses of the voice activity detection, and the name a label is written *)
(* under.  Times are integers; a speaker is the string of the code taken   *)
(* apart: [who |-> "S01", over |-> TRUE] is "//S01".                       *)
(***************************************************************************)
EXTENDS Integers, Sequences, SequencesExt

CONSTANT PauseExtend  \* pause_extend: 200 ms, in the unit of the times

ASSUME PauseAssumption == PauseExtend \in Nat

Nobody == ""

Speaker(label) == [who |-> label, over |-> FALSE]

Silent == Speaker(Nobody)

-----------------------------------------------------------------------------
(* find_speaker and overlap_len.                                           *)

\* overlap_len is None: the turn begins after the span, or meets one without
\* length.  The search ends there.
EndsSearch(turn, span) ==
  \/ span.end < turn.start
  \/ span.start <= turn.end /\ span.end <= span.start

\* The numerator of overlap_len.
Overlap(turn, span) ==
  IF span.start > turn.end THEN 0
  ELSE Min({turn.end, span.end}) - Max({turn.start, span.start}) + 1

\* overlap_threshold: 80 % of the span.
Fits(overlap, span) == overlap > 0 /\ 5 * overlap >= 4 * (span.end - span.start)

Length(turn) == turn.end - turn.start

\* The turns that find_speaker looks at.
Searched(turns, span) ==
  SelectInSeq(turns, LAMBDA turn : EndsSearch(turn, span))

TurnsSearched(turns, span) ==
  IF Searched(turns, span) = 0 THEN turns ELSE SubSeq(turns, 1, Searched(turns, span) - 1)

\* One round of the loop: the best turn so far, and the next one.
Takes(best, turn, span) ==
  LET found == [turn |-> turn, overlap |-> Overlap(turn, span), shorter |-> best.shorter] IN
  IF Fits(best.overlap, span)
  THEN IF Fits(found.overlap, span) /\ Length(turn) < Length(best.turn)
       THEN [found EXCEPT !.shorter = TRUE] ELSE best
  ELSE IF found.overlap > best.overlap THEN found ELSE best

FindSpeaker(turns, span, overlapping) ==
  LET none == [turn |-> [start |-> 0, end |-> 0, label |-> Nobody], overlap |-> 0, shorter |-> FALSE]
      best == FoldLeft(LAMBDA b, turn : Takes(b, turn, span), none, TurnsSearched(turns, span))
  IN  [who |-> best.turn.label, over |-> overlapping /\ best.shorter]

-----------------------------------------------------------------------------
(* adjust_for_pause.                                                       *)

\* The pause after the i-th stretch of speech, widened on both sides.
PauseAfter(chunks, i, duration) ==
  [start |-> chunks[i].end - PauseExtend,
   end   |-> IF i = Len(chunks) THEN duration + PauseExtend
             ELSE chunks[i + 1].start + PauseExtend]

\* A boundary that falls into the pause moves to its near edge.
Trims(span, pause) ==
  [start |-> IF pause.start < span.start /\ span.start < pause.end
             THEN pause.end - PauseExtend ELSE span.start,
   end   |-> IF pause.start < span.end /\ span.end < pause.end
             THEN pause.start + PauseExtend ELSE span.end]

Trimmed(span, chunks, duration) ==
  LET step(s, i) ==
        LET pause == PauseAfter(chunks, i, duration) IN
        IF s.done \/ pause.start > s.span.end THEN [s EXCEPT !.done = TRUE]
        ELSE [s EXCEPT !.span = Trims(@, pause)]
  IN  FoldLeftDomain(LAMBDA s, i : step(s, i), [span |-> span, done |-> FALSE], chunks).span

AdjustForPause(span, chunks, duration) ==
  LET new == Trimmed(span, chunks, duration) IN
  IF new.start >= new.end THEN span ELSE new

-----------------------------------------------------------------------------
(* _apply_speaker_name, and the names that the voice check gives.          *)

\* The i-th name that the user gave, and the number n; one may look like the other.
Numbered(n) == <<"S", n>>

NoNames == [label \in {} |-> Numbered(0)]

\* The number of a label that finds no name: its place, or the next that is free.
NumberFor(named, names) ==
  LET taken == ToSet(names) \cup Range(named)
      place == Cardinality(DOMAIN named)
  IN  Numbered(CHOOSE n \in place .. place + Cardinality(taken) :
        /\ Numbered(n) \notin taken
        /\ \A k \in place .. n - 1 : Numbered(k) \in taken)

\* speaker_name_map after _apply_speaker_name.
ApplySpeakerName(named, label, names) ==
  IF label = Nobody \/ label \in DOMAIN named THEN named
  ELSE LET name == IF Cardinality(DOMAIN named) < Len(names)
                   THEN names[Cardinality(DOMAIN named) + 1]
                   ELSE NumberFor(named, names)
       IN  [l \in DOMAIN named \cup {label} |-> IF l = label THEN name ELSE named[l]]

\* Fault: the names go to the voices in the order heard, whoever had one.
NamesInOrderHeard(named, heard, names) ==
  FoldLeft(LAMBDA m, l : ApplySpeakerName(m, l, names), NoNames, heard)

\* check_voices: the voices that had a name, and as many newcomers as names are
\* left over, share the names in the order heard; the others come after them.
NamesAfterCheck(named, heard, names) ==
  LET kept      == {l \in DOMAIN named : named[l] \in ToSet(names)}
      newcomers == SelectSeq(heard, LAMBDA l : l \notin kept)
      free      == Max({0, Len(names) - (Len(heard) - Len(newcomers))})
      lead      == kept \cup ToSet(SubSeq(newcomers, 1, Min({free, Len(newcomers)})))
      order     == SelectSeq(heard, LAMBDA l : l \in lead)
                     \o SubSeq(newcomers, free + 1, Len(newcomers))
  IN  FoldLeft(LAMBDA m, l : ApplySpeakerName(m, l, names), NoNames, order)

=============================================================================
