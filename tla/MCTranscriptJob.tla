-------------------------- MODULE MCTranscriptJob --------------------------
(***************************************************************************)
(* Instances of TranscriptJob for TLC.  The times are in units of 100 ms.  *)
(***************************************************************************)
EXTENDS TranscriptJob

Word(start, end, stop) == [start |-> start, end |-> end, stop |-> stop]

Said(words) == [start |-> SpanOf(words).start, end |-> SpanOf(words).end,
                words |-> words, blank |-> FALSE]

Blank(start, end) == [start |-> start, end |-> end, words |-> << >>, blank |-> TRUE]

Turn(start, end, label) == [start |-> start, end |-> end, label |-> label]

\* Two voices take turns; the first segment straddles the change, and the
\* diarization is silent over the last.
Straddled ==
  [segments |-> << Said(<<Word(0, 6, TRUE), Word(7, 10, FALSE)>>), Blank(11, 12),
                   Said(<<Word(40, 44, TRUE)>>) >>,
   turns    |-> << Turn(0, 6, "a"), Turn(7, 22, "b") >>,
   chunks   |-> << [start |-> 0, end |-> 10], [start |-> 15, end |-> 20], [start |-> 40, end |-> 44] >>,
   duration |-> 50]

\* One voice talks into the turn of the other, who goes on.
Interrupted ==
  [segments |-> << Said(<<Word(0, 8, TRUE)>>), Said(<<Word(9, 12, TRUE)>>),
                   Said(<<Word(13, 20, TRUE)>>) >>,
   turns    |-> << Turn(0, 22, "a"), Turn(9, 12, "b") >>,
   chunks   |-> << [start |-> 0, end |-> 20] >>,
   duration |-> 22]

\* Nothing but noise.
Nothing ==
  [segments |-> << Blank(0, 2) >>, turns |-> << Turn(0, 2, "a") >>,
   chunks   |-> << >>, duration |-> 3]

MCTalks == {Straddled, Interrupted, Nothing}

Options(diarize, remote, names, runs) ==
  [diarize |-> diarize, remote |-> remote, autosave |-> TRUE, overlapping |-> TRUE,
   names |-> names, runs |-> runs]

\* The user's second name looks like a number.  A job without speakers is repeated.
MCSetups ==
  {Options(TRUE, remote, << <<"Mona", 0>>, Numbered(2) >>, 1) : remote \in BOOLEAN}
  \cup {Options(FALSE, remote, << >>, 2) : remote \in BOOLEAN}

MCVoices == <<"a", "b", "c">>

\* A unit sounds like one of the voices, or like nobody.
MCScores == {[l \in {"a", "b", "c"} |-> IF l = v THEN 90 ELSE 10] : v \in {"b", "c"}}
              \cup {[l \in {} |-> 0]}

=============================================================================
