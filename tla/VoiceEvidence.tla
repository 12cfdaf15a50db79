---------------------------- MODULE VoiceEvidence ----------------------------
(***************************************************************************)
(* What the voice check goes by (VoiceCheck): the probabilities that       *)
(* Nemotron gives each speaker, frame by frame, as they leave its worker   *)
(* (nemotron_mp_worker.py) and are asked of a unit; or the voices of the   *)
(* speakers, with which pyannote's worker compares each unit               *)
(* (pyannote_mp_worker.py).  Before that, the features that Nemotron       *)
(* hears, computed piece by piece.                                         *)
(*   a frame        the probability of each column, in hundredths          *)
(*   an embedding   a vector of integers, None, or Broken: zeros or NaN    *)
(***************************************************************************)
EXTENDS VoiceCheck

None == << >>
Broken == << 0, 0 >>

-----------------------------------------------------------------------------
(* features: the spectrogram of `length` samples.  A frame is the samples  *)
(* that it sees, and whether it is masked.  h: hop, reach (half a window   *)
(* and the sample of the pre-emphasis), chunk (frames of a streaming call) *)
(* and back (frames the last call begins earlier).                         *)

Sees(from, to, center, h) ==
  [samples |-> {x \in from .. to - 1 : center - h.reach <= x /\ x < center + h.reach}, masked |-> FALSE]

Padding == [samples |-> {}, masked |-> TRUE]

\* External: an offline call, and a streaming one, of which `first` is padded.
CallSees(from, to, k, h) == Sees(from, to, from + k * h.hop, h)
ChunkStart(c, h) == IF c = 0 THEN 0 ELSE c * h.chunk * h.hop - h.reach
ChunkEnd(c, h) ==
  ChunkStart(c, h) + (h.chunk - 1) * h.hop + (IF c = 0 THEN h.reach ELSE 2 * h.reach)
StreamSees(c, k, h) ==
  Sees(ChunkStart(c, h), ChunkEnd(c, h),
       ChunkStart(c, h) + (IF c = 0 THEN 0 ELSE h.reach) + k * h.hop, h)

\* One pass gives a frame more than are valid.
OnePass(length, h) ==
  [f \in 0 .. length \div h.hop |->
     IF f = length \div h.hop THEN Padding ELSE CallSees(0, length, f, h)]

\* The frames that the whole chunks have, and where the last call begins.
Streamed(length, h) == h.chunk * Cardinality({c \in 0 .. length : ChunkEnd(c, h) <= length})
LastCall(done, h) == Max({0, done - h.back})

Features(length, h) ==
  LET done == Streamed(length, h)
      tail == LastCall(done, h)
  IN  IF length <= ChunkEnd(0, h) THEN OnePass(length, h)
      ELSE [f \in 0 .. length \div h.hop |->
              IF f < done THEN StreamSees(f \div h.chunk, f % h.chunk, h)
              ELSE IF f < length \div h.hop THEN CallSees(tail * h.hop, length, f - tail, h)
              ELSE Padding]

-----------------------------------------------------------------------------
(* The result of Nemotron's worker: turns, and the rows of probabilities,  *)
(* which are more than the frames with sound by one.                       *)

\* label
ColumnLabel(column) == <<"a", "b", "c">>[column]

\* External: extract_speaker_dict, a column's frames above the threshold in a row.
Loud(rows, f, c) == f \in 1 .. Len(rows) - 1 /\ rows[f][c] > 50

SpeakerDicts(rows) ==
  FlattenSeq([c \in DOMAIN rows[1] |->
    LET starts == SelectSeq([f \in 1 .. Len(rows) |-> f], LAMBDA f : Loud(rows, f, c) /\ ~Loud(rows, f - 1, c)) IN
    [k \in DOMAIN starts |->
       [from |-> starts[k], column |-> c,
        to |-> CHOOSE g \in starts[k] .. Len(rows) :
                 ~Loud(rows, g + 1, c) /\ \A f \in starts[k] .. g : Loud(rows, f, c)]]])

\* turns: those of some length, by their start.
TurnsOf(dicts) ==
  LET all == [k \in DOMAIN dicts |->
               [start |-> dicts[k].from - 1, end |-> dicts[k].to, label |-> ColumnLabel(dicts[k].column)]]
  IN  SortSeq(SelectSeq(all, LAMBDA t : t.end > t.start),
              LAMBDA t, u : t.start < u.start \/ (t.start = u.start /\ t.end < u.end))

\* encode_probabilities and decode_probabilities: the bytes of the rows one after
\* the other, their shape, and the labels of the columns.
Encode(rows) ==
  [bytes |-> FlattenSeq(rows), shape |-> <<Len(rows), Len(rows[1])>>,
   columns |-> [c \in DOMAIN rows[1] |-> ColumnLabel(c)]]

Decode(data) ==
  [f \in 1 .. data.shape[1] |-> SubSeq(data.bytes, (f - 1) * data.shape[2] + 1, f * data.shape[2])]

-----------------------------------------------------------------------------
(* The result of pyannote's worker: the centroids of its labels, and the   *)
(* embeddings of the spans it is asked for.                                *)

Usable(vector) == \E i \in DOMAIN vector : vector[i] # 0

\* _centroids: the rows follow the labels, one of them may be short of the other.
Centroids(labels, matrix) ==
  LET known == {i \in 1 .. Min({Len(labels), Len(matrix)}) : Usable(matrix[i])} IN
  [l \in {labels[i] : i \in known} |-> matrix[CHOOSE i \in known : labels[i] = l]]

\* _embed_spans: where a span that is too short is heard, in a file of `length`.
Heard(span, shortest, length) ==
  LET missing == Max({0, shortest - (span.end - span.start)}) IN
  [start |-> Max({0, span.start - missing \div 2}),
   end   |-> Min({length, span.end + (missing - missing \div 2)})]

\* External: the voice that is heard most; two at once sound like neither, and
\* silence like nobody.
Sound(recording, heard) ==
  LET said(v) == Cardinality({x \in heard.start + 1 .. heard.end : recording[x] = v}) IN
  IF said("a") = 0 /\ said("b") = 0 THEN Broken
  ELSE IF said("a") > said("b") THEN <<2, 0>>
  ELSE IF said("b") > said("a") THEN <<0, 2>> ELSE <<3, 4>>

EmbedSpans(spans, shortest, recording) ==
  [i \in DOMAIN spans |->
     LET heard == Heard(spans[i], shortest, Len(recording))
         voice == Sound(recording, heard)
     IN  IF heard.end - heard.start >= shortest \div 2 /\ Usable(voice) THEN voice ELSE None]

-----------------------------------------------------------------------------
(* The evidence (_voice_evidence), and what it says of a unit.             *)

\* Only the speakers that have a turn take part.
NamedColumns(data, turns) ==
  [l \in {turns[k].label : k \in DOMAIN turns} \cap ToSet(data.columns) |->
     CHOOSE c \in DOMAIN data.columns : data.columns[c] = l]

Probabilities(data, turns) == [rows |-> Decode(data), columns |-> NamedColumns(data, turns)]

\* Probabilities.scores: the mean of the rows that the unit lies in, one at least;
\* nothing of a unit behind the last.
ProbabilityScores(e, span, frame) ==
  LET first == span.start \div frame
      rows  == SubSeq(e.rows, first + 1, Min({Len(e.rows), Max({first + 1, span.end \div frame})}))
  IN  [l \in IF rows = << >> THEN {} ELSE DOMAIN e.columns |->
         FoldLeft(LAMBDA sum, row : sum + row[e.columns[l]], 0, rows) \div Len(rows)]

\* Probabilities.margins
ProbabilityMargins == [agree |-> 0, overrule |-> 0]

\* _cosine in hundredths, of vectors whose lengths are whole.
Dot(a, b) == FoldLeftDomain(LAMBDA sum, i : sum + a[i] * b[i], 0, a)
Size(a) == CHOOSE n \in 0 .. Dot(a, a) : n * n = Dot(a, a)
Cosine(a, b) == (100 * Dot(a, b)) \div (Size(a) * Size(b))

\* _scores, and Voice.scores: the embeddings may end before the spans do.
Likeness(embedding, centroids) ==
  [l \in {l \in DOMAIN centroids : embedding # None /\ Size(embedding) > 0 /\ Size(centroids[l]) > 0} |->
     Cosine(embedding, centroids[l])]

VoiceScores(centroids, spans, embeddings) ==
  [i \in DOMAIN spans |-> Likeness(IF i <= Len(embeddings) THEN embeddings[i] ELSE None, centroids)]

=============================================================================
