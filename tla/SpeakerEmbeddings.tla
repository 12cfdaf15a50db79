-------------------------- MODULE SpeakerEmbeddings --------------------------
(***************************************************************************)
(* The embeddings of the diarization's speakers, computed once per chunk   *)
(* of the audio instead of once per chunk and speaker                      *)
(* (noScribe/pyannote_fast_embeddings.py), next to pyannote's own way,     *)
(* which it is to reproduce.                                               *)
(*                                                                         *)
(* A chunk is a sequence of frames, and a frame says of each speaker       *)
(* whether he speaks: 0, 1 or Nan.  An embedding is the chunk and mask     *)
(* that it is made of.                                                     *)
(***************************************************************************)
EXTENDS Integers, FiniteSetsExt, SequencesExt

Nan == 2

\* A speaker's mask, with and without the frames that others speak in; a frame
\* that is not known for somebody counts as one of those.
Full(chunk, s) == [f \in 1..Len(chunk) |-> IF chunk[f][s] = 1 THEN 1 ELSE 0]

Clean(chunk, s) ==
  [f \in 1..Len(chunk) |->
     IF chunk[f][s] = 1 /\ \A t \in DOMAIN chunk[f] \ {s} : chunk[f][t] = 0 THEN 1 ELSE 0]

Total(mask) == FoldLeft(LAMBDA n, m : n + m, 0, mask)

\* The clean mask, unless it is too short for the model or overlaps are wanted.
MaskFor(chunk, s, p) ==
  IF ~p.exclude THEN Full(chunk, s)
  ELSE IF Total(Clean(chunk, s)) > p.least THEN Clean(chunk, s) ELSE Full(chunk, s)

\* How a model takes masks: in its pooling, speaker by speaker; before its trunk,
\* where it can have one mask; or it takes stacked masks and mixes them up.
Embed(model, chunk, masks) ==
  CASE model = "pools" \/ Len(masks) = 1 -> [s \in 1..Len(masks) |-> <<chunk, masks[s]>>]
    [] model = "mixes" -> [s \in 1..Len(masks) |-> <<chunk, masks[1]>>]
    [] OTHER -> << >>

Batches(items, size) ==
  [b \in 1..((Len(items) + size - 1) \div size) |->
     SubSeq(items, (b - 1) * size + 1, Min({b * size, Len(items)}))]

-----------------------------------------------------------------------------
(* pyannote's way: every pair of a chunk and a speaker.                    *)

StockEmbeddings(chunks, p) ==
  LET speakers == Len(chunks[1][1])
      pairs == FlattenSeq([c \in 1..Len(chunks) |-> [s \in 1..speakers |-> <<c, s>>]])
      row(x) == Embed(p.model, x[1], << MaskFor(chunks[x[1]], x[2], p) >>)[1]
      rows == FlattenSeq([b \in 1..Len(Batches(pairs, p.batch)) |->
                LET batch == Batches(pairs, p.batch)[b] IN [k \in 1..Len(batch) |-> row(batch[k])]])
  IN  [c \in 1..Len(chunks) |-> SubSeq(rows, (c - 1) * speakers + 1, c * speakers)]

-----------------------------------------------------------------------------
(* The fast way.                                                           *)

\* _fast_get_embeddings: a batch may raise, and the chunks may end early, which
\* raises as well.
FastRaises == << "raised" >>

FastRows(chunks, p) ==
  LET heard == IF p.fails = "ends early" THEN Front(chunks) ELSE chunks
      stacked(c) == [s \in 1..Len(chunks[1][1]) |-> MaskFor(chunks[c], s, p)]
      batches == Batches([c \in 1..Len(heard) |-> c], p.batch)
      rows == FlattenSeq([b \in 1..Len(batches) |->
                [k \in 1..Len(batches[b]) |-> Embed(p.model, batches[b][k], stacked(batches[b][k]))]])
  IN  IF p.fails = "raises" \/ Len(rows) # Len(chunks) THEN FastRaises ELSE rows

\* fast_get_embeddings: whatever raises has the slow way do all of it.
FastEmbeddings(chunks, p) ==
  IF FastRows(chunks, p) = FastRaises THEN StockEmbeddings(chunks, p) ELSE FastRows(chunks, p)

\* _accepts_stacked_masks: two masks on some noise, stacked and one by one.
AcceptsStackedMasks(model) ==
  LET probe == << <<1, 0>>, <<1, 1>> >>
      stacked == Embed(model, 0, probe)
  IN  /\ Len(stacked) = 2
      /\ stacked = [s \in 1..2 |-> Embed(model, 0, << probe[s] >>)[1]]

\* install_fast_embeddings: known, not in training, probed, of the same
\* signature, and really in place afterwards.
Installs(p) ==
  p.pipeline = "diarization" /\ AcceptsStackedMasks(p.model)

Embeddings(chunks, p) ==
  IF Installs(p) THEN FastEmbeddings(chunks, p) ELSE StockEmbeddings(chunks, p)

=============================================================================
