------------------------------ MODULE CtcAlign ------------------------------
(***************************************************************************)
(* The forced alignment of noScribe/ctc_align.py: which label each frame   *)
(* carries, so that the frames spell the targets and score best.  The      *)
(* states are the targets with a blank around each of them.  Frames and    *)
(* targets are counted from 1, log-probabilities are small integers.       *)
(***************************************************************************)
EXTENDS Integers, Sequences, FiniteSets, SequencesExt

\* -inf: less than the sum of any frames.
NEG == -1000

Blank == 0

\* How many frames a path needs at least (forced_align, adjacent_repeats).
AdjacentRepeats(targets) == Cardinality({k \in 2..Len(targets) : targets[k] = targets[k - 1]})
Alignable(frames, targets) ==
  /\ targets # <<>> /\ Blank \notin ToSet(targets)
  /\ frames >= Len(targets) + AdjacentRepeats(targets)

StateCount(targets) == 2 * Len(targets) + 1
LabelOf(targets, s) == IF s % 2 = 1 THEN Blank ELSE targets[s \div 2]

\* A state may be reached over the blank before it where the targets differ (pen).
MaySkip(targets, s) == s % 2 = 0 /\ s > 2 /\ targets[s \div 2] # targets[s \div 2 - 1]

Larger(a, b) == IF a > b THEN a ELSE b

\* The three ways into a state, and the one taken: two steps only where strictly
\* best, else one only where strictly better than staying (bt).
Stay(alpha, s) == alpha[s]
One(alpha, s) == IF s > 1 THEN alpha[s - 1] ELSE NEG
Two(alpha, targets, s) == IF MaySkip(targets, s) THEN alpha[s - 2] ELSE NEG

Back(alpha, targets, s) ==
  IF Two(alpha, targets, s) > Larger(Stay(alpha, s), One(alpha, s)) THEN 2
  ELSE IF One(alpha, s) > Stay(alpha, s) THEN 1 ELSE 0

\* alpha: the best score of each state, after each frame.
Alpha(probs, targets) ==
  LET States == 1..StateCount(targets)
      alpha[t \in 1..Len(probs)] ==
        IF t = 1 THEN [s \in States |-> IF s <= 2 THEN probs[1][LabelOf(targets, s)] ELSE NEG]
        ELSE LET before == alpha[t - 1]
             IN  [s \in States |->
                    LET best == Larger(Larger(Stay(before, s), One(before, s)), Two(before, targets, s))
                    IN  IF best <= NEG THEN NEG ELSE best + probs[t][LabelOf(targets, s)]]
  IN  alpha

\* forced_align: the label of each frame, from the last back.
ForcedAlign(probs, targets) ==
  LET frames == Len(probs)
      alpha  == Alpha(probs, targets)
      last   == StateCount(targets)
      state[k \in 0..frames - 1] ==
        IF k = 0 THEN (IF alpha[frames][last] > alpha[frames][last - 1] THEN last ELSE last - 1)
        ELSE state[k - 1] - Back(alpha[frames - k], targets, state[k - 1])
  IN  [t \in 1..frames |-> LabelOf(targets, state[frames - t])]

\* merge_tokens: the runs of equal labels that are no blank, the end exclusive.
MergeTokens(path) ==
  LET starts == {t \in 1..Len(path) : path[t] # Blank /\ (t = 1 \/ path[t] # path[t - 1])}
      EndOf(t) == CHOOSE e \in t + 1..Len(path) + 1 :
                    /\ \A j \in t..e - 1 : path[j] = path[t]
                    /\ e = Len(path) + 1 \/ path[e] # path[t]
  IN  [k \in 1..Cardinality(starts) |->
         LET t == SetToSortSeq(starts, <)[k] IN [token |-> path[t], start |-> t, end |-> EndOf(t)]]

-----------------------------------------------------------------------------
\* Every path, what it spells and what it scores.
Paths(probs) == [1..Len(probs) -> DOMAIN probs[1]]
Spelled(path) == LET spans == MergeTokens(path) IN [k \in 1..Len(spans) |-> spans[k].token]
Score(probs, path) == FoldLeftDomain(LAMBDA sum, t : sum + probs[t][path[t]], 0, path)

\* The alignment spells the targets, and no path that spells them scores better:
\* the merged spans are the targets in their order, whatever ties there are.
IsBestAlignment(probs, targets) ==
  LET path == ForcedAlign(probs, targets)
  IN  /\ Spelled(path) = targets
      /\ \A other \in Paths(probs) :
           Spelled(other) = targets => Score(probs, other) <= Score(probs, path)
=============================================================================
