--------------------------- MODULE VoxtralBreaker --------------------------
(***************************************************************************)
(* The logits processor that breaks repetition loops while the Voxtral     *)
(* model generates (noScribe/voxtral_engine.py, _LoopBreaker).             *)
(*                                                                         *)
(*   tokens   what has been generated                                      *)
(*   breaker  [tail, seen, step, period, kicks, gaveUp]                    *)
(* The model may generate any token that is not banned.                    *)
(***************************************************************************)
EXTENDS Integers, Sequences, SequencesExt, FiniteSetsExt

CONSTANTS
  Tokens,
  LoopWindow,  \* LOOP_BREAK_WINDOW
  MaxPeriod,   \* LOOP_BREAK_MAX_PERIOD
  MinCycles,   \* LOOP_BREAK_MIN_CYCLES
  CheckEvery,  \* LOOP_BREAK_CHECK_EVERY
  MaxKicks,    \* LOOP_BREAK_MAX_KICKS
  MaxTokens    \* max_new_tokens

\* A cycle is one when it is repeated.
ASSUME BreakerAssumption ==
  /\ LoopWindow \in Nat \ {0} /\ MaxPeriod \in Nat \ {0} /\ CheckEvery \in Nat \ {0}
  /\ MinCycles \in Nat /\ MinCycles >= 2 /\ MaxKicks \in Nat

VARIABLES tokens, breaker

breakerVars == <<tokens, breaker>>

BreakerInit ==
  /\ tokens = << >>
  /\ breaker = [tail |-> << >>, seen |-> 0, step |-> 0, period |-> 0, kicks |-> 0, gaveUp |-> FALSE]

\* The last n of a sequence.
LastOf(seq, n) == SubSeq(seq, Max({1, Len(seq) - n + 1}), Len(seq))

\* _find_period: the shortest period of the whole window, 0 if there is none.
Period(tail) ==
  LET t == LastOf(tail, LoopWindow)
      periods == {p \in 1..MaxPeriod : /\ LoopWindow \div p >= MinCycles
                                       /\ \A i \in (p + 1)..LoopWindow : t[i] = t[i - p]}
  IN  IF Len(tail) < LoopWindow \/ periods = {} THEN 0 ELSE Min(periods)

\* The tokens the breaker has seen, one more at a time, cut to what it needs.
\* A bug: what it has seen is taken for what it has kept.
TailByLength(b) ==
  LET keep == LoopWindow + MaxPeriod
  IN  IF Len(tokens) = Len(b.tail) + 1 THEN LastOf(Append(b.tail, Last(tokens)), keep)
      ELSE b.tail

NewTail(b) ==
  LET keep == LoopWindow + MaxPeriod
  IN  IF Len(tokens) = b.seen + 1 THEN LastOf(Append(b.tail, Last(tokens)), keep)
      ELSE IF Len(tokens) # b.seen THEN LastOf(tokens, keep) ELSE LastOf(b.tail, keep)

\* __call__: the breaker after it has looked.
Looks ==
  LET b == [breaker EXCEPT !.tail = NewTail(breaker), !.seen = Len(tokens),
                         !.step = breaker.step + 1]
      p == Period(b.tail)
  IN  IF b.period # 0 THEN [b EXCEPT !.period = IF p = @ THEN @ ELSE 0]
      ELSE IF b.step % CheckEvery # 0 \/ p = 0 THEN b
      ELSE [b EXCEPT !.kicks = b.kicks + 1, !.gaveUp = b.kicks = MaxKicks,
                     !.period = IF b.kicks = MaxKicks THEN 0 ELSE p]

\* The token that would go on with the cycle, while it is being broken.
Banned(b) == {b.tail[Len(b.tail) - b.period + 1] : p \in {b.period} \ {0}}

\* A token is drawn after the processor has looked; a breaker that has given up
\* ends the generation (_consume_tokens).
Generates ==
  /\ Len(tokens) < MaxTokens /\ ~breaker.gaveUp
  /\ breaker' = Looks
  /\ \E token \in Tokens \ Banned(breaker') : tokens' = Append(tokens, token)

BreakerSpec == BreakerInit /\ [][Generates]_breakerVars

-----------------------------------------------------------------------------
(* Properties.                                                             *)

\* A text never goes round in one short cycle for longer than the window and one
\* interval of the checks, unless the breaker has given up -- in the middle of a
\* long text as at its beginning (_LoopBreaker).
LoopsAreShort ==
  \A p \in 1..MaxPeriod :
    LET length == LoopWindow + CheckEvery
        end == LastOf(tokens, length)
    IN  Len(tokens) >= length /\ ~breaker.gaveUp /\ LoopWindow \div p >= MinCycles
          => \E i \in (p + 1)..length : end[i] # end[i - p]

=============================================================================
