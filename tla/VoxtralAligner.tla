--------------------------- MODULE VoxtralAligner ---------------------------
(***************************************************************************)
(* How the Voxtral engine's aligner puts words on the audio (noScribe/     *)
(* voxtral_engine.py, _Aligner): a whole window, halved while it is too    *)
(* dense or too big (align_words), or the clean beginning of one, piece by *)
(* piece (align_prefix).                                                   *)
(*                                                                         *)
(*   task    [words, length, prefix]: the words with the times they are    *)
(*           spoken at, the frames of the audio, and which of the two      *)
(*   todo    the windows still to be aligned, the next one first           *)
(*   stamps  the words placed so far, [word, start, end, real]             *)
(*   piece   the prefix's: the next word, the first frame left, how many   *)
(*   verdict "running", "aligned" or "spread"                              *)
(* Frames are the unit of time.  A word is [tokens, known, start, end]; a  *)
(* word the model has no letter for is not known.  The alignment of a      *)
(* piece is right about the known words if all of them are in its audio.   *)
(***************************************************************************)
EXTENDS Integers, Sequences, FiniteSets, FiniteSetsExt

CONSTANTS
  Tasks,
  MaxCells,       \* FORCED_ALIGN_MAX_CELLS
  SalvageCells,   \* SALVAGE_ALIGN_MAX_CELLS
  MaxSplitDepth, MaxDenseSplitDepth, MaxPieces,
  Backoff,        \* PREFIX_PIECE_BACKOFF_SEC
  MinWindow,      \* the shortest audio that is aligned at all
  Reach           \* how far a guessed word may run on

\* The words of a prefix are spoken one after the other within the audio, and the
\* shortest audio that is aligned can be cut in two.
ASSUME AlignAssumption ==
  /\ Backoff \in Nat /\ Reach \in Nat /\ MinWindow \in Nat /\ MinWindow >= 2
  /\ \A t \in Tasks :
       /\ t.words \in Seq([tokens : Nat, known : BOOLEAN, start : Nat, end : Nat])
       /\ t.words # << >> /\ t.length \in Nat /\ t.prefix \in BOOLEAN
       /\ t.prefix => \A i, k \in 1..Len(t.words) :
                       /\ t.words[i].start < t.words[i].end /\ t.words[i].end <= t.length
                       /\ i < k => t.words[i].end <= t.words[k].start

VARIABLES task, todo, stamps, piece, verdict

alignVars == <<task, todo, stamps, piece, verdict>>

\* One token per letter and one for the end of the word.
Targets(words) == Cardinality(UNION {{k} \X (0..words[k].tokens) : k \in 1..Len(words)})

Cells(targets, frames) == frames * (2 * targets + 1)

WordsOf(w) == SubSeq(task.words, w.first, w.last)

Stamp(n, start, end, real) == [word |-> n, start |-> start, end |-> end, real |-> real]

AlignInit ==
  /\ task \in Tasks /\ stamps = << >> /\ verdict = "running"
  /\ todo = << [first |-> 1, last |-> Len(task.words), from |-> 0, to |-> task.length, depth |-> 0] >>
  /\ piece = [next |-> 1, from |-> 0, count |-> 0]

-----------------------------------------------------------------------------
(* A whole window (align_words).                                           *)

Dense(w) == Targets(WordsOf(w)) > w.to - w.from
Big(w) == Cells(Targets(WordsOf(w)), w.to - w.from) > MaxCells

MaySplit(w) ==
  /\ w.last > w.first /\ w.depth < MaxSplitDepth
  /\ ~(Dense(w) /\ ~Big(w) /\ w.depth >= MaxDenseSplitDepth)

\* _spread: evenly, by the letters.
Spread(w) ==
  LET n == w.last - w.first + 1
  IN  [k \in 1..n |-> Stamp(w.first + k - 1, w.from + ((k - 1) * (w.to - w.from)) \div n,
                            w.from + (k * (w.to - w.from)) \div n, FALSE)]

\* The words of a window, in order, wherever in it.
Placed(w) ==
  LET n == w.last - w.first + 1
      cut(k) == w.from + (k * (w.to - w.from)) \div (n + 1)
  IN  {[k \in 1..n |-> Stamp(w.first + k - 1, cut(k - 1) + late, cut(k) + late, TRUE)] :
         late \in 0..((w.to - w.from) - cut(n) + w.from)}

Whole == ~task.prefix /\ verdict = "running" /\ todo # << >>

\* Too short, too big to be split further, or too dense: guessed.
SpreadsWindow ==
  /\ Whole
  /\ LET w == Head(todo)
     IN  /\ \/ w.to - w.from < MinWindow
            \/ Big(w) /\ ~MaySplit(w)
            \/ ~Big(w) /\ Dense(w) /\ ~MaySplit(w)
         /\ stamps' = stamps \o Spread(w)
  /\ todo' = Tail(todo) /\ UNCHANGED <<task, piece, verdict>>

\* The alignment may also fail.
AlignsWindow ==
  /\ Whole
  /\ LET w == Head(todo)
     IN  /\ w.to - w.from >= MinWindow /\ ~Big(w) /\ ~Dense(w)
         /\ \E placed \in Placed(w) \cup {Spread(w)} : stamps' = stamps \o placed
  /\ todo' = Tail(todo) /\ UNCHANGED <<task, piece, verdict>>

SecondFrom(w, cut) == cut

\* The words are halved, and the audio cut near their share of it.
HalvesWindow ==
  /\ Whole
  /\ LET w == Head(todo)
         mid == w.first + (w.last - w.first + 1) \div 2 - 1
         share == ((w.to - w.from) * Targets(SubSeq(task.words, w.first, mid)))
                    \div Targets(WordsOf(w))
     IN  /\ w.to - w.from >= MinWindow /\ (Big(w) \/ Dense(w)) /\ MaySplit(w)
         /\ \E snap \in -1..1 :
              LET cut == Min({Max({w.from + share + snap, w.from + 1}), w.to - 1})
              IN  todo' = << [w EXCEPT !.last = mid, !.to = cut, !.depth = @ + 1],
                             [w EXCEPT !.first = mid + 1, !.from = SecondFrom(w, cut),
                                       !.depth = @ + 1] >> \o Tail(todo)
  /\ UNCHANGED <<task, stamps, piece, verdict>>

EndsWhole ==
  /\ ~task.prefix /\ verdict = "running" /\ todo = << >>
  /\ verdict' = "aligned" /\ UNCHANGED <<task, todo, stamps, piece>>

-----------------------------------------------------------------------------
(* The beginning of one (align_prefix).                                    *)

\* How many words from `next` fit one alignment against the frames that are left.
PieceLength(next, frames) ==
  Max({0} \cup {k \in 1..(Len(task.words) - next + 1) :
                  LET n == Targets(SubSeq(task.words, next, next + k - 1)) + 1
                  IN  n <= frames /\ Cells(n, frames) <= Min({MaxCells, SalvageCells})})

\* The last of the words that was really aligned, 0 if none was.
LastReal(next, k) == Max({0} \cup {n \in next..(next + k - 1) : task.words[n].known})

\* The times of a piece: those of the known words, and guesses for the others,
\* which run on for at most Reach a word.
PieceStamps(next, k, far) ==
  LET real == {n \in next..(next + k - 1) : task.words[n].known}
      before(n) == {m \in real : m < n}
      after(n) == {m \in real : m > n}
      base(n) == IF before(n) = {} THEN task.words[Min(after(n))].start
                 ELSE task.words[Max(before(n))].end
      guess(n) == IF after(n) = {} /\ far THEN base(n) + Reach * (n - Max(before(n))) ELSE base(n)
  IN  [j \in 1..k |->
         LET n == next + j - 1
         IN  IF n \in real THEN Stamp(n, task.words[n].start, task.words[n].end, TRUE)
             ELSE Stamp(n, base(n), Min({guess(n), task.length}), FALSE)]

\* extend: a stamp that would begin before an earlier one has ended is moved there.
Extends(all, new) ==
  LET ended(j) == {all[i].end : i \in {Len(all)} \ {0}} \cup {new[i].end : i \in 1..(j - 1)}
  IN  all \o [j \in 1..Len(new) |->
                [new[j] EXCEPT !.start = Max({@} \cup ended(j)), !.end = Max({@} \cup ended(j))]]

Prefix == task.prefix /\ verdict = "running"

\* A bug: the chain goes on after the last word, guessed or not.
ChainAfterLast(next, k) == next + k - 1

\* The word the next piece starts after.
ChainAfter(next, k) == LastReal(next, k)

\* No basis for a cut: all of it is guessed.
Gives ==
  /\ verdict' = "spread" /\ UNCHANGED <<task, todo, piece>>
  /\ stamps' = Spread([first |-> 1, last |-> Len(task.words), from |-> 0, to |-> task.length])

AlignsPiece ==
  /\ Prefix
  /\ LET k == PieceLength(piece.next, task.length - piece.from)
         j == ChainAfter(piece.next, k)
     IN  IF \/ piece.count = MaxPieces \/ k = 0 \/ LastReal(piece.next, k) = 0
         THEN Gives
         ELSE \E far \in BOOLEAN :
           LET got == PieceStamps(piece.next, k, far)
           IN  IF piece.next + k > Len(task.words)
               THEN /\ stamps' = Extends(stamps, got) /\ verdict' = "aligned"
                    /\ UNCHANGED <<task, todo, piece>>
               ELSE LET used == j - piece.next + 1
                        from == Min({Max({piece.from + 1, got[used].end - Backoff}), task.length})
                    IN  IF from >= task.length THEN Gives
                        ELSE /\ stamps' = Extends(stamps, SubSeq(got, 1, used))
                             /\ piece' = [next |-> j + 1, from |-> from, count |-> piece.count + 1]
                             /\ UNCHANGED <<task, todo, verdict>>

\* A piece may fail.
PieceFails == Prefix /\ Gives

AlignNext ==
  SpreadsWindow \/ AlignsWindow \/ HalvesWindow \/ EndsWhole \/ AlignsPiece \/ PieceFails

AlignSpec == AlignInit /\ [][AlignNext]_alignVars

-----------------------------------------------------------------------------
(* Properties.                                                             *)

\* Every word gets one stamp, in the order of the words; the times never run
\* backwards and stay in the audio, whatever was split, guessed or handed from
\* piece to piece (align_words, align_prefix).
StampsInOrder ==
  /\ verdict # "running" => Len(stamps) = Len(task.words)
  /\ \A k \in 1..Len(stamps) :
       /\ stamps[k].word = k /\ stamps[k].start <= stamps[k].end
       /\ stamps[k].start >= 0 /\ stamps[k].end <= task.length
       /\ k > 1 => stamps[k - 1].end <= stamps[k].start

\* A piece of a prefix is aligned against audio that holds all its words: it
\* never begins after its first word is spoken, which would put that word
\* somewhere else with a perfect score (align_prefix).
PiecesHoldTheirWords ==
  Prefix => piece.from <= task.words[piece.next].start

\* The times of the words follow the speech, however the window is cut to be
\* aligned (align_words, align_prefix).
StampsFollowSpeech == StampsInOrder /\ PiecesHoldTheirWords

=============================================================================
