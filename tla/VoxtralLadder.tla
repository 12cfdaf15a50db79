--------------------------- MODULE VoxtralLadder ---------------------------
(***************************************************************************)
(* The repair of a pass of the Voxtral engine that came back looping or    *)
(* translated (noScribe/voxtral_engine.py, _transcribe_guarded): keep the  *)
(* clean prefix, sample gently, split, sample strongly, penalise -- and    *)
(* the same again, one level down, for the remainder and for each half.    *)
(*                                                                         *)
(*   calls    the stack of calls, the running one last                     *)
(*   answer   what the call that ended last returned, until it is read     *)
(*   setup    whether the caller expects a language, and can align         *)
(*   spent    history: how often the model was asked, until a decode       *)
(*            loops; whether one did; how the outermost call ended         *)
(* A text is [of, lang, loops]: the units of speech in it, how it reads to *)
(* the language check, and whether it looks degenerate.  A cut is anywhere *)
(* inside the window, for the turn boundary and the quietest pause alike.  *)
(***************************************************************************)
EXTENDS Integers, Sequences, SequencesExt, FiniteSets

CONSTANTS
  Units,      \* the length of the pass
  MaxDepth,   \* LOOP_SPLIT_MAX_DEPTH
  SplitMin,   \* LOOP_SPLIT_MIN_SEC
  MinPrefix   \* SALVAGE_MIN_PREFIX_SEC

ASSUME LadderAssumption ==
  /\ Units \in Nat \ {0} /\ MaxDepth \in Nat /\ SplitMin \in Nat \ {0} /\ MinPrefix \in Nat

VARIABLES calls, answer, setup, spent

ladderVars == <<calls, answer, setup, spent>>

NoText == [of |-> {}, lang |-> "none", loops |-> FALSE]

Window(call) == call.from..(call.to - 1)

Call(from, to, depth) ==
  [from |-> from, to |-> to, depth |-> depth, at |-> "greedy", first |-> NoText,
   defect |-> "none", tongue |-> FALSE, part |-> NoText, cut |-> from,
   whole |-> {}, partial |-> {}]

Top == Last(calls)
Become(call) == Append(Front(calls), call)

LadderInit ==
  /\ calls = <<Call(0, Units, 0)>> /\ answer = << >>
  /\ setup \in [expects : BOOLEAN, aligns : BOOLEAN]
  /\ spent = [decodes |-> 0, looped |-> FALSE, ended |-> "no"]

-----------------------------------------------------------------------------
(* The pieces of the ladder.                                               *)

\* attempt: a decode of a call's window.
WholeDecodes(call) ==
  {[text |-> t, gaveUp |-> FALSE] :
     t \in [of : {Window(call)}, lang : {"wanted", "other"}, loops : BOOLEAN]}

\* The breaker may give up anywhere, and what is there then need not look
\* degenerate.  It is not armed when a penalty is tried.
Decodes(call) ==
  LET stump == [of : {call.from..(u - 1) : u \in Window(call)},
                lang : {"none"}, loops : BOOLEAN]
  IN  WholeDecodes(call) \cup {[text |-> t, gaveUp |-> TRUE] : t \in stump}

DefectOf(d) ==
  IF d.gaveUp \/ d.text.loops THEN "loop"
  ELSE IF setup.expects /\ d.text.lang = "other" THEN "language"
  ELSE "none"

\* keep: an empty text is no candidate; the partial ones are forgotten once there
\* is a whole one, which `best` prefers to them all.
Keeps(call, text, isPart) ==
  IF text.of = {} \/ (isPart /\ call.whole # {}) THEN call
  ELSE IF isPart THEN [call EXCEPT !.partial = @ \cup {text}]
  ELSE [call EXCEPT !.whole = @ \cup {text}, !.partial = {}]

\* best: the shortest of the whole texts, else of the others, as lengths may be.
Best(call) ==
  IF call.whole # {} THEN call.whole
  ELSE IF call.partial # {} THEN call.partial ELSE {NoText}

\* _halves_disagree
Disagree(a, b) == a.lang # b.lang /\ "none" \notin {a.lang, b.lang}

Joins(a, b) ==
  [of : {a.of \cup b.of}, lang : {a.lang, b.lang}, loops : BOOLEAN]

\* _salvage_prefix: the clean prefixes of a looping text; a prefix ends where a
\* sentence does, before the loop.
CleanPrefixes(call, text) ==
  {p \in [of : {call.from..(c - 1) : c \in (call.from + MinPrefix)..call.to},
          lang : {text.lang}, loops : BOOLEAN] :
     p.of # {} /\ p.of \subseteq text.of}

EndOf(text) == CHOOSE u \in {v + 1 : v \in text.of} : \A v \in text.of : v < u

Splittable(call) == call.depth < MaxDepth /\ call.to - call.from >= 2 * SplitMin

-----------------------------------------------------------------------------
(* The steps.                                                              *)

Running(at) == calls # << >> /\ Top.at = at /\ answer = << >>

Asked(d) ==
  LET looped == spent.looped \/ DefectOf(d) = "loop"
  IN  [spent EXCEPT !.looped = looped, !.decodes = IF looped THEN 0 ELSE @ + 1]

\* The call at the top returns; the outermost one ends the ladder.
Returns(text, how, sp) ==
  /\ calls' = Front(calls) /\ answer' = <<text>>
  /\ spent' = IF Len(calls) = 1 THEN [sp EXCEPT !.ended = how] ELSE sp
  /\ UNCHANGED setup

GoesOn(call, sp) == calls' = Become(call) /\ spent' = sp /\ UNCHANGED <<answer, setup>>

Enters(call, child) ==
  /\ calls' = Append(Become(call), child) /\ UNCHANGED <<answer, setup, spent>>

\* attempt(), greedy.
DecodesGreedily ==
  /\ Running("greedy")
  /\ \E d \in Decodes(Top) :
       IF DefectOf(d) = "none" THEN Returns(d.text, "usable", Asked(d))
       ELSE LET kept == [Keeps(Top, d.text, d.gaveUp) EXCEPT !.first = d.text, !.defect = DefectOf(d)]
            IN  GoesOn([kept EXCEPT !.at = IF /\ setup.aligns /\ Top.depth < MaxDepth
                                              /\ DefectOf(d) = "loop"
                                           THEN "salvage" ELSE "gentle"], Asked(d))

\* Nothing can be kept.
SalvageRefused ==
  /\ Running("salvage")
  /\ GoesOn([Top EXCEPT !.at = "gentle"], spent)

\* A bug, as it once was: the prefix is returned unchecked.
LoopAtTheEndUnchecked(prefix) == Returns(prefix, "usable", spent)

\* The loop was at the very end.
LoopAtTheEnd(prefix) ==
  IF ~prefix.loops THEN Returns(prefix, "usable", spent)
  ELSE GoesOn([Keeps(Top, prefix, TRUE) EXCEPT !.at = "gentle"], spent)

SalvagesAll ==
  /\ Running("salvage")
  /\ \E prefix \in CleanPrefixes(Top, Top.first) :
       EndOf(prefix) = Top.to /\ LoopAtTheEnd(prefix)

SalvagesPrefix ==
  /\ Running("salvage")
  /\ \E prefix \in CleanPrefixes(Top, Top.first) :
       /\ EndOf(prefix) < Top.to
       /\ Enters([Top EXCEPT !.at = "rest", !.part = prefix],
                 Call(EndOf(prefix), Top.to, Top.depth + 1))

\* `rest` is back.
Returned(at) == calls # << >> /\ Top.at = at /\ answer # << >>

JoinsRest ==
  /\ Returned("rest")
  /\ \E joined \in Joins(Top.part, answer[1]) :
       IF ~Disagree(Top.part, answer[1]) /\ ~joined.loops THEN Returns(joined, "joined", spent)
       ELSE /\ calls' = Become([Keeps(Top, joined, FALSE) EXCEPT !.at = "gentle", !.part = NoText])
            /\ answer' = << >> /\ UNCHANGED <<setup, spent>>

\* The rung after the gentle one: a window that is bad for its language alone
\* stops below the outermost call.
AfterGentle(call, d) ==
  LET tongue == "loop" \notin {call.defect, DefectOf(d)}
  IN  IF tongue /\ call.depth > 0 THEN "first"
      ELSE IF Splittable(call) THEN "split" ELSE "strong"

DecodesGently ==
  /\ Running("gentle")
  /\ \E d \in Decodes(Top) :
       IF DefectOf(d) = "none" THEN Returns(d.text, "usable", Asked(d))
       ELSE LET next == AfterGentle(Top, d)
                kept == [Keeps(Top, d.text, d.gaveUp) EXCEPT
                           !.at = next, !.tongue = "loop" \notin {Top.defect, DefectOf(d)}]
            IN  IF next = "first" THEN Returns(Top.first, "language", Asked(d))
                ELSE GoesOn(kept, Asked(d))

Splits ==
  /\ Running("split")
  /\ \E cut \in (Top.from + 1)..(Top.to - 1) :
       Enters([Top EXCEPT !.at = "left", !.cut = cut], Call(Top.from, cut, Top.depth + 1))

LeftIsBack ==
  /\ Returned("left")
  /\ calls' = Append(Become([Top EXCEPT !.at = "right", !.part = answer[1]]),
                     Call(Top.cut, Top.to, Top.depth + 1))
  /\ answer' = << >> /\ UNCHANGED <<setup, spent>>

RightIsBack ==
  /\ Returned("right")
  /\ \E joined \in Joins(Top.part, answer[1]) :
       IF Top.tongue
       THEN Returns(IF joined.loops THEN Top.first ELSE joined, "language", spent)
       ELSE IF ~Disagree(Top.part, answer[1]) /\ ~joined.loops
       THEN Returns(joined, "joined", spent)
       ELSE /\ calls' = Become([Keeps(Top, joined, FALSE) EXCEPT !.at = "strong", !.part = NoText])
            /\ answer' = << >> /\ UNCHANGED <<setup, spent>>

DecodesStrongly ==
  /\ Running("strong")
  /\ \E d \in Decodes(Top) :
       IF DefectOf(d) = "none" THEN Returns(d.text, "usable", Asked(d))
       ELSE IF Top.tongue THEN Returns(Top.first, "language", Asked(d))
       ELSE GoesOn([Keeps(Top, d.text, d.gaveUp) EXCEPT !.at = "penalty"], Asked(d))

\* RETRY_REPETITION_PENALTIES, the two of them.
DecodesPenalised ==
  /\ calls # << >> /\ Top.at \in {"penalty", "last penalty"} /\ answer = << >>
  /\ \E d \in WholeDecodes(Top) :
       IF DefectOf(d) = "none" THEN Returns(d.text, "usable", Asked(d))
       ELSE GoesOn([Keeps(Top, d.text, d.gaveUp) EXCEPT
                      !.at = IF @ = "penalty" THEN "last penalty" ELSE "best"], Asked(d))

GivesBest ==
  /\ Running("best")
  /\ \E text \in Best(Top) : Returns(text, "best", spent)

LadderNext ==
  \/ DecodesGreedily \/ SalvageRefused \/ SalvagesAll \/ SalvagesPrefix \/ JoinsRest
  \/ DecodesGently \/ Splits \/ LeftIsBack \/ RightIsBack
  \/ DecodesStrongly \/ DecodesPenalised \/ GivesBest

LadderSpec == LadderInit /\ [][LadderNext]_ladderVars

-----------------------------------------------------------------------------
(* Properties.                                                             *)

Ended == calls = << >>

\* No speech is missing from what the ladder returns, though most rungs may cut a
\* decode short: a text that was cut short is not preferred, as the shorter one,
\* to one that was not, nor joined with another (candidates, best).
NothingIsMissing == Ended => answer[1].of = 0..(Units - 1)

\* A text that looks degenerate is returned only after the last penalty
\* (_transcribe_guarded: "must not reach the transcript").
LoopsOnlyAtLast == Ended /\ answer[1].loops => spent.ended = "best"

\* A window that is bad for its language alone, in all its parts, costs at most
\* six decodes, whatever language it is in -- not sixty (_transcribe_guarded).
LanguageCostsSix == ~spent.looped => spent.decodes <= 6

\* A repair loses nothing that was said, keeps a loop only where it is the last
\* resort, and spends what it may: the ladder of _transcribe_guarded.
RepairsAreSound == NothingIsMissing /\ LoopsOnlyAtLast /\ LanguageCostsSix

=============================================================================
