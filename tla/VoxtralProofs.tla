--------------------------- MODULE VoxtralProofs ----------------------------
(***************************************************************************)
(* What the Voxtral engine keeps, for recordings of any length and any     *)
(* words: the alignment models in memory and the words at the seams        *)
(* (VoxtralFile), the calls of the repair ladder (VoxtralLadder), the plan *)
(* of passes and their cuts (VoxtralCuts), the loop breaker                *)
(* (VoxtralBreaker), the loops in a text (VoxtralText), the memory of an   *)
(* emission (VoxtralEmission) and the stamps of the words                  *)
(* (VoxtralAligner).                                                       *)
(***************************************************************************)
EXTENDS VoxtralLadder, VoxtralFile, VoxtralCuts, VoxtralBreaker, VoxtralAligner,
        VoxtralEmission, LineProofs, TLAPS

(* The alignment models of the Voxtral engine (VoxtralFile).               *)

\* The alignment models there are.
Models == Aligned \cup {"multi"}

PoolTyped ==
  /\ cache \in Seq(Models)
  /\ wants = NoWant \/ wants \in [model : Models, remember : BOOLEAN]
  /\ last \in Models \cup {"none"}

PoolInvariant == PoolTyped /\ PoolHolds

LEMMA ModelIsThere ==
  ASSUME NEW lang, last \in Models \cup {"none"}
  PROVE  ModelFor(lang) \in Models
BY DEF ModelFor, Model, Models

\* The aligner that is found, or loaded where there is room, takes its place.
LEMMA PoolStep ==
  ASSUME PoolInvariant, [FileNext]_fileVars
  PROVE  PoolInvariant'
<1> USE DEF PoolInvariant, PoolHolds, PoolTyped
<1>1. MaxCached \in Nat \ {0} BY PoolAssumption
<1>2. CASE FindsAligner \/ LoadsAligner
  <2>1. /\ wants # NoWant /\ Holds(wants.model, cache)
        /\ wants.model \in Members(cache) \/ Room
    BY <1>2 DEF FindsAligner, LoadsAligner
  <2>2. wants.model \in Models BY <2>1
  <2> DEFINE rest == Without(cache, {wants.model})
  <2>3. rest \in Seq(Models) /\ Len(rest) =< Len(cache) BY WithoutMembers
  <2>4. Len(rest) < MaxCached /\ Len(rest) \in Nat
    <3>1. Len(rest) \in Nat /\ Len(cache) \in Nat BY <2>3
    <3>2. wants.model \in Members(cache) => Len(rest) < Len(cache)
      BY WithoutShorter
    <3> HIDE DEF rest
    <3> QED BY <3>1, <3>2, <2>1, <2>3, <1>1 DEF Room
  <2> HIDE DEF rest
  <2>5. cache' = Append(rest, wants.model) BY <2>1 DEF Holds, rest
  <2>6. cache' \in Seq(Models) /\ Len(cache') = Len(rest) + 1
    BY <2>2, <2>3, <2>5
  <2>7. Len(cache') =< MaxCached BY <2>4, <2>6, <1>1
  <2> QED BY <2>1, <2>2, <2>6, <2>7 DEF Holds
<1>3. CASE EvictsAligner
  <2>1. /\ Len(cache) >= MaxCached /\ cache' = Tail(cache)
        /\ last' = last /\ chose' = chose /\ wants' = wants
    BY <1>3 DEF EvictsAligner
  <2>2. cache # << >> BY <2>1, <1>1
  <2>3. cache' \in Seq(Models) /\ Len(cache') = Len(cache) - 1 BY <2>1, <2>2
  <2>4. Len(cache') =< MaxCached
    BY <2>3, <1>1
  <2> QED BY <2>1, <2>3, <2>4
<1>4. CASE AlignerOutOfReach
  BY <1>4 DEF AlignerOutOfReach
<1>5. CASE AlignsFragment \/ ReadsText
  <2>1. /\ cache' = cache /\ last' = last /\ chose' = chose
        /\ \/ wants' = wants
           \/ \E lang, remember : remember \in BOOLEAN /\ Loads(ModelFor(lang), remember)
    BY <1>5 DEF AlignsFragment, ReadsText
  <2>2. wants' = NoWant \/ wants' \in [model : Models, remember : BOOLEAN]
    BY <2>1, ModelIsThere DEF Loads
  <2> QED BY <2>1, <2>2
<1>6. CASE Starts \/ ReadsPass \/ SendsOn \/ NextPass \/ UNCHANGED fileVars
  <2>1. cache' = cache /\ last' = last /\ chose' = chose /\ wants' = wants
    BY <1>6 DEF Starts, ReadsPass, SendsOn, NextPass, fileVars
  <2> QED BY <2>1
<1> QED BY <1>2, <1>3, <1>4, <1>5, <1>6 DEF FileNext

\* Whatever passes, languages and fragments come: as many aligners as may be, and
\* the aligner remembered is the one the last whole pass got.
THEOREM PoolInvariance == FileSpec => []PoolInvariant
<1>1. FileInit => PoolInvariant
  BY PoolAssumption DEF FileInit, PoolInvariant, PoolTyped, PoolHolds
<1> QED BY <1>1, PoolStep, PTL DEF FileSpec

THEOREM PoolIsBounded == FileSpec => []PoolHolds
BY PoolInvariance, PTL DEF PoolInvariant

-----------------------------------------------------------------------------
(* The ladder of the Voxtral engine (VoxtralLadder).                       *)

Texts == [of : SUBSET Nat, lang : {"none", "wanted", "other"}, loops : BOOLEAN]

Waiting == {"rest", "left", "right"}

Ladders == [from : Nat, to : Nat, depth : Nat,
            at : Waiting \cup {"greedy", "salvage", "gentle", "split", "strong", "penalty",
                               "last penalty", "best"},
            first : Texts, defect : {"none", "loop", "language"}, tongue : BOOLEAN,
            part : Texts, cut : Nat, whole : SUBSET Texts, partial : SUBSET Texts]

\* A call knows whole texts from parts; a window that is bad for its language
\* alone has a text that is whole and does not loop; who penalises keeps one.
Knows(c) ==
  /\ c.from < c.to
  /\ \A t \in c.whole : t.of = Window(c)
  /\ c.at \in {"last penalty", "best"} => c.whole # {}

Blames(c) ==
  /\ c.at = "greedy" <=> c.defect = "none"
  /\ c.defect = "language" => c.first.of = Window(c) /\ ~c.first.loops
  /\ c.tongue => c.defect = "language"

\* What a call has of its window while it waits, and what it waits for.
Halves(c) ==
  /\ c.at \in {"left", "right"} => c.cut \in (c.from + 1) .. (c.to - 1)
  /\ c.at \in {"rest", "right"} => c.part.of \in SUBSET Window(c)

Awaited(c) == IF c.at = "left" THEN c.from .. (c.cut - 1) ELSE Window(c) \ c.part.of

CallSound(c) == Knows(c) /\ Blames(c) /\ Halves(c)

\* Each call but the last waits for what the next one has as its window.
InStack(q) ==
  /\ q \in Seq(Ladders)
  /\ \A i \in 1 .. Len(q) : CallSound(q[i]) /\ q[i].depth = i - 1
  /\ \A i \in 1 .. Len(q) :
       i < Len(q) => q[i].at \in Waiting /\ Window(q[i + 1]) = Awaited(q[i])
  /\ q # << >> => Window(q[1]) = 0 .. (Units - 1)

StackSound == InStack(calls)

\* What was returned is what was waited for, at the end the whole pass.
AnswerSound ==
  /\ answer \in Seq(Texts) /\ Len(answer) =< 1
  /\ calls # << >> /\ answer = << >> => Top.at \notin Waiting
  /\ calls # << >> /\ answer # << >> => Top.at \in Waiting /\ answer[1].of = Awaited(Top)
  /\ Ended => /\ answer # << >> /\ answer[1].of = 0 .. (Units - 1)
              /\ answer[1].loops => spent.ended = "best"

Spendings == [decodes : Nat, looped : BOOLEAN,
              ended : {"no", "usable", "joined", "language", "best"}]

\* What has been spent when the call at work began.
Base == IF Len(calls) = 1 THEN 0 ELSE IF calls[1].at = "left" THEN 2 ELSE 4

\* As long as nothing loops, there are two levels at most, and the inner one asks
\* twice at most.
Cheap ==
  /\ spent \in Spendings
  /\ ~spent.looped =>
       /\ spent.decodes =< 6 /\ Len(calls) =< 2
       /\ Len(calls) = 2 => calls[1].tongue /\ calls[1].at \in {"left", "right"}
       /\ calls # << >> /\ answer = << >> =>
            \/ Top.at = "greedy" /\ spent.decodes =< Base
            \/ Top.at = "gentle" /\ spent.decodes =< Base + 1 /\ Top.defect = "language"
            \/ /\ Top.at \in {"split", "strong"} /\ spent.decodes =< 2
               /\ Len(calls) = 1 /\ Top.tongue
       /\ calls # << >> /\ answer # << >> =>
            /\ Len(calls) = 1 /\ Top.tongue
            /\ \/ Top.at = "left" /\ spent.decodes =< 4
               \/ Top.at = "right" /\ spent.decodes =< 6

LadderInvariant == StackSound /\ AnswerSound /\ Cheap

-----------------------------------------------------------------------------
(* The stack, a step at a time.                                            *)

\* What Last and Front are, and a stack whose last call has become another.
LEMMA StackParts ==
  ASSUME NEW J, NEW s \in Seq(J), s # << >>, NEW c \in J
  PROVE  /\ Len(s) \in Nat \ {0} /\ Last(s) = s[Len(s)] /\ Last(s) \in J
         /\ Front(s) \in Seq(J) /\ Len(Front(s)) = Len(s) - 1
         /\ \A i \in 1 .. (Len(s) - 1) : Front(s)[i] = s[i]
         /\ Append(Front(s), c) \in Seq(J) /\ Len(Append(Front(s), c)) = Len(s)
         /\ \A i \in 1 .. (Len(s) - 1) : Append(Front(s), c)[i] = s[i]
         /\ Append(Front(s), c)[Len(s)] = c
<1> DEFINE f == SubSeq(s, 1, Len(s) - 1)
<1>1. Len(s) \in Nat \ {0} /\ s[Len(s)] \in J
  OBVIOUS
<1>2. /\ f \in Seq(J) /\ Len(f) = Len(s) - 1
      /\ \A i \in 1 .. (Len(s) - 1) : f[i] = s[i]
  <2>1. \A i \in 1 .. (Len(s) - 1) : s[i] \in J
    OBVIOUS
  <2>2. 1 \in Int /\ Len(s) - 1 \in Int BY <1>1
  <2>3. /\ f \in Seq(J) /\ Len(f) = IF 1 =< Len(s) - 1 THEN Len(s) - 1 - 1 + 1 ELSE 0
        /\ \A i \in 1 .. (Len(s) - 1 - 1 + 1) : f[i] = s[1 + i - 1]
    BY <2>1, <2>2, SubSeqProperties
  <2> HIDE DEF f
  <2> DEFINE l == Len(s)
  <2>4. l \in Nat /\ l >= 1 BY <1>1
  <2> HIDE DEF l
  <2>5. l - 1 - 1 + 1 = l - 1 /\ (IF 1 =< l - 1 THEN l - 1 - 1 + 1 ELSE 0) = l - 1
    BY <2>4
  <2>6. \A i \in 1 .. (l - 1) : 1 + i - 1 = i BY <2>4
  <2> QED BY <2>3, <2>5, <2>6 DEF l
<1> HIDE DEF f
<1>3. /\ Append(f, c) \in Seq(J) /\ Len(Append(f, c)) = Len(s)
      /\ \A i \in 1 .. (Len(s) - 1) : Append(f, c)[i] = s[i]
      /\ Append(f, c)[Len(s)] = c
  BY <1>1, <1>2
<1> QED BY <1>1, <1>2, <1>3 DEF Front, Last, f

LEMMA WindowIsSet ==
  ASSUME NEW c \in Ladders
  PROVE  /\ c.from \in Nat /\ c.to \in Nat /\ Window(c) \in SUBSET Nat
         /\ c.from < c.to => c.from \in Window(c)
<1>1. c.from \in Nat /\ c.to \in Nat BY DEF Ladders
<1>2. Window(c) = c.from .. (c.to - 1) BY DEF Window
<1> DEFINE f == c.from
           t == c.to
<1> HIDE DEF f, t
<1>3. f \in Nat /\ t \in Nat /\ Window(c) = f .. (t - 1) BY <1>1, <1>2 DEF f, t
<1> QED BY <1>3 DEF f, t

\* The outermost call returns the whole pass, and another what is awaited.
LEMMA ReturnKeeps ==
  ASSUME StackSound, calls # << >>, NEW said \in Texts, said.of = Window(Top),
         NEW how, NEW sp \in Spendings, said.loops /\ Len(calls) = 1 => how = "best",
         Returns(said, how, sp)
  PROVE  /\ StackSound' /\ AnswerSound'
         /\ Len(calls') = Len(calls) - 1 /\ answer' # << >>
         /\ Len(calls) > 1 => Last(calls') = calls[Len(calls) - 1]
         /\ \A i \in 1 .. Len(calls') : calls'[i] = calls[i]
<1> DEFINE n == Len(calls)
<1>1. /\ n \in Nat \ {0} /\ Top = calls[n] /\ calls \in Seq(Ladders)
      /\ calls' \in Seq(Ladders) /\ Len(calls') = n - 1
      /\ \A i \in 1 .. (n - 1) : calls'[i] = calls[i]
  <2>1. Top \in Ladders BY DEF StackSound, InStack, Top, Last
  <2> QED BY <2>1, StackParts DEF StackSound, InStack, Returns, Top
<1>2. /\ answer' = <<said>>
      /\ spent' = IF n = 1 THEN [sp EXCEPT !.ended = how] ELSE sp
  BY DEF Returns
<1>3. answer' \in Seq(Texts) /\ Len(answer') = 1 /\ answer' # << >> /\ answer'[1] = said
  BY <1>2
<1> HIDE DEF n
<1>4. StackSound'
  <2>1. \A i \in 1 .. (n - 1) : i \in 1 .. n /\ i < n BY <1>1
  <2>2. \A i \in 1 .. (n - 1) : i < n - 1 => i + 1 \in 1 .. (n - 1)  BY <1>1
  <2>3. calls' # << >> => 1 \in 1 .. (n - 1)  BY <1>1
  <2> QED BY <1>1, <2>1, <2>2, <2>3 DEF StackSound, InStack, n
<1>5. CASE n = 1
  <2>1. calls' = << >> /\ said.of = 0 .. (Units - 1)
    <3>1. calls' = << >> BY <1>1, <1>5
    <3> QED BY <3>1, <1>1, <1>5 DEF StackSound, InStack
  <2>2. said.loops => spent'.ended = "best" BY <1>2, <1>5 DEF Spendings, n
  <2>3. AnswerSound' BY <1>3, <2>1, <2>2 DEF AnswerSound, Ended
  <2> QED BY <1>1, <1>3, <1>4, <1>5, <2>3 DEF n
<1>6. CASE n > 1
  <2>1. n - 1 \in 1 .. n /\ n - 1 < n /\ (n - 1) + 1 = n BY <1>1, <1>6
  <2>2. calls[n - 1].at \in Waiting /\ Window(calls[n]) = Awaited(calls[n - 1])
    BY <2>1 DEF StackSound, InStack, n
  <2>3. calls' # << >> /\ Last(calls') = calls[n - 1]
    BY <1>1, <1>6 DEF Last
  <2>4. AnswerSound' BY <1>1, <1>3, <2>2, <2>3 DEF AnswerSound, Ended, Top
  <2> QED BY <1>1, <1>3, <1>4, <1>6, <2>3, <2>4 DEF n
<1> QED BY <1>1, <1>5, <1>6

\* The call at work goes on to its next rung.
LEMMA GoingOnKeeps ==
  ASSUME StackSound, calls # << >>, NEW c \in Ladders, CallSound(c), c.at \notin Waiting,
         c.from = Top.from, c.to = Top.to, c.depth = Top.depth,
         calls' = Become(c), answer' = << >>
  PROVE  /\ StackSound' /\ AnswerSound'
         /\ Len(calls') = Len(calls) /\ calls' # << >> /\ Last(calls') = c
         /\ Len(calls) > 1 => calls'[1] = calls[1]
<1> DEFINE n == Len(calls)
<1>1. /\ n \in Nat \ {0} /\ Top = calls[n] /\ calls \in Seq(Ladders)
      /\ calls' \in Seq(Ladders) /\ Len(calls') = n
      /\ \A i \in 1 .. (n - 1) : calls'[i] = calls[i]
      /\ calls'[n] = c
  <2>1. calls \in Seq(Ladders) BY DEF StackSound, InStack
  <2>2. calls' = Append(Front(calls), c) /\ Top = Last(calls) BY DEF Become, Top
  <2> QED BY <2>1, <2>2, StackParts
<1>2. Window(c) = Window(calls[n]) BY <1>1 DEF Window
<1>3. calls[n].depth = n - 1 BY <1>1 DEF StackSound, InStack
<1> HIDE DEF n
<1>4. \A i \in 1 .. n : Window(calls'[i]) = Window(calls[i]) /\ CallSound(calls'[i])
                         /\ calls'[i].depth = i - 1
  <2> SUFFICES ASSUME NEW i \in 1 .. n
      PROVE  Window(calls'[i]) = Window(calls[i]) /\ CallSound(calls'[i])
                         /\ calls'[i].depth = i - 1
    OBVIOUS
  <2>1. CASE i = n BY <2>1, <1>1, <1>2, <1>3
  <2>2. CASE i # n
    <3>1. i \in 1 .. (n - 1) BY <2>2, <1>1
    <3> QED BY <3>1, <1>1 DEF StackSound, InStack, n
  <2> QED BY <2>1, <2>2
<1>5. \A i \in 1 .. n : i < n => calls'[i].at \in Waiting
                               /\ Window(calls'[i + 1]) = Awaited(calls'[i])
  <2> SUFFICES ASSUME NEW i \in 1 .. n, i < n
      PROVE  calls'[i].at \in Waiting /\ Window(calls'[i + 1]) = Awaited(calls'[i])
    OBVIOUS
  <2>1. i \in 1 .. (n - 1) /\ i + 1 \in 1 .. n BY <1>1
  <2>2. calls'[i] = calls[i] BY <2>1, <1>1
  <2>3. calls[i].at \in Waiting /\ Window(calls[i + 1]) = Awaited(calls[i])
    BY DEF StackSound, InStack, n
  <2> QED BY <2>1, <2>2, <2>3, <1>4
<1>6. Window(calls'[1]) = 0 .. (Units - 1)
  <2>1. 1 \in 1 .. n BY <1>1
  <2> QED BY <2>1, <1>4 DEF StackSound, InStack
<1>7. StackSound' BY <1>1, <1>4, <1>5, <1>6 DEF StackSound, InStack
<1>8. calls' # << >> /\ Last(calls') = c BY <1>1 DEF Last
<1>9. AnswerSound' BY <1>8 DEF AnswerSound, Ended, Top
<1>10. n > 1 => calls'[1] = calls[1]
  <2>1. n > 1 => 1 \in 1 .. (n - 1) BY <1>1
  <2> QED BY <2>1, <1>1
<1> QED BY <1>1, <1>7, <1>8, <1>9, <1>10 DEF n

\* It waits for a call of its own.
LEMMA EnteringKeeps ==
  ASSUME StackSound, calls # << >>, NEW c \in Ladders, CallSound(c), c.at \in Waiting,
         c.from = Top.from, c.to = Top.to, c.depth = Top.depth,
         NEW from \in Nat, NEW to \in Nat, from < to,
         Window(Call(from, to, Top.depth + 1)) = Awaited(c),
         calls' = Append(Become(c), Call(from, to, Top.depth + 1)), answer' = << >>
  PROVE  /\ StackSound' /\ AnswerSound'
         /\ Len(calls') = Len(calls) + 1 /\ calls' # << >>
         /\ Last(calls') = Call(from, to, Top.depth + 1)
         /\ Len(calls) > 1 => calls'[1] = calls[1]
         /\ Len(calls) = 1 => calls'[1] = c
<1> DEFINE n == Len(calls)
           b == Become(c)
           k == Call(from, to, Top.depth + 1)
<1>1. /\ n \in Nat \ {0} /\ Top = calls[n] /\ calls \in Seq(Ladders)
      /\ b \in Seq(Ladders) /\ Len(b) = n
      /\ \A i \in 1 .. (n - 1) : b[i] = calls[i]
      /\ b[n] = c
  <2>1. calls \in Seq(Ladders) BY DEF StackSound, InStack
  <2>2. b = Append(Front(calls), c) /\ Top = Last(calls) BY DEF Become, Top
  <2>3. /\ Len(calls) \in Nat \ {0} /\ Last(calls) = calls[Len(calls)]
        /\ Append(Front(calls), c) \in Seq(Ladders) /\ Len(Append(Front(calls), c)) = Len(calls)
        /\ \A i \in 1 .. (Len(calls) - 1) : Append(Front(calls), c)[i] = calls[i]
        /\ Append(Front(calls), c)[Len(calls)] = c
    BY <2>1, StackParts
  <2> HIDE DEF b, n
  <2> QED BY <2>1, <2>2, <2>3 DEF n
<1>2. calls[n].depth = n - 1 /\ n \in 1 .. n BY <1>1 DEF StackSound, InStack
<1>3. /\ k \in Ladders /\ CallSound(k) /\ k.depth = n /\ k.at = "greedy"
  <2>1. Top.depth + 1 = n /\ n \in Nat BY <1>1, <1>2
  <2>2. NoText \in Texts BY DEF NoText, Texts
  <2>3. k \in Ladders
    BY <2>1, <2>2 DEF Ladders, Call
  <2> QED BY <2>1, <2>3 DEF Call, CallSound, Knows, Blames, Halves
<1> HIDE DEF n, b, k
<1>4. /\ calls' \in Seq(Ladders) /\ Len(calls') = n + 1
      /\ \A i \in 1 .. n : calls'[i] = b[i]
      /\ calls'[n + 1] = k
  <2>1. calls' = Append(b, k) /\ k \in Ladders BY <1>3 DEF b, k
  <2>2. b \in Seq(Ladders) /\ Len(b) = n BY <1>1
  <2>3. /\ Append(b, k) \in Seq(Ladders) /\ Len(Append(b, k)) = Len(b) + 1
        /\ \A i \in 1 .. Len(b) : Append(b, k)[i] = b[i]
        /\ Append(b, k)[Len(b) + 1] = k
    BY <2>1, <2>2, AppendProperties
  <2> QED BY <2>1, <2>2, <2>3
<1>5. calls'[n] = c /\ \A i \in 1 .. (n - 1) : calls'[i] = calls[i]
  BY <1>1, <1>2, <1>4
<1>6. Window(c) = Window(calls[n]) BY <1>1 DEF Window
<1>7. \A i \in 1 .. n : Window(calls'[i]) = Window(calls[i]) /\ CallSound(calls'[i])
                         /\ calls'[i].depth = i - 1
  <2> SUFFICES ASSUME NEW i \in 1 .. n
      PROVE  Window(calls'[i]) = Window(calls[i]) /\ CallSound(calls'[i])
                         /\ calls'[i].depth = i - 1
    OBVIOUS
  <2>1. CASE i = n BY <2>1, <1>1, <1>2, <1>5, <1>6
  <2>2. CASE i # n
    <3>1. i \in 1 .. (n - 1) BY <2>2, <1>1
    <3> QED BY <3>1, <1>1, <1>5 DEF StackSound, InStack, n
  <2> QED BY <2>1, <2>2
<1>8. \A i \in 1 .. (n + 1) : CallSound(calls'[i]) /\ calls'[i].depth = i - 1
  <2> SUFFICES ASSUME NEW i \in 1 .. (n + 1)
      PROVE  CallSound(calls'[i]) /\ calls'[i].depth = i - 1
    OBVIOUS
  <2>1. CASE i = n + 1 BY <2>1, <1>1, <1>3, <1>4
  <2>2. CASE i # n + 1
    <3>1. i \in 1 .. n BY <2>2, <1>1
    <3> QED BY <3>1, <1>7
  <2> QED BY <2>1, <2>2
<1>9. \A i \in 1 .. (n + 1) : i < n + 1 =>
         calls'[i].at \in Waiting /\ Window(calls'[i + 1]) = Awaited(calls'[i])
  <2> SUFFICES ASSUME NEW i \in 1 .. (n + 1), i < n + 1
      PROVE  calls'[i].at \in Waiting /\ Window(calls'[i + 1]) = Awaited(calls'[i])
    OBVIOUS
  <2>1. CASE i = n
    <3>1. Window(k) = Awaited(c) BY DEF k
    <3> QED BY <3>1, <2>1, <1>4, <1>5
  <2>2. CASE i # n
    <3>1. i \in 1 .. (n - 1) /\ i + 1 \in 1 .. n /\ i \in 1 .. n /\ i < n BY <2>2, <1>1
    <3>2. calls'[i] = calls[i] BY <3>1, <1>5
    <3>3. calls[i].at \in Waiting /\ Window(calls[i + 1]) = Awaited(calls[i])
      BY <3>1 DEF StackSound, InStack, n
    <3> QED BY <3>1, <3>2, <3>3, <1>7
  <2> QED BY <2>1, <2>2
<1>10. Window(calls'[1]) = 0 .. (Units - 1)
  <2>1. 1 \in 1 .. n BY <1>1
  <2> QED BY <2>1, <1>7 DEF StackSound, InStack
<1>11. StackSound' BY <1>4, <1>8, <1>9, <1>10 DEF StackSound, InStack
<1>12. calls' # << >> /\ Last(calls') = k BY <1>1, <1>4 DEF Last
<1>13. AnswerSound' BY <1>12, <1>3 DEF AnswerSound, Ended, Top, Waiting
<1>14. n > 1 => calls'[1] = calls[1]
  <2>1. n > 1 => 1 \in 1 .. (n - 1) BY <1>1
  <2> QED BY <2>1, <1>5
<1>15. n = 1 => calls'[1] = c BY <1>5
<1> QED BY <1>4, <1>11, <1>12, <1>13, <1>14, <1>15 DEF n, k

-----------------------------------------------------------------------------
(* The pieces.                                                             *)

\* A decode that is not called looping is whole, and its text does not loop.
LEMMA DecodesAre ==
  ASSUME NEW c \in Ladders, c.from < c.to, NEW d \in Decodes(c)
  PROVE  /\ d.text \in Texts /\ d.gaveUp \in BOOLEAN
         /\ ~d.gaveUp => d.text.of = Window(c)
         /\ DefectOf(d) \in {"none", "loop", "language"}
         /\ DefectOf(d) # "loop" => ~d.gaveUp /\ ~d.text.loops
<1>1. c.from \in Nat /\ c.to \in Nat /\ Window(c) \in SUBSET Nat
  BY WindowIsSet
<1>2. /\ DefectOf(d) \in {"none", "loop", "language"}
      /\ DefectOf(d) # "loop" => ~d.gaveUp /\ ~d.text.loops
  BY DEF DefectOf
<1>3. CASE d \in WholeDecodes(c)
  <2>1. PICK t \in [of : {Window(c)}, lang : {"wanted", "other"}, loops : BOOLEAN] :
          d = [text |-> t, gaveUp |-> FALSE]
    BY <1>3 DEF WholeDecodes
  <2>2. d.text = t /\ d.gaveUp = FALSE BY <2>1
  <2>3. t \in Texts /\ t.of = Window(c) BY <1>1 DEF Texts
  <2> QED BY <2>2, <2>3, <1>2
<1>4. CASE d \notin WholeDecodes(c)
  <2>1. PICK t \in [of : {c.from .. (u - 1) : u \in Window(c)}, lang : {"none"}, loops : BOOLEAN] :
          d = [text |-> t, gaveUp |-> TRUE]
    BY <1>4 DEF Decodes
  <2>2. d.text = t /\ d.gaveUp = TRUE BY <2>1
  <2>3. t.of \in SUBSET Nat
    <3>1. PICK u \in Window(c) : t.of = c.from .. (u - 1) OBVIOUS
    <3> DEFINE f == c.from
    <3> HIDE DEF f
    <3>2. f \in Nat /\ u \in Nat /\ t.of = f .. (u - 1) BY <3>1, <1>1 DEF f
    <3> QED BY <3>2
  <2>4. t \in Texts BY <2>3 DEF Texts
  <2> QED BY <2>2, <2>4, <1>2
<1> QED BY <1>3, <1>4

LEMMA WholeDecodesAre ==
  ASSUME NEW c \in Ladders, c.from < c.to, NEW d \in WholeDecodes(c)
  PROVE  d \in Decodes(c) /\ d.gaveUp = FALSE
BY DEF Decodes, WholeDecodes

\* Two calls that differ in what they keep.
Alike(c, k) ==
  /\ k.from = c.from /\ k.to = c.to /\ k.depth = c.depth /\ k.at = c.at
  /\ k.first = c.first /\ k.defect = c.defect /\ k.tongue = c.tongue
  /\ k.part = c.part /\ k.cut = c.cut

\* A call keeps whole texts as whole ones, and a part as a part.
LEMMA KeepsAre ==
  ASSUME NEW c \in Ladders, Knows(c), NEW said \in Texts, NEW isPart \in BOOLEAN,
         ~isPart => said.of = Window(c)
  PROVE  LET k == Keeps(c, said, isPart)
         IN  /\ k \in Ladders /\ Alike(c, k)
             /\ \A t \in k.whole : t.of = Window(c)
             /\ ~isPart \/ c.whole # {} => k.whole # {}
<1> DEFINE k == Keeps(c, said, isPart)
           a == [c EXCEPT !.partial = @ \cup {said}]
           b == [c EXCEPT !.whole = @ \cup {said}, !.partial = {}]
<1>1. c.whole \in SUBSET Texts /\ c.partial \in SUBSET Texts BY DEF Ladders
<1>2. k = c \/ (isPart /\ k = a) \/ (~isPart /\ k = b)
  BY DEF Keeps
<1>3. ~isPart => k = b
  <2>1. c.from < c.to BY DEF Knows
  <2>2. ~isPart => said.of # {} BY <2>1, WindowIsSet
  <2> QED BY <2>2 DEF Keeps
<1>4. a \in Ladders /\ Alike(c, a) /\ a.whole = c.whole
  <2>1. c.partial \cup {said} \in SUBSET Texts BY <1>1
  <2> QED BY <2>1 DEF Ladders, Alike
<1>5. b \in Ladders /\ Alike(c, b) /\ b.whole = c.whole \cup {said}
  <2>1. c.whole \cup {said} \in SUBSET Texts BY <1>1
  <2> QED BY <2>1 DEF Ladders, Alike
<1>6. \A t \in c.whole : t.of = Window(c) BY DEF Knows
<1>7. Alike(c, c) BY DEF Alike
<1> HIDE DEF k, a, b
<1> QED BY <1>2, <1>3, <1>4, <1>5, <1>6, <1>7 DEF k

\* What is cut off a text at its beginning, up to where it ends.
LEMMA PrefixesAre ==
  ASSUME NEW c \in Ladders, c.from < c.to, NEW said \in Texts,
         NEW p \in CleanPrefixes(c, said)
  PROVE  /\ p \in Texts /\ EndOf(p) \in Nat /\ p.of \in SUBSET Window(c)
         /\ c.from < EndOf(p) /\ EndOf(p) =< c.to
         /\ p.of = c.from .. (EndOf(p) - 1)
<1> DEFINE f == c.from
           t == c.to
<1>1. f \in Nat /\ t \in Nat /\ Window(c) = f .. (t - 1) /\ MinPrefix \in Nat
  BY WindowIsSet, LadderAssumption DEF Window
<1>2. PICK e \in (f + MinPrefix) .. t : p.of = f .. (e - 1)
  BY DEF CleanPrefixes
<1>3. /\ p \in [of : {f .. (x - 1) : x \in (f + MinPrefix) .. t}, lang : {said.lang}, loops : BOOLEAN]
      /\ p.of # {}
  BY DEF CleanPrefixes
<1> HIDE DEF f, t
<1>4. e \in Nat /\ f < e /\ e =< t /\ p.of \in SUBSET Nat /\ p.of \in SUBSET (f .. (t - 1))
  BY <1>1, <1>2, <1>3
<1>5. p \in Texts
  <2>1. said.lang \in {"none", "wanted", "other"} BY DEF Texts
  <2>2. p = [of |-> p.of, lang |-> p.lang, loops |-> p.loops] /\ p.lang = said.lang
        /\ p.loops \in BOOLEAN BY <1>3
  <2> QED BY <2>1, <2>2, <1>4 DEF Texts
<1>6. EndOf(p) = e
  <2> DEFINE P(u) == \A v \in p.of : v < u
             ends == {v + 1 : v \in p.of}
  <2>1. e \in ends /\ P(e)
    <3>1. e - 1 \in p.of /\ e = (e - 1) + 1 BY <1>1, <1>2, <1>4
    <3>2. P(e) BY <1>1, <1>2, <1>4
    <3> QED BY <3>1, <3>2
  <2>2. \A u \in ends : P(u) => u = e
    <3> SUFFICES ASSUME NEW v \in p.of, P(v + 1) PROVE v + 1 = e
      OBVIOUS
    <3>1. v \in f .. (e - 1) /\ e - 1 \in p.of BY <1>1, <1>2, <1>4
    <3>2. e - 1 < v + 1 BY <3>1
    <3> QED BY <3>1, <3>2, <1>1, <1>4
  <2>3. EndOf(p) = CHOOSE u \in ends : P(u) BY DEF EndOf
  <2> HIDE DEF P, ends
  <2> QED BY <2>1, <2>2, <2>3
<1> QED BY <1>1, <1>2, <1>4, <1>5, <1>6 DEF f, t

\* A part, joined with what was awaited, is the whole window.
LEMMA JoinsAre ==
  ASSUME NEW c \in Ladders, c.from < c.to, Halves(c), c.at \in {"rest", "right"},
         NEW a \in Texts, a.of = Awaited(c), NEW j \in Joins(c.part, a)
  PROVE  j \in Texts /\ j.of = Window(c)
<1>1. c.part \in Texts /\ c.part.of \in SUBSET Window(c) /\ Window(c) \in SUBSET Nat
  BY WindowIsSet DEF Ladders, Halves
<1>2. a.of = Window(c) \ c.part.of BY DEF Awaited
<1>3. /\ j \in [of : {c.part.of \cup a.of}, lang : {c.part.lang, a.lang}, loops : BOOLEAN]
  BY DEF Joins
<1>4. c.part.of \cup a.of = Window(c) BY <1>1, <1>2
<1>5. {c.part.lang, a.lang} \subseteq {"none", "wanted", "other"} BY <1>1 DEF Texts
<1> QED BY <1>1, <1>3, <1>4, <1>5 DEF Texts

\* What has been asked.
LEMMA AskedIs ==
  ASSUME spent \in Spendings, NEW d
  PROVE  /\ Asked(d) \in Spendings
         /\ ~Asked(d).looped => /\ ~spent.looped /\ DefectOf(d) # "loop"
                                /\ Asked(d).decodes = spent.decodes + 1
<1> DEFINE looped == spent.looped \/ DefectOf(d) = "loop"
<1>1. Asked(d) = [spent EXCEPT !.looped = looped, !.decodes = IF looped THEN 0 ELSE @ + 1]
  BY DEF Asked
<1>2. looped \in BOOLEAN /\ spent.looped \in BOOLEAN /\ spent.decodes \in Nat BY DEF Spendings
<1>3. looped = (spent.looped \/ DefectOf(d) = "loop") OBVIOUS
<1> HIDE DEF looped
<1>4. Asked(d) \in Spendings /\ Asked(d).looped = looped
      /\ (~looped => Asked(d).decodes = spent.decodes + 1)
  <2> DEFINE n == IF looped THEN 0 ELSE spent.decodes + 1
  <2>1. n \in Nat /\ (~looped => n = spent.decodes + 1) BY <1>2
  <2>2. Asked(d) = [spent EXCEPT !.looped = looped, !.decodes = n] BY <1>1
  <2> HIDE DEF n
  <2> QED BY <2>1, <2>2, <1>2 DEF Spendings
<1> QED BY <1>2, <1>3, <1>4

-----------------------------------------------------------------------------
(* The three kinds of step, with what they cost.                           *)

LEMMA TopIs ==
  ASSUME LadderInvariant, calls # << >>
  PROVE  /\ Top \in Ladders /\ Knows(Top) /\ Blames(Top) /\ Halves(Top)
         /\ Top.from < Top.to /\ Top.depth = Len(calls) - 1 /\ Len(calls) \in Nat \ {0}
         /\ Top = calls[Len(calls)] /\ spent \in Spendings
<1>1. calls \in Seq(Ladders) /\ spent \in Spendings
  BY DEF LadderInvariant, StackSound, InStack, Cheap
<1>2. Len(calls) \in Nat \ {0} /\ Top = calls[Len(calls)] /\ Top \in Ladders
  BY <1>1, StackParts DEF Top
<1>3. CallSound(Top) /\ Top.depth = Len(calls) - 1
  BY <1>2 DEF LadderInvariant, StackSound, InStack
<1> QED BY <1>1, <1>2, <1>3 DEF CallSound, Knows

LEMMA ReturnStep ==
  ASSUME LadderInvariant, calls # << >>, NEW said \in Texts, said.of = Window(Top),
         NEW how \in {"usable", "joined", "language", "best"}, NEW sp \in Spendings,
         said.loops /\ Len(calls) = 1 => how = "best",
         Returns(said, how, sp),
         ~sp.looped => /\ ~spent.looped
                       /\ Len(calls) = 1 => sp.decodes =< 6
                       /\ Len(calls) > 1 => sp.decodes =< Base + 2
  PROVE  LadderInvariant'
<1>1. StackSound /\ Cheap /\ Len(calls) \in Nat \ {0} BY TopIs DEF LadderInvariant
<1>2. /\ StackSound' /\ AnswerSound'
      /\ Len(calls') = Len(calls) - 1 /\ answer' # << >>
      /\ Len(calls) > 1 => Last(calls') = calls[Len(calls) - 1]
      /\ \A i \in 1 .. Len(calls') : calls'[i] = calls[i]
  BY <1>1, ReturnKeeps
<1>3. /\ spent' \in Spendings /\ spent'.looped = sp.looped /\ spent'.decodes = sp.decodes
  BY DEF Returns, Spendings
<1>4. ASSUME ~sp.looped, calls' # << >>
      PROVE  /\ Len(calls) = 2 /\ Len(calls') = 1 /\ Last(calls') = calls[1]
             /\ calls[1].tongue /\ calls[1].at \in {"left", "right"}
             /\ sp.decodes =< IF calls[1].at = "left" THEN 4 ELSE 6
  <2>1. Len(calls) =< 2 /\ (Len(calls) = 2 => calls[1].tongue /\ calls[1].at \in {"left", "right"})
    BY <1>1, <1>4 DEF Cheap
  <2>2. Len(calls') # 0
    <3>1. calls' \in Seq(Ladders) BY <1>2 DEF StackSound, InStack
    <3> QED BY <3>1, <1>4
  <2>3. Len(calls) = 2 BY <1>1, <1>2, <2>1, <2>2
  <2>4. 2 - 1 = 1 /\ Base + 2 = (IF calls[1].at = "left" THEN 4 ELSE 6)
    BY <2>3 DEF Base
  <2> QED BY <1>2, <1>4, <2>1, <2>3, <2>4
<1>5. ~sp.looped => sp.decodes =< 6 /\ Len(calls') =< 2
  <2>1. CASE calls' = << >>
    <3>1. Len(calls') = 0 BY <2>1
    <3> QED BY <3>1, <1>1, <1>2
  <2>2. CASE calls' # << >>
    <3> SUFFICES ASSUME ~sp.looped PROVE sp.decodes =< 6 /\ Len(calls') =< 2
      OBVIOUS
    <3>1. sp.decodes \in Nat BY DEF Spendings
    <3>2. Len(calls') = 1 /\ (sp.decodes =< 4 \/ sp.decodes =< 6) BY <2>2, <1>4
    <3> QED BY <3>1, <3>2
  <2> QED BY <2>1, <2>2
<1>6. Cheap'
  <2>1. ASSUME ~spent'.looped, calls' # << >>
        PROVE  /\ Len(calls') = 1 /\ Top'.tongue
               /\ \/ Top'.at = "left" /\ spent'.decodes =< 4
                  \/ Top'.at = "right" /\ spent'.decodes =< 6
    BY <2>1, <1>3, <1>4 DEF Top
  <2>2. Len(calls') = 2 => calls' # << >>
    <3>1. calls' = << >> => Len(calls') = 0
      <4>1. Len(<< >>) = 0 OBVIOUS
      <4> QED BY <4>1
    <3> QED BY <3>1
  <2> QED BY <2>1, <2>2, <1>2, <1>3, <1>5 DEF Cheap
<1> QED BY <1>2, <1>6 DEF LadderInvariant

LEMMA GoingOnStep ==
  ASSUME LadderInvariant, calls # << >>, NEW c \in Ladders, CallSound(c), c.at \notin Waiting,
         c.from = Top.from, c.to = Top.to, c.depth = Top.depth,
         calls' = Become(c), answer' = << >>, spent' \in Spendings,
         ~spent'.looped =>
           /\ ~spent.looped
           /\ \/ c.at = "gentle" /\ spent'.decodes =< Base + 1 /\ c.defect = "language"
              \/ /\ c.at \in {"split", "strong"} /\ spent'.decodes =< 2
                 /\ Len(calls) = 1 /\ c.tongue
  PROVE  LadderInvariant'
<1>1. StackSound /\ Cheap /\ Len(calls) \in Nat \ {0} BY TopIs DEF LadderInvariant
<1>2. /\ StackSound' /\ AnswerSound'
      /\ Len(calls') = Len(calls) /\ calls' # << >> /\ Last(calls') = c
      /\ Len(calls) > 1 => calls'[1] = calls[1]
  BY <1>1, GoingOnKeeps
<1>3. Top' = c BY <1>2 DEF Top
<1>4. Base' = Base BY <1>1, <1>2 DEF Base
<1>5. ASSUME ~spent'.looped
      PROVE  /\ spent'.decodes =< 6 /\ Len(calls') =< 2
             /\ Len(calls') = 2 => calls'[1].tongue /\ calls'[1].at \in {"left", "right"}
  <2>1. /\ Len(calls) =< 2
        /\ Len(calls) = 2 => calls[1].tongue /\ calls[1].at \in {"left", "right"}
    BY <1>1, <1>5 DEF Cheap
  <2>2. spent'.decodes \in Nat /\ Base + 1 =< 6 BY DEF Spendings, Base
  <2>3. Base \in Nat BY DEF Base
  <2>4. spent'.decodes =< 6 BY <2>2, <2>3, <1>5
  <2> QED BY <2>1, <2>4, <1>1, <1>2
<1>6. Cheap' BY <1>2, <1>3, <1>4, <1>5 DEF Cheap
<1> QED BY <1>2, <1>6 DEF LadderInvariant

LEMMA EnteringStep ==
  ASSUME LadderInvariant, calls # << >>, NEW c \in Ladders, CallSound(c), c.at \in Waiting,
         c.from = Top.from, c.to = Top.to, c.depth = Top.depth,
         NEW from \in Nat, NEW to \in Nat, from < to,
         Window(Call(from, to, Top.depth + 1)) = Awaited(c),
         calls' = Append(Become(c), Call(from, to, Top.depth + 1)), answer' = << >>,
         spent' = spent,
         ~spent.looped =>
           /\ Len(calls) = 1 /\ c.tongue
           /\ \/ c.at = "left" /\ spent.decodes =< 2
              \/ c.at = "right" /\ spent.decodes =< 4
  PROVE  LadderInvariant'
<1>1. StackSound /\ Cheap /\ Len(calls) \in Nat \ {0} BY TopIs DEF LadderInvariant
<1> DEFINE k == Call(from, to, Top.depth + 1)
<1>2. /\ StackSound' /\ AnswerSound'
      /\ Len(calls') = Len(calls) + 1 /\ calls' # << >>
      /\ Last(calls') = k
      /\ Len(calls) > 1 => calls'[1] = calls[1]
      /\ Len(calls) = 1 => calls'[1] = c
  BY <1>1, EnteringKeeps
<1>3. k.at = "greedy" BY DEF Call
<1> HIDE DEF k
<1>4. Top'.at = "greedy" BY <1>2, <1>3 DEF Top
<1>5. spent' \in Spendings BY <1>1 DEF Cheap
<1>6. ASSUME ~spent.looped
      PROVE  /\ Len(calls') = 2 /\ calls'[1] = c /\ spent.decodes =< 6
             /\ c.tongue /\ c.at \in {"left", "right"}
             /\ spent.decodes =< Base'
  <2>1. Len(calls') = 2 /\ calls'[1] = c BY <1>2, <1>6
  <2>2. Base' = (IF c.at = "left" THEN 2 ELSE 4) BY <2>1 DEF Base
  <2>3. spent.decodes =< 6 BY <1>1, <1>6 DEF Cheap
  <2> QED BY <2>1, <2>2, <2>3, <1>6
<1>7. Cheap' BY <1>2, <1>4, <1>5, <1>6 DEF Cheap
<1> QED BY <1>2, <1>7 DEF LadderInvariant

-----------------------------------------------------------------------------
(* The steps.                                                              *)

\* The call that goes on has the same window, and knows what it knew.
Follows(c) ==
  /\ c \in Ladders /\ c.from = Top.from /\ c.to = Top.to /\ c.depth = Top.depth
  /\ \A t \in c.whole : t.of = Window(Top)

LEMMA FollowsIsSound ==
  ASSUME NEW c, Follows(c), Blames(c), c.at \notin Waiting, Top.from < Top.to,
         c.at \in {"last penalty", "best"} => c.whole # {}
  PROVE  CallSound(c)
<1>1. Window(c) = Window(Top) /\ c.from < c.to BY DEF Follows, Window
<1>2. Knows(c) BY <1>1 DEF Follows, Knows
<1>3. Halves(c) BY DEF Halves, Waiting
<1> QED BY <1>2, <1>3 DEF CallSound

LEMMA GreedyStep ==
  ASSUME LadderInvariant, DecodesGreedily
  PROVE  LadderInvariant'
<1>1. calls # << >> /\ Top.at = "greedy" /\ answer = << >> BY DEF DecodesGreedily, Running
<1>2. /\ Top \in Ladders /\ Knows(Top) /\ Blames(Top) /\ Halves(Top)
      /\ Top.from < Top.to /\ Len(calls) \in Nat \ {0} /\ spent \in Spendings
  BY <1>1, TopIs
<1>3. PICK d \in Decodes(Top) :
        IF DefectOf(d) = "none" THEN Returns(d.text, "usable", Asked(d))
        ELSE LET kept == [Keeps(Top, d.text, d.gaveUp) EXCEPT !.first = d.text, !.defect = DefectOf(d)]
             IN  GoesOn([kept EXCEPT !.at = IF /\ setup.aligns /\ Top.depth < MaxDepth
                                               /\ DefectOf(d) = "loop"
                                            THEN "salvage" ELSE "gentle"], Asked(d))
  BY DEF DecodesGreedily
<1>4. /\ d.text \in Texts /\ d.gaveUp \in BOOLEAN
      /\ ~d.gaveUp => d.text.of = Window(Top)
      /\ DefectOf(d) \in {"none", "loop", "language"}
      /\ DefectOf(d) # "loop" => ~d.gaveUp /\ ~d.text.loops
  BY <1>2, DecodesAre
<1>5. /\ Asked(d) \in Spendings
      /\ ~Asked(d).looped => /\ ~spent.looped /\ DefectOf(d) # "loop"
                             /\ Asked(d).decodes = spent.decodes + 1
  BY <1>2, AskedIs
<1>6. ~spent.looped => spent.decodes =< Base /\ Len(calls) =< 2
  BY <1>1 DEF LadderInvariant, Cheap
<1>7. /\ Base \in Nat /\ spent.decodes \in Nat /\ Base =< 4
      /\ Len(calls) = 1 => Base = 0
  BY <1>2 DEF Base, Spendings
<1>8. CASE DefectOf(d) = "none"
  <2>1. ~Asked(d).looped => /\ ~spent.looped
                            /\ Len(calls) = 1 => Asked(d).decodes =< 6
                            /\ Len(calls) > 1 => Asked(d).decodes =< Base + 2
    BY <1>5, <1>6, <1>7
  <2>2. Returns(d.text, "usable", Asked(d)) BY <1>3, <1>8
  <2>3. d.text.of = Window(Top) /\ ~d.text.loops BY <1>4, <1>8
  <2> HIDE DEF Returns
  <2> QED BY <2>1, <2>2, <2>3, <1>1, <1>4, <1>5, ReturnStep
<1>9. CASE DefectOf(d) # "none"
  <2> DEFINE k == Keeps(Top, d.text, d.gaveUp)
             at == IF /\ setup.aligns /\ Top.depth < MaxDepth /\ DefectOf(d) = "loop"
                   THEN "salvage" ELSE "gentle"
             c == [[k EXCEPT !.first = d.text, !.defect = DefectOf(d)] EXCEPT !.at = at]
  <2>1. GoesOn(c, Asked(d)) BY <1>3, <1>9
  <2>2. /\ k \in Ladders /\ Alike(Top, k)
        /\ \A t \in k.whole : t.of = Window(Top)
    BY <1>2, <1>4, KeepsAre
  <2>3. at \in {"salvage", "gentle"} /\ (DefectOf(d) # "loop" => at = "gentle") OBVIOUS
  <2> HIDE DEF k, at
  <2>4. /\ c \in Ladders /\ c.at = at /\ c.first = d.text /\ c.defect = DefectOf(d)
        /\ c.from = k.from /\ c.to = k.to /\ c.depth = k.depth /\ c.whole = k.whole
        /\ c.tongue = k.tongue
    BY <2>2, <2>3, <1>4 DEF Ladders
  <2> HIDE DEF c
  <2>5. Follows(c) BY <2>2, <2>4 DEF Follows, Alike
  <2>6. Window(c) = Window(Top) BY <2>5 DEF Follows, Window
  <2>7. Blames(c)
    <3>1. ~Top.tongue BY <1>1, <1>2 DEF Blames
    <3>2. ~c.tongue /\ c.at # "greedy" /\ c.defect # "none"
      BY <3>1, <1>9, <2>2, <2>3, <2>4 DEF Alike
    <3>3. c.defect = "language" => c.first.of = Window(c) /\ ~c.first.loops
      BY <1>4, <2>4, <2>6
    <3> QED BY <3>2, <3>3 DEF Blames
  <2>8. CallSound(c) /\ c.at \notin Waiting
    BY <2>3, <2>4, <2>5, <2>7, <1>2, FollowsIsSound DEF Waiting
  <2>9. ~Asked(d).looped =>
           /\ ~spent.looped
           /\ c.at = "gentle" /\ Asked(d).decodes =< Base + 1 /\ c.defect = "language"
    BY <1>4, <1>5, <1>6, <1>7, <1>9, <2>3, <2>4
  <2>10. calls' = Become(c) /\ answer' = << >> /\ spent' = Asked(d)
    BY <2>1, <1>1 DEF GoesOn
  <2> QED BY <2>5, <2>8, <2>9, <2>10, <1>1, <1>5, GoingOnStep DEF Follows
<1> QED BY <1>8, <1>9

\* A call that keeps a text goes on.
LEMMA KeptRung ==
  ASSUME LadderInvariant, calls # << >>, Top.at # "greedy",
         NEW said \in Texts, NEW isPart \in BOOLEAN, ~isPart => said.of = Window(Top),
         NEW k, k = Keeps(Top, said, isPart),
         NEW c \in Ladders, c.from = k.from, c.to = k.to, c.depth = k.depth,
         c.first = k.first, c.defect = k.defect, c.whole = k.whole,
         c.at \notin Waiting, c.at # "greedy", c.tongue => c.defect = "language",
         c.at \in {"last penalty", "best"} => ~isPart \/ Top.whole # {}
  PROVE  Follows(c) /\ CallSound(c) /\ c.defect = Top.defect
<1>1. /\ Top \in Ladders /\ Knows(Top) /\ Blames(Top) /\ Halves(Top) /\ Top.from < Top.to
  BY TopIs
<1>2. /\ k \in Ladders /\ Alike(Top, k)
      /\ \A t \in k.whole : t.of = Window(Top)
      /\ ~isPart \/ Top.whole # {} => k.whole # {}
  BY <1>1, KeepsAre
<1>3. Follows(c) /\ c.defect = Top.defect /\ c.first = Top.first
  BY <1>2 DEF Follows, Alike
<1>4. Window(c) = Window(Top) BY <1>3 DEF Follows, Window
<1>5. Blames(c) BY <1>1, <1>3, <1>4 DEF Blames
<1> QED BY <1>1, <1>2, <1>3, <1>5, FollowsIsSound

\* As long as nothing loops, a call at work is on one of these rungs.
LEMMA CheapRungs ==
  ASSUME LadderInvariant, calls # << >>, answer = << >>, ~spent.looped
  PROVE  Top.at \in {"greedy", "gentle", "split", "strong"}
BY DEF LadderInvariant, Cheap

LEMMA SalvageStep ==
  ASSUME LadderInvariant, SalvageRefused \/ SalvagesAll \/ SalvagesPrefix
  PROVE  LadderInvariant'
<1>1. calls # << >> /\ Top.at = "salvage" /\ answer = << >>
  BY DEF SalvageRefused, SalvagesAll, SalvagesPrefix, Running
<1>2. /\ Top \in Ladders /\ Knows(Top) /\ Blames(Top) /\ Halves(Top)
      /\ Top.from < Top.to /\ Len(calls) \in Nat \ {0} /\ spent \in Spendings
  BY <1>1, TopIs
<1>3. spent.looped BY <1>1, CheapRungs
<1>4. \A prefix \in CleanPrefixes(Top, Top.first) :
        /\ prefix \in Texts /\ EndOf(prefix) \in Nat /\ prefix.of \in SUBSET Window(Top)
        /\ Top.from < EndOf(prefix) /\ EndOf(prefix) =< Top.to
        /\ prefix.of = Top.from .. (EndOf(prefix) - 1)
  <2>1. Top.first \in Texts BY <1>2 DEF Ladders
  <2> QED BY <2>1, <1>2, PrefixesAre
<1>5. CASE SalvageRefused
  <2> DEFINE c == [Top EXCEPT !.at = "gentle"]
  <2>1. calls' = Become(c) /\ answer' = << >> /\ spent' = spent
    BY <1>1, <1>5 DEF SalvageRefused, GoesOn
  <2>2. /\ c \in Ladders /\ c.at = "gentle" /\ c.first = Top.first /\ c.defect = Top.defect
        /\ c.from = Top.from /\ c.to = Top.to /\ c.depth = Top.depth /\ c.whole = Top.whole
        /\ c.tongue = Top.tongue
    BY <1>2 DEF Ladders
  <2> HIDE DEF c
  <2>3. Follows(c) BY <1>2, <2>2 DEF Follows, Knows
  <2>4. Window(c) = Window(Top) BY <2>2 DEF Window
  <2>5. Blames(c) BY <1>1, <1>2, <2>2, <2>4 DEF Blames
  <2>6. CallSound(c) /\ c.at \notin Waiting
    BY <1>2, <2>2, <2>3, <2>5, FollowsIsSound DEF Waiting
  <2> QED BY <2>1, <2>2, <2>6, <1>1, <1>2, <1>3, GoingOnStep
<1>6. CASE SalvagesAll
  <2>1. PICK p \in CleanPrefixes(Top, Top.first) : EndOf(p) = Top.to /\ LoopAtTheEnd(p)
    BY <1>6 DEF SalvagesAll
  <2>2. p \in Texts /\ p.of = Window(Top) BY <1>4, <2>1 DEF Window
  <2>3. CASE ~p.loops
    <3>1. Returns(p, "usable", spent) BY <2>1, <2>3 DEF LoopAtTheEnd
    <3> QED BY <3>1, <2>2, <2>3, <1>1, <1>2, <1>3, ReturnStep
  <2>4. CASE p.loops
    <3> DEFINE k == Keeps(Top, p, TRUE)
               c == [k EXCEPT !.at = "gentle"]
    <3>1. calls' = Become(c) /\ answer' = << >> /\ spent' = spent
      BY <1>1, <2>1, <2>4 DEF LoopAtTheEnd, GoesOn
    <3>2. k \in Ladders /\ Alike(Top, k) BY <1>2, <2>2, KeepsAre
    <3> HIDE DEF k
    <3>3. /\ c \in Ladders /\ c.at = "gentle" /\ c.first = k.first /\ c.defect = k.defect
          /\ c.from = k.from /\ c.to = k.to /\ c.depth = k.depth /\ c.whole = k.whole
          /\ c.tongue = k.tongue
      BY <3>2 DEF Ladders
    <3> HIDE DEF c
    <3>4. c.at \notin Waiting /\ (c.tongue => c.defect = "language")
      BY <1>2, <3>2, <3>3 DEF Waiting, Alike, Blames
    <3>5. Follows(c) /\ CallSound(c)
      <4>1. k = Keeps(Top, p, TRUE) BY DEF k
      <4> QED BY <4>1, <1>1, <2>2, <3>3, <3>4, KeptRung
    <3> QED BY <3>1, <3>4, <3>5, <1>1, <1>2, <1>3, GoingOnStep DEF Follows
  <2> QED BY <2>3, <2>4
<1>7. CASE SalvagesPrefix
  <2>1. PICK p \in CleanPrefixes(Top, Top.first) :
          /\ EndOf(p) < Top.to
          /\ Enters([Top EXCEPT !.at = "rest", !.part = p],
                    Call(EndOf(p), Top.to, Top.depth + 1))
    BY <1>7 DEF SalvagesPrefix
  <2> DEFINE c == [Top EXCEPT !.at = "rest", !.part = p]
  <2>2. /\ calls' = Append(Become(c), Call(EndOf(p), Top.to, Top.depth + 1))
        /\ answer' = << >> /\ spent' = spent
    BY <1>1, <2>1 DEF Enters
  <2>3. p \in Texts /\ p.of \in SUBSET Window(Top) BY <1>4
  <2>4. /\ c \in Ladders /\ c.at = "rest" /\ c.first = Top.first /\ c.defect = Top.defect
        /\ c.from = Top.from /\ c.to = Top.to /\ c.depth = Top.depth /\ c.whole = Top.whole
        /\ c.tongue = Top.tongue /\ c.part = p
    BY <1>2, <2>3 DEF Ladders, Waiting
  <2> HIDE DEF c
  <2>5. Window(c) = Window(Top) BY <2>4 DEF Window
  <2>6. Knows(c) /\ Blames(c) /\ Halves(c)
    BY <1>1, <1>2, <2>3, <2>4, <2>5 DEF Knows, Blames, Halves
  <2>7. Window(Call(EndOf(p), Top.to, Top.depth + 1)) = Awaited(c)
    <3> DEFINE f == Top.from
               t == Top.to
               e == EndOf(p)
    <3>1. /\ f \in Nat /\ t \in Nat /\ e \in Nat /\ f < e /\ e < t
          /\ p.of = f .. (e - 1) /\ Window(Top) = f .. (t - 1)
      BY <1>2, <1>4, <2>1, WindowIsSet DEF Window
    <3>2. Window(Call(e, t, Top.depth + 1)) = e .. (t - 1) BY DEF Window, Call
    <3>3. Awaited(c) = Window(Top) \ p.of BY <2>4, <2>5 DEF Awaited
    <3> HIDE DEF f, t, e
    <3>4. (f .. (t - 1)) \ (f .. (e - 1)) = e .. (t - 1) BY <3>1
    <3> QED BY <3>1, <3>2, <3>3, <3>4 DEF e, t
  <2>8. EndOf(p) \in Nat /\ Top.to \in Nat /\ EndOf(p) < Top.to BY <1>2, <1>4, <2>1, WindowIsSet
  <2>9. c.at \in Waiting /\ CallSound(c) BY <2>4, <2>6 DEF Waiting, CallSound
  <2> QED BY <2>2, <2>4, <2>7, <2>8, <2>9, <1>1, <1>3, EnteringStep
<1> QED BY <1>5, <1>6, <1>7

\* Of what returns, the call that waited knows what it is.
LEMMA AnswerIs ==
  ASSUME LadderInvariant, calls # << >>, answer # << >>
  PROVE  answer[1] \in Texts /\ answer[1].of = Awaited(Top)
<1>1. answer \in Seq(Texts) /\ answer # << >> BY DEF LadderInvariant, AnswerSound
<1>2. answer[1] \in Texts BY <1>1
<1> QED BY <1>2 DEF LadderInvariant, AnswerSound

\* The joined text is the whole window, and is kept: the next rung.
LEMMA JoinedRung ==
  ASSUME LadderInvariant, calls # << >>, answer # << >>, Top.at \in {"rest", "right"},
         NEW joined \in Joins(Top.part, answer[1]), NEW at \in {"gentle", "strong"},
         spent.looped,
         calls' = Become([Keeps(Top, joined, FALSE) EXCEPT !.at = at, !.part = NoText]),
         answer' = << >>, spent' = spent
  PROVE  LadderInvariant'
<1>1. /\ Top \in Ladders /\ Knows(Top) /\ Blames(Top) /\ Halves(Top)
      /\ Top.from < Top.to /\ spent \in Spendings
  BY TopIs
<1>2. joined \in Texts /\ joined.of = Window(Top) BY <1>1, AnswerIs, JoinsAre
<1> DEFINE k == Keeps(Top, joined, FALSE)
           c == [k EXCEPT !.at = at, !.part = NoText]
<1>3. k \in Ladders /\ Alike(Top, k) BY <1>1, <1>2, KeepsAre
<1>4. NoText \in Texts BY DEF NoText, Texts
<1>5. k = Keeps(Top, joined, FALSE) /\ calls' = Become(c) OBVIOUS
<1> HIDE DEF k
<1>6. /\ c \in Ladders /\ c.at = at /\ c.first = k.first /\ c.defect = k.defect
      /\ c.from = k.from /\ c.to = k.to /\ c.depth = k.depth /\ c.whole = k.whole
      /\ c.tongue = k.tongue
  BY <1>3, <1>4 DEF Ladders
<1> HIDE DEF c
<1>7. c.at \notin Waiting /\ c.at # "greedy" /\ c.at \notin {"last penalty", "best"}
      /\ (c.tongue => c.defect = "language")
  BY <1>1, <1>3, <1>6 DEF Waiting, Alike, Blames
<1>8. Follows(c) /\ CallSound(c) BY <1>1, <1>2, <1>5, <1>6, <1>7, KeptRung
<1> QED BY <1>1, <1>5, <1>7, <1>8, GoingOnStep DEF Follows

\* Who waits for the rest of a prefix has met a loop.
LEMMA WaitingIsCheap ==
  ASSUME LadderInvariant, calls # << >>, answer # << >>, ~spent.looped
  PROVE  /\ Len(calls) = 1 /\ Top.tongue
         /\ \/ Top.at = "left" /\ spent.decodes =< 4
            \/ Top.at = "right" /\ spent.decodes =< 6
BY DEF LadderInvariant, Cheap

LEMMA RestStep ==
  ASSUME LadderInvariant, JoinsRest
  PROVE  LadderInvariant'
<1>1. calls # << >> /\ Top.at = "rest" /\ answer # << >> BY DEF JoinsRest, Returned
<1>2. /\ Top \in Ladders /\ Halves(Top) /\ Top.from < Top.to
      /\ Len(calls) \in Nat \ {0} /\ spent \in Spendings
  BY <1>1, TopIs
<1>3. spent.looped BY <1>1, WaitingIsCheap
<1>4. PICK joined \in Joins(Top.part, answer[1]) :
       IF ~Disagree(Top.part, answer[1]) /\ ~joined.loops THEN Returns(joined, "joined", spent)
       ELSE /\ calls' = Become([Keeps(Top, joined, FALSE) EXCEPT !.at = "gentle", !.part = NoText])
            /\ answer' = << >> /\ UNCHANGED <<setup, spent>>
  BY DEF JoinsRest
<1>5. joined \in Texts /\ joined.of = Window(Top) BY <1>1, <1>2, AnswerIs, JoinsAre
<1>6. CASE ~Disagree(Top.part, answer[1]) /\ ~joined.loops
  BY <1>1, <1>2, <1>3, <1>4, <1>5, <1>6, ReturnStep
<1>7. CASE ~(~Disagree(Top.part, answer[1]) /\ ~joined.loops)
  BY <1>1, <1>3, <1>4, <1>7, JoinedRung
<1> QED BY <1>6, <1>7

\* A rung that has spent nothing of its own returns a text that does not repeat.
LEMMA FreeReturnStep ==
  ASSUME LadderInvariant, calls # << >>, NEW said \in Texts, said.of = Window(Top), ~said.loops,
         NEW how \in {"joined", "language"}, spent \in Spendings, Returns(said, how, spent),
         ~spent.looped => Len(calls) = 1 /\ spent.decodes =< 6
  PROVE  LadderInvariant'
<1>1. CASE spent.looped BY <1>1, ReturnStep
<1>2. CASE ~spent.looped
  <2>1. Len(calls) = 1 /\ spent.decodes =< 6 BY <1>2
  <2>2. ~(Len(calls) > 1) BY <2>1
  <2>3. Len(calls) > 1 => spent.decodes =< Base + 2 BY <2>2
  <2> QED BY <1>2, <2>1, <2>3, ReturnStep
<1> QED BY <1>1, <1>2

LEMMA RightStep ==
  ASSUME LadderInvariant, RightIsBack
  PROVE  LadderInvariant'
<1>1. calls # << >> /\ Top.at = "right" /\ answer # << >> BY DEF RightIsBack, Returned
<1>2. /\ Top \in Ladders /\ Knows(Top) /\ Blames(Top) /\ Halves(Top) /\ Top.from < Top.to
      /\ Len(calls) \in Nat \ {0} /\ spent \in Spendings
  BY <1>1, TopIs
<1>3. ~spent.looped => Len(calls) = 1 /\ Top.tongue /\ spent.decodes =< 6
  BY <1>1, WaitingIsCheap
<1>f. ~spent.looped => Len(calls) = 1 /\ spent.decodes =< 6 BY <1>3
<1>4. PICK joined \in Joins(Top.part, answer[1]) :
       IF Top.tongue
       THEN Returns(IF joined.loops THEN Top.first ELSE joined, "language", spent)
       ELSE IF ~Disagree(Top.part, answer[1]) /\ ~joined.loops
       THEN Returns(joined, "joined", spent)
       ELSE /\ calls' = Become([Keeps(Top, joined, FALSE) EXCEPT !.at = "strong", !.part = NoText])
            /\ answer' = << >> /\ UNCHANGED <<setup, spent>>
  BY DEF RightIsBack
<1>5. joined \in Texts /\ joined.of = Window(Top) BY <1>1, <1>2, AnswerIs, JoinsAre
<1>6. CASE Top.tongue
  <2> DEFINE said == IF joined.loops THEN Top.first ELSE joined
  <2>1. Top.first \in Texts /\ Top.first.of = Window(Top) /\ ~Top.first.loops
    BY <1>2, <1>6 DEF Ladders, Blames
  <2>2. said \in Texts /\ said.of = Window(Top) /\ ~said.loops BY <2>1, <1>5
  <2>3. Returns(said, "language", spent) BY <1>4, <1>6
  <2> HIDE DEF said
  <2>4. spent \in Spendings BY <1>2
  <2>5. calls # << >> BY <1>1
  <2> QED BY <2>2, <2>3, <2>4, <2>5, <1>f, FreeReturnStep
<1>7. CASE ~Top.tongue /\ ~Disagree(Top.part, answer[1]) /\ ~joined.loops
  <2>1. Returns(joined, "joined", spent) BY <1>4, <1>7
  <2>2. ~joined.loops BY <1>7
  <2>3. spent \in Spendings BY <1>2
  <2>4. calls # << >> BY <1>1
  <2> QED BY <2>1, <2>2, <2>3, <2>4, <1>5, <1>f, FreeReturnStep
<1>8. CASE ~Top.tongue /\ ~(~Disagree(Top.part, answer[1]) /\ ~joined.loops)
  BY <1>1, <1>3, <1>4, <1>8, JoinedRung
<1> QED BY <1>6, <1>7, <1>8

\* A window is split, and its second half follows the first.
LEMMA SplitStep ==
  ASSUME LadderInvariant, Splits \/ LeftIsBack
  PROVE  LadderInvariant'
<1>1. calls # << >> BY DEF Splits, LeftIsBack, Running, Returned
<1>2. /\ Top \in Ladders /\ Knows(Top) /\ Blames(Top) /\ Halves(Top) /\ Top.from < Top.to
      /\ Len(calls) \in Nat \ {0} /\ spent \in Spendings
  BY <1>1, TopIs
<1> DEFINE f == Top.from
           t == Top.to
<1>3. f \in Nat /\ t \in Nat /\ Window(Top) = f .. (t - 1) /\ Top.depth \in Nat
  BY <1>2, WindowIsSet DEF Window, Ladders
<1>4. CASE Splits
  <2>1. answer = << >> /\ Top.at = "split" BY <1>4 DEF Splits, Running
  <2>2. PICK cut \in (f + 1) .. (t - 1) :
          Enters([Top EXCEPT !.at = "left", !.cut = cut], Call(f, cut, Top.depth + 1))
    BY <1>4 DEF Splits
  <2> DEFINE c == [Top EXCEPT !.at = "left", !.cut = cut]
  <2>3. /\ calls' = Append(Become(c), Call(f, cut, Top.depth + 1))
        /\ answer' = << >> /\ spent' = spent
    BY <2>1, <2>2 DEF Enters
  <2> HIDE DEF f, t
  <2>4. cut \in Nat /\ f < cut /\ cut < t BY <1>3, <2>2
  <2>5. /\ c \in Ladders /\ c.at = "left" /\ c.first = Top.first /\ c.defect = Top.defect
        /\ c.from = Top.from /\ c.to = Top.to /\ c.depth = Top.depth /\ c.whole = Top.whole
        /\ c.tongue = Top.tongue /\ c.cut = cut
    BY <1>2, <2>4 DEF Ladders, Waiting
  <2> HIDE DEF c
  <2>6. Window(c) = Window(Top) BY <2>5 DEF Window
  <2>7. Knows(c) /\ Blames(c) /\ Halves(c)
    BY <1>2, <2>1, <2>2, <2>5, <2>6 DEF Knows, Blames, Halves, f, t
  <2>8. Window(Call(f, cut, Top.depth + 1)) = Awaited(c)
    BY <2>5 DEF Window, Call, Awaited, f
  <2>9. c.at \in Waiting /\ CallSound(c) BY <2>5, <2>7 DEF Waiting, CallSound
  <2>10. ~spent.looped => Len(calls) = 1 /\ c.tongue /\ spent.decodes =< 2
    BY <1>1, <2>1, <2>5 DEF LadderInvariant, Cheap
  <2> QED BY <2>3, <2>4, <2>5, <2>8, <2>9, <2>10, <1>1, <1>3, EnteringStep
<1>5. CASE LeftIsBack
  <2> DEFINE c == [Top EXCEPT !.at = "right", !.part = answer[1]]
  <2>1. /\ answer # << >> /\ Top.at = "left" /\ answer' = << >> /\ spent' = spent
        /\ calls' = Append(Become(c), Call(Top.cut, Top.to, Top.depth + 1))
    BY <1>5 DEF LeftIsBack, Returned
  <2>2. answer[1] \in Texts /\ answer[1].of = Top.from .. (Top.cut - 1)
    BY <1>1, <2>1, AnswerIs DEF Awaited
  <2> DEFINE u == Top.cut
  <2>3. /\ c \in Ladders /\ c.at = "right" /\ c.first = Top.first /\ c.defect = Top.defect
        /\ c.from = Top.from /\ c.to = Top.to /\ c.depth = Top.depth /\ c.whole = Top.whole
        /\ c.tongue = Top.tongue /\ c.cut = Top.cut /\ c.part = answer[1]
    BY <1>2, <2>2 DEF Ladders, Waiting
  <2> HIDE DEF c
  <2>4. Window(c) = Window(Top) BY <2>3 DEF Window
  <2>5. u \in (f + 1) .. (t - 1) BY <1>2, <2>1 DEF Halves
  <2> HIDE DEF f, t, u
  <2>6. u \in Nat /\ f < u /\ u < t BY <1>3, <2>5
  <2>7. f .. (u - 1) \in SUBSET (f .. (t - 1)) /\ (f .. (t - 1)) \ (f .. (u - 1)) = u .. (t - 1)
    BY <1>3, <2>6
  <2>8. Knows(c) /\ Blames(c) /\ Halves(c)
    BY <1>2, <1>3, <2>1, <2>2, <2>3, <2>4, <2>5, <2>7 DEF Knows, Blames, Halves, f, t, u
  <2>9. Window(Call(u, t, Top.depth + 1)) = Awaited(c)
    <3>1. Window(Call(u, t, Top.depth + 1)) = u .. (t - 1) BY DEF Window, Call
    <3>2. Awaited(c) = (f .. (t - 1)) \ (f .. (u - 1))
      BY <1>3, <2>2, <2>3, <2>4 DEF Awaited, f, u
    <3> QED BY <3>1, <3>2, <2>7
  <2>10. c.at \in Waiting /\ CallSound(c) BY <2>3, <2>8 DEF Waiting, CallSound
  <2>11. ~spent.looped => Len(calls) = 1 /\ c.tongue /\ spent.decodes =< 4
    BY <1>1, <2>1, <2>3, WaitingIsCheap
  <2>12. calls' = Append(Become(c), Call(u, t, Top.depth + 1)) BY <2>1 DEF u, t
  <2> QED BY <2>1, <2>3, <2>6, <2>9, <2>10, <2>11, <2>12, <1>1, <1>3, EnteringStep
<1> QED BY <1>4, <1>5

LEMMA GentleStep ==
  ASSUME LadderInvariant, DecodesGently
  PROVE  LadderInvariant'
<1>1. calls # << >> /\ Top.at = "gentle" /\ answer = << >> BY DEF DecodesGently, Running
<1>2. /\ Top \in Ladders /\ Knows(Top) /\ Blames(Top) /\ Top.from < Top.to
      /\ Len(calls) \in Nat \ {0} /\ Top.depth = Len(calls) - 1 /\ spent \in Spendings
  BY <1>1, TopIs
<1>3. PICK d \in Decodes(Top) :
       IF DefectOf(d) = "none" THEN Returns(d.text, "usable", Asked(d))
       ELSE LET next == AfterGentle(Top, d)
                kept == [Keeps(Top, d.text, d.gaveUp) EXCEPT
                           !.at = next, !.tongue = "loop" \notin {Top.defect, DefectOf(d)}]
            IN  IF next = "first" THEN Returns(Top.first, "language", Asked(d))
                ELSE GoesOn(kept, Asked(d))
  BY DEF DecodesGently
<1>4. /\ d.text \in Texts /\ d.gaveUp \in BOOLEAN
      /\ ~d.gaveUp => d.text.of = Window(Top)
      /\ DefectOf(d) \in {"none", "loop", "language"}
      /\ DefectOf(d) # "loop" => ~d.gaveUp /\ ~d.text.loops
  BY <1>2, DecodesAre
<1>5. /\ Asked(d) \in Spendings /\ Asked(d).decodes \in Nat
      /\ ~Asked(d).looped => /\ ~spent.looped /\ DefectOf(d) # "loop"
                             /\ Asked(d).decodes = spent.decodes + 1
  BY <1>2, AskedIs DEF Spendings
<1>6. ~spent.looped => spent.decodes =< Base + 1 /\ Top.defect = "language" /\ Len(calls) =< 2
  BY <1>1 DEF LadderInvariant, Cheap
<1>7. /\ Base \in Nat /\ spent.decodes \in Nat /\ Base =< 4
      /\ Len(calls) = 1 => Base = 0
  BY <1>2 DEF Base, Spendings
<1>8. ~Asked(d).looped => /\ ~spent.looped
                          /\ Len(calls) = 1 => Asked(d).decodes =< 2
                          /\ Len(calls) = 1 => Asked(d).decodes =< 6
                          /\ Len(calls) > 1 => Asked(d).decodes =< Base + 2
  BY <1>5, <1>6, <1>7
<1> HIDE DEF Returns
<1>9. CASE DefectOf(d) = "none"
  <2>1. Returns(d.text, "usable", Asked(d)) BY <1>3, <1>9
  <2> QED BY <2>1, <1>1, <1>4, <1>5, <1>8, <1>9, ReturnStep
<1> DEFINE tongue == "loop" \notin {Top.defect, DefectOf(d)}
           next == AfterGentle(Top, d)
<1>10. /\ next \in {"first", "split", "strong"}
       /\ next = "first" <=> tongue /\ Top.depth > 0
  BY DEF AfterGentle
<1>11. Top.defect \in {"loop", "language"} BY <1>1, <1>2 DEF Ladders, Blames
<1>12. tongue => Top.defect = "language" BY <1>11
<1>13. CASE DefectOf(d) # "none" /\ next = "first"
  <2>1. Returns(Top.first, "language", Asked(d)) BY <1>3, <1>13
  <2>2. Top.first \in Texts /\ Top.first.of = Window(Top) /\ ~Top.first.loops
    BY <1>2, <1>10, <1>12, <1>13 DEF Blames, Ladders
  <2> QED BY <2>1, <2>2, <1>1, <1>5, <1>8, ReturnStep
<1>14. CASE DefectOf(d) # "none" /\ next # "first"
  <2> DEFINE k == Keeps(Top, d.text, d.gaveUp)
             c == [k EXCEPT !.at = next, !.tongue = tongue]
  <2>1. GoesOn(c, Asked(d)) BY <1>3, <1>14
  <2>2. calls' = Become(c) /\ answer' = << >> /\ spent' = Asked(d)
    BY <2>1, <1>1 DEF GoesOn
  <2>3. k \in Ladders /\ Alike(Top, k) BY <1>2, <1>4, KeepsAre
  <2>4. k = Keeps(Top, d.text, d.gaveUp) OBVIOUS
  <2>5. ~Asked(d).looped => tongue /\ Top.depth = 0 /\ Len(calls) = 1
    <3>1. ~Asked(d).looped => tongue BY <1>5, <1>6
    <3>2. tongue => ~(Top.depth > 0) BY <1>10, <1>14
    <3>3. ~(Top.depth > 0) => Top.depth = 0 /\ Len(calls) = 1
      <4> DEFINE n == Len(calls)
      <4>1. n \in Nat \ {0} /\ Top.depth = n - 1 BY <1>2
      <4> HIDE DEF n
      <4>2. ~(n - 1 > 0) => n = 1 BY <4>1
      <4> QED BY <4>1, <4>2 DEF n
    <3> HIDE DEF tongue
    <3> QED BY <3>1, <3>2, <3>3
  <2>6. tongue \in BOOLEAN /\ next \in {"split", "strong"} BY <1>10, <1>14
  <2> HIDE DEF k, tongue, next
  <2>7. /\ c \in Ladders /\ c.at = next /\ c.first = k.first /\ c.defect = k.defect
        /\ c.from = k.from /\ c.to = k.to /\ c.depth = k.depth /\ c.whole = k.whole
        /\ c.tongue = tongue
    BY <2>3, <2>6 DEF Ladders
  <2> HIDE DEF c
  <2>8. /\ c.at \notin Waiting /\ c.at # "greedy" /\ c.at \notin {"last penalty", "best"}
        /\ (c.tongue => c.defect = "language")
    BY <2>3, <2>6, <2>7, <1>12 DEF Waiting, Alike
  <2>9. Follows(c) /\ CallSound(c)
    BY <1>1, <1>4, <2>4, <2>7, <2>8, KeptRung
  <2> QED BY <2>2, <2>5, <2>6, <2>7, <2>8, <2>9, <1>1, <1>5, <1>8, GoingOnStep DEF Follows
<1> QED BY <1>9, <1>10, <1>13, <1>14

LEMMA StrongStep ==
  ASSUME LadderInvariant, DecodesStrongly
  PROVE  LadderInvariant'
<1>1. calls # << >> /\ Top.at = "strong" /\ answer = << >> BY DEF DecodesStrongly, Running
<1>2. /\ Top \in Ladders /\ Knows(Top) /\ Blames(Top) /\ Top.from < Top.to
      /\ Len(calls) \in Nat \ {0} /\ spent \in Spendings
  BY <1>1, TopIs
<1>3. PICK d \in Decodes(Top) :
       IF DefectOf(d) = "none" THEN Returns(d.text, "usable", Asked(d))
       ELSE IF Top.tongue THEN Returns(Top.first, "language", Asked(d))
       ELSE GoesOn([Keeps(Top, d.text, d.gaveUp) EXCEPT !.at = "penalty"], Asked(d))
  BY DEF DecodesStrongly
<1>4. /\ d.text \in Texts /\ d.gaveUp \in BOOLEAN
      /\ ~d.gaveUp => d.text.of = Window(Top)
      /\ DefectOf(d) # "loop" => ~d.gaveUp /\ ~d.text.loops
  BY <1>2, DecodesAre
<1>5. /\ Asked(d) \in Spendings /\ Asked(d).decodes \in Nat
      /\ ~Asked(d).looped => /\ ~spent.looped /\ Asked(d).decodes = spent.decodes + 1
  BY <1>2, AskedIs DEF Spendings
<1>6. /\ ~spent.looped => spent.decodes =< 2 /\ Len(calls) = 1 /\ Top.tongue
      /\ spent.decodes \in Nat
  BY <1>1, <1>2 DEF LadderInvariant, Cheap, Spendings
<1>7. ~Asked(d).looped => /\ ~spent.looped /\ Top.tongue
                          /\ Len(calls) = 1 => Asked(d).decodes =< 6
                          /\ Len(calls) > 1 => Asked(d).decodes =< Base + 2
  <2> SUFFICES ASSUME ~Asked(d).looped
      PROVE  /\ ~spent.looped /\ Top.tongue /\ Asked(d).decodes =< 6 /\ ~(Len(calls) > 1)
    OBVIOUS
  <2>1. Len(calls) = 1 BY <1>5, <1>6
  <2>2. spent.decodes =< 2 /\ Asked(d).decodes = spent.decodes + 1 BY <1>5, <1>6
  <2> QED BY <2>1, <2>2, <1>5, <1>6
<1> HIDE DEF Returns
<1>8. CASE DefectOf(d) = "none"
  <2>1. Returns(d.text, "usable", Asked(d)) BY <1>3, <1>8
  <2> QED BY <2>1, <1>1, <1>4, <1>5, <1>7, <1>8, ReturnStep
<1>9. CASE DefectOf(d) # "none" /\ Top.tongue
  <2>1. Returns(Top.first, "language", Asked(d)) BY <1>3, <1>9
  <2>2. Top.first \in Texts /\ Top.first.of = Window(Top) /\ ~Top.first.loops
    BY <1>2, <1>9 DEF Blames, Ladders
  <2> QED BY <2>1, <2>2, <1>1, <1>5, <1>7, ReturnStep
<1>10. CASE DefectOf(d) # "none" /\ ~Top.tongue
  <2> DEFINE k == Keeps(Top, d.text, d.gaveUp)
             c == [k EXCEPT !.at = "penalty"]
  <2>1. calls' = Become(c) /\ answer' = << >> /\ spent' = Asked(d)
    BY <1>3, <1>10, <1>1 DEF GoesOn
  <2>2. k \in Ladders /\ Alike(Top, k) BY <1>2, <1>4, KeepsAre
  <2>3. k = Keeps(Top, d.text, d.gaveUp) OBVIOUS
  <2> HIDE DEF k
  <2>4. /\ c \in Ladders /\ c.at = "penalty" /\ c.first = k.first /\ c.defect = k.defect
        /\ c.from = k.from /\ c.to = k.to /\ c.depth = k.depth /\ c.whole = k.whole
        /\ c.tongue = k.tongue
    BY <2>2 DEF Ladders
  <2> HIDE DEF c
  <2>5. c.at \notin Waiting /\ ~c.tongue BY <2>2, <2>4, <1>10 DEF Waiting, Alike
  <2>6. Follows(c) /\ CallSound(c)
    BY <1>1, <1>4, <2>3, <2>4, <2>5, KeptRung
  <2>7. Asked(d).looped BY <1>7, <1>10
  <2> QED BY <2>1, <2>5, <2>6, <2>7, <1>1, <1>5, GoingOnStep DEF Follows
<1> QED BY <1>8, <1>9, <1>10

\* A penalised decode is whole: there is one to choose in the end.
LEMMA PenaltyStep ==
  ASSUME LadderInvariant, DecodesPenalised
  PROVE  LadderInvariant'
<1>1. calls # << >> /\ Top.at \in {"penalty", "last penalty"} /\ answer = << >>
  BY DEF DecodesPenalised
<1>2. /\ Top \in Ladders /\ Knows(Top) /\ Blames(Top) /\ Top.from < Top.to
      /\ Len(calls) \in Nat \ {0} /\ spent \in Spendings
  BY <1>1, TopIs
<1>3. PICK d \in WholeDecodes(Top) :
       IF DefectOf(d) = "none" THEN Returns(d.text, "usable", Asked(d))
       ELSE GoesOn([Keeps(Top, d.text, d.gaveUp) EXCEPT
                      !.at = IF @ = "penalty" THEN "last penalty" ELSE "best"], Asked(d))
  BY DEF DecodesPenalised
<1>4. /\ d.text \in Texts /\ d.gaveUp = FALSE /\ d.text.of = Window(Top)
      /\ DefectOf(d) # "loop" => ~d.text.loops
  <2>1. d \in Decodes(Top) /\ d.gaveUp = FALSE BY <1>2, WholeDecodesAre
  <2> QED BY <2>1, <1>2, DecodesAre
<1>5. /\ Asked(d) \in Spendings
      /\ ~Asked(d).looped => ~spent.looped
  BY <1>2, AskedIs
<1>6. Asked(d).looped BY <1>1, <1>5, CheapRungs
<1> HIDE DEF Returns
<1>7. CASE DefectOf(d) = "none"
  <2>1. Returns(d.text, "usable", Asked(d)) BY <1>3, <1>7
  <2> QED BY <2>1, <1>1, <1>4, <1>5, <1>6, <1>7, ReturnStep
<1>8. CASE DefectOf(d) # "none"
  <2> DEFINE k == Keeps(Top, d.text, d.gaveUp)
             at == IF k.at = "penalty" THEN "last penalty" ELSE "best"
             c == [k EXCEPT !.at = at]
  <2>1. calls' = Become(c) /\ answer' = << >> /\ spent' = Asked(d)
    BY <1>3, <1>8, <1>1 DEF GoesOn
  <2>2. k \in Ladders /\ Alike(Top, k) BY <1>2, <1>4, KeepsAre
  <2>3. k = Keeps(Top, d.text, d.gaveUp) /\ at \in {"last penalty", "best"} OBVIOUS
  <2> HIDE DEF k, at
  <2>4. /\ c \in Ladders /\ c.at = at /\ c.first = k.first /\ c.defect = k.defect
        /\ c.from = k.from /\ c.to = k.to /\ c.depth = k.depth /\ c.whole = k.whole
        /\ c.tongue = k.tongue
    BY <2>2, <2>3 DEF Ladders
  <2> HIDE DEF c
  <2>5. c.at \notin Waiting /\ c.at # "greedy" /\ (c.tongue => c.defect = "language")
    BY <2>2, <2>3, <2>4, <1>2 DEF Waiting, Alike, Blames
  <2>6. Follows(c) /\ CallSound(c)
    BY <1>1, <1>4, <2>3, <2>4, <2>5, KeptRung
  <2> QED BY <2>1, <2>5, <2>6, <1>1, <1>5, <1>6, GoingOnStep DEF Follows
<1> QED BY <1>7, <1>8

LEMMA BestStep ==
  ASSUME LadderInvariant, GivesBest
  PROVE  LadderInvariant'
<1>1. calls # << >> /\ Top.at = "best" /\ answer = << >> BY DEF GivesBest, Running
<1>2. /\ Top \in Ladders /\ Knows(Top) /\ Len(calls) \in Nat \ {0} /\ spent \in Spendings
  BY <1>1, TopIs
<1>3. PICK said \in Best(Top) : Returns(said, "best", spent) BY DEF GivesBest
<1>4. said \in Texts /\ said.of = Window(Top)
  BY <1>1, <1>2 DEF Knows, Best, Ladders
<1>5. spent.looped BY <1>1, CheapRungs
<1> HIDE DEF Returns
<1> QED BY <1>1, <1>2, <1>3, <1>4, <1>5, ReturnStep

\* The calls of a ladder wait each for a part of its window that the next one has
\* as its own, whatever the model says and wherever a window is cut; and what
\* does not loop is asked six times at most.
THEOREM LadderInvariance == LadderSpec => []LadderInvariant
<1>1. ASSUME LadderInit PROVE LadderInvariant
  <2> DEFINE k == Call(0, Units, 0)
  <2>1. /\ calls = <<k>> /\ answer = << >>
        /\ spent = [decodes |-> 0, looped |-> FALSE, ended |-> "no"]
    BY <1>1 DEF LadderInit
  <2>2. NoText \in Texts BY DEF NoText, Texts
  <2>3. k \in Ladders BY <2>2, LadderAssumption DEF Call, Ladders
  <2>4. /\ CallSound(k) /\ k.depth = 0 /\ k.at = "greedy" /\ Window(k) = 0 .. (Units - 1)
    BY LadderAssumption DEF Call, CallSound, Knows, Blames, Halves, Window
  <2> HIDE DEF k
  <2>5. calls \in Seq(Ladders) /\ Len(calls) = 1 /\ calls[1] = k /\ Top = k /\ calls # << >>
    BY <2>1, <2>3 DEF Top, Last
  <2>6. StackSound BY <2>4, <2>5 DEF StackSound, InStack
  <2>7. AnswerSound
    <3>1. answer \in Seq(Texts) /\ Len(answer) = 0 BY <2>1
    <3> QED BY <3>1, <2>1, <2>4, <2>5 DEF AnswerSound, Ended, Waiting
  <2>8. Cheap BY <2>1, <2>4, <2>5 DEF Cheap, Spendings, Base
  <2> QED BY <2>6, <2>7, <2>8 DEF LadderInvariant
<1>2. ASSUME LadderInvariant, [LadderNext]_ladderVars PROVE LadderInvariant'
  <2>1. CASE UNCHANGED ladderVars
    BY <1>2, <2>1 DEF ladderVars, LadderInvariant, StackSound, AnswerSound, Cheap, Base,
         Ended, Top
  <2> QED BY <1>2, <2>1, GreedyStep, SalvageStep, RestStep, GentleStep, SplitStep, RightStep,
             StrongStep, PenaltyStep, BestStep DEF LadderNext
<1> QED BY <1>1, <1>2, PTL DEF LadderSpec

\* For a pass of any length, cut anywhere and to any depth: nothing of it is
\* lost, no loop is kept before the last penalty, and a pass that does not loop
\* costs six decodes at most.
THEOREM LadderRepairsAreSound == LadderSpec => []RepairsAreSound
<1>1. LadderInvariant => RepairsAreSound
  BY DEF LadderInvariant, AnswerSound, Cheap, RepairsAreSound, NothingIsMissing,
         LoopsOnlyAtLast, LanguageCostsSix
<1> QED BY <1>1, LadderInvariance, PTL


-----------------------------------------------------------------------------
(* The passes of the Voxtral engine (VoxtralCuts).                         *)

\* A division rounds down.
LEMMA DivIs ==
  ASSUME NEW a \in Int, NEW b \in Nat \ {0}
  PROVE  a \div b \in Int /\ b * (a \div b) =< a /\ a < b * (a \div b) + b
OBVIOUS

LEMMA Scaled ==
  ASSUME NEW s \in Nat, NEW x \in Int, NEW y \in Int, x =< y
  PROVE  s * x =< s * y
OBVIOUS

\* An even division into passes is no longer than a pass may be, at least half as
\* long if there are two passes or more, and no longer than what is divided.
LEMMA EvenPass ==
  ASSUME NEW n \in Nat \ {0}, NEW c \in Nat \ {0}
  PROVE  LET even == CeilDiv(n, CeilDiv(n, c))
         IN  even \in Nat \ {0} /\ even =< c /\ even =< n /\ (n > c => c =< 2 * even) /\ (n =< c => even = n)
<1> DEFINE k == CeilDiv(n, c)
           even == CeilDiv(n, k)
<1>1. k \in Int /\ c * k =< n + c - 1 /\ n + c - 1 < c * k + c
  BY DivIs DEF CeilDiv
<1> HIDE DEF k
<1>2. k \in Nat \ {0}
  <2>1. n - 1 < c * k BY <1>1
  <2>2. ~(k =< 0)
    <3> SUFFICES ASSUME k =< 0 PROVE FALSE OBVIOUS
    <3>1. c * k =< c * 0 BY <1>1, Scaled
    <3> QED BY <3>1, <2>1, <1>1
  <2> QED BY <2>2, <1>1
<1>3. c * k >= n BY <1>1
<1>4. even \in Int /\ k * even =< n + k - 1 /\ n + k - 1 < k * even + k
  BY <1>2, DivIs DEF CeilDiv
<1> HIDE DEF even
<1>5. even > 0
  <2> SUFFICES ASSUME even =< 0 PROVE FALSE BY <1>4
  <2>1. k * even =< k * 0 BY <1>2, <1>4, Scaled
  <2> QED BY <2>1, <1>4, <1>2
<1>6. even =< c
  <2> SUFFICES ASSUME even >= c + 1 PROVE FALSE BY <1>4
  <2>1. k * (c + 1) =< k * even BY <1>2, <1>4, Scaled
  <2>2. k * (c + 1) = c * k + k BY <1>2
  <2> QED BY <2>1, <2>2, <1>3, <1>4, <1>2
<1>7. even =< n
  <2> SUFFICES ASSUME even >= n + 1 PROVE FALSE BY <1>4
  <2>1. k * (n + 1) =< k * even BY <1>2, <1>4, Scaled
  <2>2. k * (n + 1) = k * n + k BY <1>2
  <2>3. k * n >= n
    <3>1. n * 1 =< n * k BY <1>2, Scaled
    <3> QED BY <3>1, <1>2
  <2> QED BY <2>1, <2>2, <2>3, <1>4, <1>2
<1>8. ASSUME n > c PROVE c =< 2 * even
  <2> SUFFICES ASSUME 2 * even < c PROVE FALSE BY <1>4
  <2>1. k * even >= n BY <1>2, <1>4
  <2>2. k * (2 * even) =< k * (c - 1) BY <1>2, <1>4, Scaled
  <2>3. k * (2 * even) = 2 * (k * even) BY <1>2, <1>4
  <2>4. k * (c - 1) = c * k - k BY <1>2
  <2>5. 2 * n =< c * k - k BY <2>1, <2>2, <2>3, <2>4, <1>2, <1>4
  <2>6. c * k =< n + c - 1 BY <1>1
  <2> QED BY <2>5, <2>6, <1>8, <1>2
<1>10. ASSUME n =< c PROVE even = n
  <2> SUFFICES ASSUME k # 1 PROVE FALSE BY <1>4, <1>10
  <2>1. c * 2 =< c * k BY <1>2, Scaled
  <2> QED BY <2>1, <1>1, <1>10
<1>9. even \in Nat \ {0} /\ even =< c /\ even =< n /\ (n > c => c =< 2 * even) /\ (n =< c => even = n)
  BY <1>4, <1>5, <1>6, <1>7, <1>8, <1>10
<1> QED BY <1>9 DEF even, k

\* A cut in a pause is within the frames that were looked at.
LEMMA PauseIsWithin ==
  ASSUME NEW nf \in Int, NEW level, NEW wanted, NEW f \in PauseAt(level, nf, wanted)
  PROVE  f \in Int /\ 0 =< f /\ f + 1 =< nf
<1> DEFINE Runs == {r \in (0..nf) \X (0..nf) : r[1] < r[2]}
<1>1. \A quiet : QuietRuns(quiet, nf) \subseteq Runs BY DEF QuietRuns
<1>2. \A runs : ClearPause(runs, wanted) \subseteq runs /\ LongestRun(runs) \subseteq runs
  BY DEF ClearPause, LongestRun
<1>3. PICK r \in Runs : f = Mid(r)
  BY <1>1, <1>2 DEF PauseAt
<1>4. f = (r[1] + r[2]) \div 2 /\ r[1] \in 0..nf /\ r[2] \in 0..nf /\ r[1] < r[2]
  BY <1>3 DEF Mid
<1> QED BY <1>4

LEMMA FrameIsWithin ==
  ASSUME NEW lo \in Int, NEW hi \in Int, NEW w \in Nat \ {0}, NEW f \in Nat, f + 1 =< (hi - lo) \div w
  PROVE  LET x == lo + f * w + w \div 2 IN x \in Int /\ x >= lo /\ x < hi
<1> DEFINE nf == (hi - lo) \div w
           y == f * w
           half == w \div 2
<1>1. nf \in Int /\ w * nf =< hi - lo BY DivIs
<1>2. half \in Int /\ half < w /\ half >= 0 OBVIOUS
<1>3. f + 1 =< nf OBVIOUS
<1> HIDE DEF nf, half
<1>4. w * (f + 1) =< w * nf /\ w * 0 =< w * f BY <1>1, <1>3, Scaled
<1>5. w * (f + 1) = f * w + w /\ w * f = f * w /\ f * w \in Int OBVIOUS
<1>6. y \in Int /\ y >= 0 /\ y + w =< hi - lo BY <1>1, <1>4, <1>5
<1> HIDE DEF y
<1>7. lo + y + half \in Int /\ lo + y + half >= lo /\ lo + y + half < hi BY <1>2, <1>6
<1> QED BY <1>7 DEF y, half

\* Where a pass is cut that begins at `from`, when more than one is left.
LEMMA NextCutIs ==
  ASSUME NEW n \in Nat, NEW c \in Nat \ {0}, NEW from \in Nat, NEW chunkLen \in Nat \ {0},
         chunkLen =< c, c =< 2 * chunkLen, HardMin =< c,
         n - from > Least(c, chunkLen + chunkLen \div 2),
         NEW cut \in NextCuts(from, n, chunkLen, Least(SilenceSearch, chunkLen \div 2), c)
  PROVE  /\ cut \in Int /\ from < cut /\ cut < n /\ cut - from =< c
         /\ 4 * (cut - from) + 4 >= chunkLen /\ 4 * (n - cut) + 4 >= chunkLen
<1> DEFINE longTail == chunkLen + chunkLen \div 2
           remaining == n - from
           stride == Least(IF remaining >= longTail THEN chunkLen ELSE remaining \div 2, c)
           target == from + stride
           backLen == Least(SilenceSearch, chunkLen \div 2)
           lo == Most(from + Most(CutFrame, stride \div 2), target - backLen)
           hi == SearchEnd(target, from, c, n, stride)
           nf == (hi - lo) \div CutFrame
           wanted == Least(target, hi) - lo
<1>1. /\ CutFrame \in Nat \ {0} /\ HardMin \in Nat \ {0} /\ 4 * CutFrame =< HardMin
      /\ SilenceSearch \in Nat /\ ForwardReach \in Nat
  BY CutAssumption DEF CutAssumption
<1>2. remaining \in Int /\ remaining > chunkLen /\ remaining >= 2
      /\ (remaining >= longTail \/ remaining > c)
  BY DEF Least
<1>3. /\ stride \in Nat \ {0} /\ stride =< c /\ 2 * stride + 1 >= chunkLen
      /\ 2 * (remaining - stride) + 1 >= chunkLen /\ stride < remaining
  BY <1>2 DEF Least
<1>4. /\ lo \in Int /\ lo >= from + CutFrame /\ lo >= from + stride \div 2
      /\ hi \in Int /\ hi =< from + c /\ hi =< n - stride \div 2
  <2> HIDE DEF stride
  <2>1. stride \div 2 \in Int /\ backLen \in Int BY <1>1, <1>3 DEF Least
  <2> HIDE DEF backLen
  <2> QED BY <2>1, <1>1, <1>3 DEF Least, Most, SearchEnd
<1>5. PICK x \in IF hi - lo =< 2 * CutFrame THEN {target}
                 ELSE UNION {LET pause == PauseAt(level, nf, wanted)
                             IN  IF pause = {} THEN {target}
                                 ELSE {lo + f * CutFrame + CutFrame \div 2 : f \in pause}
                               : level \in [0..(nf - 1) -> 0..2]} :
             cut = Least(Most(x, from + CutFrame), n)
  BY DEF NextCuts
<1>6. x = target \/ \E level, f : /\ f \in PauseAt(level, nf, wanted)
                                   /\ x = lo + f * CutFrame + CutFrame \div 2
  <2> HIDE DEF nf, wanted, lo, hi, target
  <2> QED BY <1>5
<1>7. x = target \/ (x \in Int /\ x >= lo /\ x < hi)
  <2> SUFFICES ASSUME NEW level, NEW f \in PauseAt(level, nf, wanted),
                      x = lo + f * CutFrame + CutFrame \div 2
               PROVE  x \in Int /\ x >= lo /\ x < hi
    BY <1>6
  <2> HIDE DEF lo, hi, wanted
  <2>1. nf \in Int
    <3> DEFINE d == hi - lo
    <3>1. d \in Int BY <1>4
    <3> HIDE DEF d
    <3>2. d \div CutFrame \in Int BY <3>1, <1>1, DivIs
    <3> QED BY <3>2 DEF d
  <2>2. f \in Nat /\ f + 1 =< nf
    <3> HIDE DEF nf
    <3> QED BY <2>1, PauseIsWithin
  <2> QED BY <1>1, <1>4, <2>2, FrameIsWithin
<1>8. 2 * CutFrame =< chunkLen BY <1>1
<1> DEFINE half == stride \div 2
<1>9. half \in Nat /\ 2 * half =< stride /\ stride =< 2 * half + 1
  <2> HIDE DEF stride
  <2> QED BY <1>3
<1> HIDE DEF stride, lo, hi, nf, wanted, half
<1>10. lo >= from + half /\ hi =< n - half BY <1>4 DEF half
<1>11. cut = Least(Most(x, from + CutFrame), n) BY <1>5
<1>12. x \in Int BY <1>3, <1>7
<1>13. CASE Most(x, from + CutFrame) = from + CutFrame
  <2>1. CutFrame < remaining BY <1>1, <1>2, <1>8
  <2>2. cut = from + CutFrame BY <1>1, <1>11, <1>13, <2>1 DEF Least
  <2>3. from + CutFrame >= x BY <1>1, <1>12, <1>13 DEF Most
  <2>4. 4 * CutFrame + 4 >= chunkLen
    <3>1. CASE x = target
      <4>1. stride =< CutFrame BY <3>1, <2>3, <1>3, <1>1
      <4> QED BY <4>1, <1>3, <1>1
    <3>2. CASE x >= lo
      <4>1. half =< CutFrame BY <3>2, <2>3, <1>4, <1>10, <1>9, <1>1, <1>12
      <4> QED BY <4>1, <1>3, <1>9, <1>1
    <3> QED BY <3>1, <3>2, <1>7
  <2>5. 4 * (remaining - CutFrame) + 4 >= chunkLen BY <1>1, <1>2, <1>8
  <2> QED BY <1>1, <1>8, <2>1, <2>2, <2>4, <2>5
<1>14. CASE Most(x, from + CutFrame) = x
  <2>1. CASE x = target
    <3>1. cut = from + stride BY <2>1, <1>14, <1>11, <1>3, <1>2 DEF Least
    <3> QED BY <3>1, <1>2, <1>3
  <2>2. CASE x \in Int /\ x >= lo /\ x < hi
    <3>1. x < n BY <2>2, <1>4, <1>9, <1>10
    <3>2. cut = x BY <3>1, <1>14, <1>11, <1>12 DEF Least
    <3> QED BY <3>1, <3>2, <2>2, <1>1, <1>3, <1>4, <1>9, <1>10
  <2> QED BY <2>1, <2>2, <1>7
<1> QED BY <1>13, <1>14, <1>1, <1>12 DEF Most

\* What holds of every state: how the cuts so far lie, and what is left.
CutsInv ==
  /\ machine \in Machines
  /\ bounds \in Seq(Nat) /\ Len(bounds) >= 1 /\ bounds[1] = 0
  /\ phase \in {"sizing", "refused"} => Len(bounds) = 1
  /\ phase \in {"cutting", "cut"} =>
       /\ chunk \in Nat /\ chunk >= HardMin /\ Peak(machine, chunk) + Headroom =< machine.ram
       /\ \A k \in 1..(Len(bounds) - 1) :
            /\ bounds[k] < bounds[k + 1] /\ bounds[k + 1] - bounds[k] =< chunk
            /\ 4 * (bounds[k + 1] - bounds[k]) + 4 >= ChunkLen
  /\ phase = "cutting" =>
       /\ bounds[Len(bounds)] < machine.length
       /\ 4 * (machine.length - bounds[Len(bounds)]) + 4 >= ChunkLen
  /\ phase = "cut" => bounds[Len(bounds)] = machine.length
  /\ phase \in {"sizing", "refused", "cutting", "cut"}

\* A machine's numbers.
LEMMA MachineIs ==
  ASSUME NEW m \in Machines
  PROVE  /\ m.slope \in Nat \ {0} /\ m.length \in Nat \ {0} /\ m.fixed \in Int
         /\ m.ram \in Int /\ m.reserve \in Int /\ m.pinned \in Nat
         /\ HardMin \in Nat \ {0} /\ Trusted \in Nat /\ Headroom \in Int
BY CutAssumption DEF CutAssumption

\* A pass of the size that is chosen fits beside the aligner.
LEMMA SizeFits ==
  ASSUME NEW m \in Machines, m.ram >= MinRam(m), NEW wanted \in Int, NEW other \in Int,
         NEW size, size = Most(HardMin, wanted), wanted =< MaxSafeChunk(m) \/ wanted =< HardMin
  PROVE  size \in Nat /\ size >= HardMin /\ Peak(m, size) + Headroom =< m.ram
<1> DEFINE room == m.ram - Headroom - m.fixed
           safe == room \div m.slope
<1>1. room \in Int BY MachineIs
<1>2. safe \in Int /\ m.slope * safe =< room
  <2> HIDE DEF room
  <2> QED BY <1>1, MachineIs, DivIs
<1>3. safe = MaxSafeChunk(m) BY DEF MaxSafeChunk
<1> HIDE DEF safe
<1>4. size \in Nat /\ size >= HardMin /\ (size = HardMin \/ size =< safe)
  <2>1. safe \in Int /\ HardMin \in Nat \ {0} BY <1>2, MachineIs
  <2>2. wanted =< safe \/ wanted =< HardMin BY <1>3
  <2>3. (size = wanted /\ HardMin =< wanted) \/ size = HardMin BY <2>1 DEF Most
  <2> QED BY <2>1, <2>2, <2>3
<1>5. CASE size = HardMin BY <1>5, MachineIs DEF MinRam
<1>6. CASE size =< safe
  <2>1. m.slope * size =< m.slope * safe BY <1>2, <1>4, <1>6, MachineIs, Scaled
  <2> DEFINE used == m.slope * size
  <2>2. used \in Int BY <1>4, MachineIs
  <2>3. used =< room BY <2>1, <2>2, <1>1, <1>2, MachineIs
  <2> HIDE DEF used
  <2>4. m.fixed + used + Headroom =< m.ram BY <2>2, <2>3, MachineIs
  <2> QED BY <2>4, <1>4 DEF used, Peak
<1> QED BY <1>4, <1>5, <1>6

LEMMA ChosenSizeFits ==
  ASSUME NEW m \in Machines, m.ram >= MinRam(m), NEW size \in {AutoChunk(m), PinnedChunk(m)}
  PROVE  size \in Nat /\ size >= HardMin /\ Peak(m, size) + Headroom =< m.ram
<1> DEFINE raw == (m.ram - m.reserve - m.fixed) \div m.slope
<1>1. raw \in Int /\ MaxSafeChunk(m) \in Int BY MachineIs DEF MaxSafeChunk
<1>2. AutoChunk(m) = Most(HardMin, Least(Trusted, Least(raw, MaxSafeChunk(m)))) BY DEF AutoChunk
<1> HIDE DEF raw
<1>3. PICK wanted \in Int : wanted =< MaxSafeChunk(m) /\ size = Most(HardMin, wanted)
  <2>1. CASE size = AutoChunk(m) BY <2>1, <1>1, <1>2, MachineIs DEF Least
  <2>2. CASE size = PinnedChunk(m) BY <2>2, <1>1, MachineIs DEF Least, PinnedChunk
  <2> QED BY <2>1, <2>2
<1> QED BY <1>3, SizeFits

\* What an even division into passes gives for a machine.
LEMMA ChunkLenIs ==
  ASSUME machine \in Machines, chunk \in Nat, chunk >= HardMin
  PROVE  /\ ChunkLen \in Nat \ {0} /\ ChunkLen =< chunk /\ ChunkLen =< machine.length
         /\ (machine.length > chunk => chunk =< 2 * ChunkLen)
         /\ (machine.length =< chunk => ChunkLen = machine.length)
<1>1. machine.length \in Nat \ {0} /\ chunk \in Nat \ {0} BY MachineIs
<1> QED BY <1>1, EvenPass DEF ChunkLen

\* A pass that is no longer than the chunk needs no more memory.
LEMMA ShorterFits ==
  ASSUME NEW m \in Machines, NEW longer \in Nat, NEW shorter \in Int, shorter =< longer,
         Peak(m, longer) + Headroom =< m.ram
  PROVE  Peak(m, shorter) + Headroom =< m.ram
<1> DEFINE a == m.slope * shorter
           b == m.slope * longer
<1>1. a \in Int /\ b \in Int /\ a =< b BY MachineIs, Scaled
<1>2. m.fixed + b + Headroom =< m.ram BY DEF Peak
<1> HIDE DEF a, b
<1>3. m.fixed + a + Headroom =< m.ram BY <1>1, <1>2, MachineIs
<1> QED BY <1>3 DEF a, Peak

LEMMA CutsInvInit == CutsInit => CutsInv
BY DEF CutsInit, CutsInv

\* One more cut, at a place in the audio that leaves both sides long enough.
LEMMA CutsInvCut ==
  ASSUME CutsInv, phase = "cutting", NEW cut \in Int,
         bounds[Len(bounds)] < cut, cut - bounds[Len(bounds)] =< chunk,
         4 * (cut - bounds[Len(bounds)]) + 4 >= ChunkLen,
         bounds' = Append(bounds, cut), machine' = machine, chunk' = chunk,
         \/ phase' = "cutting" /\ cut < machine.length
            /\ 4 * (machine.length - cut) + 4 >= ChunkLen
         \/ phase' = "cut" /\ cut = machine.length
  PROVE  CutsInv'
<1> DEFINE final == Len(bounds)
<1>1. /\ bounds \in Seq(Nat) /\ final \in Nat /\ final >= 1 /\ bounds[1] = 0 /\ bounds[final] \in Nat
  BY DEF CutsInv
<1>2. cut \in Nat BY <1>1
<1>3. /\ bounds' \in Seq(Nat) /\ Len(bounds') = final + 1 /\ bounds'[final + 1] = cut
      /\ \A k \in 1..final : bounds'[k] = bounds[k]
  BY <1>1, <1>2
<1>4. ChunkLen' = ChunkLen BY DEF ChunkLen
<1>5. ASSUME NEW k \in 1..(Len(bounds') - 1)
      PROVE  /\ bounds'[k] < bounds'[k + 1] /\ bounds'[k + 1] - bounds'[k] =< chunk
             /\ 4 * (bounds'[k + 1] - bounds'[k]) + 4 >= ChunkLen
  <2>1. CASE k = final BY <2>1, <1>1, <1>3
  <2>2. CASE k # final
    <3>1. k \in 1..(final - 1) /\ k \in 1..final /\ k + 1 \in 1..final BY <2>2, <1>1, <1>3
    <3> QED BY <3>1, <1>3 DEF CutsInv
  <2> QED BY <2>1, <2>2
<1>6. bounds'[1] = 0 BY <1>1, <1>3
<1>7. bounds'[Len(bounds')] = cut /\ Len(bounds') >= 1 BY <1>1, <1>3
<1>8. /\ machine' \in Machines
      /\ chunk' \in Nat /\ chunk' >= HardMin /\ Peak(machine', chunk') + Headroom =< machine'.ram
  BY DEF CutsInv
<1>9. \A k \in 1..(Len(bounds') - 1) :
         /\ bounds'[k] < bounds'[k + 1] /\ bounds'[k + 1] - bounds'[k] =< chunk'
         /\ 4 * (bounds'[k + 1] - bounds'[k]) + 4 >= ChunkLen'
  BY <1>4, <1>5
<1>10. Peak(machine, chunk)' = Peak(machine', chunk') BY DEF Peak
<1> HIDE DEF final
<1> QED BY <1>3, <1>4, <1>6, <1>7, <1>8, <1>9, <1>10 DEF CutsInv

LEMMA CutsInvNext == CutsInv /\ [CutsNext]_cutVars => CutsInv'
<1> SUFFICES ASSUME CutsInv, [CutsNext]_cutVars PROVE CutsInv' OBVIOUS
<1>1. CASE UNCHANGED cutVars
  BY <1>1 DEF CutsInv, cutVars, ChunkLen, Peak
<1>2. CASE RefusesMachine
  BY <1>2 DEF CutsInv, RefusesMachine, ChunkLen, Peak
<1>3. CASE SizesPasses
  <2>1. chunk' \in {AutoChunk(machine), PinnedChunk(machine)} BY <1>3 DEF SizesPasses
  <2>2. chunk' \in Nat /\ chunk' >= HardMin /\ Peak(machine, chunk') + Headroom =< machine.ram
    BY <2>1, <1>3, ChosenSizeFits DEF SizesPasses, CutsInv
  <2>3. machine' = machine /\ bounds' = bounds /\ phase' = "cutting" BY <1>3 DEF SizesPasses
  <2>4. Len(bounds) = 1 /\ bounds[1] = 0 /\ machine \in Machines BY <1>3 DEF SizesPasses, CutsInv
  <2>5. machine.length \in Nat \ {0} /\ chunk' \in Nat \ {0} BY <2>2, <2>4, MachineIs
  <2>6. ChunkLen' \in Nat \ {0} /\ ChunkLen' =< machine.length
    BY <2>3, <2>5, EvenPass DEF ChunkLen
  <2> QED BY <2>2, <2>3, <2>4, <2>5, <2>6 DEF CutsInv, Peak
<1>4. ASSUME phase = "cutting"
      PROVE  /\ machine.length \in Nat \ {0} /\ chunk \in Nat \ {0} /\ HardMin =< chunk
             /\ bounds[Len(bounds)] \in Nat /\ (Len(bounds) = 1 => bounds[Len(bounds)] = 0)
             /\ ChunkLen \in Nat \ {0} /\ ChunkLen =< chunk
             /\ (machine.length > chunk => chunk =< 2 * ChunkLen)
             /\ (machine.length =< chunk => ChunkLen = machine.length)
             /\ bounds[Len(bounds)] < machine.length
             /\ 4 * (machine.length - bounds[Len(bounds)]) + 4 >= ChunkLen
  <2>1. machine \in Machines /\ chunk \in Nat /\ chunk >= HardMin BY <1>4 DEF CutsInv
  <2>2. HardMin \in Nat \ {0} /\ machine.length \in Nat \ {0} BY <2>1, MachineIs
  <2>3. bounds[Len(bounds)] \in Nat BY DEF CutsInv
  <2> QED BY <2>1, <2>2, <2>3, <1>4, ChunkLenIs DEF CutsInv
<1>5. CASE CutsAtPause
  <2> DEFINE from == bounds[Len(bounds)]
  <2>1. phase = "cutting" /\ ~TailFits /\ machine' = machine /\ chunk' = chunk /\ phase' = phase
    BY <1>5 DEF CutsAtPause
  <2>2. PICK cut \in NextCuts(from, machine.length, ChunkLen, Least(SilenceSearch, ChunkLen \div 2), chunk) :
          bounds' = Append(bounds, cut)
    BY <1>5 DEF CutsAtPause
  <2>3. machine.length - from > Least(chunk, ChunkLen + ChunkLen \div 2)
    BY <2>1, <1>4 DEF TailFits, Least
  <2>4. chunk =< 2 * ChunkLen
    BY <2>1, <2>3, <1>4 DEF Least
  <2>5. /\ cut \in Int /\ from < cut /\ cut < machine.length /\ cut - from =< chunk
        /\ 4 * (cut - from) + 4 >= ChunkLen /\ 4 * (machine.length - cut) + 4 >= ChunkLen
    BY <2>1, <2>2, <2>3, <2>4, <1>4, NextCutIs
  <2> QED BY <2>1, <2>2, <2>5, CutsInvCut
<1>6. CASE EndsCutting
  <2>1. phase = "cutting" /\ TailFits /\ bounds' = Append(bounds, machine.length)
        /\ machine' = machine /\ chunk' = chunk /\ phase' = "cut"
    BY <1>6 DEF EndsCutting
  <2>2. machine.length - bounds[Len(bounds)] =< chunk
    BY <2>1, <1>4 DEF TailFits, Least
  <2> QED BY <2>1, <2>2, <1>4, CutsInvCut
<1> QED BY <1>1, <1>2, <1>3, <1>5, <1>6 DEF CutsNext

\* Whatever the machine's memory and however the pauses lie: the passes tile the
\* audio, none needs more memory than there is next to the aligner, and none is a
\* sliver, for every length of the audio (_chunk_boundaries).
THEOREM PassesFitMachine == CutsSpec => []PassesFit
<1>1. CutsInv => PassesFit
  <2> SUFFICES ASSUME CutsInv PROVE PassesFit OBVIOUS
  <2>1. phase = "cut" => bounds[1] = 0 /\ bounds[Len(bounds)] = machine.length BY DEF CutsInv
  <2>2. ASSUME NEW p \in Passes
        PROVE  /\ p.from < p.to /\ Peak(machine, p.to - p.from) + Headroom =< machine.ram
               /\ 4 * (p.to - p.from) + 4 >= ChunkLen
    <3>1. PICK k \in 1..(Len(bounds) - 1) : p.from = bounds[k] /\ p.to = bounds[k + 1]
      BY DEF Passes
    <3>2. phase \in {"cutting", "cut"} /\ bounds \in Seq(Nat) /\ machine \in Machines BY <3>1 DEF CutsInv
    <3>3. bounds[k] \in Nat /\ bounds[k + 1] \in Nat BY <3>1, <3>2
    <3>4. /\ p.from < p.to /\ p.to - p.from =< chunk /\ 4 * (p.to - p.from) + 4 >= ChunkLen
          /\ chunk \in Nat /\ Peak(machine, chunk) + Headroom =< machine.ram
      BY <3>1, <3>2 DEF CutsInv
    <3>5. p.to - p.from \in Int BY <3>1, <3>3
    <3> QED BY <3>2, <3>4, <3>5, ShorterFits
  <2> QED BY <2>1, <2>2 DEF PassesFit
<1> QED BY <1>1, CutsInvInit, CutsInvNext, PTL DEF CutsSpec

-----------------------------------------------------------------------------
(* The loop breaker (VoxtralBreaker).                                      *)

\* The greater of two.
LEMMA GreaterOfTwo ==
  ASSUME NEW a \in Int, NEW b \in Int
  PROVE  Max({a, b}) = IF a >= b THEN a ELSE b
<1> DEFINE g == IF a >= b THEN a ELSE b
<1>1. g \in {a, b} /\ \A y \in {a, b} : g >= y OBVIOUS
<1> HIDE DEF g
<1>2. Max({a, b}) \in {a, b} /\ \A y \in {a, b} : Max({a, b}) >= y BY <1>1 DEF Max
<1>3. Max({a, b}) >= g /\ g >= Max({a, b}) /\ g \in Int /\ Max({a, b}) \in Int BY <1>1, <1>2
<1> QED BY <1>3 DEF g

\* The last k of a sequence.
LEMMA LastOfIs ==
  ASSUME NEW S, NEW seq \in Seq(S), NEW k \in Nat
  PROVE  LET final == LastOf(seq, k)
         IN  /\ final \in Seq(S)
             /\ Len(final) = IF Len(seq) < k THEN Len(seq) ELSE k
             /\ \A i \in 1..Len(final) : final[i] = seq[Len(seq) - Len(final) + i]
<1> DEFINE n == Len(seq)
           from == IF 1 >= n - k + 1 THEN 1 ELSE n - k + 1
<1>1. n \in Nat OBVIOUS
<1>6. n - k + 1 \in Int BY <1>1
<1>7. Max({1, n - k + 1}) = from BY <1>6, GreaterOfTwo
<1>2. LastOf(seq, k) = SubSeq(seq, from, n) BY <1>7 DEF LastOf
<1> HIDE DEF n
<1>3. from \in Nat /\ from >= 1 /\ n - from + 1 = (IF n < k THEN n ELSE k) BY <1>1
<1> HIDE DEF from
<1>5. n = Len(seq) BY DEF n
<1>4. /\ SubSeq(seq, from, n) \in Seq(S) /\ Len(SubSeq(seq, from, n)) = n - from + 1
      /\ \A i \in 1..(n - from + 1) : SubSeq(seq, from, n)[i] = seq[from + i - 1]
  <2>1. CASE from > n BY <2>1, <1>1, <1>3, <1>5
  <2>2. CASE from =< n BY <2>2, <1>1, <1>3, <1>5
  <2> QED BY <2>1, <2>2, <1>1, <1>3
<1> QED BY <1>1, <1>2, <1>3, <1>4 DEF n

\* Token e ends a window that goes round with period p.
Goes(said, e, p) ==
  /\ e >= LoopWindow /\ p \in 1..MaxPeriod /\ LoopWindow \div p >= MinCycles
  /\ \A i \in (e - LoopWindow + p + 1)..e : said[i] = said[i - p]

\* A cycle fits twice into the window.
LEMMA CycleFitsTwice ==
  ASSUME NEW p \in 1..MaxPeriod, LoopWindow \div p >= MinCycles
  PROVE  p \in Nat \ {0} /\ p + p =< LoopWindow
<1>1. p \in Nat \ {0} /\ LoopWindow \in Nat /\ MinCycles \in Nat /\ MinCycles >= 2
  BY BreakerAssumption DEF BreakerAssumption
<1> DEFINE d == LoopWindow \div p
<1>2. d \in Int /\ p * d =< LoopWindow BY <1>1, DivIs
<1> HIDE DEF d
<1>3. d >= 2 BY <1>1, <1>2 DEF d
<1>4. p * 2 =< p * d BY <1>1, <1>2, <1>3, Scaled
<1>5. p * d \in Int BY <1>1, <1>2
<1> QED BY <1>1, <1>2, <1>4, <1>5

\* The token after a window that goes round with period q continues that cycle, if
\* it is the last of a window that goes round with any period.
LEMMA CyclesAgree ==
  ASSUME NEW said, NEW e \in Nat, NEW p, NEW q, Goes(said, e, q), Goes(said, e + 1, p)
  PROVE  said[e + 1] = said[e + 1 - q]
<1>1. /\ p \in Nat \ {0} /\ p + p =< LoopWindow /\ q \in Nat \ {0} /\ q + q =< LoopWindow
      /\ LoopWindow \in Nat
  BY CycleFitsTwice, BreakerAssumption DEF Goes, BreakerAssumption
<1>2. \A i \in (e - LoopWindow + q + 1)..e : said[i] = said[i - q] BY DEF Goes
<1>3. \A i \in (e + 1 - LoopWindow + p + 1)..(e + 1) : said[i] = said[i - p] BY <1>1 DEF Goes
<1>4. said[e + 1] = said[e + 1 - p] BY <1>1, <1>3
<1>5. CASE p = q BY <1>4, <1>5
<1>6. CASE p # q
  <2>1. p + q < LoopWindow BY <1>1, <1>6
  <2>2. e + 1 - p \in (e - LoopWindow + q + 1)..e BY <2>1, <1>1
  <2>3. e + 1 - q \in (e + 1 - LoopWindow + p + 1)..(e + 1) BY <2>1, <1>1
  <2>4. e + 1 - p - q = e + 1 - q - p BY <1>1
  <2> DEFINE i == e + 1 - p
             j == e + 1 - q
  <2>5. said[i] = said[i - q] BY <2>2, <1>2
  <2>6. said[j] = said[j - p] BY <2>3, <1>3
  <2> HIDE DEF i, j
  <2>7. said[e + 1 - p - q] = said[e + 1 - q - p] BY <2>4
  <2>8. said[i] = said[i - q] /\ said[j] = said[j - p] BY <2>5, <2>6
  <2> QED BY <2>7, <2>8, <1>4, <1>1 DEF i, j
<1> QED BY <1>5, <1>6

\* What the breaker keeps of the first e tokens.
IsTail(tail, said, e) ==
  /\ tail \in Seq(Tokens)
  /\ Len(tail) = IF e < LoopWindow + MaxPeriod THEN e ELSE LoopWindow + MaxPeriod
  /\ \A i \in 1..Len(tail) : tail[i] = said[e - Len(tail) + i]

LEMMA TailMade ==
  ASSUME NEW tail \in Seq(Tokens), NEW said, NEW e \in Nat,
         Len(tail) = IF e < LoopWindow + MaxPeriod THEN e ELSE LoopWindow + MaxPeriod,
         \A i \in 1..Len(tail) : tail[i] = said[e - Len(tail) + i]
  PROVE  IsTail(tail, said, e)
BY DEF IsTail

\* What it finds there is a period of the last window, and it finds one if there is
\* one.
LEMMA PeriodIs ==
  ASSUME NEW said, NEW e \in Nat, NEW tail, IsTail(tail, said, e)
  PROVE  /\ Period(tail) \in Nat
         /\ Period(tail) # 0 => Goes(said, e, Period(tail))
         /\ \A p : Goes(said, e, p) => Period(tail) # 0
<1> DEFINE t == LastOf(tail, LoopWindow)
           periods == {p \in 1..MaxPeriod : /\ LoopWindow \div p >= MinCycles
                                            /\ \A i \in (p + 1)..LoopWindow : t[i] = t[i - p]}
<1>1. /\ LoopWindow \in Nat \ {0} /\ MaxPeriod \in Nat \ {0} BY BreakerAssumption DEF BreakerAssumption
<1>2. Period(tail) = IF Len(tail) < LoopWindow \/ periods = {} THEN 0 ELSE Min(periods)
  BY DEF Period
<1>3. Len(tail) \in Nat /\ tail \in Seq(Tokens) BY DEF IsTail
<1>4. Len(tail) < LoopWindow <=> e < LoopWindow BY <1>1 DEF IsTail
<1>5. ASSUME e >= LoopWindow
      PROVE  \A i \in 1..LoopWindow : t[i] = said[e - LoopWindow + i]
  <2>1. /\ Len(t) = LoopWindow
        /\ \A i \in 1..LoopWindow : t[i] = tail[Len(tail) - LoopWindow + i]
    <3>1. LoopWindow \in Nat /\ Len(tail) >= LoopWindow BY <1>1, <1>3, <1>4, <1>5
    <3>2. /\ Len(t) = IF Len(tail) < LoopWindow THEN Len(tail) ELSE LoopWindow
          /\ \A i \in 1..Len(t) : t[i] = tail[Len(tail) - Len(t) + i]
      BY <3>1, <1>3, LastOfIs
    <3> HIDE DEF t
    <3>3. Len(t) = LoopWindow BY <3>1, <3>2, <1>3
    <3> QED BY <3>3, <3>2
  <2> HIDE DEF t
  <2>2. ASSUME NEW i \in 1..LoopWindow PROVE t[i] = said[e - LoopWindow + i]
    <3> DEFINE j == Len(tail) - LoopWindow + i
    <3>1. j \in 1..Len(tail) /\ e - Len(tail) + j = e - LoopWindow + i BY <1>1, <1>3, <1>4, <1>5
    <3>2. tail[j] = said[e - Len(tail) + j] BY <3>1 DEF IsTail
    <3> QED BY <2>1, <3>1, <3>2
  <2> QED BY <2>2
<1> HIDE DEF t
<1>6. ASSUME e >= LoopWindow, NEW p PROVE p \in periods <=> Goes(said, e, p)
  <2>1. ASSUME p \in periods, NEW i \in (e - LoopWindow + p + 1)..e PROVE said[i] = said[i - p]
    <3> DEFINE j == i - e + LoopWindow
    <3>1. p \in 1..MaxPeriod BY <2>1
    <3>2. j \in (p + 1)..LoopWindow /\ j \in 1..LoopWindow /\ j - p \in 1..LoopWindow
          /\ e - LoopWindow + j = i /\ e - LoopWindow + (j - p) = i - p
      BY <3>1, <1>1, <1>6
    <3>3. t[j] = t[j - p] BY <2>1, <3>2
    <3> HIDE DEF j
    <3>4. t[j] = said[e - LoopWindow + j] /\ t[j - p] = said[e - LoopWindow + (j - p)]
      BY <3>2, <1>5, <1>6
    <3> QED BY <3>2, <3>3, <3>4
  <2>2. ASSUME Goes(said, e, p), NEW j \in (p + 1)..LoopWindow PROVE t[j] = t[j - p]
    <3> DEFINE i == e - LoopWindow + j
    <3>1. p \in 1..MaxPeriod BY <2>2 DEF Goes
    <3>2. i \in (e - LoopWindow + p + 1)..e /\ j \in 1..LoopWindow /\ j - p \in 1..LoopWindow
          /\ e - LoopWindow + (j - p) = i - p
      BY <3>1, <1>1, <1>6
    <3>3. said[i] = said[i - p] BY <2>2, <3>2 DEF Goes
    <3>4. t[j] = said[i] /\ t[j - p] = said[e - LoopWindow + (j - p)]
      BY <3>2, <1>5, <1>6
    <3> HIDE DEF i
    <3> QED BY <3>2, <3>3, <3>4
  <2> QED BY <2>1, <2>2, <1>6 DEF Goes
<1>7. periods \in SUBSET Nat BY <1>1
<1>8. periods # {} => Min(periods) \in periods /\ Min(periods) \in Nat /\ Min(periods) # 0
  <2> SUFFICES ASSUME periods # {} PROVE Min(periods) \in periods /\ periods \subseteq Nat \ {0} OBVIOUS
  <2>1. periods \subseteq Nat \ {0} BY <1>1
  <2> HIDE DEF periods
  <2> QED BY <2>1, <1>7, LeastIsChosen DEF Min
<1> HIDE DEF periods
<1>9. \A p : Goes(said, e, p) => e >= LoopWindow BY DEF Goes
<1> QED BY <1>2, <1>4, <1>6, <1>8, <1>9, <1>1

\* One more token at the end of what is kept.
LEMMA TailGrows ==
  ASSUME NEW said \in Seq(Tokens), NEW e \in Nat, e + 1 = Len(said), NEW tail, IsTail(tail, said, e)
  PROVE  IsTail(LastOf(Append(tail, Last(said)), LoopWindow + MaxPeriod), said, e + 1)
<1> DEFINE keep == LoopWindow + MaxPeriod
           more == Append(tail, Last(said))
           new == LastOf(more, keep)
<1>1. keep \in Nat /\ keep >= 1 BY BreakerAssumption DEF BreakerAssumption
<1>2. Last(said) = said[e + 1] /\ Last(said) \in Tokens BY DEF Last
<1>3. tail \in Seq(Tokens) /\ Len(tail) \in Nat /\ Len(tail) = (IF e < keep THEN e ELSE keep)
      /\ \A i \in 1..Len(tail) : tail[i] = said[e - Len(tail) + i]
  BY DEF IsTail
<1>4. /\ more \in Seq(Tokens) /\ Len(more) = Len(tail) + 1 /\ more[Len(tail) + 1] = said[e + 1]
      /\ \A i \in 1..Len(tail) : more[i] = tail[i]
  BY <1>2, <1>3
<1> HIDE DEF more, keep
<1>5. \A i \in 1..Len(more) : more[i] = said[e + 1 - Len(more) + i]
  <2> SUFFICES ASSUME NEW i \in 1..Len(more) PROVE more[i] = said[e + 1 - Len(more) + i] OBVIOUS
  <2>1. CASE i = Len(tail) + 1
    <3>1. e + 1 - Len(more) + i = e + 1 BY <2>1, <1>3, <1>4
    <3> QED BY <2>1, <3>1, <1>4
  <2>2. CASE i \in 1..Len(tail)
    <3>1. e + 1 - Len(more) + i = e - Len(tail) + i BY <2>2, <1>3, <1>4
    <3> QED BY <2>2, <3>1, <1>3, <1>4
  <2> QED BY <2>1, <2>2, <1>3, <1>4
<1>10. more \in Seq(Tokens) /\ keep \in Nat BY <1>1, <1>4
<1>6. /\ new \in Seq(Tokens) /\ Len(new) = (IF Len(more) < keep THEN Len(more) ELSE keep)
      /\ \A i \in 1..Len(new) : new[i] = more[Len(more) - Len(new) + i]
  BY <1>10, LastOfIs
<1> HIDE DEF new
<1>7. Len(new) = IF e + 1 < keep THEN e + 1 ELSE keep BY <1>1, <1>3, <1>4, <1>6
<1>8. ASSUME NEW i \in 1..Len(new) PROVE new[i] = said[e + 1 - Len(new) + i]
  <2> DEFINE j == Len(more) - Len(new) + i
  <2>3. Len(more) \in Nat /\ Len(new) \in Nat /\ Len(new) =< Len(more) BY <1>4, <1>6, <1>10
  <2>1. j \in 1..Len(more) /\ e + 1 - Len(more) + j = e + 1 - Len(new) + i
    BY <2>3
  <2>2. new[i] = more[j] /\ more[j] = said[e + 1 - Len(more) + j] BY <2>1, <1>5, <1>6
  <2> QED BY <2>1, <2>2
<1>11. new \in Seq(Tokens) BY <1>6
<1>9. IsTail(new, said, e + 1)
  <2>1. Len(new) = IF e + 1 < LoopWindow + MaxPeriod THEN e + 1 ELSE LoopWindow + MaxPeriod
    BY <1>7 DEF keep
  <2>2. ASSUME NEW i \in 1..Len(new) PROVE new[i] = said[(e + 1) - Len(new) + i]
    <3>1. (e + 1) - Len(new) + i = e + 1 - Len(new) + i BY <2>1, <1>1 DEF keep
    <3> QED BY <3>1, <1>8
  <2>3. e + 1 \in Nat OBVIOUS
  <2> QED BY <1>11, <2>1, <2>2, <2>3, TailMade
<1> QED BY <1>9 DEF new, more, keep

\* One of every CheckEvery numbers in a row is a multiple of it.
LEMMA MultipleIs ==
  ASSUME NEW n \in Nat, NEW w \in Nat \ {0}, n >= w
  PROVE  \E m \in (n - w + 1)..n : m % w = 0
<1> DEFINE m == n - (n % w)
<1> DEFINE r == n % w
<1>1. r \in Nat /\ r =< w - 1 OBVIOUS
<1>4. m = n - r OBVIOUS
<1> HIDE DEF r
<1>2. m \in (n - w + 1)..n BY <1>1, <1>4
<1>3. m % w = 0
  <2> DEFINE k == n \div w
  <2>1. k \in Int /\ n = w * k + r BY DEF r
  <2> HIDE DEF k
  <2>2. m = w * k BY <2>1, <1>1, <1>4
  <2> HIDE DEF m
  <2>3. (w * k) % w = 0 BY <2>1
  <2> QED BY <2>2, <2>3
<1> QED BY <1>2, <1>3


Breakers == [tail : Seq(Tokens), seen : Nat, step : Nat, period : Nat, kicks : Nat, gaveUp : BOOLEAN]

\* Everything that holds of the breaker and of what has been generated: it has
\* looked at all tokens but the last; the cycle it is breaking ended there and the
\* last token did not carry it on; and no window that went round when a check fell
\* due was followed by a token that carried on.
BreakerInv ==
  /\ tokens \in Seq(Tokens)
  /\ breaker \in Breakers
  /\ breaker.step = Len(tokens)
  /\ Len(tokens) = 0 => breaker.tail = << >> /\ breaker.seen = 0 /\ breaker.period = 0
  /\ Len(tokens) # 0 => /\ breaker.seen = Len(tokens) - 1
                        /\ IsTail(breaker.tail, tokens, Len(tokens) - 1)
  /\ breaker.period # 0 =>
       /\ Goes(tokens, Len(tokens) - 1, breaker.period)
       /\ tokens[Len(tokens)] # tokens[Len(tokens) - breaker.period]
  /\ breaker.gaveUp \/ \A e \in 1..(Len(tokens) - 1), p \in 1..MaxPeriod :
       (e + 1) % CheckEvery = 0 /\ Goes(tokens, e, p) => ~Goes(tokens, e + 1, p)

LEMMA BreakerInvInit == BreakerInit => BreakerInv
<1> SUFFICES ASSUME BreakerInit PROVE BreakerInv OBVIOUS
<1>1. tokens \in Seq(Tokens) /\ Len(tokens) = 0 BY DEF BreakerInit
<1> QED BY <1>1 DEF BreakerInit, BreakerInv, Breakers

\* What the breaker has of the tokens after it has looked.
LEMMA TailIsNew ==
  ASSUME BreakerInv
  PROVE  IsTail(NewTail(breaker), tokens, Len(tokens))
<1> DEFINE n == Len(tokens)
           keep == LoopWindow + MaxPeriod
<1>1. tokens \in Seq(Tokens) /\ n \in Nat /\ keep \in Nat /\ keep >= 1
  BY BreakerAssumption DEF BreakerInv, BreakerAssumption
<1>2. CASE n = 0
  <2>1. NewTail(breaker) = LastOf(<< >>, keep) BY <1>2, <1>1 DEF BreakerInv, NewTail
  <2>2. << >> \in Seq(Tokens) /\ Len(<< >>) = 0 OBVIOUS
  <2> HIDE DEF keep
  <2>3. LastOf(<< >>, keep) \in Seq(Tokens) /\ Len(LastOf(<< >>, keep)) = 0
    BY <2>2, <1>1, LastOfIs
  <2> QED BY <2>1, <2>3, <1>1, <1>2, TailMade DEF keep
<1>3. CASE n # 0
  <2>1. n = breaker.seen + 1 /\ IsTail(breaker.tail, tokens, n - 1) BY <1>3, <1>1 DEF BreakerInv
  <2>2. NewTail(breaker) = LastOf(Append(breaker.tail, Last(tokens)), keep)
    BY <2>1 DEF NewTail
  <2>3. n - 1 \in Nat /\ (n - 1) + 1 = n BY <1>1, <1>3
  <2> DEFINE m == n - 1
  <2>4. m \in Nat /\ m + 1 = n /\ IsTail(breaker.tail, tokens, m) BY <2>1, <2>3
  <2> HIDE DEF m
  <2>5. IsTail(NewTail(breaker), tokens, m + 1) BY <2>2, <2>4, <1>1, TailGrows
  <2> QED BY <2>4, <2>5
<1> QED BY <1>2, <1>3

\* What went round goes round when there are more tokens.
LEMMA CarriesOn ==
  ASSUME NEW said, NEW longer, NEW e \in Nat, NEW p, \A i \in 1..e : longer[i] = said[i]
  PROVE  Goes(longer, e, p) <=> Goes(said, e, p)
<1> SUFFICES ASSUME e >= LoopWindow, p \in 1..MaxPeriod, LoopWindow \div p >= MinCycles,
                    NEW i \in (e - LoopWindow + p + 1)..e
             PROVE  longer[i] = said[i] /\ longer[i - p] = said[i - p]
  BY DEF Goes
<1>1. p \in Nat \ {0} /\ p + p =< LoopWindow BY CycleFitsTwice
<1>2. LoopWindow \in Nat BY BreakerAssumption DEF BreakerAssumption
<1>3. i \in 1..e /\ i - p \in 1..e BY <1>1, <1>2
<1> QED BY <1>3

LEMMA BreakerInvNext == BreakerInv /\ [Generates]_breakerVars => BreakerInv'
<1> SUFFICES ASSUME BreakerInv, [Generates]_breakerVars PROVE BreakerInv' OBVIOUS
<1>1. CASE UNCHANGED breakerVars
  <2>1. tokens' = tokens /\ breaker' = breaker BY <1>1 DEF breakerVars
  <2> QED BY <2>1 DEF BreakerInv, IsTail, Goes
<1>2. CASE Generates
  <2> DEFINE n == Len(tokens)
             b == [breaker EXCEPT !.tail = NewTail(breaker), !.seen = n, !.step = breaker.step + 1]
             tail == NewTail(breaker)
             p == Period(tail)
  <2>1. ~breaker.gaveUp /\ breaker' = Looks BY <1>2 DEF Generates
  <2>2. PICK token \in Tokens \ Banned(breaker') : tokens' = Append(tokens, token)
    BY <1>2 DEF Generates
  <2>3. tokens \in Seq(Tokens) /\ n \in Nat BY DEF BreakerInv
  <2>4. /\ tokens' \in Seq(Tokens) /\ Len(tokens') = n + 1 /\ tokens'[n + 1] = token
        /\ \A i \in 1..n : tokens'[i] = tokens[i]
    BY <2>2, <2>3
  <2>5. IsTail(tail, tokens, n) BY TailIsNew
  <2>6. /\ p \in Nat /\ (p # 0 => Goes(tokens, n, p))
        /\ \A q : Goes(tokens, n, q) => p # 0
    BY <2>3, <2>5, PeriodIs
  <2>7. /\ breaker.period \in Nat /\ breaker.step = n /\ breaker.gaveUp \in BOOLEAN
        /\ breaker.period # 0 => /\ Goes(tokens, n - 1, breaker.period)
                                 /\ tokens[n] # tokens[n - breaker.period]
    BY DEF BreakerInv, Breakers
  <2>8. ASSUME NEW q, Goes(tokens, n, q) PROVE breaker.period = 0
    <3> SUFFICES ASSUME breaker.period # 0 PROVE FALSE OBVIOUS
    <3> DEFINE m == n - 1
    <3>1. Goes(tokens, m, breaker.period) /\ tokens[n] # tokens[n - breaker.period] BY <2>7
    <3>2. n >= 1 BY <2>3, <2>8, BreakerAssumption DEF Goes, BreakerAssumption
    <3>3. m \in Nat /\ m + 1 = n BY <3>2, <2>3
    <3> HIDE DEF m, n
    <3>4. tokens[m + 1] = tokens[m + 1 - breaker.period] BY <3>1, <3>3, <2>8, CyclesAgree
    <3> QED BY <3>1, <3>3, <3>4, <2>7
  <2> HIDE DEF p, tail
  <2>9. /\ b \in Breakers /\ b.tail = tail /\ b.seen = n /\ b.step = n + 1
        /\ b.period = breaker.period /\ b.gaveUp = breaker.gaveUp
    <3>1. breaker \in Breakers /\ tail \in Seq(Tokens) BY <2>5 DEF BreakerInv, IsTail
    <3> HIDE DEF n
    <3>2. NewTail(breaker) = tail BY DEF tail
    <3> DEFINE newTail == NewTail(breaker)
               stride == breaker.step + 1
    <3>3. newTail = tail /\ stride = n + 1 /\ stride \in Nat BY <3>2, <2>3, <2>7 DEF n
    <3>4. b = [breaker EXCEPT !.tail = newTail, !.seen = n, !.step = stride] OBVIOUS
    <3> HIDE DEF b, newTail, stride
    <3>5. b \in Breakers BY <3>1, <3>3, <3>4, <2>3 DEF Breakers
    <3>6. b.tail = tail /\ b.seen = n /\ b.step = stride /\ b.period = breaker.period
      BY <3>1, <3>3, <3>4 DEF Breakers
    <3>7. b.gaveUp = breaker.gaveUp BY <3>1, <3>4 DEF Breakers
    <3> QED BY <3>3, <3>5, <3>6, <3>7
  <2>10. breaker' = IF b.period # 0 THEN [b EXCEPT !.period = IF p = @ THEN @ ELSE 0]
                    ELSE IF b.step % CheckEvery # 0 \/ p = 0 THEN b
                    ELSE [b EXCEPT !.kicks = b.kicks + 1, !.gaveUp = b.kicks = MaxKicks,
                                   !.period = IF b.kicks = MaxKicks THEN 0 ELSE p]
    BY <2>1, <2>9 DEF Looks, b, p, tail, n
  <2> HIDE DEF b
  <2>11. /\ breaker' \in Breakers /\ breaker'.tail = tail /\ breaker'.seen = n /\ breaker'.step = n + 1
         /\ breaker'.period # 0 => breaker'.period = p
         /\ breaker.period = 0 /\ (n + 1) % CheckEvery = 0 /\ p # 0 =>
              breaker'.gaveUp \/ breaker'.period = p
    <3> HIDE DEF n
    <3>1. p \in Nat BY <2>6
    <3>3. CASE b.period # 0
      <4>1. breaker' = [b EXCEPT !.period = IF p = @ THEN @ ELSE 0] BY <3>3, <2>10
      <4> QED BY <4>1, <3>1, <3>3, <2>9 DEF Breakers
    <3>4. CASE b.period = 0 /\ (b.step % CheckEvery # 0 \/ p = 0)
      <4>1. breaker' = b BY <3>4, <2>10
      <4> QED BY <4>1, <3>4, <2>9
    <3>5. CASE b.period = 0 /\ b.step % CheckEvery = 0 /\ p # 0
      <4>1. breaker' = [b EXCEPT !.kicks = b.kicks + 1, !.gaveUp = b.kicks = MaxKicks,
                                 !.period = IF b.kicks = MaxKicks THEN 0 ELSE p]
        BY <3>5, <2>10
      <4> DEFINE kicks == b.kicks + 1
                 gaveUp == b.kicks = MaxKicks
                 period == IF b.kicks = MaxKicks THEN 0 ELSE p
      <4>5. kicks \in Nat /\ gaveUp \in BOOLEAN /\ period \in Nat BY <3>1, <2>9 DEF Breakers
      <4>6. breaker' = [b EXCEPT !.kicks = kicks, !.gaveUp = gaveUp, !.period = period] BY <4>1
      <4> HIDE DEF kicks, gaveUp, period
      <4>2. breaker' \in Breakers BY <4>5, <4>6, <2>9 DEF Breakers
      <4> USE DEF kicks, gaveUp, period
      <4>3. /\ breaker'.tail = tail /\ breaker'.seen = n /\ breaker'.step = n + 1
            /\ breaker'.period = IF b.kicks = MaxKicks THEN 0 ELSE p
        BY <4>1, <2>9 DEF Breakers
      <4>4. breaker'.gaveUp = (b.kicks = MaxKicks) BY <4>1, <2>9 DEF Breakers
      <4> QED BY <4>2, <4>3, <4>4
    <3> QED BY <3>3, <3>4, <3>5
  <2>12. breaker'.period # 0 => /\ Goes(tokens', n, breaker'.period)
                               /\ tokens'[n + 1] # tokens'[n + 1 - breaker'.period]
    <3> SUFFICES ASSUME breaker'.period # 0
                 PROVE  /\ Goes(tokens', n, p) /\ token # tokens[n + 1 - p] /\ n + 1 - p \in 1..n
      BY <2>4, <2>11
    <3>1. p # 0 /\ Goes(tokens, n, p) /\ breaker'.period = p BY <2>6, <2>11
    <3>2. Goes(tokens', n, p) BY <3>1, <2>3, <2>4, CarriesOn
    <3>3. p \in Nat \ {0} /\ p + p =< LoopWindow /\ LoopWindow \in Nat /\ n >= LoopWindow
          /\ MaxPeriod \in Nat
      BY <3>1, CycleFitsTwice, BreakerAssumption DEF Goes, BreakerAssumption
    <3>4. breaker'.tail = tail BY <2>11
    <3>5. Banned(breaker') = {tail[Len(tail) - p + 1]} BY <3>1, <3>4 DEF Banned
    <3>6. Len(tail) \in Nat /\ Len(tail) >= LoopWindow /\ Len(tail) =< n
      BY <2>5, <3>3, <2>3 DEF IsTail
    <3>7. Len(tail) - p + 1 \in 1..Len(tail) /\ n - Len(tail) + (Len(tail) - p + 1) = n + 1 - p
      BY <3>3, <3>6, <2>3
    <3>8. tail[Len(tail) - p + 1] = tokens[n + 1 - p] BY <2>5, <3>7 DEF IsTail
    <3>9. token # tokens[n + 1 - p] BY <3>5, <3>8, <2>2
    <3> QED BY <3>2, <3>3, <3>9, <2>3
  <2>13. ASSUME ~breaker'.gaveUp, NEW e \in 1..n, NEW q \in 1..MaxPeriod,
                (e + 1) % CheckEvery = 0, Goes(tokens', e, q), Goes(tokens', e + 1, q)
         PROVE  FALSE
    <3>1. Goes(tokens, e, q)
      <4>1. e \in Nat /\ \A i \in 1..e : tokens'[i] = tokens[i] BY <2>3, <2>4
      <4> QED BY <4>1, <2>13, CarriesOn
    <3>2. CASE e # n
      <4>1. e + 1 \in Nat /\ \A i \in 1..(e + 1) : tokens'[i] = tokens[i] BY <3>2, <2>3, <2>4
      <4>2. Goes(tokens, e + 1, q) BY <4>1, <2>13, CarriesOn
      <4>3. e \in 1..(n - 1) BY <3>2, <2>3
      <4> QED BY <4>2, <4>3, <3>1, <2>1, <2>13 DEF BreakerInv
    <3>3. CASE e = n
      <4>1. p # 0 /\ breaker.period = 0 BY <3>1, <3>3, <2>6, <2>8
      <4>2. breaker'.period = p BY <4>1, <3>3, <2>11, <2>13
      <4>3. Goes(tokens', n, p) /\ tokens'[n + 1] # tokens'[n + 1 - p] BY <4>1, <4>2, <2>12
      <4>4. Goes(tokens', n + 1, q) BY <3>3, <2>13
      <4>5. tokens'[n + 1] = tokens'[n + 1 - p] BY <4>3, <4>4, <2>3, CyclesAgree
      <4> QED BY <4>3, <4>5
    <3> QED BY <3>2, <3>3
  <2>14. IsTail(tail, tokens', n)
    <3>1. Len(tail) \in Nat /\ Len(tail) =< n
      BY <2>5, <2>3, BreakerAssumption DEF IsTail, BreakerAssumption
    <3>2. ASSUME NEW i \in 1..Len(tail) PROVE tail[i] = tokens'[n - Len(tail) + i]
      <4>1. n - Len(tail) + i \in 1..n BY <3>1, <2>3
      <4> QED BY <4>1, <2>4, <2>5 DEF IsTail
    <3> QED BY <3>2, <2>5 DEF IsTail
  <2>15. Len(tokens') - 1 = n /\ Len(tokens') # 0 /\ Len(tokens') = n + 1 BY <2>3, <2>4
  <2>16. breaker'.tail = tail /\ breaker'.seen = n /\ breaker'.step = n + 1 BY <2>11
  <2>17. breaker'.period # 0 => /\ Goes(tokens', Len(tokens') - 1, breaker'.period)
                               /\ tokens'[Len(tokens')] # tokens'[Len(tokens') - breaker'.period]
    BY <2>3, <2>6, <2>11, <2>12, <2>15
  <2>18. IsTail(breaker'.tail, tokens', Len(tokens') - 1) BY <2>14, <2>15, <2>16
  <2>19. breaker'.gaveUp \/ \A e \in 1..(Len(tokens') - 1), q \in 1..MaxPeriod :
           (e + 1) % CheckEvery = 0 /\ Goes(tokens', e, q) => ~Goes(tokens', e + 1, q)
    BY <2>13, <2>15
  <2> HIDE DEF n
  <2>20. Goes(tokens, Len(tokens) - 1, breaker.period)' = Goes(tokens', Len(tokens') - 1, breaker'.period)
         /\ IsTail(breaker.tail, tokens, Len(tokens) - 1)' = IsTail(breaker'.tail, tokens', Len(tokens') - 1)
         /\ (\A e \in 1..(Len(tokens) - 1), q \in 1..MaxPeriod :
           (e + 1) % CheckEvery = 0 /\ Goes(tokens, e, q) => ~Goes(tokens, e + 1, q))'
            = (\A e \in 1..(Len(tokens') - 1), q \in 1..MaxPeriod :
           (e + 1) % CheckEvery = 0 /\ Goes(tokens', e, q) => ~Goes(tokens', e + 1, q))
    BY DEF Goes, IsTail
  <2> QED BY <2>4, <2>11, <2>15, <2>16, <2>17, <2>18, <2>19 DEF BreakerInv
<1> QED BY <1>1, <1>2

\* However long a text the model generates, and whatever it would like to repeat: it
\* never goes round in one short cycle for longer than the window and one interval
\* of the checks, unless the breaker has given up (_LoopBreaker).
THEOREM LoopsAreBroken == BreakerSpec => []LoopsAreShort
<1>1. BreakerInv => LoopsAreShort
  <2> SUFFICES ASSUME BreakerInv, NEW p \in 1..MaxPeriod,
                      Len(tokens) >= LoopWindow + CheckEvery, ~breaker.gaveUp,
                      LoopWindow \div p >= MinCycles,
                      \A i \in (p + 1)..(LoopWindow + CheckEvery) :
                        LastOf(tokens, LoopWindow + CheckEvery)[i]
                          = LastOf(tokens, LoopWindow + CheckEvery)[i - p]
               PROVE  FALSE
    BY DEF LoopsAreShort
  <2> DEFINE n == Len(tokens)
             length == LoopWindow + CheckEvery
             end == LastOf(tokens, length)
  <2>1. /\ tokens \in Seq(Tokens) /\ n \in Nat /\ LoopWindow \in Nat \ {0} /\ CheckEvery \in Nat \ {0}
        /\ length \in Nat /\ MaxPeriod \in Nat
    BY BreakerAssumption DEF BreakerInv, BreakerAssumption
  <2>2. /\ Len(end) = length
        /\ \A i \in 1..length : end[i] = tokens[n - length + i]
    <3>1. /\ Len(end) = IF n < length THEN n ELSE length
          /\ \A i \in 1..Len(end) : end[i] = tokens[n - Len(end) + i]
      <4> HIDE DEF length
      <4> QED BY <2>1, LastOfIs
    <3>2. n >= length BY <2>1
    <3> HIDE DEF end, n, length
    <3>3. Len(end) = length BY <3>1, <3>2, <2>1
    <3> QED BY <3>1, <3>3
  <2> HIDE DEF end
  <2>3. p \in Nat \ {0} /\ p + p =< LoopWindow BY CycleFitsTwice
  <2>4. ASSUME NEW e \in (n - CheckEvery)..n PROVE Goes(tokens, e, p)
    <3> SUFFICES ASSUME NEW i \in (e - LoopWindow + p + 1)..e PROVE tokens[i] = tokens[i - p]
      BY <2>1 DEF Goes
    <3> DEFINE j == i - n + length
    <3>1. /\ j \in (p + 1)..length /\ j \in 1..length /\ j - p \in 1..length
          /\ n - length + j = i /\ n - length + (j - p) = i - p
      BY <2>1, <2>3
    <3>2. end[j] = end[j - p] BY <3>1 DEF end
    <3> HIDE DEF j
    <3>3. end[j] = tokens[n - length + j] /\ end[j - p] = tokens[n - length + (j - p)]
      BY <3>1, <2>2
    <3> QED BY <3>1, <3>2, <3>3
  <2>5. PICK m \in (n - CheckEvery + 1)..n : m % CheckEvery = 0
    <3>1. n >= CheckEvery BY <2>1
    <3> HIDE DEF n
    <3> QED BY <2>1, <3>1, MultipleIs
  <2> DEFINE e == m - 1
  <2>6. /\ e \in 1..(n - 1) /\ e \in (n - CheckEvery)..n /\ e + 1 \in (n - CheckEvery)..n
        /\ e + 1 = m
    BY <2>1, <2>5
  <2> HIDE DEF e, n
  <2>7. Goes(tokens, e, p) /\ Goes(tokens, e + 1, p) BY <2>4, <2>6
  <2> QED BY <2>5, <2>6, <2>7 DEF BreakerInv, n
<1> QED BY <1>1, BreakerInvInit, BreakerInvNext, PTL DEF BreakerSpec

-----------------------------------------------------------------------------
(* Loops in a text (VoxtralText).                                          *)

\* A division into whole parts is monotone, and no more than what is divided.
LEMMA DivGrows ==
  ASSUME NEW a \in Int, NEW b \in Int, NEW k \in Nat \ {0}, a =< b
  PROVE  a \div k =< b \div k
<1> DEFINE x == a \div k
           y == b \div k
<1>1. x \in Int /\ k * x =< a /\ y \in Int /\ b < k * y + k BY DivIs
<1> HIDE DEF x, y
<1>2. x =< y
  <2> SUFFICES ASSUME y + 1 =< x PROVE FALSE BY <1>1
  <2>1. k * (y + 1) =< k * x BY <1>1, Scaled
  <2>2. k * (y + 1) = k * y + k BY <1>1
  <2>3. k * x \in Int /\ k * y \in Int BY <1>1
  <2> QED BY <2>1, <2>2, <2>3, <1>1
<1> QED BY <1>2 DEF x, y

LEMMA DivSmaller ==
  ASSUME NEW a \in Nat, NEW k \in Nat \ {0}
  PROVE  a \div k \in Nat /\ a \div k =< a
<1> DEFINE x == a \div k
<1>1. x \in Int /\ k * x =< a /\ a < k * x + k BY DivIs
<1> HIDE DEF x
<1>2. x >= 0
  <2> SUFFICES ASSUME x =< -1 PROVE FALSE BY <1>1
  <2>1. k * x =< k * (-1) BY <1>1, Scaled
  <2>2. k * (-1) = -k OBVIOUS
  <2>3. k * x \in Int BY <1>1
  <2> QED BY <2>1, <2>2, <2>3, <1>1
<1>3. x * 1 =< x * k BY <1>1, <1>2, Scaled
<1>4. x * k = k * x /\ x * 1 = x /\ x * k \in Int BY <1>1
<1>5. x \in Nat /\ x =< a BY <1>1, <1>2, <1>3, <1>4
<1> QED BY <1>5 DEF x

\* A run that repeats a cycle often enough.
Loops(words, k, a, b) ==
  /\ k \in 1..CycleWords /\ a \in 1..Len(words) /\ b \in 1..Len(words) /\ a =< b
  /\ Cycle(words, k, a, b) /\ Times(b - a + 1, k) >= CycleRepeats

\* A text looks degenerate if it has such a run.
LEMMA DegenerateIs ==
  ASSUME NEW W, NEW words \in Seq(W)
  PROVE  LooksDegenerate(words) <=> \E k, a, b : Loops(words, k, a, b)
<1> DEFINE runs == {r \in (1..CycleWords) \X (1..Len(words)) \X (1..Len(words)) :
                      r[2] <= r[3] /\ Cycle(words, r[1], r[2], r[3])}
           times == {Times(r[3] - r[2] + 1, r[1]) : r \in runs}
           all == {0} \cup times
           bound == Len(words) + CycleWords
<1>1. /\ Len(words) \in Nat /\ CycleWords \in Nat /\ CycleRepeats \in Nat \ {0} /\ bound \in Nat
  BY TextAssumption DEF TextAssumption
<1>2. LongestCycle(words) = Max(all) BY DEF LongestCycle
<1>3. \A r \in runs : /\ r[1] \in 1..CycleWords /\ r[2] \in 1..Len(words) /\ r[3] \in 1..Len(words)
                      /\ r[2] <= r[3] /\ Cycle(words, r[1], r[2], r[3])
  OBVIOUS
<1> HIDE DEF runs
<1>4. ASSUME NEW x \in times PROVE x \in Nat /\ x =< bound
  <2>1. PICK r \in runs : x = Times(r[3] - r[2] + 1, r[1]) OBVIOUS
  <2> DEFINE n == r[3] - r[2] + 1 + r[1]
  <2>2. n \in Nat /\ n =< bound /\ r[1] \in Nat \ {0} BY <1>1, <1>3
  <2>3. x = n \div r[1] BY <2>1 DEF Times
  <2> HIDE DEF n
  <2>4. n \div r[1] \in Nat /\ n \div r[1] =< n BY <2>2, DivSmaller
  <2> HIDE DEF bound
  <2> QED BY <2>2, <2>3, <2>4, <1>1
<1>5. all \in SUBSET Nat /\ all # {} /\ \A x \in all : x =< bound
  <2> HIDE DEF times
  <2> QED BY <1>4, <1>1
<1>6. Max(all) \in all /\ \A x \in all : Max(all) >= x
  <2> HIDE DEF all, bound
  <2> QED BY <1>1, <1>5, GreatestIsChosen DEF Max
<1>7. LooksDegenerate(words) <=> Max(all) >= CycleRepeats
  BY <1>2 DEF LooksDegenerate
<1>8. ASSUME Max(all) >= CycleRepeats PROVE \E k, a, b : Loops(words, k, a, b)
  <2> DEFINE g == Max(all)
  <2>4. g \in {0} \cup times /\ g >= CycleRepeats BY <1>6, <1>8
  <2> HIDE DEF g, times
  <2>5. g \in times BY <1>1, <2>4
  <2> USE DEF times
  <2>1. Max(all) \in times BY <2>5 DEF g
  <2>2. PICK r \in runs : Max(all) = Times(r[3] - r[2] + 1, r[1]) BY <2>1
  <2> HIDE DEF all
  <2>3. Loops(words, r[1], r[2], r[3]) BY <2>2, <1>3, <1>8 DEF Loops
  <2> QED BY <2>3
<1>9. ASSUME NEW k, NEW a, NEW b, Loops(words, k, a, b) PROVE Max(all) >= CycleRepeats
  <2>1. <<k, a, b>> \in runs BY <1>9 DEF runs, Loops
  <2>2. Times(b - a + 1, k) \in times BY <2>1
  <2>3. Max(all) >= Times(b - a + 1, k) /\ Max(all) \in Nat /\ Times(b - a + 1, k) \in Nat
    BY <2>2, <1>4, <1>5, <1>6
  <2>4. Times(b - a + 1, k) >= CycleRepeats BY <1>9 DEF Loops
  <2> HIDE DEF all
  <2> QED BY <2>3, <2>4, <1>1
<1> HIDE DEF all
<1> QED BY <1>7, <1>8, <1>9

\* A part of a run that repeats a cycle repeats it.
LEMMA CycleWithin ==
  ASSUME NEW words, NEW k \in Int, NEW a \in Int, NEW b \in Int, NEW c \in Int, NEW d \in Int,
         Len(words) \in Nat, Cycle(words, k, a, b), a =< c, d =< b
  PROVE  Cycle(words, k, c, d)
BY DEF Cycle

\* A run that repeats a cycle often enough is within one that cannot be extended.
LEMMA RunIsInSpan ==
  ASSUME NEW W, NEW words \in Seq(W), NEW k, NEW a, NEW b, Loops(words, k, a, b)
  PROVE  \E s \in Spans(words, k) : s.first \in Nat \ {0} /\ s.first =< a - k
<1>1. /\ Len(words) \in Nat /\ k \in Nat \ {0} /\ CycleWords \in Nat /\ CycleRepeats \in Nat \ {0}
      /\ a \in 1..Len(words) /\ b \in 1..Len(words) /\ a =< b /\ Cycle(words, k, a, b)
      /\ Times(b - a + 1, k) >= CycleRepeats
  BY TextAssumption DEF TextAssumption, Loops
<1> DEFINE Firsts == {f \in 1..a : Cycle(words, k, f, b)}
<1>2. Firsts \in SUBSET Nat /\ a \in Firsts BY <1>1
<1>3. PICK f \in Firsts : \A g \in Firsts : f =< g
  <2> HIDE DEF Firsts
  <2>1. PICK f \in Firsts : \A g \in Firsts : ~(g < f) BY <1>2, LeastNatural
  <2> QED BY <2>1, <1>2
<1> DEFINE Lasts == {l \in b..Len(words) : Cycle(words, k, f, l)}
<1>4. Lasts \in SUBSET Nat /\ b \in Lasts /\ \A l \in Lasts : l =< Len(words) BY <1>1
<1>5. PICK l \in Lasts : \A m \in Lasts : m =< l
  <2> HIDE DEF Lasts
  <2>1. \E l \in Lasts : \A m \in Lasts : l >= m BY <1>1, <1>4, GreatestIsChosen
  <2>2. PICK l \in Lasts : \A m \in Lasts : l >= m BY <2>1
  <2> QED BY <2>2, <1>4
<1>6. /\ f \in 1..a /\ Cycle(words, k, f, b) /\ l \in b..Len(words) /\ Cycle(words, k, f, l)
      /\ f > k
  BY DEF Cycle
<1>7. ~Cycle(words, k, f - 1, l)
  <2> SUFFICES ASSUME Cycle(words, k, f - 1, l) PROVE FALSE OBVIOUS
  <2>1. Cycle(words, k, f - 1, b) BY <1>1, <1>6, CycleWithin
  <2>2. f - 1 > k BY DEF Cycle
  <2>3. f - 1 \in Firsts BY <2>1, <2>2, <1>1, <1>6
  <2>4. f =< f - 1 BY <2>3, <1>3
  <2> QED BY <2>4, <1>6, <1>1
<1>8. ~Cycle(words, k, f, l + 1)
  <2> SUFFICES ASSUME Cycle(words, k, f, l + 1) PROVE FALSE OBVIOUS
  <2>1. l + 1 =< Len(words) BY DEF Cycle
  <2>2. l + 1 \in Lasts BY <2>1, <1>1, <1>6
  <2>3. l + 1 =< l BY <2>2, <1>5
  <2> QED BY <2>3, <1>6, <1>1
<1>9. (l - f + 1 + k) \div k >= CycleRepeats
  <2> DEFINE x == b - a + 1 + k
             y == l - f + 1 + k
  <2>1. x \in Int /\ y \in Int /\ x =< y BY <1>1, <1>6
  <2>2. x \div k >= CycleRepeats BY <1>1 DEF Times
  <2> HIDE DEF x, y
  <2>3. x \div k =< y \div k /\ x \div k \in Int /\ y \div k \in Int BY <2>1, <1>1, DivGrows, DivIs
  <2>4. y \div k >= CycleRepeats BY <2>2, <2>3, <1>1
  <2> QED BY <2>4 DEF y
<1>10. [first |-> f - k, last |-> l] \in Spans(words, k)
  <2> DEFINE r == <<f, l>>
  <2>1. r[1] = f /\ r[2] = l OBVIOUS
  <2>2. r \in (1..Len(words)) \X (1..Len(words)) BY <1>1, <1>6
  <2>3. r[1] <= r[2] BY <1>1, <1>6
  <2> HIDE DEF Firsts, Lasts
  <2>4. r \in {q \in (1..Len(words)) \X (1..Len(words)) :
                 /\ q[1] <= q[2] /\ Cycle(words, k, q[1], q[2])
                 /\ ~Cycle(words, k, q[1] - 1, q[2]) /\ ~Cycle(words, k, q[1], q[2] + 1)
                 /\ (q[2] - q[1] + 1 + k) \div k >= CycleRepeats}
    <3> HIDE DEF r
    <3> QED BY <2>1, <2>2, <2>3, <1>6, <1>7, <1>8, <1>9
  <2>5. [first |-> r[1] - k, last |-> r[2]] \in Spans(words, k)
    <3> HIDE DEF r
    <3> QED BY <2>4 DEF Spans
  <2> HIDE DEF r
  <2> QED BY <2>1, <2>5
<1>11. f - k \in Nat \ {0} /\ f - k =< a - k BY <1>1, <1>6
<1> QED BY <1>10, <1>11

\* A span is such a run.
LEMMA SpanIsRun ==
  ASSUME NEW W, NEW words \in Seq(W), NEW k \in 1..CycleWords, NEW s \in Spans(words, k)
  PROVE  s.first \in Nat \ {0} /\ s.first =< Len(words) /\ Loops(words, k, s.first + k, s.last)
<1>1. PICK r \in (1..Len(words)) \X (1..Len(words)) :
        /\ s = [first |-> r[1] - k, last |-> r[2]]
        /\ r[1] <= r[2] /\ Cycle(words, k, r[1], r[2])
        /\ (r[2] - r[1] + 1 + k) \div k >= CycleRepeats
  BY DEF Spans
<1>2. r[1] \in 1..Len(words) /\ r[2] \in 1..Len(words) /\ Len(words) \in Nat /\ k \in Nat \ {0}
  BY TextAssumption DEF TextAssumption
<1>3. r[1] > k BY <1>1 DEF Cycle
<1>4. s.first = r[1] - k /\ s.last = r[2] BY <1>1
<1>5. s.first + k = r[1] BY <1>2, <1>4
<1> QED BY <1>1, <1>2, <1>3, <1>4, <1>5 DEF Loops, Times

\* A text that looks degenerate has an earliest span, and only such a text has.
LEMMA EarliestSpan ==
  ASSUME NEW W, NEW words \in Seq(W)
  PROVE  /\ (\E k, a, b : Loops(words, k, a, b)) <=> DegenerateSpan(words) # {}
         /\ \A s \in DegenerateSpan(words) :
              /\ s.first \in Nat \ {0} /\ s.first =< Len(words)
              /\ \A k, a, b : Loops(words, k, a, b) => s.first =< a - k
<1> DEFINE all == UNION {Spans(words, k) : k \in 1..CycleWords}
           firsts == {s.first : s \in all}
<1>1. \A s \in all : s.first \in Nat \ {0} /\ s.first =< Len(words) /\ \E k, a, b : Loops(words, k, a, b)
  BY SpanIsRun
<1>2. ASSUME NEW k, NEW a, NEW b, Loops(words, k, a, b)
      PROVE  \E s \in all : s.first \in Nat /\ s.first =< a - k
  BY <1>2, RunIsInSpan DEF Loops
<1>3. DegenerateSpan(words) = {s \in all : \A t \in all : s.first <= t.first} BY DEF DegenerateSpan
<1> HIDE DEF all
<1>4. all # {} => DegenerateSpan(words) # {}
  <2> SUFFICES ASSUME all # {} PROVE DegenerateSpan(words) # {} OBVIOUS
  <2>1. firsts \in SUBSET Nat /\ firsts # {} BY <1>1
  <2>2. PICK f \in firsts : \A g \in firsts : ~(g < f) BY <2>1, LeastNatural
  <2>3. PICK s \in all : f = s.first BY <2>2
  <2>4. ASSUME NEW t \in all PROVE s.first <= t.first
    <3>1. t.first \in firsts /\ t.first \in Nat /\ s.first \in Nat BY <1>1
    <3>2. ~(t.first < s.first) BY <3>1, <2>2, <2>3
    <3> QED BY <3>1, <3>2
  <2> QED BY <2>3, <2>4, <1>3
<1>5. ASSUME NEW s \in DegenerateSpan(words), NEW k, NEW a, NEW b, Loops(words, k, a, b)
      PROVE  s.first =< a - k
  <2>1. PICK t \in all : t.first \in Nat /\ t.first =< a - k BY <1>5, <1>2
  <2>2. s.first =< t.first /\ s.first \in Nat BY <1>1, <1>3, <2>1
  <2>3. a - k \in Int BY <1>5, TextAssumption DEF Loops, TextAssumption
  <2> QED BY <2>1, <2>2, <2>3
<1> QED BY <1>1, <1>2, <1>3, <1>4, <1>5

\* For every text and wherever its sentences end: what is kept of a looping text
\* does not loop, and where a text that looks degenerate loops can be said
\* (_looks_degenerate, _degenerate_span, _salvage_prefix).
THEOREM LoopsAreCutFromAnyText ==
  ASSUME NEW W, NEW words \in Seq(W), NEW ends \in SUBSET Nat
  PROVE  LoopsAreCutOut(words, ends)
<1>1. LooksDegenerate(words) <=> DegenerateSpan(words) # {} BY DegenerateIs, EarliestSpan
<1>2. ASSUME NEW kept \in Seq(W), Len(kept) = 0 PROVE ~LooksDegenerate(kept)
  <2>1. ~ \E k, a, b : Loops(kept, k, a, b) BY <1>2 DEF Loops
  <2> QED BY <2>1, DegenerateIs
<1>3. CASE DegenerateSpan(words) = {}
  <2>1. KeptPrefix(words, ends) = << >> BY <1>3 DEF KeptPrefix
  <2>2. << >> \in Seq(W) /\ Len(<< >>) = 0 OBVIOUS
  <2> QED BY <2>1, <2>2, <1>1, <1>2 DEF LoopsAreCutOut
<1>4. CASE DegenerateSpan(words) # {}
  <2> DEFINE firsts == {s.first : s \in DegenerateSpan(words)}
             first == Min(firsts)
             earlier == {i \in ends : i < first}
             before == {0} \cup earlier
             e == PrefixEnd(ends, first)
  <2>1. firsts \in SUBSET Nat /\ firsts # {}
    BY <1>4, EarliestSpan
  <2>2. first \in firsts
    <3> HIDE DEF firsts
    <3> QED BY <2>1, LeastIsChosen DEF Min
  <2>3. PICK s \in DegenerateSpan(words) : first = s.first BY <2>2
  <2>4. first \in Nat \ {0} /\ first =< Len(words) /\ Len(words) \in Nat BY <2>3, EarliestSpan
  <2>5. KeptPrefix(words, ends) = SubSeq(words, 1, e) BY <1>4 DEF KeptPrefix
  <2> HIDE DEF first
  <2>6. before \in SUBSET Nat /\ before # {} /\ \A i \in before : i =< first
    <3>1. earlier \subseteq ends /\ \A i \in earlier : i < first OBVIOUS
    <3> HIDE DEF earlier
    <3> QED BY <2>4, <3>1
  <2>7. e = Max(before) BY DEF PrefixEnd
  <2>8. Max(before) \in before
    <3> HIDE DEF before
    <3> QED BY <2>4, <2>6, GreatestIsChosen DEF Max
  <2>9. e \in Nat /\ e < first
    <3>1. earlier \subseteq ends /\ \A i \in earlier : i < first OBVIOUS
    <3> HIDE DEF earlier
    <3>2. e \in {0} \cup earlier BY <2>7, <2>8
    <3> HIDE DEF e
    <3> QED BY <3>1, <3>2, <2>4
  <2> HIDE DEF e, before
  <2>10. /\ SubSeq(words, 1, e) \in Seq(W) /\ Len(SubSeq(words, 1, e)) = e
         /\ \A i \in 1..e : SubSeq(words, 1, e)[i] = words[i]
    <3>1. CASE e = 0 BY <3>1
    <3>2. CASE e # 0 BY <3>2, <2>4, <2>9
    <3> QED BY <3>1, <3>2
  <2>11. ASSUME NEW k, NEW a, NEW b, Loops(SubSeq(words, 1, e), k, a, b) PROVE FALSE
    <3> DEFINE kept == SubSeq(words, 1, e)
    <3>1. /\ k \in Nat \ {0} /\ k \in 1..CycleWords /\ a \in 1..e /\ b \in 1..e /\ a =< b /\ a > k
          /\ \A i \in a..b : kept[i] = kept[i - k]
          /\ Times(b - a + 1, k) >= CycleRepeats
      BY <2>10, <2>11, TextAssumption DEF Loops, Cycle, TextAssumption
    <3>2. \A i \in a..b : words[i] = words[i - k]
      <4> SUFFICES ASSUME NEW i \in a..b PROVE words[i] = words[i - k] OBVIOUS
      <4>1. i \in 1..e /\ i - k \in 1..e BY <3>1, <2>9
      <4> HIDE DEF kept
      <4>2. kept[i] = kept[i - k] BY <3>1
      <4> QED BY <4>1, <4>2, <2>10 DEF kept
    <3>3. Loops(words, k, a, b)
      BY <3>1, <3>2, <2>4, <2>9 DEF Loops, Cycle
    <3>4. first =< a - k BY <3>3, <2>3, EarliestSpan
    <3> QED BY <3>4, <3>1, <2>4, <2>9
  <2>12. ~LooksDegenerate(SubSeq(words, 1, e))
    <3> DEFINE kept == SubSeq(words, 1, e)
    <3>1. kept \in Seq(W) BY <2>10
    <3>2. ~ \E k, a, b : Loops(kept, k, a, b) BY <2>11
    <3> HIDE DEF kept
    <3>3. ~LooksDegenerate(kept) BY <3>1, <3>2, DegenerateIs
    <3> QED BY <3>3 DEF kept
  <2> QED BY <2>5, <2>12, <1>1 DEF LoopsAreCutOut
<1> QED BY <1>3, <1>4

-----------------------------------------------------------------------------
(* The memory of an emission (VoxtralEmission).                            *)

\* What a build needs by its name, in ten-thousandths of a gigabyte.
NeedsByName(name, seconds) ==
  LET profile == Profile(ModelKind(name)) IN 1000 * profile.fixed + profile.slope * seconds

\* A name says one size and one precision, if it says any.
SaysOneThing(name) ==
  /\ {"small", "24b"} \cap name = {} \/ {"mini", "3b"} \cap name = {}
  /\ ~({"4bit", "6bit"} \subseteq name) /\ ~({"4bit", "8bit"} \subseteq name)
  /\ ~({"6bit", "8bit"} \subseteq name)

\* The less of a build's size and precision its name says, the more memory it is
\* taken to need, for passes of any length up to MAX_CHUNK_SEC: a build whose name
\* says nothing is never taken for a small one (_model_kind, MEM_MODEL).
THEOREM LessSaidMoreMemory ==
  ASSUME NEW name, SaysOneThing(name), NEW part \in SUBSET name, NEW seconds \in 0..1500
  PROVE  NeedsByName(name, seconds) =< NeedsByName(part, seconds)
<1> DEFINE Needs(kind) == 1000 * Profile(kind).fixed + Profile(kind).slope * seconds
<1>1. /\ Needs("mini") = 79000 + 160 * seconds /\ Needs("mini8") = 65000 + 60 * seconds
      /\ Needs("small") = 165000 + 70 * seconds /\ Needs("small6") = 209000 + 135 * seconds
      /\ Needs("small8") = 274000 + 135 * seconds
  BY DEF Profile
<1>2. /\ NeedsByName(name, seconds) = Needs(ModelKind(name))
      /\ NeedsByName(part, seconds) = Needs(ModelKind(part))
  BY DEF NeedsByName
<1> HIDE DEF Needs
<1>3. CASE {"small", "24b"} \cap part # {}
  <2>1. {"small", "24b"} \cap name # {} BY <1>3
  <2>2. ModelKind(name) \in {"small", "small6", "small8"} BY <2>1 DEF ModelKind
  <2>3. ModelKind(part) = "small8" \/ ModelKind(part) = ModelKind(name)
    BY <1>3, <2>1 DEF ModelKind, SaysOneThing
  <2> QED BY <1>1, <1>2, <2>2, <2>3
<1>4. CASE {"small", "24b"} \cap part = {} /\ {"mini", "3b"} \cap part # {}
  <2>1. {"small", "24b"} \cap name = {} /\ {"mini", "3b"} \cap name # {}
    BY <1>4 DEF SaysOneThing
  <2>2. ModelKind(name) = IF "8bit" \in name THEN "mini8" ELSE "mini" BY <2>1 DEF ModelKind
  <2>3. ModelKind(part) = IF "8bit" \in part THEN "mini8" ELSE "mini" BY <1>4 DEF ModelKind
  <2> QED BY <1>1, <1>2, <2>2, <2>3
<1>5. CASE {"small", "24b"} \cap part = {} /\ {"mini", "3b"} \cap part = {}
  <2>1. ModelKind(part) = "small8" BY <1>5 DEF ModelKind
  <2>2. ModelKind(name) \in {"small", "small6", "small8", "mini", "mini8"} BY DEF ModelKind
  <2> QED BY <1>1, <1>2, <2>1, <2>2
<1> QED BY <1>3, <1>4, <1>5

-----------------------------------------------------------------------------
(* The words at the seams (VoxtralFile).                                   *)

\* The words after a, up to b.
Stretch(a, b) == [k \in 1..(b - a) |-> a + k]

LEMMA StretchIs ==
  ASSUME NEW a \in Nat, NEW b \in Nat, a =< b
  PROVE  /\ Stretch(a, b) \in Seq(Nat) /\ Len(Stretch(a, b)) = b - a
         /\ \A k \in 1..(b - a) : Stretch(a, b)[k] = a + k
         /\ Members(Stretch(a, b)) = (a + 1)..b
<1> DEFINE n == b - a
           s == Stretch(a, b)
<1>1. n \in Nat /\ b = a + n OBVIOUS
<1> HIDE DEF n
<1>2. s = [k \in 1..n |-> a + k] BY DEF Stretch, n
<1>3. s \in Seq(Nat) /\ Len(s) = n /\ \A k \in 1..n : s[k] = a + k BY <1>1, <1>2
<1>4. Members(s) = (a + 1)..b
  <2>1. Members(s) = {a + k : k \in 1..n} BY <1>3 DEF Members
  <2>2. \A x \in (a + 1)..b : x - a \in 1..n /\ x = a + (x - a) BY <1>1
  <2>3. \A k \in 1..n : a + k \in (a + 1)..b BY <1>1
  <2> QED BY <2>1, <2>2, <2>3
<1> QED BY <1>3, <1>4 DEF n

\* Two stretches that meet are one.
LEMMA StretchesMeet ==
  ASSUME NEW a \in Nat, NEW b \in Nat, NEW c \in Nat, a =< b, b =< c
  PROVE  Stretch(a, b) \o Stretch(b, c) = Stretch(a, c)
<1> DEFINE r == Stretch(a, b)
           s == Stretch(b, c)
           t == Stretch(a, c)
<1>1. /\ r \in Seq(Nat) /\ Len(r) = b - a /\ \A k \in 1..(b - a) : r[k] = a + k
      /\ s \in Seq(Nat) /\ Len(s) = c - b /\ \A k \in 1..(c - b) : s[k] = b + k
      /\ t \in Seq(Nat) /\ Len(t) = c - a /\ \A k \in 1..(c - a) : t[k] = a + k
  <2>1. a =< c OBVIOUS
  <2> HIDE DEF r, s, t
  <2>2. r \in Seq(Nat) /\ Len(r) = b - a /\ \A k \in 1..(b - a) : r[k] = a + k BY StretchIs DEF r
  <2>3. s \in Seq(Nat) /\ Len(s) = c - b /\ \A k \in 1..(c - b) : s[k] = b + k BY StretchIs DEF s
  <2>4. t \in Seq(Nat) /\ Len(t) = c - a /\ \A k \in 1..(c - a) : t[k] = a + k
    BY <2>1, StretchIs DEF t
  <2> QED BY <2>2, <2>3, <2>4
<1> HIDE DEF r, s, t
<1>2. r \o s \in Seq(Nat) /\ Len(r \o s) = c - a BY <1>1
<1>3. ASSUME NEW k \in 1..(c - a) PROVE (r \o s)[k] = t[k]
  <2>1. k \in Nat /\ 1 =< k /\ k =< c - a OBVIOUS
  <2>2. CASE k =< b - a
    <3>1. k \in 1..Len(r) BY <1>1, <2>1, <2>2
    <3>2. (r \o s)[k] = r[k] BY <1>1, <3>1
    <3> QED BY <3>1, <3>2, <1>1
  <2>3. CASE k > b - a
    <3>1. k \in 1..(Len(r) + Len(s)) /\ ~(k <= Len(r)) BY <1>1, <2>1, <2>3
    <3>2. \A i \in 1..(Len(r) + Len(s)) : (r \o s)[i] = IF i <= Len(r) THEN r[i] ELSE s[i - Len(r)]
      BY <1>1, ConcatProperties
    <3>3. (r \o s)[k] = s[k - Len(r)]
      <4> DEFINE w == r \o s
      <4>1. \A i \in 1..(Len(r) + Len(s)) : w[i] = IF i <= Len(r) THEN r[i] ELSE s[i - Len(r)]
        BY <3>2
      <4> HIDE DEF w
      <4>2. w[k] = s[k - Len(r)] BY <3>1, <4>1
      <4> QED BY <4>2 DEF w
    <3>4. k - Len(r) \in 1..(c - b) /\ b + (k - Len(r)) = a + k BY <1>1, <2>1, <2>3
    <3> QED BY <3>3, <3>4, <1>1
  <2> QED BY <2>1, <2>2, <2>3, <1>1
<1>4. r \o s = t
  <2> DEFINE w == r \o s
  <2>1. w \in Seq(Nat) /\ Len(w) = Len(t) /\ \A k \in 1..Len(t) : w[k] = t[k]
    BY <1>1, <1>2, <1>3
  <2> HIDE DEF w
  <2>2. w = t BY <1>1, <2>1
  <2> QED BY <2>2 DEF w
<1> QED BY <1>4 DEF r, s, t

\* The beginning of a stretch.
LEMMA StretchBegins ==
  ASSUME NEW a \in Nat, NEW b \in Nat, NEW n \in Nat, a + n =< b
  PROVE  SubSeq(Stretch(a, b), 1, n) = Stretch(a, a + n)
<1> DEFINE s == Stretch(a, b)
           t == Stretch(a, a + n)
<1>1. /\ s \in Seq(Nat) /\ Len(s) = b - a /\ \A k \in 1..(b - a) : s[k] = a + k
      /\ t \in Seq(Nat) /\ Len(t) = n /\ \A k \in 1..n : t[k] = a + k
  <2>1. a + n \in Nat /\ a =< a + n /\ (a + n) - a = n /\ a =< b OBVIOUS
  <2> QED BY <2>1, StretchIs
<1> HIDE DEF s, t
<1>2. SubSeq(s, 1, n) = t
  <2>1. CASE n = 0 BY <2>1, <1>1
  <2>2. CASE n # 0
    <3>1. Len(SubSeq(s, 1, n)) = n /\ SubSeq(s, 1, n) \in Seq(Nat)
          /\ \A k \in 1..n : SubSeq(s, 1, n)[k] = s[k]
      BY <2>2, <1>1
    <3> QED BY <3>1, <1>1
  <2> QED BY <2>1, <2>2
<1> QED BY <1>2 DEF s, t

\* What is left of a stretch at a seam.
LEMMA SeamIs ==
  ASSUME NEW a \in Nat, NEW b \in Nat, NEW c \in Nat, a =< b, b =< c
  PROVE  Without(Stretch(a, c), {n \in Members(Stretch(a, c)) : 2 * n - 1 < 2 * b}) = Stretch(b, c)
<1> DEFINE r == Stretch(a, b)
           s == Stretch(b, c)
           S == {n \in Members(Stretch(a, c)) : 2 * n - 1 < 2 * b}
<1>1. r \in Seq(Nat) /\ s \in Seq(Nat) /\ Members(r) = (a + 1)..b /\ Members(s) = (b + 1)..c
      /\ Members(Stretch(a, c)) = (a + 1)..c
  <2>1. a =< c OBVIOUS
  <2> HIDE DEF r, s
  <2>2. r \in Seq(Nat) /\ Members(r) = (a + 1)..b BY StretchIs DEF r
  <2>3. s \in Seq(Nat) /\ Members(s) = (b + 1)..c BY StretchIs DEF s
  <2>4. Members(Stretch(a, c)) = (a + 1)..c BY <2>1, StretchIs
  <2> QED BY <2>2, <2>3, <2>4
<1>2. S = (a + 1)..b
  <2>1. \A n \in (a + 1)..c : (2 * n - 1 < 2 * b) <=> n =< b OBVIOUS
  <2>2. S = {n \in (a + 1)..c : 2 * n - 1 < 2 * b} BY <1>1
  <2> HIDE DEF S
  <2> QED BY <2>1, <2>2
<1>3. Stretch(a, c) = r \o s BY StretchesMeet
<1> HIDE DEF r, s, S
<1>4. Without(r \o s, S) = Without(r, S) \o Without(s, S) BY <1>1, WithoutConcat
<1>5. Without(s, S) = s
  <2>1. \A x \in Members(s) : x \notin S BY <1>1, <1>2
  <2> QED BY <1>1, <2>1, WithoutNobody
<1>6. Without(r, S) = << >>
  <2> DEFINE w == Without(r, S)
  <2>1. w \in Seq(Nat) /\ Members(w) = Members(r) \ S BY <1>1, WithoutMembers
  <2>2. Members(w) = {} BY <2>1, <1>1, <1>2
  <2> HIDE DEF w
  <2>3. Len(w) = 0
    <3>1. Len(w) \in Nat BY <2>1
    <3>2. 1 \in 1..Len(w) => w[1] \in Members(w) BY DEF Members
    <3> QED BY <3>1, <3>2, <2>2
  <2>4. w = << >> BY <2>1, <2>3
  <2> QED BY <2>4 DEF w
<1>7. << >> \o s = s BY <1>1
<1> QED BY <1>3, <1>4, <1>5, <1>6, <1>7 DEF r, s, S

\* A text in which no word comes twice does not loop.
LEMMA StretchIsNoLoop ==
  ASSUME NEW a \in Nat, NEW b \in Nat, a =< b
  PROVE  ~LooksDegenerate(Stretch(a, b))
<1> DEFINE s == Stretch(a, b)
<1>1. s \in Seq(Nat) /\ Len(s) = b - a /\ \A k \in 1..(b - a) : s[k] = a + k BY StretchIs
<1> HIDE DEF s
<1>2. ASSUME NEW k, NEW i, NEW j, Loops(s, k, i, j) PROVE FALSE
  <2>1. k \in Nat \ {0} /\ i \in 1..(b - a) /\ i > k /\ s[i] = s[i - k]
    BY <1>1, <1>2, TextAssumption DEF Loops, Cycle, TextAssumption
  <2>2. i - k \in 1..(b - a) BY <2>1
  <2> QED BY <2>1, <2>2, <1>1
<1>3. ~LooksDegenerate(s) BY <1>1, <1>2, DegenerateIs
<1> QED BY <1>3 DEF s

-----------------------------------------------------------------------------
(* The head probe finds what was dropped.                                  *)

LEMMA HitsIs ==
  ASSUME NEW w \in Nat, NEW a \in Nat, NEW m \in Nat, NEW i \in 1..(w - m + 1)
  PROVE  Hits(Stretch(0, w), Stretch(a, a + m), i) = IF i = a + 1 THEN m ELSE 0
<1> DEFINE p == Stretch(0, w)
           s == Stretch(a, a + m)
           same == {k \in 1..Len(s) : p[i + k - 1] = s[k]}
<1>1. /\ Len(s) = m /\ \A k \in 1..m : s[k] = a + k
      /\ \A k \in 1..w : p[k] = k
  <2> DEFINE b == a + m
  <2>1. b \in Nat /\ a =< b /\ b - a = m /\ 0 =< w /\ w - 0 = w OBVIOUS
  <2> HIDE DEF b, s, p
  <2>2. Len(s) = b - a /\ \A k \in 1..(b - a) : s[k] = a + k BY <2>1, StretchIs DEF s, b
  <2>3. \A k \in 1..(w - 0) : p[k] = 0 + k BY <2>1, StretchIs DEF p
  <2>4. \A k \in 1..w : 0 + k = k OBVIOUS
  <2> QED BY <2>1, <2>2, <2>3, <2>4
<1>2. Hits(p, s, i) = Cardinality(same) BY DEF Hits
<1> HIDE DEF p, s
<1>3. \A k \in 1..m : i + k - 1 \in 1..w /\ p[i + k - 1] = i + k - 1
  BY <1>1
<1>4. CASE i = a + 1
  <2>1. same = 1..m BY <1>1, <1>3, <1>4
  <2>2. Cardinality(1..m) = m BY FS_Interval
  <2> QED BY <2>1, <2>2, <1>2, <1>4 DEF p, s
<1>5. CASE i # a + 1
  <2>1. same = {} BY <1>1, <1>3, <1>5
  <2>2. Cardinality({}) = 0 BY FS_EmptySet
  <2> QED BY <2>1, <2>2, <1>2, <1>5 DEF p, s
<1> QED BY <1>4, <1>5

\* A probe from the beginning of the file either does not hold the pass's first
\* words, or says how many the pass has dropped.
LEMMA AnchorIsFound ==
  ASSUME NEW w \in Nat, NEW a \in Nat
  PROVE  FindAnchor(Stretch(0, w), Stretch(a, a + AnchorWords))
           = IF a + AnchorWords =< w THEN {a} ELSE {}
<1> DEFINE p == Stretch(0, w)
           m == AnchorWords
           s == Stretch(a, a + m)
           places == 1..(w - m + 1)
           hits == [i \in places |-> Hits(p, s, i)]
           best == {i \in places : \A j \in places : hits[j] <= hits[i]}
           at == AnchorPlace(places, hits)
<1>1. m \in Nat \ {0} /\ AnchorHits \in 1..m BY TextAssumption DEF TextAssumption
<1>2. Len(p) = w /\ Len(s) = m
  <2>1. a + m \in Nat /\ a =< a + m /\ (a + m) - a = m /\ 0 =< w /\ w - 0 = w BY <1>1
  <2> QED BY <2>1, StretchIs
<1>3. \A i \in places : hits[i] = IF i = a + 1 THEN m ELSE 0 BY <1>1, HitsIs
<1>4. FindAnchor(p, s) = IF places = {} \/ hits[at] < AnchorHits THEN {} ELSE {at - 1}
  BY <1>2 DEF FindAnchor
<1>5. at = Min(best) BY DEF AnchorPlace
<1> HIDE DEF p, s, hits, m
<1>6. CASE places = {}
  <2>1. ~(a + m =< w) BY <1>1, <1>6
  <2> QED BY <2>1, <1>4, <1>6 DEF p, s, m
<1>7. CASE places # {} /\ a + m =< w
  <2>1. a + 1 \in places BY <1>1, <1>7
  <2>2. best = {a + 1} BY <2>1, <1>1, <1>3
  <2>3. Min({a + 1}) = a + 1 BY DEF Min
  <2>4. at = a + 1 BY <2>2, <2>3, <1>5
  <2> HIDE DEF at
  <2>5. hits[at] = m BY <2>1, <2>4, <1>3
  <2> QED BY <2>4, <2>5, <1>1, <1>4, <1>7 DEF p, s, m
<1>8. CASE places # {} /\ ~(a + m =< w)
  <2>1. a + 1 \notin places BY <1>1, <1>8
  <2>2. \A i \in places : hits[i] = 0 BY <2>1, <1>3
  <2>3. best = places BY <2>2
  <2>4. places \in SUBSET Nat BY <1>1
  <2>5. Min(places) \in places
    <3> HIDE DEF places
    <3> QED BY <2>4, <1>8, LeastIsChosen DEF Min
  <2>6. at \in places BY <2>3, <2>5, <1>5
  <2> HIDE DEF at
  <2>7. hits[at] < AnchorHits BY <2>2, <2>6, <1>1
  <2> QED BY <2>7, <1>4, <1>8 DEF p, s, m
<1> QED BY <1>6, <1>7, <1>8

\* What a pass from the beginning of the file has dropped is put back, if the
\* longer probe reaches the anchor.
LEMMA HeadIsRecovered ==
  ASSUME NEW a \in Nat, NEW c \in Nat, NEW q \in Nat, a + AnchorWords =< c,
         a + AnchorWords =< 2 * q,
         NEW probes, probes = [p \in 1..2 |-> Stretch(0, p * q)]
  PROVE  RecoverHead(Stretch(a, c), probes) = Stretch(0, c)
<1> DEFINE heard == Stretch(a, c)
           found(p) == FindAnchor(probes[p], SubSeq(heard, 1, AnchorWords))
           usable == {p \in 1..Len(probes) : \A r \in 1..p : ~LooksDegenerate(probes[r])}
           hit == {p \in usable : found(p) # {}}
<1>1. AnchorWords \in Nat \ {0} BY TextAssumption DEF TextAssumption
<1>2. Len(heard) = c - a /\ a =< c
  <2>1. a =< c BY <1>1
  <2> QED BY <2>1, StretchIs
<1>3. SubSeq(heard, 1, AnchorWords) = Stretch(a, a + AnchorWords) BY <1>1, StretchBegins
<1>4. Len(probes) = 2 /\ probes[1] = Stretch(0, q) /\ probes[2] = Stretch(0, 2 * q)
  <2>1. 1 * q = q OBVIOUS
  <2> QED BY <2>1
<1>5. /\ found(1) = IF a + AnchorWords =< q THEN {a} ELSE {}
      /\ found(2) = {a}
  <2>1. found(1) = FindAnchor(Stretch(0, q), Stretch(a, a + AnchorWords)) BY <1>3, <1>4
  <2>2. found(2) = FindAnchor(Stretch(0, 2 * q), Stretch(a, a + AnchorWords)) BY <1>3, <1>4
  <2>3. 2 * q \in Nat OBVIOUS
  <2> DEFINE w == 2 * q
  <2> HIDE DEF w, found
  <2>4. FindAnchor(Stretch(0, w), Stretch(a, a + AnchorWords)) = {a}
    BY <2>3, AnchorIsFound DEF w
  <2> QED BY <2>1, <2>2, <2>4, AnchorIsFound DEF w
<1>6. usable = 1..2
  <2>1. \A r \in 1..2 : ~LooksDegenerate(probes[r]) BY <1>4, StretchIsNoLoop
  <2> QED BY <2>1, <1>4
<1> HIDE DEF heard, found, usable
<1>7. 2 \in hit /\ hit \in SUBSET (1..2) BY <1>5, <1>6
<1>8. Min(hit) \in hit
  <2>1. hit \in SUBSET Nat /\ hit # {} BY <1>7
  <2> HIDE DEF hit
  <2> QED BY <2>1, LeastIsChosen DEF Min
<1> DEFINE p == Min(hit)
           at == CHOOSE n \in found(p) : TRUE
<1>9. p \in 1..2 /\ found(p) # {} BY <1>7, <1>8
<1> HIDE DEF p
<1>10. found(p) = {a} /\ (p = 1 => a + AnchorWords =< q) BY <1>9, <1>5
<1>11. at = a BY <1>10
<1>12. SubSeq(probes[p], 1, a) = Stretch(0, a)
  <2>1. probes[p] = Stretch(0, p * q) /\ p * q \in Nat /\ 0 + a =< p * q
    BY <1>1, <1>4, <1>9, <1>10
  <2> DEFINE pq == p * q
  <2> HIDE DEF pq
  <2>2. probes[p] = Stretch(0, pq) /\ pq \in Nat /\ 0 + a =< pq BY <2>1 DEF pq
  <2>3. SubSeq(Stretch(0, pq), 1, a) = Stretch(0, 0 + a) BY <2>2, StretchBegins
  <2> QED BY <2>2, <2>3
<1>13. RecoverHead(heard, probes) = SubSeq(probes[p], 1, at) \o heard
  <2>1. ~(Len(heard) < AnchorWords) BY <1>1, <1>2
  <2>2. hit # {} BY <1>7
  <2> QED BY <2>1, <2>2 DEF RecoverHead, hit, usable, found, p
<1> HIDE DEF at
<1>14. Stretch(0, a) \o heard = Stretch(0, c)
  <2>1. 0 \in Nat /\ 0 =< a /\ a =< c BY <1>2
  <2> QED BY <2>1, StretchesMeet DEF heard
<1> QED BY <1>11, <1>12, <1>13, <1>14 DEF heard

-----------------------------------------------------------------------------
(* The passes of a file.                                                   *)

Steps == {"start", "failed", "decode", "repair", "decoded", "align", "sent", "done"}

\* Before a pass is sent on, all that was spoken before its part has been, and
\* after it, all up to its end; the text that has been read goes from within what
\* was read again to the end of the pass.
SeamInv ==
  /\ file \in Recordings /\ pass \in 1..LastPass /\ step \in Steps
  /\ file.aligns =>
       /\ step \in {"start", "decode", "repair", "decoded", "align"} => out = Stretch(0, From)
       /\ step = "decoded" =>
            \E a \in ReadFrom..(ReadFrom + MaxDrop) : \E lang :
              text = [words |-> Stretch(a, To), lang |-> lang]
       /\ step = "align" => \E a \in ReadFrom..From : text.words = Stretch(a, To)
       /\ step = "sent" => out = Stretch(0, To)
       /\ step = "done" => out = Stretch(0, Len(file.spoken))

LEMMA PartIs ==
  ASSUME file \in Recordings, pass \in 1..LastPass
  PROVE  /\ Len(file.bounds) \in Nat /\ LastPass \in Nat \ {0} /\ Lead \in Nat /\ MaxDrop \in Nat
         /\ From \in Nat /\ To \in Nat /\ From < To /\ MaxDrop =< Lead
         /\ Len(file.spoken) = file.bounds[LastPass + 1]
         /\ pass = 1 => /\ From = 0 /\ ReadFrom = 0
                        /\ MaxDrop + AnchorWords <= 2 * (To \div 4)
         /\ pass # 1 /\ file.aligns => ReadFrom = From - Lead /\ ReadFrom \in Nat /\ ReadFrom > 0
<1> DEFINE b == file.bounds
<1>1. /\ b \in Seq(Nat) /\ Len(b) >= 2 /\ b[1] = 0 /\ b[Len(b)] = Len(file.spoken)
      /\ \A p, q \in 1..Len(b) : p < q => b[p] < b[q]
      /\ Lead < b[2] /\ MaxDrop + AnchorWords <= 2 * (b[2] \div 4)
      /\ Lead \in Nat /\ MaxDrop \in 0..Lead
  BY RecordingAssumption, Zenon DEF RecordingAssumption
<1>2. LastPass = Len(b) - 1 /\ From = b[pass] /\ To = b[pass + 1] BY DEF LastPass, From, To
<1>3. ReadFrom = IF pass = 1 \/ ~file.aligns THEN From ELSE Max({0, From - Lead})
  BY DEF ReadFrom
<1> HIDE DEF b
<1>4. Len(b) \in Nat /\ pass \in 1..(Len(b) - 1) /\ \A p \in 1..Len(b) : b[p] \in Nat
  BY <1>1, <1>2
<1>5. pass \in 1..Len(b) /\ pass + 1 \in 1..Len(b) /\ pass < pass + 1 BY <1>4
<1>6. From \in Nat /\ To \in Nat /\ From < To BY <1>1, <1>2, <1>4, <1>5
<1>7. pass # 1 => b[2] =< From
  <2>1. CASE pass = 2
    <3>1. From = b[2] BY <2>1, <1>2
    <3> QED BY <3>1, <1>6
  <2>2. CASE pass > 2
    <3>1. 2 \in 1..Len(b) BY <1>1, <1>4
    <3>2. b[2] < b[pass] /\ b[2] \in Nat BY <3>1, <2>2, <1>1, <1>4, <1>5
    <3> QED BY <3>2, <1>2, <1>6
  <2> QED BY <2>1, <2>2, <1>5
<1>8. pass # 1 => Max({0, From - Lead}) = From - Lead /\ From - Lead \in Nat /\ From - Lead > 0
  <2> SUFFICES ASSUME pass # 1 PROVE Max({0, From - Lead}) = From - Lead /\ From - Lead \in Nat /\ From - Lead > 0
    OBVIOUS
  <2>1. b[2] \in Nat BY <1>1, <1>4
  <2> DEFINE x == From - Lead
  <2>2. x \in Nat /\ x > 0 BY <1>1, <1>6, <1>7, <2>1
  <2> HIDE DEF x
  <2>3. Max({0, x}) = x BY <2>2, GreaterOfTwo
  <2> QED BY <2>2, <2>3 DEF x
<1>9. pass = 1 => /\ From = 0 /\ ReadFrom = 0 /\ MaxDrop + AnchorWords <= 2 * (To \div 4)
  BY <1>1, <1>2, <1>3
<1>10. LastPass + 1 = Len(b) /\ LastPass \in Nat \ {0}
  <2>1. Len(b) \in Nat /\ Len(b) >= 2 /\ LastPass = Len(b) - 1 BY <1>1, <1>2, <1>4
  <2> QED BY <2>1
<1>11. Lead \in Nat /\ MaxDrop \in Nat /\ MaxDrop =< Lead BY <1>1
<1>12. Len(file.spoken) = file.bounds[LastPass + 1] /\ Len(file.bounds) \in Nat
  BY <1>1, <1>4, <1>10 DEF b
<1> QED BY <1>3, <1>6, <1>8, <1>9, <1>10, <1>11, <1>12

\* What a pass has read, whatever it dropped, reaches from before its seam to its
\* end.
LEMMA ReadIs ==
  ASSUME file \in Recordings, pass \in 1..LastPass, file.aligns, NEW drop \in 0..MaxDrop
  PROVE  /\ ReadFrom \in Nat /\ ReadFrom + drop \in ReadFrom..(ReadFrom + MaxDrop)
         /\ ReadFrom + drop < To
         /\ [k \in 1..Max({0, To - ReadFrom - drop}) |-> ReadFrom + drop + k]
              = Stretch(ReadFrom + drop, To)
<1> DEFINE a == ReadFrom + drop
           n == To - ReadFrom - drop
<1>1. /\ Lead \in Nat /\ MaxDrop \in Nat /\ From \in Nat /\ To \in Nat /\ From < To /\ MaxDrop =< Lead
      /\ pass = 1 => /\ From = 0 /\ ReadFrom = 0 /\ MaxDrop + AnchorWords <= 2 * (To \div 4)
      /\ pass # 1 => ReadFrom = From - Lead /\ ReadFrom \in Nat
  BY PartIs
<1>2. drop \in Nat /\ drop =< MaxDrop BY <1>1
<1>3. AnchorWords \in Nat \ {0} BY TextAssumption DEF TextAssumption
<1>4. To \div 4 \in Int /\ 4 * (To \div 4) =< To BY <1>1, DivIs
<1>5. ReadFrom \in Nat BY <1>1
<1>6. a < To
  <2>1. CASE pass = 1
    <3> DEFINE quarter == To \div 4
    <3>1. quarter \in Int /\ 4 * quarter =< To /\ MaxDrop + AnchorWords <= 2 * quarter
      BY <2>1, <1>1, <1>4
    <3> HIDE DEF quarter
    <3> QED BY <3>1, <2>1, <1>1, <1>2, <1>3
  <2>2. CASE pass # 1 BY <2>2, <1>1, <1>2
  <2> QED BY <2>1, <2>2
<1>7. n \in Nat /\ n = To - a BY <1>1, <1>2, <1>5, <1>6
<1> DEFINE m == Max({0, n})
<1>8. m = To - a
  <2> HIDE DEF n
  <2> QED BY <1>7, GreaterOfTwo
<1>9. [k \in 1..m |-> ReadFrom + drop + k] = Stretch(a, To)
  <2> HIDE DEF m
  <2> QED BY <1>8 DEF Stretch
<1> QED BY <1>1, <1>2, <1>5, <1>6, <1>9

LEMMA SeamInvInit == FileInit => SeamInv
<1> SUFFICES ASSUME FileInit PROVE SeamInv OBVIOUS
<1>1. file \in Recordings /\ pass = 1 /\ step = "start" /\ out = << >> BY DEF FileInit
<1>2. pass \in 1..LastPass
  <2>1. Len(file.bounds) \in Nat /\ Len(file.bounds) >= 2
    <3>1. file.bounds \in Seq(Nat) /\ Len(file.bounds) >= 2
      BY <1>1, RecordingAssumption DEF RecordingAssumption
    <3> QED BY <3>1
  <2> QED BY <1>1, <2>1 DEF LastPass
<1>3. From = 0 BY <1>1, <1>2, PartIs
<1>4. Stretch(0, 0) = << >>
  <2>1. Stretch(0, 0) \in Seq(Nat) /\ Len(Stretch(0, 0)) = 0
    <3>1. 0 \in Nat /\ 0 =< 0 /\ 0 - 0 = 0 OBVIOUS
    <3> QED BY <3>1, StretchIs
  <2> QED BY <2>1
<1> QED BY <1>1, <1>2, <1>3, <1>4 DEF SeamInv, Steps

\* The opening that the first pass dropped is put back.
LEMMA WholeIs ==
  ASSUME file \in Recordings, pass \in 1..LastPass, file.aligns,
         NEW a \in ReadFrom..(ReadFrom + MaxDrop), text.words = Stretch(a, To)
  PROVE  \E whole \in ReadFrom..From : WholeText = Stretch(whole, To)
<1>1. /\ Lead \in Nat /\ MaxDrop \in Nat /\ From \in Nat /\ To \in Nat /\ From < To /\ MaxDrop =< Lead
      /\ pass = 1 => /\ From = 0 /\ ReadFrom = 0 /\ MaxDrop + AnchorWords <= 2 * (To \div 4)
      /\ pass # 1 => ReadFrom = From - Lead /\ ReadFrom \in Nat /\ ReadFrom > 0
  BY PartIs
<1>2. CASE pass # 1
  <2>1. WholeText = Stretch(a, To) BY <1>1, <1>2 DEF WholeText
  <2>2. a \in ReadFrom..From BY <1>1, <1>2
  <2> QED BY <2>1, <2>2
<1>3. CASE pass = 1
  <2> DEFINE q == To \div 4
             ps == [p \in 1..2 |-> Stretch(0, p * q)]
  <2>1. WholeText = RecoverHead(Stretch(a, To), Probes) BY <1>1, <1>3 DEF WholeText
  <2>2. q \in Nat /\ 4 * q =< To /\ MaxDrop + AnchorWords =< 2 * q
    <3>1. 4 \in Nat \ {0} OBVIOUS
    <3>2. q \in Int /\ 4 * q =< To BY <1>1, <3>1, DivIs
    <3>3. AnchorWords \in Nat BY TextAssumption DEF TextAssumption
    <3>4. MaxDrop + AnchorWords =< 2 * q BY <1>1, <1>3
    <3> HIDE DEF q
    <3> QED BY <3>2, <3>3, <3>4, <1>1
  <2>3. Probes = ps
    <3>1. To - ReadFrom = To BY <1>1, <1>3
    <3>2. Probes = [p \in 1..2 |-> [k \in 1..(p * q) |-> 0 + k]]
      BY <3>1, <1>1, <1>3 DEF Probes
    <3> HIDE DEF q
    <3>3. \A p \in 1..2 : p * q - 0 = p * q BY <2>2
    <3> QED BY <3>2, <3>3 DEF Stretch
  <2>4. a \in Nat /\ a + AnchorWords =< To /\ a + AnchorWords =< 2 * q
    <3> HIDE DEF q
    <3>1. AnchorWords \in Nat BY TextAssumption DEF TextAssumption
    <3> QED BY <3>1, <2>2, <1>1, <1>3
  <2> HIDE DEF q
  <2>5. RecoverHead(Stretch(a, To), ps) = Stretch(0, To)
    <3> DEFINE c == To
    <3>1. c \in Nat BY <1>1
    <3> HIDE DEF c
    <3>2. RecoverHead(Stretch(a, c), ps) = Stretch(0, c) BY <3>1, <2>2, <2>4, HeadIsRecovered DEF c
    <3> QED BY <3>2 DEF c
  <2>6. 0 \in ReadFrom..From BY <1>1, <1>3
  <2> QED BY <2>1, <2>3, <2>5, <2>6
<1> QED BY <1>2, <1>3

LEMMA SeamInvNext == SeamInv /\ [FileNext]_fileVars => SeamInv'
<1> SUFFICES ASSUME SeamInv, [FileNext]_fileVars PROVE SeamInv' OBVIOUS
<1>1. /\ file \in Recordings /\ pass \in 1..LastPass /\ step \in Steps
      /\ file.aligns => /\ step \in {"start", "decode", "repair", "decoded", "align"} => out = Stretch(0, From)
                        /\ step = "sent" => out = Stretch(0, To)
  BY DEF SeamInv
<1>2. CASE Starts \/ AlignsFragment
  <2>1. /\ file' = file /\ pass' = pass /\ out' = out /\ step \in {"start", "decode"}
        /\ step' \in {"failed", "decode", "repair"}
    BY <1>2 DEF Starts, AlignsFragment
  <2> QED BY <2>1, <1>1 DEF SeamInv, From, To, LastPass, Steps
<1>3. CASE ReadsPass
  <2>1. /\ file' = file /\ pass' = pass /\ out' = out /\ step \in {"decode", "repair"}
        /\ step' = IF text'.words = << >> THEN "sent" ELSE "decoded"
    BY <1>3 DEF ReadsPass
  <2>2. PICK drop \in 0..MaxDrop : \E lang :
          text' = [words |-> [k \in 1..Max({0, To - ReadFrom - drop}) |-> ReadFrom + drop + k],
                   lang |-> lang]
    BY <1>3 DEF ReadsPass
  <2>3. CASE ~file.aligns BY <2>1, <2>3, <1>1 DEF SeamInv, LastPass, Steps
  <2>4. CASE file.aligns
    <3> DEFINE a == ReadFrom + drop
    <3>0. PICK lang :
            text' = [words |-> [k \in 1..Max({0, To - ReadFrom - drop}) |-> ReadFrom + drop + k],
                     lang |-> lang]
      BY <2>2
    <3>1. a \in ReadFrom..(ReadFrom + MaxDrop) /\ a < To /\ a \in Nat
          /\ text' = [words |-> Stretch(a, To), lang |-> lang]
      BY <3>0, <2>2, <2>4, <1>1, ReadIs
    <3> HIDE DEF a
    <3>2. text'.words = Stretch(a, To) BY <3>1
    <3>3. Stretch(a, To) # << >>
      <4>1. To \in Nat BY <1>1, PartIs
      <4> DEFINE c == To
      <4> HIDE DEF c
      <4>2. a \in Nat /\ c \in Nat /\ a =< c BY <3>1, <4>1 DEF c
      <4>3. Len(Stretch(a, c)) = c - a BY <4>2, StretchIs
      <4>4. c - a # 0 BY <3>1, <4>1 DEF c
      <4>5. Len(<< >>) = 0 OBVIOUS
      <4>6. Stretch(a, c) # << >> BY <4>3, <4>4, <4>5
      <4> QED BY <4>6 DEF c
    <3>4. step' = "decoded" BY <2>1, <3>2, <3>3
    <3>5. From' = From /\ To' = To /\ ReadFrom' = ReadFrom /\ LastPass' = LastPass
      BY <2>1 DEF From, To, ReadFrom, LastPass
    <3>6. out' = Stretch(0, From') BY <2>1, <2>4, <3>5, <1>1
    <3>7. \E b \in ReadFrom'..(ReadFrom' + MaxDrop) : \E l :
            text' = [words |-> Stretch(b, To'), lang |-> l]
      BY <3>1, <3>5
    <3> QED BY <2>1, <3>4, <3>5, <3>6, <3>7, <1>1 DEF SeamInv, Steps
  <2> QED BY <2>3, <2>4
<1>4. CASE ReadsText
  <2>1. /\ file' = file /\ pass' = pass /\ out' = out /\ step = "decoded" /\ step' = "align"
        /\ text' = [text EXCEPT !.words = WholeText]
    BY <1>4 DEF ReadsText
  <2>2. CASE ~file.aligns BY <2>1, <2>2, <1>1 DEF SeamInv, LastPass, Steps
  <2>3. CASE file.aligns
    <3>1. PICK a \in ReadFrom..(ReadFrom + MaxDrop) : \E lang :
            text = [words |-> Stretch(a, To), lang |-> lang]
      BY <2>1, <2>3 DEF SeamInv
    <3>2. text.words = Stretch(a, To) BY <3>1
    <3>3. PICK whole \in ReadFrom..From : WholeText = Stretch(whole, To)
      BY <3>2, <2>3, <1>1, WholeIs
    <3>4. text'.words = WholeText BY <3>1, <2>1
    <3>5. From' = From /\ To' = To /\ ReadFrom' = ReadFrom /\ LastPass' = LastPass
      BY <2>1 DEF From, To, ReadFrom, LastPass
    <3>6. out' = Stretch(0, From') BY <2>1, <2>3, <3>5, <1>1
    <3>7. \E b \in ReadFrom'..From' : text'.words = Stretch(b, To') BY <3>3, <3>4, <3>5
    <3> QED BY <2>1, <3>5, <3>6, <3>7, <1>1 DEF SeamInv, Steps
  <2> QED BY <2>2, <2>3
<1>5. CASE SendsOn
  <2>1. /\ file' = file /\ pass' = pass /\ step = "align" /\ step' = "sent"
        /\ out' = out \o AfterSeam(text.words)
    BY <1>5 DEF SendsOn
  <2>2. CASE ~file.aligns BY <2>1, <2>2, <1>1 DEF SeamInv, LastPass, Steps
  <2>3. CASE file.aligns
    <3> DEFINE b == From
               c == To
               words == text.words
    <3>1. PICK a \in ReadFrom..b : words = Stretch(a, c) BY <2>1, <2>3 DEF SeamInv
    <3>2. ReadFrom \in Nat
      <4>1. 0 \in 0..MaxDrop BY PartIs, <1>1
      <4> QED BY <4>1, <1>1, <2>3, ReadIs
    <3>3. b \in Nat /\ c \in Nat /\ b =< c /\ a \in Nat /\ ReadFrom =< a /\ a =< b
      <4>1. b \in Nat /\ c \in Nat /\ b < c BY <1>1, PartIs
      <4> HIDE DEF b, c
      <4> QED BY <4>1, <3>2
    <3>4. AfterSeam(words) = IF ReadFrom < b
                             THEN Without(words, {n \in Members(words) : 2 * n - 1 < 2 * b})
                             ELSE words
      BY DEF AfterSeam
    <3> HIDE DEF b, c, words
    <3>5. AfterSeam(words) = Stretch(b, c)
      <4>1. CASE ReadFrom < b BY <4>1, <3>1, <3>3, <3>4, SeamIs
      <4>2. CASE ~(ReadFrom < b)
        <5>1. a = b BY <4>2, <3>3, <3>2
        <5> QED BY <4>2, <5>1, <3>1, <3>4
      <4> QED BY <4>1, <4>2
    <3>6. out = Stretch(0, b) BY <2>1, <2>3, <1>1 DEF b
    <3>7. Stretch(0, b) \o Stretch(b, c) = Stretch(0, c)
      <4>1. 0 \in Nat /\ 0 =< b BY <3>3
      <4> QED BY <4>1, <3>3, StretchesMeet
    <3>8. out' = Stretch(0, c) BY <2>1, <3>5, <3>6, <3>7 DEF words
    <3>9. To' = c /\ LastPass' = LastPass BY <2>1 DEF To, LastPass, c
    <3> QED BY <2>1, <3>8, <3>9, <1>1 DEF SeamInv, Steps
  <2> QED BY <2>2, <2>3
<1>6. CASE NextPass
  <2>1. file' = file /\ out' = out /\ step = "sent" BY <1>6 DEF NextPass
  <2>2. LastPass' = LastPass BY <2>1 DEF LastPass
  <2>3. CASE pass < LastPass
    <3>1. pass' = pass + 1 /\ step' = "decode" BY <1>6, <2>3 DEF NextPass
    <3>2. pass' \in 1..LastPass' BY <3>1, <2>2, <2>3, <1>1, PartIs
    <3>3. From' = To BY <3>1, <2>1 DEF From, To
    <3> QED BY <2>1, <3>1, <3>2, <3>3, <1>1 DEF SeamInv, Steps
  <2>4. CASE ~(pass < LastPass)
    <3>1. pass' = pass /\ step' = "done" BY <1>6, <2>4 DEF NextPass
    <3>2. LastPass \in Nat \ {0} /\ Len(file.spoken) = file.bounds[LastPass + 1] BY <1>1, PartIs
    <3>3. pass = LastPass BY <3>2, <2>4, <1>1
    <3>4. To = Len(file.spoken) BY <3>2, <3>3 DEF To
    <3> QED BY <2>1, <2>2, <3>1, <3>4, <1>1 DEF SeamInv, Steps
  <2> QED BY <2>3, <2>4
<1>7. CASE FindsAligner \/ EvictsAligner \/ LoadsAligner \/ AlignerOutOfReach \/ UNCHANGED fileVars
  <2>1. file' = file /\ pass' = pass /\ out' = out /\ text' = text /\ step' \in {step, "failed"}
    BY <1>7 DEF FindsAligner, EvictsAligner, LoadsAligner, AlignerOutOfReach, fileVars
  <2>2. From' = From /\ To' = To /\ ReadFrom' = ReadFrom /\ LastPass' = LastPass
    BY <2>1 DEF From, To, ReadFrom, LastPass
  <2>3. CASE step' = "failed" BY <2>1, <2>2, <2>3, <1>1 DEF SeamInv, Steps
  <2>4. CASE step' = step BY <2>1, <2>2, <2>4 DEF SeamInv
  <2> QED BY <2>1, <2>3, <2>4
<1> QED BY <1>2, <1>3, <1>4, <1>5, <1>6, <1>7 DEF FileNext

\* Whatever the passes drop at their beginnings, wherever the seams lie and whichever
\* aligners are in reach: each word that was spoken is sent on once, in order
\* (_recover_lost_head, transcribe).
THEOREM WordsComeOnce == FileSpec => []EveryWordOnce
<1>1. SeamInv => EveryWordOnce
  <2> SUFFICES ASSUME SeamInv, step = "done", file.aligns
               PROVE  out = [n \in 1..Len(file.spoken) |-> n]
    BY DEF EveryWordOnce
  <2> DEFINE N == Len(file.spoken)
  <2>1. out = [k \in 1..(N - 0) |-> 0 + k] BY DEF SeamInv, Stretch
  <2>2. N \in Nat
    <3>1. file \in Recordings BY DEF SeamInv
    <3>2. /\ file.bounds \in Seq(Nat) /\ Len(file.bounds) >= 2
          /\ file.bounds[Len(file.bounds)] = N
      BY <3>1, RecordingAssumption DEF RecordingAssumption
    <3> QED BY <3>2
  <2> HIDE DEF N
  <2>3. out = [n \in 1..N |-> n] BY <2>1, <2>2
  <2> QED BY <2>3 DEF N
<1> QED BY <1>1, SeamInvInit, SeamInvNext, PTL DEF FileSpec

-----------------------------------------------------------------------------
(* The stamps of the aligner (VoxtralAligner).                             *)

Stamps == [word : Nat, start : Nat, end : Nat, real : BOOLEAN]

\* The first words have one stamp each, one after the other, before `to`.
Ordered(s, to) ==
  /\ s \in Seq(Stamps)
  /\ \A k \in 1..Len(s) : /\ s[k].word = k /\ s[k].start =< s[k].end /\ s[k].end =< to
                          /\ k > 1 => s[k - 1].end =< s[k].start

\* n words from the first on have one stamp each, one after the other, between
\* `from` and `to`.
IsRun(run, first, n, from, to) ==
  /\ run \in Seq(Stamps) /\ Len(run) = n
  /\ \A k \in 1..n :
       /\ run[k].word = first + k - 1
       /\ from =< run[k].start /\ run[k].start =< run[k].end /\ run[k].end =< to
       /\ k > 1 => run[k - 1].end =< run[k].start

LEMMA StampMade ==
  ASSUME NEW n \in Nat, NEW start \in Nat, NEW end \in Nat, NEW real \in BOOLEAN
  PROVE  /\ Stamp(n, start, end, real) \in Stamps
         /\ Stamp(n, start, end, real).word = n
         /\ Stamp(n, start, end, real).start = start /\ Stamp(n, start, end, real).end = end
BY DEF Stamp, Stamps

LEMMA OrderedLater ==
  ASSUME NEW s, NEW from \in Nat, NEW to \in Nat, from =< to, Ordered(s, from)
  PROVE  Ordered(s, to)
<1>1. s \in Seq(Stamps) BY DEF Ordered
<1>2. \A k \in 1..Len(s) : s[k] \in Stamps BY <1>1
<1>3. \A k \in 1..Len(s) : s[k].end \in Nat BY <1>2 DEF Stamps
<1>4. \A k \in 1..Len(s) : s[k].end =< from => s[k].end =< to BY <1>3
<1> QED BY <1>1, <1>4 DEF Ordered

\* A run goes on from the stamps there are, if it begins after the last of them.
LEMMA RunGoesOn ==
  ASSUME NEW s, NEW run, NEW from \in Nat, NEW to \in Nat, NEW n \in Nat,
         Ordered(s, to), IsRun(run, Len(s) + 1, n, from, to),
         Len(s) > 0 /\ n > 0 => s[Len(s)].end =< run[1].start
  PROVE  Ordered(s \o run, to) /\ Len(s \o run) = Len(s) + n
<1> DEFINE w == s \o run
           m == Len(s)
<1>1. /\ s \in Seq(Stamps) /\ run \in Seq(Stamps) /\ Len(run) = n /\ m \in Nat
  BY DEF Ordered, IsRun
<1>2. /\ w \in Seq(Stamps) /\ Len(w) = m + n
      /\ \A k \in 1..(m + n) : w[k] = IF k =< m THEN s[k] ELSE run[k - m]
  BY <1>1, ConcatProperties
<1>3. /\ \A k \in 1..m : s[k] \in Stamps /\ s[k].start \in Nat /\ s[k].end \in Nat
      /\ \A k \in 1..n : run[k] \in Stamps /\ run[k].start \in Nat /\ run[k].end \in Nat
  <2>1. \A k \in 1..m : s[k] \in Stamps BY <1>1
  <2>2. \A k \in 1..n : run[k] \in Stamps BY <1>1
  <2> QED BY <2>1, <2>2 DEF Stamps
<1>4. \A k \in 1..m : /\ s[k].word = k /\ s[k].start =< s[k].end /\ s[k].end =< to
                      /\ k > 1 => s[k - 1].end =< s[k].start
  BY DEF Ordered
<1>5. \A k \in 1..n : /\ run[k].word = m + 1 + k - 1
                      /\ from =< run[k].start /\ run[k].start =< run[k].end /\ run[k].end =< to
                      /\ k > 1 => run[k - 1].end =< run[k].start
  BY DEF IsRun
<1>8. m > 0 /\ n > 0 => s[m].end =< run[1].start OBVIOUS
<1> HIDE DEF w, m
<1>6. ASSUME NEW k \in 1..(m + n)
      PROVE  /\ w[k].word = k /\ w[k].start =< w[k].end /\ w[k].end =< to
             /\ k > 1 => w[k - 1].end =< w[k].start
  <2>1. CASE k =< m
    <3>1. k \in 1..m /\ w[k] = s[k] BY <1>1, <1>2, <2>1
    <3>2. k > 1 => k - 1 \in 1..m /\ k - 1 \in 1..(m + n) /\ w[k - 1] = s[k - 1]
      BY <1>1, <1>2, <2>1
    <3>3. /\ s[k].word = k /\ s[k].start =< s[k].end /\ s[k].end =< to
          /\ k > 1 => s[k - 1].end =< s[k].start
      BY <1>4, <3>1
    <3> QED BY <3>1, <3>2, <3>3
  <2>2. CASE k = m + 1
    <3>0. 1 \in 1..n /\ k - m = 1 /\ ~(k =< m) BY <1>1, <2>2
    <3>1. 1 \in 1..n /\ w[k] = run[1] BY <1>2, <3>0
    <3>2. k > 1 => m \in 1..m /\ k - 1 = m /\ m \in 1..(m + n) /\ w[k - 1] = s[m]
      BY <1>1, <1>2, <2>2
    <3>3. run[1].word = k BY <1>1, <1>5, <2>2, <3>1
    <3>4. k > 1 => s[m].end =< run[1].start BY <1>1, <1>8, <3>1, <3>2
    <3> QED BY <3>1, <3>2, <3>3, <3>4, <1>5
  <2>3. CASE k > m + 1
    <3> DEFINE j == k - m
    <3>1. j \in 1..n /\ j > 1 /\ w[k] = run[j] BY <1>1, <1>2, <2>3
    <3>2. k - 1 \in 1..(m + n) /\ ~(k - 1 =< m) /\ (k - 1) - m = j - 1 BY <1>1, <2>3
    <3>3. w[k - 1] = run[j - 1] BY <1>2, <3>2
    <3>4. m + 1 + j - 1 = k BY <1>1
    <3> HIDE DEF j
    <3> QED BY <3>1, <3>3, <3>4, <1>5
  <2> QED BY <2>1, <2>2, <2>3, <1>1
<1>7. Ordered(w, to) BY <1>2, <1>6 DEF Ordered
<1> QED BY <1>2, <1>7 DEF w, m

LEMMA RunAppended ==
  ASSUME NEW s, NEW run, NEW from \in Nat, NEW to \in Nat, from =< to, NEW n \in Nat,
         Ordered(s, from), IsRun(run, Len(s) + 1, n, from, to)
  PROVE  Ordered(s \o run, to) /\ Len(s \o run) = Len(s) + n
<1>1. Ordered(s, to) BY OrderedLater
<1>2. Len(s) > 0 /\ n > 0 => s[Len(s)].end =< run[1].start
  <2> SUFFICES ASSUME Len(s) > 0, n > 0 PROVE s[Len(s)].end =< run[1].start OBVIOUS
  <2>1. s \in Seq(Stamps) /\ run \in Seq(Stamps) /\ Len(run) = n BY DEF Ordered, IsRun
  <2>2. Len(s) \in 1..Len(s) /\ 1 \in 1..n BY <2>1
  <2>3. s[Len(s)] \in Stamps /\ run[1] \in Stamps BY <2>1, <2>2
  <2>4. s[Len(s)].end \in Nat /\ run[1].start \in Nat BY <2>3 DEF Stamps
  <2>5. s[Len(s)].end =< from /\ from =< run[1].start BY <2>2 DEF Ordered, IsRun
  <2> QED BY <2>4, <2>5
<1> QED BY <1>1, <1>2, RunGoesOn

\* A share of a length is within it, and a greater share is longer.
LEMMA ShareIs ==
  ASSUME NEW n \in Nat \ {0}, NEW length \in Nat, NEW k \in 0..n
  PROVE  /\ (k * length) \div n \in Nat /\ (k * length) \div n =< length
         /\ k > 0 => ((k - 1) * length) \div n =< (k * length) \div n
<1> DEFINE a == k * length
           x == a \div n
<1>1. a \in Nat /\ a =< n * length
  <2>1. length * k =< length * n BY Scaled
  <2>2. length * k = k * length /\ length * n = n * length /\ k * length \in Nat OBVIOUS
  <2> QED BY <2>1, <2>2
<1>2. k > 0 => (k - 1) * length \in Int /\ (k - 1) * length =< a
  <2> SUFFICES ASSUME k > 0 PROVE (k - 1) * length \in Int /\ (k - 1) * length =< a OBVIOUS
  <2>1. length * (k - 1) =< length * k BY Scaled
  <2>2. length * k = k * length /\ length * (k - 1) = (k - 1) * length /\ (k - 1) * length \in Int OBVIOUS
  <2> QED BY <2>1, <2>2
<1> HIDE DEF a
<1>3. x \in Nat /\ n * x =< a
  <2>1. x \in Int /\ n * x =< a BY <1>1, DivIs
  <2>2. x \in Nat BY <1>1, DivSmaller
  <2> QED BY <2>1, <2>2
<1> HIDE DEF x
<1>4. x =< length
  <2> SUFFICES ASSUME length + 1 =< x PROVE FALSE BY <1>3
  <2>1. n * (length + 1) =< n * x BY <1>3, Scaled
  <2>2. n * (length + 1) = n * length + n /\ n * length \in Nat /\ n * x \in Int BY <1>3
  <2> QED BY <2>1, <2>2, <1>1, <1>3
<1>5. k > 0 => ((k - 1) * length) \div n =< x
  <2> SUFFICES ASSUME k > 0 PROVE ((k - 1) * length) \div n =< x OBVIOUS
  <2> DEFINE b == (k - 1) * length
  <2>1. b \in Int /\ b =< a BY <1>2
  <2> HIDE DEF b
  <2>2. b \div n =< a \div n BY <2>1, <1>1, DivGrows
  <2> QED BY <2>2 DEF b, x
<1> QED BY <1>3, <1>4, <1>5 DEF a, x

LEMMA SpreadIsRun ==
  ASSUME NEW w, w.first \in Nat, w.last \in Nat, w.from \in Nat, w.to \in Nat,
         w.first =< w.last, w.from =< w.to
  PROVE  IsRun(Spread(w), w.first, w.last - w.first + 1, w.from, w.to)
<1> DEFINE f == w.first
           a == w.from
           n == w.last - f + 1
           length == w.to - a
           run == Spread(w)
<1>1. n \in Nat \ {0} /\ length \in Nat /\ f \in Nat /\ a \in Nat /\ w.to = a + length
  OBVIOUS
<1>2. run = [k \in 1..n |-> Stamp(f + k - 1, a + ((k - 1) * length) \div n,
                                  a + (k * length) \div n, FALSE)]
  BY DEF Spread
<1> HIDE DEF f, a, n, length, run
<1>3. ASSUME NEW k \in 1..n
      PROVE  LET begins == ((k - 1) * length) \div n
                 ends == (k * length) \div n
             IN  /\ begins \in Nat /\ ends \in Nat /\ begins =< ends /\ ends =< length
                 /\ f + k - 1 \in Nat
  <2>1. k - 1 \in 0..n /\ k \in 0..n /\ k > 0 /\ f + k - 1 \in Nat BY <1>1
  <2> QED BY <2>1, <1>1, ShareIs
<1>4. ASSUME NEW k \in 1..n
      PROVE  LET begins == ((k - 1) * length) \div n
                 ends == (k * length) \div n
             IN  /\ run[k] \in Stamps /\ run[k].word = f + k - 1
                 /\ run[k].start = a + begins /\ run[k].end = a + ends
  <2> DEFINE begins == ((k - 1) * length) \div n
             ends == (k * length) \div n
  <2>1. begins \in Nat /\ ends \in Nat /\ f + k - 1 \in Nat BY <1>3
  <2> DEFINE nr == f + k - 1
             x == a + begins
             y == a + ends
             guessed == FALSE
  <2>2. run[k] = Stamp(nr, x, y, guessed) BY <1>2
  <2> HIDE DEF begins, ends
  <2>3. x \in Nat /\ y \in Nat /\ nr \in Nat /\ guessed \in BOOLEAN BY <2>1, <1>1
  <2> HIDE DEF nr, x, y, guessed
  <2>5. run[k] \in Stamps /\ run[k].word = nr /\ run[k].start = x /\ run[k].end = y
    BY <2>2, <2>3, StampMade
  <2>4. /\ run[k] \in Stamps /\ run[k].word = f + k - 1
        /\ run[k].start = a + begins /\ run[k].end = a + ends
    BY <2>5 DEF nr, x, y
  <2> QED BY <2>4 DEF begins, ends
<1>5. run \in Seq(Stamps) /\ Len(run) = n
  <2>1. n \in Nat /\ \A k \in 1..n : run[k] \in Stamps BY <1>1, <1>4
  <2>2. run = [k \in 1..n |-> run[k]] BY <1>2
  <2>3. run \in [1..n -> Stamps] BY <2>1, <2>2
  <2> QED BY <2>1, <2>3
<1>6. ASSUME NEW k \in 1..n
      PROVE  /\ a =< run[k].start /\ run[k].start =< run[k].end /\ run[k].end =< w.to
  <2> DEFINE begins == ((k - 1) * length) \div n
             ends == (k * length) \div n
  <2>1. begins \in Nat /\ ends \in Nat /\ begins =< ends /\ ends =< length BY <1>3
  <2>2. run[k].start = a + begins /\ run[k].end = a + ends BY <1>4
  <2> HIDE DEF begins, ends
  <2> QED BY <2>1, <2>2, <1>1
<1>7. ASSUME NEW k \in 1..n, k > 1 PROVE run[k - 1].end =< run[k].start
  <2> DEFINE x == ((k - 1) * length) \div n
  <2>1. k - 1 \in 1..n BY <1>1, <1>7
  <2>2. run[k - 1].end = a + x /\ run[k].start = a + x BY <2>1, <1>4
  <2>3. x \in Nat BY <1>3
  <2> HIDE DEF x
  <2> QED BY <2>2, <2>3, <1>1
<1>8. IsRun(run, f, n, a, w.to) BY <1>4, <1>5, <1>6, <1>7 DEF IsRun
<1> QED BY <1>8 DEF run, f, n, a

LEMMA PlacedIsRun ==
  ASSUME NEW w, w.first \in Nat, w.last \in Nat, w.from \in Nat, w.to \in Nat,
         w.first =< w.last, w.from =< w.to, NEW run \in Placed(w)
  PROVE  IsRun(run, w.first, w.last - w.first + 1, w.from, w.to)
<1> DEFINE f == w.first
           a == w.from
           n == w.last - f + 1
           length == w.to - a
           cut(k) == a + (k * length) \div (n + 1)
<1>1. n \in Nat \ {0} /\ length \in Nat /\ f \in Nat /\ a \in Nat /\ w.to = a + length
  OBVIOUS
<1>2. PICK ends \in 0..(length - cut(n) + a) :
        run = [k \in 1..n |-> Stamp(f + k - 1, cut(k - 1) + ends, cut(k) + ends, TRUE)]
  BY DEF Placed
<1> HIDE DEF f, a, n, length
<1>3. ASSUME NEW k \in 0..n
      PROVE  /\ cut(k) \in Nat /\ a =< cut(k) /\ (k > 0 => cut(k - 1) =< cut(k))
             /\ cut(k) =< cut(n)
  <2>1. k \in 0..(n + 1) /\ n + 1 \in Nat \ {0} /\ n \in 0..(n + 1) BY <1>1
  <2> DEFINE x(i) == (i * length) \div (n + 1)
  <2>2. x(k) \in Nat /\ (k > 0 => x(k - 1) =< x(k)) BY <2>1, <1>1, ShareIs
  <2>3. k > 0 => x(k - 1) \in Nat
    <3> SUFFICES ASSUME k > 0 PROVE x(k - 1) \in Nat OBVIOUS
    <3>1. k - 1 \in 0..(n + 1) BY <1>1
    <3> QED BY <3>1, <2>1, <1>1, ShareIs
  <2>4. x(n) \in Nat BY <2>1, <1>1, ShareIs
  <2>5. x(k) =< x(n)
    <3> DEFINE b == k * length
               c == n * length
    <3>1. b \in Int /\ c \in Int /\ b =< c
      <4>1. length * k =< length * n BY <1>1, Scaled
      <4>2. length * k = k * length /\ length * n = n * length /\ k * length \in Int
            /\ n * length \in Int
        BY <1>1
      <4> QED BY <4>1, <4>2
    <3> HIDE DEF b, c
    <3>2. b \div (n + 1) =< c \div (n + 1) BY <3>1, <2>1, DivGrows
    <3> QED BY <3>2 DEF b, c
  <2> HIDE DEF x
  <2>6. cut(k) = a + x(k) /\ cut(k - 1) = a + x(k - 1) /\ cut(n) = a + x(n) BY DEF x
  <2> HIDE DEF cut
  <2> QED BY <2>2, <2>3, <2>4, <2>5, <2>6, <1>1
<1>4. n \in 0..n BY <1>1
<1>5. cut(n) \in Nat BY <1>3, <1>4
<1> HIDE DEF cut
<1>6. ends \in Nat /\ ends + cut(n) =< w.to BY <1>1, <1>2, <1>5
<1>7. ASSUME NEW k \in 1..n
      PROVE  /\ run[k] \in Stamps /\ run[k].word = f + k - 1
             /\ run[k].start = cut(k - 1) + ends /\ run[k].end = cut(k) + ends
             /\ a =< run[k].start /\ run[k].start =< run[k].end /\ run[k].end =< w.to
  <2>1. k - 1 \in 0..n /\ k \in 0..n /\ k > 0 /\ f + k - 1 \in Nat BY <1>1
  <2>2. /\ cut(k - 1) \in Nat /\ cut(k) \in Nat /\ a =< cut(k - 1) /\ cut(k - 1) =< cut(k)
        /\ cut(k) =< cut(n)
    BY <2>1, <1>3
  <2> DEFINE nr == f + k - 1
             x == cut(k - 1) + ends
             y == cut(k) + ends
             aligned == TRUE
  <2>3. run[k] = Stamp(nr, x, y, aligned) BY <1>2
  <2>4. x \in Nat /\ y \in Nat /\ nr \in Nat /\ aligned \in BOOLEAN BY <2>1, <2>2, <1>6
  <2> HIDE DEF nr, x, y, aligned
  <2>7. run[k] \in Stamps /\ run[k].word = nr /\ run[k].start = x /\ run[k].end = y
    BY <2>3, <2>4, StampMade
  <2>5. /\ run[k] \in Stamps /\ run[k].word = f + k - 1
        /\ run[k].start = cut(k - 1) + ends /\ run[k].end = cut(k) + ends
    BY <2>7 DEF nr, x, y
  <2>6. /\ a =< cut(k - 1) + ends /\ cut(k - 1) + ends =< cut(k) + ends /\ cut(k) + ends =< w.to
    BY <2>2, <1>1, <1>5, <1>6
  <2> QED BY <2>5, <2>6
<1>8. run \in Seq(Stamps) /\ Len(run) = n
  <2>1. n \in Nat /\ \A k \in 1..n : run[k] \in Stamps BY <1>1, <1>7
  <2>2. run = [k \in 1..n |-> run[k]] BY <1>2
  <2>3. run \in [1..n -> Stamps] BY <2>1, <2>2
  <2> QED BY <2>1, <2>3
<1>9. ASSUME NEW k \in 1..n, k > 1 PROVE run[k - 1].end =< run[k].start
  <2>1. k - 1 \in 1..n BY <1>1, <1>9
  <2>2. run[k - 1].end = cut(k - 1) + ends /\ run[k].start = cut(k - 1) + ends BY <2>1, <1>7
  <2>3. cut(k - 1) + ends \in Nat
    <3>1. k - 1 \in 0..n BY <2>1, <1>1
    <3>2. cut(k - 1) \in Nat BY <3>1, <1>3
    <3> QED BY <3>2, <1>6
  <2> QED BY <2>2, <2>3
<1>10. IsRun(run, f, n, a, w.to) BY <1>7, <1>8, <1>9 DEF IsRun
<1> QED BY <1>10 DEF f, n, a

Spoken == [tokens : Nat, known : BOOLEAN, start : Nat, end : Nat]

\* Words have a token each at least.
LEMMA TargetsAre ==
  ASSUME NEW words \in Seq(Spoken)
  PROVE  Targets(words) \in Nat /\ (words # << >> => Targets(words) \in Nat \ {0})
<1> DEFINE n == Len(words)
           T == {{k} \X (0..words[k].tokens) : k \in 1..n}
           f == [k \in 1..n |-> {k} \X (0..words[k].tokens)]
<1>1. n \in Nat /\ Targets(words) = Cardinality(UNION T) BY DEF Targets
<1>2. ASSUME NEW k \in 1..n PROVE words[k].tokens \in Nat
  <2>1. words[k] \in Spoken OBVIOUS
  <2> QED BY <2>1 DEF Spoken
<1>3. f \in Surjection(1..n, T)
  <2>1. f \in [1..n -> T] OBVIOUS
  <2>2. \A t \in T : \E k \in 1..n : f[k] = t OBVIOUS
  <2> HIDE DEF f, T
  <2> QED BY <2>1, <2>2 DEF Surjection
<1>4. IsFiniteSet(T)
  <2> HIDE DEF f, T, n
  <2>1. 1 \in Int /\ n \in Int BY <1>1
  <2>2. IsFiniteSet(1..n) BY <2>1, FS_Interval, Zenon
  <2> QED BY <1>3, <2>2, FS_Surjection
<1>5. ASSUME NEW k \in 1..n PROVE IsFiniteSet({k} \X (0..words[k].tokens))
  <2>1. 0 \in Int /\ words[k].tokens \in Int /\ k \in Int BY <1>2
  <2>2. IsFiniteSet(0..words[k].tokens) BY <2>1, FS_Interval, Zenon
  <2>3. IsFiniteSet(k..k) BY <2>1, FS_Interval, Zenon
  <2>4. k..k = {k} OBVIOUS
  <2> QED BY <2>2, <2>3, <2>4, FS_Product
<1>6. \A t \in T : IsFiniteSet(t) BY <1>5
<1>7. words # << >> => UNION T # {}
  <2> SUFFICES ASSUME words # << >> PROVE UNION T # {} OBVIOUS
  <2>1. 1 \in 1..n OBVIOUS
  <2>2. 0 \in 0..words[1].tokens BY <2>1, <1>2
  <2>3. <<1, 0>> \in {1} \X (0..words[1].tokens) BY <2>2
  <2>4. {1} \X (0..words[1].tokens) \in T BY <2>1
  <2> HIDE DEF T
  <2> QED BY <2>3, <2>4
<1> HIDE DEF T
<1>8. IsFiniteSet(UNION T) BY <1>4, <1>6, FS_UNION
<1>9. Cardinality(UNION T) \in Nat BY <1>8, FS_CardinalityType
<1>10. words # << >> => Cardinality(UNION T) # 0 BY <1>7, <1>8, FS_EmptySet
<1> QED BY <1>1, <1>9, <1>10

\* The lesser of two.
LEMMA LesserOfTwo ==
  ASSUME NEW a \in Int, NEW b \in Int
  PROVE  Min({a, b}) = IF a =< b THEN a ELSE b
<1> DEFINE g == IF a =< b THEN a ELSE b
<1>1. g \in {a, b} /\ \A y \in {a, b} : g =< y OBVIOUS
<1> HIDE DEF g
<1>2. Min({a, b}) \in {a, b} /\ \A y \in {a, b} : Min({a, b}) =< y BY <1>1 DEF Min
<1>3. Min({a, b}) >= g /\ g >= Min({a, b}) /\ g \in Int /\ Min({a, b}) \in Int BY <1>1, <1>2
<1> QED BY <1>3 DEF g

\* A cut leaves a frame on either side of it.
LEMMA CutIsInside ==
  ASSUME NEW from \in Nat, NEW to \in Nat, to >= from + 2, NEW near \in Int
  PROVE  Min({Max({near, from + 1}), to - 1}) \in (from + 1)..(to - 1)
<1> DEFINE a == from + 1
           b == to - 1
           m == Max({near, a})
<1>1. a \in Int /\ b \in Int /\ a =< b OBVIOUS
<1> HIDE DEF a, b
<1>2. m = IF near >= a THEN near ELSE a BY <1>1, GreaterOfTwo
<1> HIDE DEF m
<1>3. m \in Int /\ m >= a BY <1>1, <1>2
<1>4. Min({m, b}) = IF m =< b THEN m ELSE b BY <1>1, <1>3, LesserOfTwo
<1>5. Min({m, b}) \in a..b BY <1>1, <1>3, <1>4
<1> QED BY <1>5 DEF m, a, b

\* The greatest of some naturals, and the least.
LEMMA MaxIs ==
  ASSUME NEW T \in SUBSET Nat, T # {}, NEW bound \in Nat, \A n \in T : n =< bound
  PROVE  Max(T) \in T /\ \A n \in T : Max(T) >= n
BY GreatestIsChosen DEF Max

LEMMA MinIs ==
  ASSUME NEW T \in SUBSET Nat, T # {}
  PROVE  Min(T) \in T /\ \A n \in T : Min(T) =< n
BY LeastIsChosen DEF Min

LEMMA TaskIs ==
  ASSUME NEW t \in Tasks
  PROVE  /\ t.words \in Seq(Spoken) /\ t.words # << >> /\ Len(t.words) \in Nat \ {0}
         /\ t.length \in Nat /\ t.prefix \in BOOLEAN
         /\ \A n \in 1..Len(t.words) :
              t.words[n].start \in Nat /\ t.words[n].end \in Nat /\ t.words[n].known \in BOOLEAN
<1>1. t.words \in Seq(Spoken) /\ t.words # << >> /\ t.length \in Nat /\ t.prefix \in BOOLEAN
  BY AlignAssumption DEF AlignAssumption, Spoken
<1>2. \A n \in 1..Len(t.words) : t.words[n] \in Spoken BY <1>1
<1> QED BY <1>1, <1>2 DEF Spoken

\* The words of a prefix, one after the other within the audio.
LEMMA SpeechIs ==
  ASSUME NEW t \in Tasks, t.prefix
  PROVE  \A i, k \in 1..Len(t.words) :
           /\ t.words[i].start < t.words[i].end /\ t.words[i].end =< t.length
           /\ i < k => t.words[i].end =< t.words[k].start
BY AlignAssumption DEF AlignAssumption

LEMMA PieceLengthIs ==
  ASSUME task \in Tasks, NEW next \in 1..Len(task.words), NEW frames \in Int
  PROVE  PieceLength(next, frames) \in 0..(Len(task.words) - next + 1)
<1> DEFINE m == Len(task.words) - next + 1
           T == {0} \cup {k \in 1..m :
                  LET n == Targets(SubSeq(task.words, next, next + k - 1)) + 1
                  IN  n <= frames /\ Cells(n, frames) <= Min({MaxCells, SalvageCells})}
<1>1. m \in Nat BY TaskIs
<1>2. T \subseteq 0..m /\ 0 \in T BY <1>1
<1>3. PieceLength(next, frames) = Max(T) BY DEF PieceLength
<1> HIDE DEF m, T
<1>4. T \in SUBSET Nat /\ T # {} /\ \A n \in T : n =< m BY <1>1, <1>2
<1>5. Max(T) \in T BY <1>1, <1>4, MaxIs
<1> QED BY <1>2, <1>3, <1>5 DEF m

\* The last word that was really aligned, if there is one.
LEMMA LastRealIs ==
  ASSUME task \in Tasks, NEW next \in Nat \ {0}, NEW k \in Nat
  PROVE  LET j == LastReal(next, k)
             real == {n \in next..(next + k - 1) : task.words[n].known}
         IN  IF real = {} THEN j = 0 ELSE j \in real
<1> DEFINE j == LastReal(next, k)
           real == {n \in next..(next + k - 1) : task.words[n].known}
           T == {0} \cup real
<1>1. j = Max(T) BY DEF LastReal
<1>2. real \subseteq next..(next + k - 1) OBVIOUS
<1> HIDE DEF j, real
<1>3. T \in SUBSET Nat /\ T # {} /\ \A n \in T : n =< next + k BY <1>2
<1>4. next + k \in Nat OBVIOUS
<1> HIDE DEF T
<1>5. j \in T /\ \A n \in T : j >= n BY <1>1, <1>3, <1>4, MaxIs
<1>6. real # {} => j # 0
  <2> SUFFICES ASSUME NEW n \in real PROVE j # 0 OBVIOUS
  <2>1. n \in Nat \ {0} /\ n \in T BY <1>2 DEF T
  <2>2. j >= n /\ j \in Nat BY <2>1, <1>3, <1>5
  <2> QED BY <2>1, <2>2
<1>7. IF real = {} THEN j = 0 ELSE j \in real BY <1>5, <1>6 DEF T
<1> QED BY <1>7 DEF j, real

\* What is known of k stamps from word `next` on: which words they are of, and that
\* each ends in the audio and not before it begins.
PieceIs(got, next, k, length) ==
  /\ got \in Seq(Stamps) /\ Len(got) = k
  /\ \A j \in 1..k : /\ got[j].word = next + j - 1
                    /\ got[j].start =< got[j].end /\ got[j].end =< length

\* A piece with a known word gets stamps, and the known words theirs.
LEMMA PieceStampsAre ==
  ASSUME task \in Tasks, task.prefix, NEW next \in Nat \ {0}, NEW k \in Nat,
         next + k - 1 =< Len(task.words), LastReal(next, k) # 0, NEW far \in BOOLEAN
  PROVE  /\ PieceIs(PieceStamps(next, k, far), next, k, task.length)
         /\ \A j \in 1..k : task.words[next + j - 1].known =>
              PieceStamps(next, k, far)[j].end = task.words[next + j - 1].end
<1> DEFINE got == PieceStamps(next, k, far)
           words == task.words
           length == task.length
           final == next + k - 1
           real == {n \in next..final : words[n].known}
           before(n) == {m \in real : m < n}
           after(n) == {m \in real : m > n}
           base(n) == IF before(n) = {} THEN words[Min(after(n))].start
                      ELSE words[Max(before(n))].end
           guess(n) == IF after(n) = {} /\ far THEN base(n) + Reach * (n - Max(before(n)))
                       ELSE base(n)
           end(n) == Min({guess(n), length})
<1>1. got = [j \in 1..k |->
               LET n == next + j - 1
               IN  IF n \in real THEN Stamp(n, words[n].start, words[n].end, TRUE)
                   ELSE Stamp(n, base(n), end(n), FALSE)]
  BY DEF PieceStamps
<1>2. /\ length \in Nat /\ final \in Nat /\ final =< Len(words) /\ Len(words) \in Nat
      /\ \A n \in 1..Len(words) :
           /\ words[n].start \in Nat /\ words[n].end \in Nat
           /\ words[n].start < words[n].end /\ words[n].end =< length
  BY TaskIs, SpeechIs
<1>3. real # {}
  <2>1. LET j == LastReal(next, k) IN real = {} => j = 0 BY LastRealIs
  <2> QED BY <2>1
<1>4. real \subseteq 1..Len(words) /\ real \subseteq 1..final BY <1>2
<1>9. \A n \in next..final : n \in real <=> words[n].known OBVIOUS
<1> HIDE DEF got, words, length, final, real
<1>5. ASSUME NEW n \in 1..final, n \notin real
      PROVE  /\ base(n) \in Nat /\ base(n) =< length
             /\ before(n) # {} => Max(before(n)) \in Nat /\ Max(before(n)) =< n
             /\ after(n) = {} => before(n) # {}
  <2> DEFINE b == before(n)
             c == after(n)
  <2>1. /\ b \in SUBSET Nat /\ c \in SUBSET Nat /\ b \subseteq 1..Len(words)
        /\ c \subseteq 1..Len(words) /\ (\A m \in b : m =< n) /\ n \in Nat
    <3>1. n \in Nat BY <1>2
    <3>2. b \subseteq real /\ c \subseteq real /\ \A m \in b : m < n OBVIOUS
    <3>3. real \subseteq Nat BY <1>2, <1>4
    <3> HIDE DEF b, c
    <3>4. b \in SUBSET Nat /\ c \in SUBSET Nat BY <3>2, <3>3
    <3>5. \A m \in b : m =< n BY <3>1, <3>2, <3>4
    <3>6. b \subseteq 1..Len(words) /\ c \subseteq 1..Len(words) BY <1>4, <3>2
    <3> QED BY <3>1, <3>4, <3>5, <3>6
  <2>2. b # {} \/ c # {}
    <3>1. PICK m \in real : TRUE BY <1>3
    <3>2. m \in Nat /\ n \in Nat /\ m # n BY <1>4, <1>5, <1>2, <3>1
    <3>3. m < n \/ m > n BY <3>2
    <3> QED BY <3>1, <3>3
  <2>8. b = before(n) /\ c = after(n) OBVIOUS
  <2> HIDE DEF b, c
  <2>3. b # {} => Max(b) \in b BY <2>1, MaxIs
  <2>4. c # {} => Min(c) \in c BY <2>1, MinIs
  <2>5. CASE b # {}
    <3>1. Max(b) \in 1..Len(words) /\ Max(b) \in Nat /\ Max(b) =< n BY <2>1, <2>3, <2>5
    <3>2. base(n) = words[Max(b)].end BY <2>5, <2>8
    <3>3. base(n) \in Nat /\ base(n) =< length BY <1>2, <3>1, <3>2
    <3> HIDE DEF base, before, after
    <3> QED BY <2>8, <3>1, <3>3, <2>5
  <2>6. CASE b = {}
    <3>1. Min(c) \in 1..Len(words) BY <2>1, <2>2, <2>4, <2>6
    <3>2. base(n) = words[Min(c)].start BY <2>6, <2>8
    <3> DEFINE w == words[Min(c)]
    <3>3. w.start \in Nat /\ w.end \in Nat /\ w.start < w.end /\ w.end =< length BY <1>2, <3>1
    <3> HIDE DEF w
    <3>4. w.start =< length BY <3>3, <1>2
    <3>5. base(n) \in Nat /\ base(n) =< length BY <3>2, <3>3, <3>4 DEF w
    <3> HIDE DEF base, before, after
    <3> QED BY <2>2, <2>6, <2>8, <3>5
  <2> QED BY <2>5, <2>6
<1> HIDE DEF before, after, base
<1>6. ASSUME NEW n \in 1..final, n \notin real
      PROVE  base(n) \in Nat /\ end(n) \in Nat /\ base(n) =< end(n) /\ end(n) =< length
  <2>1. guess(n) \in Nat /\ base(n) =< guess(n)
    <3>1. CASE after(n) = {} /\ far
      <4> DEFINE steps == n - Max(before(n))
      <4>4. Max(before(n)) \in Nat /\ Max(before(n)) =< n BY <1>5, <1>6, <3>1
      <4>5. n \in Nat BY <1>2
      <4>1. steps \in Nat BY <4>4, <4>5
      <4> HIDE DEF steps
      <4>2. Reach * steps \in Nat BY <4>1, AlignAssumption DEF AlignAssumption
      <4>3. guess(n) = base(n) + Reach * steps BY <3>1 DEF steps
      <4> HIDE DEF guess
      <4> QED BY <4>2, <4>3, <1>5, <1>6
    <3>2. CASE ~(after(n) = {} /\ far) BY <3>2, <1>5, <1>6
    <3> QED BY <3>1, <3>2
  <2> DEFINE g == guess(n)
  <2>2. base(n) \in Nat /\ base(n) =< length BY <1>5, <1>6
  <2>4. g \in Nat /\ base(n) =< g BY <2>1
  <2> HIDE DEF g, guess
  <2>6. g \in Int /\ length \in Int BY <1>2, <2>4
  <2>3. Min({g, length}) = IF g =< length THEN g ELSE length BY <2>6, LesserOfTwo
  <2>5. end(n) = Min({g, length}) BY DEF g
  <2> HIDE DEF end
  <2> QED BY <2>2, <2>3, <2>4, <2>5, <1>2
<1> HIDE DEF end, guess
<1>7. ASSUME NEW j \in 1..k
      PROVE  /\ got[j] \in Stamps /\ got[j].word = next + j - 1
             /\ got[j].start =< got[j].end /\ got[j].end =< length
             /\ words[next + j - 1].known => got[j].end = words[next + j - 1].end
  <2> DEFINE n == next + j - 1
  <2>1. n \in 1..final /\ n \in 1..Len(words) /\ n \in Nat /\ n \in next..final
    BY <1>2 DEF final
  <2>2. CASE n \in real
    <3> DEFINE x == words[n].start
               y == words[n].end
               really == TRUE
    <3>1. got[j] = Stamp(n, x, y, really) BY <1>1, <2>2
    <3>2. x \in Nat /\ y \in Nat /\ x < y /\ y =< length /\ really \in BOOLEAN BY <1>2, <2>1
    <3>4. words[n].end = y OBVIOUS
    <3> HIDE DEF n, x, y, really
    <3>5. n \in Nat /\ x \in Nat /\ y \in Nat /\ really \in BOOLEAN BY <2>1, <3>2
    <3>6. /\ Stamp(n, x, y, really) \in Stamps /\ Stamp(n, x, y, really).word = n
          /\ Stamp(n, x, y, really).start = x /\ Stamp(n, x, y, really).end = y
      BY <3>5 DEF Stamp, Stamps
    <3>3. got[j] \in Stamps /\ got[j].word = n /\ got[j].start = x /\ got[j].end = y
      BY <3>1, <3>6
    <3> QED BY <3>2, <3>3, <3>4 DEF n
  <2>3. CASE n \notin real
    <3> DEFINE x == base(n)
               y == end(n)
               really == FALSE
    <3>1. got[j] = Stamp(n, x, y, really) BY <1>1, <2>3
    <3>2. x \in Nat /\ y \in Nat /\ x =< y /\ y =< length /\ really \in BOOLEAN
      BY <1>6, <2>1, <2>3
    <3>4. ~words[n].known BY <1>9, <2>1, <2>3
    <3> HIDE DEF n, x, y, really
    <3>5. n \in Nat /\ x \in Nat /\ y \in Nat /\ really \in BOOLEAN BY <2>1, <3>2
    <3>6. /\ Stamp(n, x, y, really) \in Stamps /\ Stamp(n, x, y, really).word = n
          /\ Stamp(n, x, y, really).start = x /\ Stamp(n, x, y, really).end = y
      BY <3>5 DEF Stamp, Stamps
    <3>3. got[j] \in Stamps /\ got[j].word = n /\ got[j].start = x /\ got[j].end = y
      BY <3>1, <3>6
    <3> QED BY <3>2, <3>3, <3>4 DEF n
  <2> QED BY <2>2, <2>3
<1>8. got \in Seq(Stamps) /\ Len(got) = k
  <2>1. \A j \in 1..k : got[j] \in Stamps BY <1>7
  <2>2. got = [j \in 1..k |-> got[j]] BY <1>1
  <2>3. got \in [1..k -> Stamps] BY <2>1, <2>2
  <2> QED BY <2>1, <2>3
<1> QED BY <1>7, <1>8 DEF PieceIs, got, words, length

LEMMA PartOfPiece ==
  ASSUME NEW got, NEW next \in Nat, NEW k \in Nat, NEW length \in Nat,
         PieceIs(got, next, k, length), NEW u \in 1..k
  PROVE  PieceIs(SubSeq(got, 1, u), next, u, length)
<1> DEFINE part == SubSeq(got, 1, u)
<1>1. got \in Seq(Stamps) /\ Len(got) = k /\ u \in Nat /\ 1 =< u /\ u =< k BY DEF PieceIs
<1>2. /\ part \in Seq(Stamps) /\ Len(part) = u /\ \A j \in 1..u : part[j] = got[j] BY <1>1
<1>3. \A j \in 1..u : j \in 1..k BY <1>1
<1> HIDE DEF part
<1> QED BY <1>2, <1>3 DEF PieceIs, part

\* Stamps are put behind those there are, each where the ones before it allow.
LEMMA ExtendsIs ==
  ASSUME NEW all, NEW new, NEW k \in Nat, NEW length \in Nat,
         Ordered(all, length), PieceIs(new, Len(all) + 1, k, length)
  PROVE  Ordered(Extends(all, new), length) /\ Len(Extends(all, new)) = Len(all) + k
<1> DEFINE m == Len(all)
           ended(j) == {all[i].end : i \in {Len(all)} \ {0}} \cup {new[i].end : i \in 1..(j - 1)}
           x(j) == Max({new[j].start} \cup ended(j))
           y(j) == Max({new[j].end} \cup ended(j))
           run == [j \in 1..k |-> [new[j] EXCEPT !.start = x(j), !.end = y(j)]]
<1>1. /\ all \in Seq(Stamps) /\ m \in Nat /\ new \in Seq(Stamps) /\ Len(new) = k
      /\ \A i \in 1..m : all[i].end =< length
      /\ \A j \in 1..k : /\ new[j].word = m + 1 + j - 1 /\ new[j].start =< new[j].end
                         /\ new[j].end =< length
  BY DEF Ordered, PieceIs
<1>2. Extends(all, new) = all \o run BY <1>1 DEF Extends
<1>3. /\ \A i \in 1..m : all[i].end \in Nat
      /\ \A j \in 1..k : new[j] \in Stamps /\ new[j].start \in Nat /\ new[j].end \in Nat
  <2>1. \A i \in 1..m : all[i] \in Stamps BY <1>1
  <2>2. \A j \in 1..k : new[j] \in Stamps BY <1>1
  <2> QED BY <2>1, <2>2 DEF Stamps
<1>4. ASSUME NEW j \in 1..k
      PROVE  /\ ended(j) \in SUBSET Nat /\ \A e \in ended(j) : e =< length
             /\ j > 1 => ended(j) = {new[j - 1].end} \cup ended(j - 1)
             /\ j = 1 /\ m > 0 => all[m].end \in ended(j)
  <2>1. m > 0 => m \in 1..m BY <1>1
  <2>2. {m} \ {0} \subseteq 1..m BY <1>1
  <2>3. 1..(j - 1) \subseteq 1..k BY <1>1
  <2>4. ended(j) \in SUBSET Nat /\ \A e \in ended(j) : e =< length BY <1>1, <1>3, <2>2, <2>3
  <2>5. j > 1 => ended(j) = {new[j - 1].end} \cup ended(j - 1)
    <3> SUFFICES ASSUME j > 1 PROVE ended(j) = {new[j - 1].end} \cup ended(j - 1) OBVIOUS
    <3>1. 1..(j - 1) = {j - 1} \cup 1..((j - 1) - 1) OBVIOUS
    <3> QED BY <3>1
  <2>6. m > 0 => all[m].end \in ended(j) BY <2>1
  <2> QED BY <2>4, <2>5, <2>6
<1>12. Ordered(all, length) /\ m = Len(all) OBVIOUS
<1> HIDE DEF m, ended
<1>5. ASSUME NEW j \in 1..k
      PROVE  /\ x(j) \in Nat /\ y(j) \in Nat /\ x(j) =< y(j) /\ y(j) =< length
             /\ \A e \in ended(j) : e =< x(j)
  <2> DEFINE E == ended(j)
             p == new[j].start
             q == new[j].end
             X == {p} \cup E
             Y == {q} \cup E
  <2>1. p \in Nat /\ q \in Nat /\ p =< q /\ q =< length BY <1>1, <1>3
  <2>2. E \in SUBSET Nat /\ \A e \in E : e =< length BY <1>4
  <2>6. x(j) = Max(X) /\ y(j) = Max(Y) OBVIOUS
  <2> HIDE DEF E, p, q
  <2>3. /\ X \in SUBSET Nat /\ Y \in SUBSET Nat /\ X # {} /\ Y # {}
        /\ (\A e \in X : e =< length) /\ (\A e \in Y : e =< length)
    BY <2>1, <2>2
  <2> HIDE DEF X, Y
  <2>4. Max(X) \in X /\ \A e \in X : Max(X) >= e BY <2>3, MaxIs
  <2>5. Max(Y) \in Y /\ \A e \in Y : Max(Y) >= e BY <2>3, MaxIs
  <2>7. Max(X) \in Nat /\ Max(Y) \in Nat /\ Max(Y) =< length BY <2>3, <2>4, <2>5
  <2>8. Max(X) =< Max(Y)
    <3> DEFINE gx == Max(X)
               gy == Max(Y)
    <3>1. gx = p \/ gx \in E BY <2>4 DEF X
    <3>2. q \in Y /\ E \subseteq Y BY DEF Y
    <3>3. gx \in Nat /\ gy \in Nat /\ \A e \in Y : gy >= e BY <2>5, <2>7
    <3> HIDE DEF gx, gy
    <3>4. CASE gx = p
      <4>1. gy >= q BY <3>2, <3>3
      <4> QED BY <4>1, <3>3, <3>4, <2>1 DEF gx, gy
    <3>5. CASE gx \in E
      <4>1. gy >= gx BY <3>2, <3>3, <3>5
      <4> QED BY <4>1, <3>3 DEF gx, gy
    <3> QED BY <3>1, <3>4, <3>5
  <2>9. \A e \in E : e =< Max(X)
    <3>1. E \subseteq X BY DEF X
    <3> QED BY <2>2, <2>4, <2>7, <3>1
  <2> HIDE DEF x, y
  <2> QED BY <2>6, <2>7, <2>8, <2>9 DEF E
<1>13. ASSUME NEW j \in 1..k, j > 1 PROVE x(j) >= y(j - 1)
  <2>1. j - 1 \in 1..k BY <1>13
  <2>2. ended(j) = {new[j - 1].end} \cup ended(j - 1) BY <1>4, <1>13
  <2> DEFINE E == {new[j - 1].end} \cup ended(j - 1)
  <2>3. y(j - 1) = Max(E) OBVIOUS
  <2>4. E \in SUBSET Nat /\ E # {} /\ \A e \in E : e =< length BY <2>2, <1>4
  <2> HIDE DEF E
  <2>5. Max(E) \in E BY <2>4, MaxIs
  <2>6. y(j - 1) \in ended(j) BY <2>2, <2>3, <2>5 DEF E
  <2>7. y(j - 1) =< x(j) /\ x(j) \in Nat /\ y(j - 1) \in Nat BY <1>5, <2>1, <2>6
  <2> HIDE DEF x, y
  <2> QED BY <2>7
<1> HIDE DEF x, y
<1>6. ASSUME NEW j \in 1..k
      PROVE  /\ run[j] \in Stamps /\ run[j].word = m + 1 + j - 1
             /\ run[j].start = x(j) /\ run[j].end = y(j)
  <2>1. new[j] \in Stamps /\ new[j].word = m + 1 + j - 1 BY <1>1, <1>3
  <2>2. x(j) \in Nat /\ y(j) \in Nat BY <1>5
  <2>3. run[j] = [new[j] EXCEPT !.start = x(j), !.end = y(j)] OBVIOUS
  <2> HIDE DEF run
  <2> QED BY <2>1, <2>2, <2>3 DEF Stamps
<1>7. run \in Seq(Stamps) /\ Len(run) = k
  <2>1. \A j \in 1..k : run[j] \in Stamps BY <1>6
  <2>2. run = [j \in 1..k |-> run[j]] OBVIOUS
  <2> HIDE DEF run
  <2>3. run \in [1..k -> Stamps] BY <2>1, <2>2
  <2> QED BY <2>3
<1> HIDE DEF run
<1>8. ASSUME NEW j \in 1..k
      PROVE  /\ run[j].word = m + 1 + j - 1
             /\ 0 =< run[j].start /\ run[j].start =< run[j].end /\ run[j].end =< length
             /\ j > 1 => run[j - 1].end =< run[j].start
  <2>1. j > 1 => j - 1 \in 1..k OBVIOUS
  <2>2. j > 1 => run[j - 1].end = y(j - 1) BY <1>6, <2>1
  <2>3. j > 1 => y(j - 1) =< x(j)
    <3> SUFFICES ASSUME j > 1 PROVE y(j - 1) =< x(j) OBVIOUS
    <3>1. x(j) >= y(j - 1) BY <1>13
    <3>2. x(j) \in Nat /\ y(j - 1) \in Nat BY <1>5, <2>1
    <3> QED BY <3>1, <3>2
  <2>4. /\ run[j].word = m + 1 + j - 1 /\ run[j].start = x(j) /\ run[j].end = y(j)
    BY <1>6
  <2>5. /\ 0 =< x(j) /\ x(j) =< y(j) /\ y(j) =< length BY <1>5
  <2> QED BY <2>2, <2>3, <2>4, <2>5
<1>9. IsRun(run, m + 1, k, 0, length) BY <1>7, <1>8 DEF IsRun
<1>10. m > 0 /\ k > 0 => all[m].end =< run[1].start
  <2> SUFFICES ASSUME m > 0, k > 0 PROVE all[m].end =< run[1].start OBVIOUS
  <2>1. 1 \in 1..k OBVIOUS
  <2>2. all[m].end \in ended(1) BY <1>4, <2>1
  <2> QED BY <1>5, <1>6, <2>1, <2>2
<1>11. Ordered(all \o run, length) /\ Len(all \o run) = Len(all) + k
  BY <1>9, <1>10, <1>12, RunGoesOn
<1> QED BY <1>2, <1>11

-----------------------------------------------------------------------------

Windows == [first : Nat, last : Nat, from : Nat, to : Nat, depth : Nat]

\* The windows that are left follow one another, in words and in time, to the last of
\* n words.
Queue(q, n, length) ==
  /\ q \in Seq(Windows)
  /\ \A i \in 1..Len(q) : /\ q[i].first =< q[i].last /\ q[i].last =< n
                          /\ q[i].from =< q[i].to /\ q[i].to =< length
  /\ \A i \in 1..(Len(q) - 1) :
       q[i + 1].first = q[i].last + 1 /\ q[i].to =< q[i + 1].from
  /\ q # << >> => q[Len(q)].last = n

LEMMA QueueTail ==
  ASSUME NEW q, NEW n \in Nat, NEW length \in Nat, Queue(q, n, length), q # << >>
  PROVE  /\ Queue(Tail(q), n, length) /\ q[1] \in Windows /\ Head(q) = q[1]
         /\ q[1].first =< q[1].last /\ q[1].last =< n
         /\ q[1].from =< q[1].to /\ q[1].to =< length
         /\ IF Tail(q) = << >> THEN q[1].last = n
            ELSE Tail(q)[1].first = q[1].last + 1 /\ q[1].to =< Tail(q)[1].from
                 /\ Tail(q)[1].from \in Nat
<1> DEFINE r == Tail(q)
           m == Len(q)
<1>1. q \in Seq(Windows) /\ m \in Nat \ {0} /\ Head(q) = q[1] BY DEF Queue
<1>2. r \in Seq(Windows) /\ Len(r) = m - 1 /\ \A i \in 1..(m - 1) : r[i] = q[i + 1]
  BY <1>1
<1>3. /\ \A i \in 1..m : /\ q[i].first =< q[i].last /\ q[i].last =< n
                        /\ q[i].from =< q[i].to /\ q[i].to =< length
      /\ \A i \in 1..(m - 1) : q[i + 1].first = q[i].last + 1 /\ q[i].to =< q[i + 1].from
      /\ q[m].last = n
  BY DEF Queue
<1>4. 1 \in 1..m /\ q[1] \in Windows BY <1>1
<1> HIDE DEF r, m
<1>5. r = << >> <=> m = 1
  <2>1. r = << >> <=> Len(r) = 0 BY <1>2, EmptySeq
  <2> QED BY <1>1, <1>2, <2>1
<1>6. ASSUME NEW i \in 1..(m - 1)
      PROVE  r[i].first =< r[i].last /\ r[i].last =< n /\ r[i].from =< r[i].to /\ r[i].to =< length
  <2>1. i + 1 \in 1..m BY <1>1
  <2> QED BY <1>2, <1>3, <2>1
<1>7. ASSUME NEW i \in 1..(m - 1 - 1)
      PROVE  r[i + 1].first = r[i].last + 1 /\ r[i].to =< r[i + 1].from
  <2>1. i + 1 \in 1..(m - 1) /\ i \in 1..(m - 1) BY <1>1
  <2> QED BY <1>2, <1>3, <2>1
<1>8. r # << >> => r[m - 1].last = n
  <2> SUFFICES ASSUME r # << >> PROVE r[m - 1].last = n OBVIOUS
  <2>1. m - 1 \in 1..(m - 1) /\ m - 1 + 1 = m BY <1>1, <1>5
  <2> QED BY <1>2, <1>3, <2>1
<1>9. Queue(r, n, length) BY <1>2, <1>6, <1>7, <1>8 DEF Queue
<1>10. IF r = << >> THEN q[1].last = n
       ELSE r[1].first = q[1].last + 1 /\ q[1].to =< r[1].from /\ r[1].from \in Nat
  <2>1. r = << >> => q[1].last = n BY <1>3, <1>5
  <2>2. ASSUME r # << >>
        PROVE  r[1].first = q[1].last + 1 /\ q[1].to =< r[1].from /\ r[1].from \in Nat
    <3>1. 1 \in 1..(m - 1) /\ 1 + 1 = 2 BY <1>1, <1>5, <2>2
    <3>2. r[1] = q[2] /\ q[2].first = q[1].last + 1 /\ q[1].to =< q[2].from
      BY <1>2, <1>3, <3>1
    <3>3. r[1] \in Windows BY <1>2, <3>1
    <3> QED BY <3>2, <3>3 DEF Windows
  <2> QED BY <2>1, <2>2
<1> QED BY <1>1, <1>3, <1>4, <1>9, <1>10 DEF r

\* The first window is replaced by two that meet.
LEMMA QueueSplit ==
  ASSUME NEW q, NEW n \in Nat, NEW length \in Nat, Queue(q, n, length), q # << >>,
         NEW a \in Windows, NEW b \in Windows,
         a.first =< a.last, b.first = a.last + 1, b.first =< b.last, b.last = q[1].last,
         a.from =< a.to, a.to =< b.from, b.from =< b.to, b.to = q[1].to
  PROVE  Queue(<<a, b>> \o Tail(q), n, length) /\ (<<a, b>> \o Tail(q))[1] = a
         /\ <<a, b>> \o Tail(q) # << >>
<1> DEFINE r == Tail(q)
           two == <<a, b>>
           w == two \o r
           m == Len(r)
<1>1. /\ Queue(r, n, length) /\ q[1].to =< length /\ q[1].to \in Nat
      /\ IF r = << >> THEN q[1].last = n
         ELSE r[1].first = q[1].last + 1 /\ q[1].to =< r[1].from
  <2>1. q[1] \in Windows BY QueueTail
  <2> QED BY <2>1, QueueTail DEF Windows
<1>2. /\ r \in Seq(Windows) /\ m \in Nat
      /\ \A i \in 1..m : /\ r[i].first =< r[i].last /\ r[i].last =< n
                        /\ r[i].from =< r[i].to /\ r[i].to =< length
      /\ \A i \in 1..(m - 1) : r[i + 1].first = r[i].last + 1 /\ r[i].to =< r[i + 1].from
      /\ r # << >> => r[m].last = n
  BY <1>1 DEF Queue
<1>3. two \in Seq(Windows) /\ Len(two) = 2 /\ two[1] = a /\ two[2] = b OBVIOUS
<1> HIDE DEF two, r
<1>4. r = << >> <=> m = 0 BY <1>2, EmptySeq
<1>5. /\ w \in Seq(Windows) /\ Len(w) = 2 + m
      /\ \A i \in 1..(2 + m) : w[i] = IF i =< 2 THEN two[i] ELSE r[i - 2]
  <2>1. /\ two \o r \in Seq(Windows) /\ Len(two \o r) = Len(two) + Len(r)
        /\ \A i \in 1..(Len(two) + Len(r)) :
             (two \o r)[i] = IF i =< Len(two) THEN two[i] ELSE r[i - Len(two)]
    BY <1>2, <1>3, ConcatProperties
  <2>2. Len(two) = 2 /\ Len(r) = m BY <1>3
  <2> HIDE DEF m
  <2> QED BY <2>1, <2>2
<1> HIDE DEF w, m
<1>6. w[1] = a /\ w[2] = b /\ \A i \in 1..m : w[i + 2] = r[i]
  <2>1. 1 \in 1..(2 + m) /\ 2 \in 1..(2 + m) BY <1>2
  <2>2. ASSUME NEW i \in 1..m PROVE w[i + 2] = r[i]
    <3>1. i + 2 \in 1..(2 + m) /\ ~(i + 2 =< 2) /\ (i + 2) - 2 = i BY <1>2
    <3> QED BY <1>5, <3>1
  <2> QED BY <1>3, <1>5, <2>1, <2>2
<1>7. a.to =< length /\ b.to =< length /\ a.last =< n /\ b.last =< n
  <2>1. /\ a.to \in Nat /\ b.from \in Nat /\ b.to \in Nat
        /\ a.last \in Nat /\ b.first \in Nat /\ b.last \in Nat
    BY DEF Windows
  <2>2. b.last =< n /\ q[1].to =< length BY QueueTail
  <2> QED BY <2>1, <2>2
<1>8. ASSUME NEW i \in 1..(2 + m)
      PROVE  w[i].first =< w[i].last /\ w[i].last =< n /\ w[i].from =< w[i].to /\ w[i].to =< length
  <2>1. CASE i = 1 BY <2>1, <1>6, <1>7
  <2>2. CASE i = 2 BY <2>2, <1>6, <1>7
  <2>3. CASE i > 2
    <3> DEFINE h == i - 2
    <3>1. h \in 1..m /\ h + 2 = i BY <1>2, <2>3
    <3> HIDE DEF h
    <3>2. w[i] = r[h] BY <1>6, <3>1
    <3> QED BY <1>2, <3>1, <3>2
  <2> QED BY <2>1, <2>2, <2>3
<1>9. ASSUME NEW i \in 1..((2 + m) - 1)
      PROVE  w[i + 1].first = w[i].last + 1 /\ w[i].to =< w[i + 1].from
  <2>1. CASE i = 1
    <3>1. w[i] = a /\ w[i + 1] = b BY <2>1, <1>6
    <3> QED BY <3>1
  <2>2. CASE i = 2
    <3>1. 1 \in 1..m /\ r # << >> BY <1>2, <1>4, <2>2
    <3>2. w[i] = b /\ w[i + 1] = r[1] BY <2>2, <1>6, <3>1
    <3> QED BY <3>1, <3>2, <1>1
  <2>3. CASE i > 2
    <3> DEFINE h == i - 2
    <3>1. h \in 1..m /\ h + 2 = i /\ h \in 1..(m - 1) /\ h + 1 \in 1..m /\ (h + 1) + 2 = i + 1
      BY <1>2, <2>3
    <3> HIDE DEF h
    <3>2. w[i] = r[h] /\ w[i + 1] = r[h + 1] BY <1>6, <3>1
    <3> QED BY <1>2, <3>1, <3>2
  <2> QED BY <2>1, <2>2, <2>3
<1>10. w[2 + m].last = n
  <2>1. CASE m = 0
    <3>1. w[2 + m] = b BY <1>6, <2>1
    <3> QED BY <1>1, <1>4, <2>1, <3>1
  <2>2. CASE m > 0
    <3>1. m \in 1..m /\ m + 2 = 2 + m /\ r # << >> BY <1>2, <1>4, <2>2
    <3>2. w[2 + m] = r[m] BY <1>6, <3>1
    <3> QED BY <1>2, <3>1, <3>2
  <2> QED BY <2>1, <2>2, <1>2
<1>11. w # << >>
  <2>1. Len(w) # 0 BY <1>2, <1>5
  <2>2. w = << >> => Len(w) = 0 OBVIOUS
  <2> QED BY <2>1, <2>2
<1>12. Queue(w, n, length)
  <2> DEFINE size == Len(w)
  <2>1. size = 2 + m BY <1>5
  <2> HIDE DEF size
  <2>2. \A i \in 1..size : /\ w[i].first =< w[i].last /\ w[i].last =< n
                          /\ w[i].from =< w[i].to /\ w[i].to =< length
    BY <1>8, <2>1
  <2>3. \A i \in 1..(size - 1) : w[i + 1].first = w[i].last + 1 /\ w[i].to =< w[i + 1].from
    BY <1>9, <2>1
  <2>4. w[size].last = n BY <1>10, <2>1
  <2> QED BY <1>5, <2>2, <2>3, <2>4 DEF Queue, size
<1> QED BY <1>6, <1>11, <1>12 DEF w, two, r

\* Whatever is placed so far is in order, and goes as far as what is still to be
\* placed; a piece of a prefix begins before its first word is spoken.
WholeInv ==
  /\ Queue(todo, Len(task.words), task.length)
  /\ verdict # "running" => todo = << >>
  /\ IF todo = << >>
     THEN Ordered(stamps, task.length) /\ Len(stamps) = Len(task.words)
     ELSE Ordered(stamps, todo[1].from) /\ Len(stamps) + 1 = todo[1].first

PieceInv ==
  /\ Ordered(stamps, task.length)
  /\ IF verdict = "running"
     THEN /\ piece.next \in 1..Len(task.words) /\ Len(stamps) + 1 = piece.next
          /\ piece.from \in Nat /\ piece.from =< task.words[piece.next].start
     ELSE Len(stamps) = Len(task.words)

AlignInv ==
  /\ task \in Tasks
  /\ IF task.prefix THEN PieceInv ELSE WholeInv

LEMMA AlignInvInit == AlignInit => AlignInv
<1> SUFFICES ASSUME AlignInit PROVE AlignInv OBVIOUS
<1> DEFINE n == Len(task.words)
           w == [first |-> 1, last |-> n, from |-> 0, to |-> task.length, depth |-> 0]
<1>1. /\ task \in Tasks /\ stamps = << >> /\ verdict = "running" /\ todo = <<w>>
      /\ piece = [next |-> 1, from |-> 0, count |-> 0]
  BY DEF AlignInit
<1>2. n \in Nat \ {0} /\ task.length \in Nat /\ task.words[1].start \in Nat
  <2>1. n \in Nat \ {0} /\ task.length \in Nat BY <1>1, TaskIs
  <2>2. 1 \in 1..n BY <2>1
  <2> QED BY <1>1, <2>1, <2>2, TaskIs
<1> HIDE DEF n
<1>3. \A to : Ordered(stamps, to) BY <1>1 DEF Ordered
<1>4. w \in Windows /\ w.first = 1 /\ w.last = n /\ w.from = 0 /\ w.to = task.length
  BY <1>2 DEF Windows
<1>5. PieceInv
  <2>1. piece.next = 1 /\ piece.from = 0 /\ Len(stamps) = 0 BY <1>1
  <2>2. 1 \in 1..n BY <1>2
  <2> QED BY <1>1, <1>2, <1>3, <2>1, <2>2 DEF PieceInv, n
<1> HIDE DEF w
<1>6. WholeInv
  <2>1. todo \in Seq(Windows) /\ Len(todo) = 1 /\ todo[1] = w /\ todo # << >> BY <1>1, <1>4
  <2>2. Queue(todo, n, task.length) BY <2>1, <1>2, <1>4 DEF Queue
  <2>3. Len(stamps) + 1 = 1 BY <1>1
  <2> QED BY <1>1, <1>3, <1>4, <2>1, <2>2, <2>3 DEF WholeInv, n
<1> QED BY <1>1, <1>5, <1>6 DEF AlignInv

\* The first window gets its stamps.
LEMMA WindowIsPlaced ==
  ASSUME AlignInv, ~task.prefix, todo # << >>, NEW run,
         LET w == todo[1] IN IsRun(run, w.first, w.last - w.first + 1, w.from, w.to),
         stamps' = stamps \o run, todo' = Tail(todo), UNCHANGED <<task, piece, verdict>>
  PROVE  AlignInv'
<1> DEFINE n == Len(task.words)
           length == task.length
           q == todo
           w == q[1]
           r == Tail(q)
           k == w.last - w.first + 1
<1>1. n \in Nat /\ length \in Nat /\ task \in Tasks BY TaskIs DEF AlignInv
<1>2. /\ Queue(q, n, length) /\ (verdict # "running" => q = << >>)
      /\ Ordered(stamps, w.from) /\ Len(stamps) + 1 = w.first
  BY DEF AlignInv, WholeInv
<1>3. w \in Windows BY <1>1, <1>2, QueueTail
<1>4. w.first \in Nat /\ w.last \in Nat /\ w.from \in Nat /\ w.to \in Nat BY <1>3 DEF Windows
<1>5. /\ Queue(r, n, length) /\ w.first =< w.last /\ w.from =< w.to /\ w.to =< length
      /\ IF r = << >> THEN w.last = n
         ELSE r[1].first = w.last + 1 /\ w.to =< r[1].from /\ r[1].from \in Nat
  BY <1>1, <1>2, QueueTail
<1>6. IsRun(run, Len(stamps) + 1, k, w.from, w.to) BY <1>2
<1>7. k \in Nat BY <1>4, <1>5
<1>8. Len(stamps) + k = w.last
  <2>1. Len(stamps) \in Nat BY <1>2 DEF Ordered
  <2>2. Len(stamps) + 1 = w.first /\ k = w.last - w.first + 1 BY <1>2
  <2> DEFINE l == Len(stamps)
             x == w.first
             y == w.last
  <2>3. l \in Nat /\ x \in Nat /\ y \in Nat /\ l + 1 = x /\ k = y - x + 1
    BY <2>1, <2>2, <1>4
  <2> HIDE DEF l, x, y, k
  <2>4. l + k = y BY <2>3
  <2> QED BY <2>4 DEF l, y
<1>9. w.from =< w.to BY <1>5
<1>15. todo' = r /\ stamps' = stamps \o run /\ task' = task /\ verdict' = verdict OBVIOUS
<1>16. verdict = "running" BY <1>2
<1> DEFINE from == w.from
           to == w.to
<1>10. from \in Nat /\ to \in Nat /\ from =< to BY <1>4, <1>5
<1>11. Ordered(stamps, from) /\ IsRun(run, Len(stamps) + 1, k, from, to) BY <1>2, <1>6
<1> HIDE DEF k, from, to
<1>12. Ordered(stamps \o run, to) /\ Len(stamps \o run) = Len(stamps) + k
  BY <1>7, <1>10, <1>11, RunAppended
<1>13. to =< length /\ (r # << >> => to =< r[1].from) BY <1>5 DEF to
<1> HIDE DEF q, w, r
<1>14. IF r = << >> THEN Ordered(stamps', length) /\ Len(stamps') = n
       ELSE Ordered(stamps', r[1].from) /\ Len(stamps') + 1 = r[1].first
  <2>1. CASE r = << >>
    <3>1. Ordered(stamps \o run, length) BY <1>1, <1>10, <1>12, <1>13, OrderedLater
    <3> QED BY <2>1, <3>1, <1>5, <1>8, <1>12, <1>15
  <2>2. CASE r # << >>
    <3> DEFINE b == r[1].from
    <3>1. b \in Nat /\ to =< b BY <2>2, <1>5, <1>13
    <3> HIDE DEF b
    <3>2. Ordered(stamps \o run, b) BY <1>10, <1>12, <3>1, OrderedLater
    <3>3. Ordered(stamps \o run, r[1].from) BY <3>2 DEF b
    <3> QED BY <2>2, <3>3, <1>5, <1>8, <1>12, <1>15
  <2> QED BY <2>1, <2>2
<1>17. WholeInv' BY <1>5, <1>14, <1>15, <1>16 DEF WholeInv, n, length
<1> QED BY <1>1, <1>15, <1>17 DEF AlignInv

\* The half of a number of words.
LEMMA HalfIs ==
  ASSUME NEW d \in Nat, d >= 2
  PROVE  d \div 2 \in 1..(d - 1)
OBVIOUS

\* The first window is cut in two, in its words and in its frames.
LEMMA WindowIsHalved ==
  ASSUME AlignInv, HalvesWindow
  PROVE  AlignInv'
<1> DEFINE n == Len(task.words)
           length == task.length
           q == todo
           w == Head(q)
           mid == w.first + (w.last - w.first + 1) \div 2 - 1
           share == ((w.to - w.from) * Targets(SubSeq(task.words, w.first, mid)))
                      \div Targets(WordsOf(w))
           cut(snap) == Min({Max({w.from + share + snap, w.from + 1}), w.to - 1})
           left(c) == [w EXCEPT !.last = mid, !.to = c, !.depth = @ + 1]
           right(c) == [w EXCEPT !.first = mid + 1, !.from = c, !.depth = @ + 1]
<1>1. /\ ~task.prefix /\ verdict = "running" /\ q # << >>
      /\ w.to - w.from >= MinWindow /\ w.last > w.first
      /\ UNCHANGED <<task, stamps, piece, verdict>>
  BY DEF HalvesWindow, Whole, MaySplit
<1>2. PICK snap \in -1..1 :
        todo' = << left(cut(snap)), right(cut(snap)) >> \o Tail(q)
  BY DEF HalvesWindow, SecondFrom
<1>3. /\ n \in Nat \ {0} /\ length \in Nat /\ task \in Tasks /\ task.words \in Seq(Spoken)
  BY TaskIs DEF AlignInv
<1>4. /\ Queue(q, n, length) /\ Ordered(stamps, q[1].from) /\ Len(stamps) + 1 = q[1].first
  BY <1>1 DEF AlignInv, WholeInv
<1>5. w = q[1] /\ w \in Windows /\ w.first =< w.last /\ w.last =< n /\ w.from =< w.to
  BY <1>1, <1>3, <1>4, QueueTail
<1>6. /\ w.first \in Nat /\ w.last \in Nat /\ w.from \in Nat /\ w.to \in Nat /\ w.depth \in Nat
      /\ w.first >= 1
  <2>1. Len(stamps) \in Nat BY <1>4 DEF Ordered
  <2> QED BY <1>4, <1>5, <2>1 DEF Windows
<1>7. mid \in Nat /\ w.first =< mid /\ mid + 1 =< w.last
  <2> DEFINE d == w.last - w.first + 1
             h == d \div 2
  <2>1. d \in Nat /\ d >= 2 BY <1>1, <1>6
  <2> HIDE DEF d
  <2>2. h \in 1..(d - 1) BY <2>1, HalfIs
  <2> HIDE DEF h
  <2>3. mid = w.first + h - 1 BY DEF h, d
  <2>4. d = w.last - w.first + 1 BY DEF d
  <2> HIDE DEF mid, w
  <2> QED BY <2>1, <2>2, <2>3, <2>4, <1>6
<1>8. share \in Int
  <2> DEFINE some == Targets(SubSeq(task.words, w.first, mid))
             all == Targets(WordsOf(w))
             a == (w.to - w.from) * some
  <2>1. /\ SubSeq(task.words, w.first, mid) \in Seq(Spoken) /\ WordsOf(w) \in Seq(Spoken)
        /\ Len(WordsOf(w)) > 0
    <3> DEFINE words == task.words
               from == w.first
               to == w.last
    <3>1. /\ words \in Seq(Spoken) /\ from \in Nat /\ 1 =< from /\ to \in Nat /\ to =< Len(words)
          /\ from =< to /\ mid \in Nat /\ mid =< Len(words) /\ from =< mid
      <4> HIDE DEF mid, w
      <4> QED BY <1>3, <1>5, <1>6, <1>7
    <3>2. WordsOf(w) = SubSeq(words, from, to) BY DEF WordsOf
    <3> HIDE DEF words, from, to, mid
    <3>3. SubSeq(words, from, mid) \in Seq(Spoken) BY <3>1
    <3>5. SubSeq(words, from, to) \in Seq(Spoken) BY <3>1
    <3>6. Len(SubSeq(words, from, to)) = to - from + 1 BY <3>1
    <3>4. /\ SubSeq(words, from, to) \in Seq(Spoken) /\ Len(SubSeq(words, from, to)) > 0
      BY <3>1, <3>5, <3>6
    <3> QED BY <3>1, <3>2, <3>3, <3>4 DEF words, from
  <2>2. some \in Nat BY <2>1, TargetsAre
  <2>3. all \in Nat \ {0}
    <3>1. WordsOf(w) # << >> BY <2>1
    <3> QED BY <2>1, <3>1, TargetsAre
  <2>4. share = a \div all OBVIOUS
  <2> HIDE DEF some, all, w, share
  <2>5. a \in Int BY <1>6, <2>2
  <2> HIDE DEF a
  <2> QED BY <2>3, <2>4, <2>5, DivIs
<1> DEFINE c == cut(snap)
<1>9. c \in (w.from + 1)..(w.to - 1) /\ c \in Nat
  <2> DEFINE near == w.from + share + snap
             from == w.from
             to == w.to
  <2>1. near \in Int
    <3> HIDE DEF share, w
    <3> QED BY <1>2, <1>6, <1>8
  <2>2. from \in Nat /\ to \in Nat BY <1>6
  <2>3. to >= from + 2
    <3>1. MinWindow \in Nat /\ MinWindow >= 2 BY AlignAssumption DEF AlignAssumption
    <3>2. to - from >= MinWindow BY <1>1
    <3> HIDE DEF from, to
    <3> QED BY <2>2, <3>1, <3>2
  <2>4. c = Min({Max({near, from + 1}), to - 1}) OBVIOUS
  <2> HIDE DEF near, c, from, to
  <2>5. c \in (from + 1)..(to - 1) BY <2>1, <2>2, <2>3, <2>4, CutIsInside
  <2>6. c \in Nat BY <2>2, <2>5
  <2> QED BY <2>5, <2>6 DEF from, to
<1>18. todo' = << left(c), right(c) >> \o Tail(q) BY <1>2
<1> HIDE DEF cut, c, share, mid
<1> DEFINE a == left(c)
           b == right(c)
           later == mid + 1
           deeper == w.depth + 1
<1>10. later \in Nat /\ deeper \in Nat BY <1>6, <1>7
<1>19. a = [w EXCEPT !.last = mid, !.to = c, !.depth = deeper]
       /\ b = [w EXCEPT !.first = later, !.from = c, !.depth = deeper]
  OBVIOUS
<1>20. q[1] = w /\ later = mid + 1 BY <1>5
<1> HIDE DEF w, a, b, later, deeper
<1>11. /\ a \in Windows /\ a.first = w.first /\ a.last = mid /\ a.from = w.from /\ a.to = c
       /\ b \in Windows /\ b.first = later /\ b.last = w.last /\ b.from = c /\ b.to = w.to
  BY <1>5, <1>7, <1>9, <1>10, <1>19 DEF Windows
<1>12. /\ a.first =< a.last /\ b.first = a.last + 1 /\ b.first =< b.last /\ b.last = q[1].last
       /\ a.from =< a.to /\ a.to =< b.from /\ b.from =< b.to /\ b.to = q[1].to
  BY <1>6, <1>7, <1>9, <1>11, <1>20
<1> DEFINE r == << a, b >> \o Tail(q)
<1>13. Queue(r, n, length) /\ r[1] = a /\ r # << >>
  <2> HIDE DEF n, length, q
  <2> QED BY <1>1, <1>3, <1>4, <1>11, <1>12, QueueSplit
<1>14. todo' = r BY <1>18 DEF a, b
<1>15. Ordered(stamps, r[1].from) /\ Len(stamps) + 1 = r[1].first
  BY <1>4, <1>11, <1>13, <1>20
<1>16. WholeInv' BY <1>1, <1>13, <1>14, <1>15 DEF WholeInv
<1> QED BY <1>1, <1>3, <1>16 DEF AlignInv

LEMMA RunIsOrdered ==
  ASSUME NEW run, NEW n \in Nat, NEW to, IsRun(run, 1, n, 0, to)
  PROVE  Ordered(run, to) /\ Len(run) = n
<1>1. \A k \in 1..n : 1 + k - 1 = k OBVIOUS
<1> QED BY <1>1 DEF IsRun, Ordered

\* All of a prefix is guessed.
LEMMA PrefixIsGiven ==
  ASSUME AlignInv, Prefix, Gives
  PROVE  AlignInv'
<1> DEFINE n == Len(task.words)
           length == task.length
           w == [first |-> 1, last |-> n, from |-> 0, to |-> length]
           run == Spread(w)
<1>1. n \in Nat \ {0} /\ length \in Nat /\ task \in Tasks /\ task.prefix
  BY TaskIs DEF AlignInv, Prefix
<1>2. stamps' = run /\ verdict' = "spread" /\ task' = task BY DEF Gives
<1> HIDE DEF n, length
<1>3. w.first = 1 /\ w.last = n /\ w.from = 0 /\ w.to = length OBVIOUS
<1> HIDE DEF w
<1>4. IsRun(run, w.first, w.last - w.first + 1, w.from, w.to) BY <1>1, <1>3, SpreadIsRun
<1> HIDE DEF run
<1>5. w.last - w.first + 1 = n BY <1>1, <1>3
<1>6. IsRun(run, 1, n, 0, length) BY <1>3, <1>4, <1>5
<1>7. n \in Nat BY <1>1
<1>8. Ordered(run, length) /\ Len(run) = n BY <1>6, <1>7, RunIsOrdered
<1>9. PieceInv' BY <1>2, <1>8 DEF PieceInv, n, length
<1> QED BY <1>1, <1>2, <1>9 DEF AlignInv

\* The next piece of a prefix is aligned, and the chain goes on after its last known
\* word, or ends with the words.
LEMMA PieceIsAligned ==
  ASSUME AlignInv, AlignsPiece
  PROVE  AlignInv'
<1> DEFINE n == Len(task.words)
           length == task.length
           words == task.words
           next == piece.next
           k == PieceLength(next, length - piece.from)
           j == ChainAfter(next, k)
<1>1. /\ n \in Nat \ {0} /\ length \in Nat /\ task \in Tasks /\ task.prefix
      /\ verdict = "running" /\ Prefix
  BY TaskIs DEF AlignInv, Prefix, AlignsPiece
<1>2. /\ Ordered(stamps, length) /\ next \in 1..n /\ Len(stamps) + 1 = next
      /\ piece.from \in Nat /\ piece.from =< words[next].start
  BY <1>1 DEF AlignInv, PieceInv
<1>3. k \in 0..(n - next + 1)
  <2>1. length - piece.from \in Int BY <1>1, <1>2
  <2> QED BY <1>1, <1>2, <2>1, PieceLengthIs
<1>4. j = LastReal(next, k) BY DEF ChainAfter
<1>5. CASE Gives BY <1>1, <1>5, PrefixIsGiven
<1>6. CASE ~Gives
  <2>1. LastReal(next, k) # 0 BY <1>6 DEF AlignsPiece
  <2>2. PICK far \in BOOLEAN :
          LET got == PieceStamps(next, k, far)
          IN  IF next + k > n
              THEN /\ stamps' = Extends(stamps, got) /\ verdict' = "aligned"
                   /\ UNCHANGED <<task, todo, piece>>
              ELSE LET used == j - next + 1
                       from == Min({Max({piece.from + 1, got[used].end - Backoff}), length})
                   IN  /\ stamps' = Extends(stamps, SubSeq(got, 1, used))
                       /\ piece' = [next |-> j + 1, from |-> from, count |-> piece.count + 1]
                       /\ UNCHANGED <<task, todo, verdict>>
    BY <1>6 DEF AlignsPiece
  <2> DEFINE got == PieceStamps(next, k, far)
  <2>3. next \in Nat \ {0} /\ k \in Nat /\ next + k - 1 =< n
    <3> HIDE DEF n, next, k
    <3> QED BY <1>1, <1>2, <1>3
  <2>4. /\ PieceIs(got, next, k, length)
        /\ \A i \in 1..k : words[next + i - 1].known => got[i].end = words[next + i - 1].end
    BY <1>1, <2>1, <2>3, PieceStampsAre
  <2>5. PieceIs(got, Len(stamps) + 1, k, length) BY <1>2, <2>4
  <2>6. CASE next + k > n
    <3>1. stamps' = Extends(stamps, got) /\ verdict' = "aligned" /\ task' = task BY <2>2, <2>6
    <3> HIDE DEF got, k, next, length, n
    <3>2. Ordered(Extends(stamps, got), length) /\ Len(Extends(stamps, got)) = Len(stamps) + k
      BY <1>1, <1>2, <2>3, <2>5, ExtendsIs
    <3>3. Len(stamps) + k = n
      <4>1. Len(stamps) \in Nat BY <1>2 DEF Ordered
      <4> QED BY <4>1, <1>1, <1>2, <2>3, <2>6
    <3>4. PieceInv' BY <3>1, <3>2, <3>3 DEF PieceInv, n, length
    <3> QED BY <1>1, <3>1, <3>4 DEF AlignInv
  <2>7. CASE ~(next + k > n)
    <3> DEFINE used == j - next + 1
               end == got[used].end
               from == Min({Max({piece.from + 1, end - Backoff}), length})
               part == SubSeq(got, 1, used)
    <3>1. /\ stamps' = Extends(stamps, part) /\ verdict' = verdict /\ task' = task
          /\ piece' = [next |-> j + 1, from |-> from, count |-> piece.count + 1]
      BY <2>2, <2>7
    <3>2. /\ j \in next..(next + k - 1) /\ words[j].known
      <4>1. LET real == {m \in next..(next + k - 1) : words[m].known}
            IN  IF real = {} THEN j = 0 ELSE j \in real
        BY <1>1, <1>4, <2>3, LastRealIs
      <4> QED BY <4>1, <1>4, <2>1
    <3>3. used \in 1..k /\ next + used - 1 = j /\ used \in Nat
      <4> HIDE DEF next, k, j
      <4> QED BY <2>3, <3>2
    <3>4. end = words[j].end BY <2>4, <3>2, <3>3
    <3>5. PieceIs(part, Len(stamps) + 1, used, length)
      <4> DEFINE after == Len(stamps) + 1
      <4>1. after \in Nat /\ PieceIs(got, after, k, length) BY <1>2, <2>3, <2>5
      <4> HIDE DEF after, got, k, length, used
      <4>2. PieceIs(part, after, used, length) BY <4>1, <1>1, <2>3, <3>3, PartOfPiece
      <4> QED BY <4>2 DEF after
    <3>6. Ordered(Extends(stamps, part), length) /\ Len(Extends(stamps, part)) = Len(stamps) + used
      <4> HIDE DEF part, used, length
      <4> QED BY <1>1, <1>2, <3>3, <3>5, ExtendsIs
    <3>7. Len(stamps) + used = j
      <4>1. Len(stamps) \in Nat BY <1>2 DEF Ordered
      <4> HIDE DEF next, k, j
      <4> QED BY <4>1, <1>2, <2>3, <3>2
    <3>8. j \in 1..n /\ j + 1 \in 1..n /\ next \in 1..n /\ next =< j /\ j < j + 1
      <4> HIDE DEF next, k, j, n
      <4> QED BY <1>1, <1>2, <2>3, <2>7, <3>2
    <3> DEFINE first == words[next]
               final == words[j]
               later == words[j + 1]
    <3>9. /\ first.start \in Nat /\ first.end \in Nat /\ first.start < first.end
          /\ final.end \in Nat /\ first.end =< final.end /\ later.start \in Nat
          /\ final.end =< later.start /\ later.start =< length
      <4>1. \A i \in 1..n : words[i].start \in Nat /\ words[i].end \in Nat BY <1>1, TaskIs
      <4>2. \A i, h \in 1..n :
              /\ words[i].start < words[i].end /\ words[i].end =< length
              /\ i < h => words[i].end =< words[h].start
        BY <1>1, SpeechIs
      <4>3. first.end =< final.end
        <5>1. next \in Nat /\ j \in Nat /\ (next = j \/ next < j) BY <2>3, <3>8
        <5>2. CASE next = j
          <6>1. final.end \in Nat /\ first = final BY <3>8, <4>1, <5>2
          <6> HIDE DEF first, final
          <6> QED BY <6>1
        <5>3. CASE next < j
          <6>1. first.end =< final.start /\ final.start < final.end BY <3>8, <4>2, <5>3
          <6>2. first.end \in Nat /\ final.start \in Nat /\ final.end \in Nat BY <3>8, <4>1
          <6> HIDE DEF first, final
          <6> QED BY <6>1, <6>2
        <5> QED BY <5>1, <5>2, <5>3
      <4>4. final.end =< later.start BY <3>8, <4>2
      <4>5. later.start < later.end /\ later.end =< length BY <3>8, <4>2
      <4>6. later.start \in Nat /\ later.end \in Nat BY <3>8, <4>1
      <4>7. later.start =< length BY <1>1, <4>5, <4>6
      <4> QED BY <3>8, <4>1, <4>2, <4>3, <4>4, <4>6, <4>7
    <3>10. from \in Nat /\ from =< later.start
      <4> DEFINE a == piece.from + 1
                 b == end - Backoff
                 m == Max({a, b})
      <4>1. /\ a \in Nat /\ b \in Int /\ a =< later.start /\ b =< later.start
        <5>1. Backoff \in Nat BY AlignAssumption DEF AlignAssumption
        <5>2. piece.from \in Nat /\ piece.from =< first.start /\ end = final.end BY <1>2, <3>4
        <5> HIDE DEF end, first, final, later
        <5> QED BY <3>9, <5>1, <5>2
      <4>7. later.start \in Nat /\ later.start =< length BY <3>9
      <4> HIDE DEF a, b
      <4>2. m = IF a >= b THEN a ELSE b BY <4>1, GreaterOfTwo
      <4>5. from = Min({m, length}) BY DEF a, b
      <4> HIDE DEF m, from, later, length
      <4>3. m \in Nat /\ m =< later.start BY <4>1, <4>2, <4>7
      <4>4. Min({m, length}) = IF m =< length THEN m ELSE length BY <1>1, <4>3, LesserOfTwo
      <4> QED BY <1>1, <4>3, <4>4, <4>5, <4>7
    <3>11. piece'.next = j + 1 /\ piece'.from = from BY <3>1
    <3>12. task'.words[piece'.next].start = later.start BY <3>1, <3>11
    <3> HIDE DEF from, part, j, n, used, later, length
    <3>13. piece'.next \in 1..n /\ Len(stamps') + 1 = piece'.next
           /\ piece'.from \in Nat /\ piece'.from =< task'.words[piece'.next].start
      BY <3>1, <3>6, <3>7, <3>8, <3>10, <3>11, <3>12
    <3>14. PieceInv' BY <1>1, <3>1, <3>6, <3>13 DEF PieceInv, n, length
    <3> QED BY <1>1, <3>1, <3>14 DEF AlignInv
  <2> QED BY <2>6, <2>7
<1> QED BY <1>5, <1>6

LEMMA AlignInvNext == AlignInv /\ [AlignNext]_alignVars => AlignInv'
<1> SUFFICES ASSUME AlignInv, [AlignNext]_alignVars PROVE AlignInv' OBVIOUS
<1>1. task \in Tasks /\ Len(task.words) \in Nat /\ task.length \in Nat BY TaskIs DEF AlignInv
<1> DEFINE w == todo[1]
<1>2. ASSUME ~task.prefix, todo # << >>
      PROVE  /\ Head(todo) = w /\ w.first \in Nat /\ w.last \in Nat /\ w.from \in Nat
             /\ w.to \in Nat /\ w.first =< w.last /\ w.from =< w.to
  <2>1. Queue(todo, Len(task.words), task.length) BY <1>2 DEF AlignInv, WholeInv
  <2>2. w \in Windows /\ Head(todo) = w /\ w.first =< w.last /\ w.from =< w.to
    BY <1>1, <1>2, <2>1, QueueTail
  <2> QED BY <2>2 DEF Windows
<1>3. CASE SpreadsWindow
  <2>1. ~task.prefix /\ todo # << >> BY <1>3 DEF SpreadsWindow, Whole
  <2>2. /\ stamps' = stamps \o Spread(w) /\ todo' = Tail(todo)
        /\ UNCHANGED <<task, piece, verdict>>
    BY <1>2, <1>3, <2>1 DEF SpreadsWindow
  <2>3. IsRun(Spread(w), w.first, w.last - w.first + 1, w.from, w.to)
    BY <1>2, <2>1, SpreadIsRun
  <2> QED BY <2>1, <2>2, <2>3, WindowIsPlaced
<1>4. CASE AlignsWindow
  <2>1. ~task.prefix /\ todo # << >> BY <1>4 DEF AlignsWindow, Whole
  <2>2. PICK run \in Placed(w) \cup {Spread(w)} : stamps' = stamps \o run
    BY <1>2, <1>4, <2>1 DEF AlignsWindow
  <2>3. todo' = Tail(todo) /\ UNCHANGED <<task, piece, verdict>> BY <1>4 DEF AlignsWindow
  <2>4. IsRun(run, w.first, w.last - w.first + 1, w.from, w.to)
    <3>1. CASE run = Spread(w) BY <1>2, <2>1, <3>1, SpreadIsRun
    <3>2. CASE run \in Placed(w) BY <1>2, <2>1, <3>2, PlacedIsRun
    <3> QED BY <3>1, <3>2
  <2> QED BY <2>1, <2>2, <2>3, <2>4, WindowIsPlaced
<1>5. CASE HalvesWindow BY <1>5, WindowIsHalved
<1>6. CASE EndsWhole
  <2>1. /\ ~task.prefix /\ todo = << >> /\ UNCHANGED <<task, todo, stamps, piece>>
    BY <1>6 DEF EndsWhole
  <2>2. WholeInv' BY <2>1 DEF AlignInv, WholeInv
  <2> QED BY <1>1, <2>1, <2>2 DEF AlignInv
<1>7. CASE AlignsPiece BY <1>7, PieceIsAligned
<1>8. CASE PieceFails BY <1>8, PrefixIsGiven DEF PieceFails
<1>9. CASE UNCHANGED alignVars BY <1>9 DEF alignVars, AlignInv, WholeInv, PieceInv
<1> QED BY <1>3, <1>4, <1>5, <1>6, <1>7, <1>8, <1>9 DEF AlignNext

\* What has its place keeps it in order.
LEMMA StampsAre == AlignInv => StampsFollowSpeech
<1> SUFFICES ASSUME AlignInv PROVE StampsFollowSpeech OBVIOUS
<1>1. task \in Tasks /\ Len(task.words) \in Nat /\ task.length \in Nat BY TaskIs DEF AlignInv
<1>2. Ordered(stamps, task.length)
  <2>1. CASE task.prefix BY <2>1 DEF AlignInv, PieceInv
  <2>2. CASE ~task.prefix /\ todo = << >> BY <2>2 DEF AlignInv, WholeInv
  <2>3. CASE ~task.prefix /\ todo # << >>
    <3> DEFINE from == todo[1].from
               length == task.length
    <3>1. Queue(todo, Len(task.words), task.length) /\ Ordered(stamps, from)
      BY <2>3 DEF AlignInv, WholeInv
    <3>2. todo[1] \in Windows /\ todo[1].from =< todo[1].to /\ todo[1].to =< length
      BY <1>1, <2>3, <3>1, QueueTail
    <3>3. from \in Nat /\ from =< length /\ length \in Nat BY <1>1, <3>2 DEF Windows
    <3> HIDE DEF from, length
    <3>4. Ordered(stamps, length) BY <3>1, <3>3, OrderedLater
    <3> QED BY <3>4 DEF length
  <2> QED BY <2>1, <2>2, <2>3
<1>3. verdict # "running" => Len(stamps) = Len(task.words)
  BY DEF AlignInv, WholeInv, PieceInv
<1>4. \A k \in 1..Len(stamps) : stamps[k].start \in Nat
  <2>1. \A k \in 1..Len(stamps) : stamps[k] \in Stamps BY <1>2 DEF Ordered
  <2> QED BY <2>1 DEF Stamps
<1>5. StampsInOrder BY <1>2, <1>3, <1>4 DEF Ordered, StampsInOrder
<1>6. PiecesHoldTheirWords BY DEF AlignInv, PieceInv, PiecesHoldTheirWords, Prefix
<1> QED BY <1>5, <1>6 DEF StampsFollowSpeech

\* The times of the words follow the speech: for any words and any audio, however a
\* window is halved or a beginning is handed from piece to piece, every word gets one
\* stamp, in order and within the audio, and no piece begins after its first word.
THEOREM StampsFollowTheSpeech == AlignSpec => []StampsFollowSpeech
<1>1. AlignInv => StampsFollowSpeech BY StampsAre
<1> QED BY <1>1, AlignInvInit, AlignInvNext, PTL DEF AlignSpec

-----------------------------------------------------------------------------
(* Where a pass is split (VoxtralText).                                    *)

\* The turns of a window, as they are clipped to it and ordered by their beginnings.
TurnsOfWindow(ordered, length) ==
  /\ \A k \in 1..Len(ordered) :
       /\ ordered[k].start \in Nat /\ ordered[k].end \in Nat
       /\ ordered[k].start < ordered[k].end /\ ordered[k].end =< length
  /\ \A i, k \in 1..Len(ordered) : i =< k => ordered[i].start =< ordered[k].start

\* Who speaks furthest before a turn is one of those before it, and none of them
\* speaks further.
LEMMA SpeaksUntilIs ==
  ASSUME NEW S, NEW ordered \in Seq(S), NEW length \in Nat, TurnsOfWindow(ordered, length),
         NEW k \in 2..Len(ordered)
  PROVE  /\ SpeaksUntil(ordered, k) \in 1..(k - 1)
         /\ \A j \in 1..(k - 1) : ordered[j].end =< ordered[SpeaksUntil(ordered, k)].end
<1> DEFINE J == 1..(k - 1)
           ends == {ordered[j].end : j \in J}
           best == {i \in J : \A j \in J : ordered[j].end =< ordered[i].end}
<1>1. k \in Nat /\ 1 \in J /\ J \subseteq 1..Len(ordered) /\ J \subseteq Nat /\ \A j \in J : j =< k
  OBVIOUS
<1>2. \A j \in J : ordered[j].end \in Nat /\ ordered[j].end =< length
  BY <1>1 DEF TurnsOfWindow
<1>3. SpeaksUntil(ordered, k) = Max(best) BY DEF SpeaksUntil
<1> HIDE DEF J
<1>4. PICK i \in J : \A j \in J : ordered[j].end =< ordered[i].end
  <2>1. ends \in SUBSET Nat /\ ends # {} /\ \A e \in ends : e =< length BY <1>1, <1>2
  <2>2. Max(ends) \in ends /\ \A e \in ends : Max(ends) >= e
    <3> HIDE DEF ends
    <3> QED BY <2>1, MaxIs
  <2>3. PICK i \in J : Max(ends) = ordered[i].end BY <2>2
  <2>4. \A j \in J : ordered[j].end =< ordered[i].end
    <3> SUFFICES ASSUME NEW j \in J PROVE ordered[j].end =< ordered[i].end OBVIOUS
    <3>1. ordered[j].end \in ends OBVIOUS
    <3>2. ordered[i].end >= ordered[j].end BY <2>2, <2>3, <3>1
    <3> QED BY <1>2, <3>2
  <2> QED BY <2>4
<1>5. best \in SUBSET Nat /\ best # {} /\ \A n \in best : n =< k BY <1>1, <1>4
<1>6. Max(best) \in best
  <2> HIDE DEF best
  <2> QED BY <1>1, <1>5, MaxIs
<1> QED BY <1>3, <1>6 DEF J

\* The middle of two times lies between them.
LEMMA MiddleIs ==
  ASSUME NEW a \in Nat, NEW b \in Nat, a =< b
  PROVE  a =< (a + b) \div 2 /\ (a + b) \div 2 =< b /\ (a + b) \div 2 \in Nat
OBVIOUS

\* A window is never split where somebody is in the middle of a turn: for any turns,
\* however they overlap or lie within one another, nobody who has begun 0.2 s before the
\* place speaks beyond it (_turn_gap_split).
THEOREM SplitsBetweenAnyTurns ==
  ASSUME NEW S, NEW ordered \in Seq(S), NEW length \in Nat, TurnsOfWindow(ordered, length),
         NEW p \in TurnGapSplit(ordered, length), NEW i \in 1..Len(ordered)
  PROVE  ~(ordered[i].start < p - 2 /\ p < ordered[i].end)
<1> DEFINE n == Len(ordered)
           b(k) == ordered[SpeaksUntil(ordered, k)].end
           s(k) == ordered[k].start
           place(k) == IF ordered[k].label # ordered[SpeaksUntil(ordered, k)].label
                          /\ s(k) >= b(k) - 2
                       THEN (b(k) + Max({s(k), b(k)})) \div 2 ELSE -1
<1>1. p \in TurnGaps(ordered, length) BY DEF TurnGapSplit
<1>2. PICK k \in 2..n : p = place(k) /\ length \div 4 =< p
  BY <1>1 DEF TurnGaps
<1>3. n \in Nat /\ k \in 1..n /\ k \in Nat /\ k >= 2 OBVIOUS
<1>4. SpeaksUntil(ordered, k) \in 1..n
      /\ \A j \in 1..(k - 1) : ordered[j].end =< b(k)
  <2>1. /\ SpeaksUntil(ordered, k) \in 1..(k - 1)
        /\ \A j \in 1..(k - 1) : ordered[j].end =< ordered[SpeaksUntil(ordered, k)].end
    BY <1>2, SpeaksUntilIs
  <2> QED BY <1>3, <2>1
<1>5. s(k) \in Nat /\ b(k) \in Nat BY <1>3, <1>4 DEF TurnsOfWindow
<1>6. s(k) >= b(k) - 2 /\ p = (b(k) + Max({s(k), b(k)})) \div 2
  <2>1. length \div 4 \in Int /\ 0 =< length \div 4 OBVIOUS
  <2>2. p # -1 BY <1>2, <2>1
  <2> QED BY <1>2, <2>2
<1> DEFINE from == s(k)
           to == b(k)
           m == Max({from, to})
<1> HIDE DEF place
<1>7. from \in Nat /\ to \in Nat /\ from >= to - 2 /\ p = (to + m) \div 2 BY <1>5, <1>6
<1>11. /\ ordered[i].start \in Nat /\ ordered[i].end \in Nat
       /\ (k =< i => from =< ordered[i].start)
       /\ (i < k => ordered[i].end =< to)
  <2>1. i < k => i \in 1..(k - 1) BY <1>3
  <2> QED BY <1>3, <1>4, <2>1 DEF TurnsOfWindow
<1> HIDE DEF from, to, m, b, s, n
<1>8. m = IF from >= to THEN from ELSE to BY <1>7, GreaterOfTwo DEF m
<1>9. m \in Nat /\ to =< m /\ m =< from + 2 BY <1>7, <1>8
<1>10. to =< p /\ p =< m /\ p \in Nat BY <1>7, <1>9, MiddleIs
<1>12. CASE i < k
  <2>1. ~(p < ordered[i].end) BY <1>7, <1>10, <1>11, <1>12
  <2> QED BY <2>1
<1>13. CASE k =< i
  <2>1. ~(ordered[i].start < p - 2) BY <1>7, <1>9, <1>10, <1>11, <1>13
  <2> QED BY <2>1
<1> QED BY <1>3, <1>12, <1>13

=============================================================================
