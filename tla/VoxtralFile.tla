---------------------------- MODULE VoxtralFile ----------------------------
(***************************************************************************)
(* A file transcribed by the Voxtral engine, pass by pass (noScribe/       *)
(* voxtral_engine.py, transcribe and _AlignerPool): what each pass reads   *)
(* again of the one before, the opening the first may drop, the language   *)
(* the file settles on, and the alignment models loaded on the way.        *)
(*                                                                         *)
(*   file     [spoken, bounds, pinned, aligns]: the language of every word *)
(*            (word n is spoken from n-1 to n), the passes' bounds, the    *)
(*            language set by the user or "none", need_timestamps          *)
(*   pass     which pass is at work; step, where in it                     *)
(*   text     [words, lang] of the pass; out, the words sent on            *)
(*   tally    lang_tally; early, chunk_langs; warned, the chunks warned of *)
(*   cache    the pool's aligners, the oldest first; last, _last_model     *)
(*   wants    the model being loaded, and whether it is to be remembered;  *)
(*            chose (history), the aligner the last whole pass got         *)
(*   disk     the alignment models that are downloaded                     *)
(* How a pass comes to its text is VoxtralLadder's business; here it is    *)
(* any of those the ladder may return without giving speech up in it.      *)
(***************************************************************************)
EXTENDS VoxtralText, Line

CONSTANTS
  Recordings,
  Lead,       \* OVERLAP_SEC
  MaxDrop,    \* how many words a pass may drop at its beginning
  Names,      \* the languages the detector can name
  Aligned,    \* ALIGN_MODELS
  MaxCached,
  Downloaded  \* what is downloaded at first, one of these

\* The pool holds one at least.
ASSUME PoolAssumption == MaxCached \in Nat \ {0}

\* The passes tile the file, and reading again stays within the pass before.  A
\* pass drops no more than it reads again, and the first one no more than the
\* longest head probe has before the anchor: a longer loss is not covered, nor has
\* it been seen (the comments at HEAD_PROBE_MAX_SEC and before a_read == 0).
ASSUME RecordingAssumption ==
  /\ Lead \in Nat /\ MaxDrop \in 0..Lead
  /\ \A r \in Recordings :
       /\ r.bounds \in Seq(Nat) /\ Len(r.bounds) >= 2
       /\ r.bounds[1] = 0 /\ r.bounds[Len(r.bounds)] = Len(r.spoken)
       /\ \A p, q \in 1..Len(r.bounds) : p < q => r.bounds[p] < r.bounds[q]
       /\ Lead < r.bounds[2] /\ MaxDrop + AnchorWords <= 2 * (r.bounds[2] \div 4)

VARIABLES file, pass, step, text, out, tally, early, warned, cache, last, wants, chose, disk

fileVars == <<file, pass, step, text, out, tally, early, warned, cache, last, wants, chose, disk>>

Nothing == [words |-> << >>, lang |-> "none"]
NoWant == [model |-> "none", remember |-> FALSE]

LastPass == Len(file.bounds) - 1
From == file.bounds[pass]
To == file.bounds[pass + 1]

\* The audio a pass reads begins before it, if it can be cut off again.
ReadFrom == IF pass = 1 \/ ~file.aligns THEN From ELSE Max({0, From - Lead})

Want == IF file.pinned # "none" THEN file.pinned ELSE FileLanguage(tally)

Model(lang) == IF lang \in Aligned THEN lang ELSE "multi"

\* aligner_for
ModelFor(lang) ==
  IF file.pinned # "none" THEN Model(file.pinned)
  ELSE IF lang # "none" THEN Model(lang)
  ELSE IF last # "none" THEN last ELSE "multi"

FileInit ==
  /\ file \in Recordings /\ pass = 1 /\ step = "start" /\ text = Nothing /\ out = << >>
  /\ tally = [l \in Names |-> 0] /\ early = {} /\ warned = {}
  /\ cache = << >> /\ last = "none" /\ wants = NoWant /\ chose = "none"
  /\ disk \in Downloaded

-----------------------------------------------------------------------------
(* The pool (_AlignerPool._load, _load_from_hub).                          *)

Loads(model, remember) == wants' = [model |-> model, remember |-> remember]

\* The aligner is there: it is the one used last.
Holds(model, aligners) ==
  /\ cache' = Append(Without(aligners, {model}), model)
  /\ last' = IF wants.remember THEN model ELSE last
  /\ chose' = IF wants.remember THEN model ELSE chose
  /\ wants' = NoWant

FindsAligner ==
  /\ wants # NoWant /\ wants.model \in Members(cache)
  /\ Holds(wants.model, cache)
  /\ UNCHANGED <<file, pass, step, text, out, tally, early, warned, disk>>

\* Before loading.
EvictsAligner ==
  /\ wants # NoWant /\ wants.model \notin Members(cache) /\ Len(cache) >= MaxCached
  /\ cache' = Tail(cache)
  /\ UNCHANGED <<file, pass, step, text, out, tally, early, warned, last, wants, chose, disk>>

\* A bug: room for the aligner is made only if it is more than full.
RoomForOne == Len(cache) <= MaxCached

Room == Len(cache) < MaxCached

LoadsAligner ==
  /\ wants # NoWant /\ wants.model \notin Members(cache) /\ Room
  /\ disk' = disk \cup {wants.model}
  /\ Holds(wants.model, cache)
  /\ UNCHANGED <<file, pass, step, text, out, tally, early, warned>>

\* Neither downloaded nor to be fetched: the aligner used last will do; without
\* one the file fails.
AlignerOutOfReach ==
  /\ wants # NoWant /\ wants.model \notin Members(cache) /\ Len(cache) < MaxCached
  /\ wants.model \notin disk
  /\ wants' = NoWant
  /\ step' = IF cache = << >> THEN "failed" ELSE step
  /\ UNCHANGED <<file, pass, text, out, tally, early, warned, cache, last, chose, disk>>

-----------------------------------------------------------------------------
(* A pass (transcribe).                                                    *)

Idle == wants = NoWant

\* The aligner of a language that is set must be in reach before anything is
\* decoded.
Starts ==
  /\ step = "start"
  /\ \E reachable \in BOOLEAN :
       step' = IF /\ file.aligns /\ file.pinned # "none"
                  /\ Model(file.pinned) \notin disk /\ ~reachable
               THEN "failed" ELSE "decode"
  /\ UNCHANGED <<file, pass, text, out, tally, early, warned, cache, last, wants, chose, disk>>

\* The ladder aligns the clean part of a looping decode, whatever that reads as.
AlignsFragment ==
  /\ step = "decode" /\ Idle /\ file.aligns
  /\ \E lang \in {file.spoken[From + 1], "en", "none"} : Loads(ModelFor(lang), FALSE)
  /\ step' = "repair"
  /\ UNCHANGED <<file, pass, text, out, tally, early, warned, cache, last, chose, disk>>

\* The text is there: the pass may have dropped its opening, and it may have
\* been translated, unless a language is expected.
ReadsPass ==
  /\ step \in {"decode", "repair"} /\ Idle
  /\ \E drop \in 0..MaxDrop, lang \in {file.spoken[From + 1], "en", "none"} :
       /\ text' = [words |-> [k \in 1..Max({0, To - ReadFrom - drop}) |-> ReadFrom + drop + k],
                   lang |-> lang]
  /\ step' = IF text'.words = << >> THEN "sent" ELSE "decoded"
  /\ UNCHANGED <<file, pass, out, tally, early, warned, cache, last, wants, chose, disk>>

\* The head probes of the pass: a half of it at most.
Probes == [p \in 1..2 |-> [k \in 1..(p * ((To - ReadFrom) \div 4)) |-> ReadFrom + k]]

WholeText == IF ReadFrom = 0 THEN RecoverHead(text.words, Probes) ELSE text.words

\* The opening is put back, and the language noted.
ReadsText ==
  /\ step = "decoded"
  /\ text' = [text EXCEPT !.words = WholeText]
  /\ warned' = IF ReadsAsOther(text.lang, Want, Names) THEN warned \cup {pass} ELSE warned
  /\ IF text.lang = "none" THEN UNCHANGED <<tally, early>>
     ELSE /\ tally' = [tally EXCEPT ![text.lang] = @ + 1]
          /\ early' = IF Want = "none" THEN early \cup {<<pass, text.lang>>} ELSE early
  /\ IF file.aligns
     THEN Loads(ModelFor(text.lang), TRUE) /\ step' = "align"
     ELSE UNCHANGED wants /\ step' = "align"
  /\ UNCHANGED <<file, pass, out, cache, last, chose, disk>>

\* A bug: what was read again is not cut off.
AfterSeamAll(words) == words

\* What the pass before has said is cut off, word by word, at the middle of it.
AfterSeam(words) ==
  IF ReadFrom < From THEN Without(words, {n \in Members(words) : 2 * n - 1 < 2 * From}) ELSE words

SendsOn ==
  /\ step = "align" /\ Idle
  /\ out' = out \o AfterSeam(text.words)
  /\ step' = "sent"
  /\ UNCHANGED <<file, pass, text, tally, early, warned, cache, last, wants, chose, disk>>

\* The next pass; after the last, the chunks that were sent on before the file's
\* language was known.
NextPass ==
  /\ step = "sent"
  /\ IF pass < LastPass THEN pass' = pass + 1 /\ step' = "decode" /\ UNCHANGED warned
     ELSE /\ step' = "done" /\ UNCHANGED pass
          /\ warned' = warned \cup {e[1] : e \in {e \in early : Want # "none" /\ e[2] # Want}}
  /\ text' = Nothing
  /\ UNCHANGED <<file, out, tally, early, cache, last, wants, chose, disk>>

FileNext ==
  \/ Starts \/ AlignsFragment \/ ReadsPass \/ ReadsText \/ SendsOn \/ NextPass
  \/ FindsAligner \/ EvictsAligner \/ LoadsAligner \/ AlignerOutOfReach

FileSpec == FileInit /\ [][FileNext]_fileVars

-----------------------------------------------------------------------------
(* Properties.                                                             *)

\* Each word is sent on once and in order, though the passes overlap and each may
\* drop its opening: what a pass drops, the pass before has said or the head
\* probe finds (_recover_lost_head, transcribe).
EveryWordOnce ==
  step = "done" /\ file.aligns => out = [n \in 1..Len(file.spoken) |-> n]

\* At no moment are more aligners in memory than the pool may hold, the one being
\* loaded included; and the model a pass without a clear language gets is the
\* one of the pass before, not that of a fragment that was aligned on the way
\* (_AlignerPool).
PoolHolds == Len(cache) <= MaxCached /\ last = chose

=============================================================================
