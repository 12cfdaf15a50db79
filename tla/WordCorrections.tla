--------------------------- MODULE WordCorrections ---------------------------
(***************************************************************************)
(* The corrections of a chunk's text, noScribe/transcript_corrections.py:  *)
(* the user's list of words and phrases, then the names of the speakers.   *)
(*                                                                         *)
(* A word of the text is how it sounds, how it is spelled, whether it is   *)
(* capitalised, and the dictionaries that know it.  Words that differ in   *)
(* capitals only are the same to the list and to the names.                *)
(***************************************************************************)
EXTENDS Integers, FiniteSetsExt, SequencesExt

AWord(sound, spelling, upper, known) ==
  [sound |-> sound, spelling |-> spelling, upper |-> upper, known |-> known]

-----------------------------------------------------------------------------
(* The list: load_corrections and apply_corrections.                       *)

\* An entry is ignored unless it has something to replace and a replacement.
Rules(entries) == SelectSeq(entries, LAMBDA e : e.from # {} /\ e.to # << >>)

Spellings(text) == [k \in 1..Len(text) |-> text[k].spelling]

\* The longest variant that the text has at position k, or none.
VariantAt(text, k, rule) ==
  LET here == {v \in rule.from :
                 k + Len(v) - 1 <= Len(text) /\ Spellings(SubSeq(text, k, k + Len(v) - 1)) = v}
  IN  IF here = {} THEN << >> ELSE CHOOSE v \in here : \A u \in here : Len(u) <= Len(v)

\* One rule goes through the text from the left; what it has put there is not
\* looked at again.
ApplyRule(text, rule) ==
  LET rest[k \in 1..(Len(text) + 1)] ==
        IF k > Len(text) THEN << >>
        ELSE IF VariantAt(text, k, rule) = << >> THEN <<text[k]>> \o rest[k + 1]
        ELSE rule.to \o rest[k + Len(VariantAt(text, k, rule))]
  IN  rest[1]

ApplyCorrections(text, entries) == FoldLeft(ApplyRule, text, Rules(entries))

-----------------------------------------------------------------------------
(* The names: apply_name_corrections.                                      *)

\* The names that sound like a word (_spelling_key).
Alike(word, names) == {n \in names : n.sound = word.sound}

\* A word that some name is spelled like is that name.
IsAName(word, names) == \E n \in names : n.spelling = word.spelling

\* Only a word that no dictionary of the languages knows is a misspelling, and
\* without a dictionary none is; a dictionary that cannot tell knows every word
\* (_dictionary_language, _is_word).
Misspelled(word, dictionaries) == dictionaries # {} /\ word.known \cap dictionaries = {}

NameFor(word, names, dictionaries) ==
  IF /\ word.upper
     /\ ~IsAName(word, names)
     /\ Cardinality(Alike(word, names)) = 1
     /\ Misspelled(word, dictionaries)
    THEN CHOOSE n \in Alike(word, names) : TRUE
    ELSE word

ApplyNames(text, names, dictionaries) ==
  [k \in 1..Len(text) |-> NameFor(text[k], names, dictionaries)]

\* What _transcribe_audio makes of a chunk's text.
Corrected(text, entries, names, dictionaries) ==
  ApplyNames(ApplyCorrections(text, entries), names, dictionaries)

=============================================================================
