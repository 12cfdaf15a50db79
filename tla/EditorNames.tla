----------------------------- MODULE EditorNames -----------------------------
(***************************************************************************)
(* Speakers that are renamed in the editor by searching and replacing      *)
(* (noScribeEdit/noScribeEdit.py): the text and, apart from it, the names  *)
(* in the anchors.                                                         *)
(*                                                                         *)
(* A document is a sequence of anchors [tail, text], each in a block of    *)
(* its own; `tail` is what its address has behind the times.  Texts and    *)
(* names are sequences of characters, equal in the case that was asked for.*)
(***************************************************************************)
EXTENDS TranscriptExports

Letter(c) == c \notin {" ", ":", "_", "/"}

\* str.strip() and str.rstrip(":").
Bare(s, c) ==
  LET kept == {k \in 1..Len(s) : s[k] # c}
  IN  IF kept = {} THEN << >> ELSE SubSeq(s, Min(kept), Max(kept))

WithoutColons(s) ==
  LET kept == {k \in 1..Len(s) : s[k] # ":"}
  IN  IF kept = {} THEN << >> ELSE SubSeq(s, 1, Max(kept))

SpeakerIn(s) == WithoutColons(Bare(s, " "))

\* clean_vtt_voice.
CleanVoice(s) ==
  SelectSeq([k \in 1..Len(Bare(s, " ")) |->
               IF Bare(s, " ")[k] = " " THEN "_" ELSE Bare(s, " ")[k]],
            LAMBDA c : c \notin {":", "/"})

\* Where `old` is in a text, by itself if whole words are asked for.
IsAt(s, old, k) == k + Len(old) - 1 <= Len(s) /\ SubSeq(s, k, k + Len(old) - 1) = old

IsWord(s, old, k) ==
  /\ (k > 1 => ~(Letter(s[k - 1]) /\ Letter(old[1])))
  /\ (k + Len(old) <= Len(s) => ~(Letter(s[k + Len(old)]) /\ Letter(Last(old))))

\* Every occurrence from the left on that is not part of one before.
Replaced(s, old, new, whole) ==
  LET step(acc, k) ==
        IF k < acc.next THEN acc
        ELSE IF IsAt(s, old, k) /\ (whole => IsWord(s, old, k))
          THEN [next |-> k + Len(old), text |-> acc.text \o new]
        ELSE [next |-> k + 1, text |-> Append(acc.text, s[k])]
  IN  FoldLeft(step, [next |-> 1, text |-> << >>], [k \in 1..Len(s) |-> k]).text

\* replace_in_anchor_hrefs: the names in the addresses, whole words or not; with
\* a limit only of the anchors that have just that address.
ReplacedInHrefs(document, old, new, limited) ==
  [k \in 1..Len(document) |->
     IF old # << >> /\ k \in limited
     THEN [document[k] EXCEPT !.tail = Replaced(@, old, new, FALSE)]
     ELSE document[k]]

EditorReplacesAll(document, old, new, whole) ==
  LET texts == [k \in 1..Len(document) |->
                  [document[k] EXCEPT !.text = Replaced(@, old, new, whole)]]
  IN  ReplacedInHrefs(texts, SpeakerIn(old), CleanVoice(SpeakerIn(new)), 1..Len(document))

\* replace: the selection, from the character `at` of the k-th anchor on, is what
\* was searched for.
EditorReplaces(document, k, at, old, new) ==
  LET t == document[k].text
      renamed == ReplacedInHrefs(document, SpeakerIn(old), CleanVoice(SpeakerIn(new)), {k})
  IN  [renamed EXCEPT ![k].text = SubSeq(t, 1, at - 1) \o new \o SubSeq(t, at + Len(old), Len(t))]

\* The caption of an anchor: whom it names, and its text without his label.
CaptionOf(anchor) ==
  LET name == Split(AnchorName(anchor.tail), 4)[4]
      label == Append(name, ":")
  IN  [speaker |-> name,
       text |-> Bare(IF IsAt(anchor.text, label, 1)
                     THEN SubSeq(anchor.text, Len(label) + 1, Len(anchor.text)) ELSE anchor.text, " ")]

=============================================================================
