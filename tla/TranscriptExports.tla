-------------------------- MODULE TranscriptExports --------------------------
(***************************************************************************)
(* A transcript on its way into a file: the anchors and paragraphs that    *)
(* on_segment of noScribe/main.py writes, the text and the WebVTT captions *)
(* that noScribe/utils.py makes of the page, those that the editor makes   *)
(* of it (noScribeEdit/noScribeEdit.py), and the names of new files.       *)
(*                                                                         *)
(* A text is a sequence of pieces, <<"word", w>>, <<"label", name>> for    *)
(* "name:", <<"stamp", "">> for a time in brackets and <<"mark", "">> for  *)
(* the "//" of overlapping speech.                                         *)
(***************************************************************************)
EXTENDS Integers, FiniteSetsExt, SequencesExt

TimePiece == <<"stamp", "">>
MarkPiece == <<"mark", "">>
LabelPiece(name) == <<"label", name>>

\* A speaker as it is shown; Unknown is ''.
Shown(name, over) == [name |-> name, over |-> over]
Unknown == Shown("", FALSE)

BodyTag == <<"body">>
Paragraph == <<"p">>
ParagraphEnds == <<"/p">>
LineBreak == <<"br">>
AnchorEnds == <<"/a">>
Anchors(a) == <<"a", a>>
DataOf(text) == <<"data", text>>

-----------------------------------------------------------------------------
(* Writing.                                                                *)

\* The texts in the anchor of a passage whose speaker goes on, and of one whose
\* speaker is new.  A time may be due, and is in a text of its own.
Stamped(p, o) == IF o.stamps /\ p.due THEN << <<TimePiece>>, p.words >> ELSE << p.words >>

NewTurn(p, o) ==
  CASE o.stamps -> << <<LabelPiece(p.by.name)>>, <<TimePiece>>, p.words >>
    [] ~o.stamps /\ o.format = "vtt" -> << p.words >>
    [] OTHER -> << <<LabelPiece(p.by.name)>> \o p.words >>

\* The page so far: `speaker`, `prev_speaker` and the paragraphs with anchors.
EmptyPage == [speaker |-> Unknown, prev |-> Unknown, paragraphs |-> << << >> >>]

AnAnchor(p, speaker, data) == [from |-> p.from, to |-> p.to, speaker |-> speaker, data |-> data]

Adds(page, anchor) ==
  [page EXCEPT !.paragraphs[Len(page.paragraphs)] = Append(@, anchor)]

\* The "//" after overlapping speech that another speaker follows.
EndsOverlap(page) ==
  LET p == Last(page.paragraphs)
      a == Last(p)
      marked == [a EXCEPT !.data[Len(a.data)] = Append(@, MarkPiece)]
  IN  IF page.speaker.over
      THEN [page EXCEPT !.paragraphs[Len(page.paragraphs)] = Append(Front(p), marked)]
      ELSE page

WritesAnchor(page, p, o) ==
  LET turns == [page EXCEPT !.speaker = p.by]
      text(data) == AnAnchor(p, IF o.diarized THEN p.by ELSE Unknown, data)
  IN  CASE ~o.diarized -> Adds(page, text(Stamped(p, o)))
        [] o.diarized /\ p.by \in {Unknown, page.speaker} ->
             Adds(page, AnAnchor(p, page.speaker, Stamped(p, o)))
        [] OTHER ->
             IF p.by.over
               THEN Adds([turns EXCEPT !.prev = page.speaker],
                         text(<< <<MarkPiece, LabelPiece(p.by.name)>> \o p.words >>))
             ELSE IF page.speaker.over /\ p.by = page.prev
               THEN Adds(turns, text(<< <<MarkPiece>> \o p.words >>))
             ELSE Adds([EndsOverlap(page) EXCEPT !.speaker = p.by, !.paragraphs = Append(@, << >>)],
                       text(NewTurn(p, o)))

WrittenPage(passages, o) ==
  FoldLeft(LAMBDA page, p : WritesAnchor(page, p, o), EmptyPage, passages).paragraphs

\* The page as a parser meets it, with its title and the lines about the job.
Title == <<"word", "title">>
Info == <<"word", "info">>

AnchorTokens(a) == <<Anchors(a)>> \o [k \in 1..Len(a.data) |-> DataOf(a.data[k])] \o <<AnchorEnds>>

ParagraphTokens(anchors) ==
  <<Paragraph>> \o FlattenSeq([k \in 1..Len(anchors) |-> AnchorTokens(anchors[k])])
    \o <<ParagraphEnds>>

Page(paragraphs) ==
  <<DataOf(<<Title>>), BodyTag, Paragraph, DataOf(<<Title>>), ParagraphEnds,
    Paragraph, DataOf(<<Info>>), LineBreak, DataOf(<<Info>>), ParagraphEnds>>
    \o FlattenSeq([k \in 1..Len(paragraphs) |-> ParagraphTokens(paragraphs[k])])

-----------------------------------------------------------------------------
(* Text: html_to_text with use_only_body.                                  *)

NewLine == <<"newline", "">>

TextOf(tokens) ==
  LET body == CHOOSE k \in 1..Len(tokens) : tokens[k] = BodyTag
      item(t) == IF t[1] \in {"p", "/p", "br"} THEN <<NewLine>>
                 ELSE IF t[1] = "data" THEN t[2] ELSE << >>
  IN  FlattenSeq([k \in 1..(Len(tokens) - body) |-> item(tokens[body + k])])

-----------------------------------------------------------------------------
(* Captions: html_to_webvtt.                                               *)

\* A fault: only a name with its colon is the speaker's.
IsLabelOrStarts(text, speaker) == text # << >> /\ text[1] = LabelPiece(speaker.name)

\* Whether a text is the name of the speaker, or a time.
IsLabel(text, speaker) ==
  \E kind \in {"word", "label"} :
    text = (IF speaker.over THEN <<MarkPiece>> ELSE << >>) \o << <<kind, speaker.name>> >>

IsTime(text) == text # << >> /\ text[1] = TimePiece

NoReader ==
  [body |-> FALSE, paragraph |-> << >>, open |-> FALSE, paragraphs |-> << >>,
   inside |-> FALSE, cues |-> << >>]

\* The parser meets one token.
ReadsToken(s, t) ==
  IF ~s.body THEN [s EXCEPT !.body = t = BodyTag]
  ELSE CASE t = Paragraph -> [s EXCEPT !.open = TRUE, !.paragraph = << >>]
         [] t = ParagraphEnds -> [s EXCEPT !.open = FALSE,
                                    !.paragraphs = IF s.open THEN Append(@, s.paragraph) ELSE @]
         [] t[1] = "a" -> [s EXCEPT !.inside = TRUE,
                                    !.cues = Append(@, [from |-> t[2].from, to |-> t[2].to,
                                                        speaker |-> t[2].speaker, text |-> << >>])]
         [] t = AnchorEnds -> [s EXCEPT !.inside = FALSE]
         [] t[1] = "data" /\ ~s.inside /\ s.open -> [s EXCEPT !.paragraph = @ \o t[2]]
         [] t[1] = "data" /\ s.inside /\ ~IsLabel(t[2], Last(s.cues).speaker) /\ ~IsTime(t[2]) ->
              [s EXCEPT !.cues[Len(s.cues)].text = @ \o t[2]]
         [] OTHER -> s

WebVtt(tokens) ==
  LET read == FoldLeft(ReadsToken, NoReader, tokens)
  IN  [title |-> read.paragraphs[1], info |-> read.paragraphs[2],
       cues |-> SelectSeq(read.cues, LAMBDA c : c.text # << >>)]

\* Hours, minutes, seconds and thousandths; longer than a day is refused.
MsToStr(ms) == <<ms \div 3600000, (ms \div 60000) % 60, (ms \div 1000) % 60, ms % 1000>>
StrToMs(t) == (t[1] * 3600 + t[2] * 60 + t[3]) * 1000

-----------------------------------------------------------------------------
(* The editor's captions of the same page.                                 *)

LoseFirst(text, piece) == IF text # << >> /\ text[1] = piece THEN Tail(text) ELSE text
LoseLast(text, piece) == IF text # << >> /\ Last(text) = piece THEN Front(text) ELSE text

\* clean_vtt_transcript_text: the marks at both ends, then the speaker's label.
Cleaned(text, name) == LoseFirst(LoseLast(LoseFirst(text, MarkPiece), MarkPiece), LabelPiece(name))

EditorCues(paragraphs) ==
  LET all == FlattenSeq(paragraphs)
  IN  [k \in 1..Len(all) |->
         [from |-> all[k].from, to |-> all[k].to, speaker |-> all[k].speaker.name,
          text |-> Cleaned(FlattenSeq(all[k].data), all[k].speaker.name)]]

-----------------------------------------------------------------------------
(* Names in anchors: parse_speaker_names, and how anchors are split.       *)

Refused == {"<", ":"}

\* One name as it is typed, character by character: "_" becomes a space, some
\* are left out, and spaces are neither repeated nor kept at the ends.
Sanitized(typed) ==
  LET spaced == [k \in 1..Len(typed) |-> IF typed[k] = "_" THEN " " ELSE typed[k]]
      kept   == SelectSeq(spaced, LAMBDA c : c \notin Refused)
      needed == {k \in 1..Len(kept) :
                   \/ kept[k] # " "
                   \/ (\E i \in 1..k : kept[i] # " ") /\ k < Len(kept) /\ kept[k + 1] # " "}
  IN  [k \in 1..Cardinality(needed) |->
         kept[CHOOSE i \in needed : Cardinality({j \in needed : j <= i}) = k]]

\* "ts_start_end_" and the name; s.split("_", limit).
AnchorName(name) == <<"t", "_", "1", "_", "2", "_">> \o name

Split(s, limit) ==
  LET all  == {k \in 1..Len(s) : s[k] = "_"}
      cuts == {k \in all : Cardinality({i \in all : i <= k}) <= limit}
      nth(n) == CHOOSE k \in cuts : Cardinality({i \in cuts : i <= k}) = n
      from(n) == IF n = 1 THEN 1 ELSE nth(n - 1) + 1
      upTo(n) == IF n > Cardinality(cuts) THEN Len(s) ELSE nth(n) - 1
  IN  [n \in 1..(Cardinality(cuts) + 1) |-> SubSeq(s, from(n), upTo(n))]

-----------------------------------------------------------------------------
(* New files: create_unique_filenames.                                     *)

CONSTANT MaxTries   \* how many names are tried for a file

ASSUME ExportsAssumption == MaxTries \in Nat \ {0}

\* A name is a stem and the increments behind it.
Incremented(name, i) == IF i = 0 THEN name ELSE Append(name, i)

\* The list grows by the first name that neither is on the disk nor in the
\* list.  When there is none the last increment is not looked at any more: if
\* the list ends with it nothing is raised, and the list is one too short.
NamesOne(done, name, disk) ==
  LET free == {i \in 0..(MaxTries - 1) :
                 /\ Incremented(name, i) \notin disk
                 /\ \A k \in 1..Len(done.names) : done.names[k] # Incremented(name, i)}
  IN  IF done.raised THEN done
      ELSE IF free # {}
        THEN [done EXCEPT !.names = Append(@, Incremented(name, Min(free)))]
      ELSE IF done.names # << >> /\ Last(done.names) = Incremented(name, MaxTries)
        THEN done
      ELSE [done EXCEPT !.raised = TRUE]

NoneNamed == [names |-> << >>, raised |-> FALSE]

UniqueNames(inputs, disk) ==
  FoldLeft(LAMBDA done, name : NamesOne(done, name, disk), NoneNamed, inputs)

=============================================================================
