-------------------------- MODULE TranscriptProofs --------------------------
(***************************************************************************)
(* How a transcript comes about, for every job and every recording: the    *)
(* audio is what was asked for (AudioConvert), what is recognised is in    *)
(* the file and under the names that are shown (TranscriptJob), and what a *)
(* worker process calls a result is whole (WorkerEntry).                   *)
(***************************************************************************)
EXTENDS TranscriptJob, WorkerEntry, AudioConvert, LineProofs

-----------------------------------------------------------------------------
(* The document of a job (TranscriptJob).                                  *)

\* The writer's variables.
IsPage(p) == DOMAIN p = {"doc", "speaker", "prev", "first", "voice"}

IsWriter(w) == w = [page |-> w.page, named |-> w.named]

IsDoc(doc) == doc \in Seq(Range(doc))

Flags == [cancel : BOOLEAN, whisper : BOOLEAN, pyannote : BOOLEAN, again : BOOLEAN,
          retry : BOOLEAN, failed : BOOLEAN, refused : Nat, hurt : BOOLEAN, runs : Nat]

\* Every piece stands under the name that the key gives its speaker.
NamedBy(doc, names) ==
  \A i \in DOMAIN doc :
    /\ doc[i].under.who \in DOMAIN names \cup {Nobody}
    /\ doc[i].as = NameUnder(names, doc[i].under.who)

\* The speaker who goes on has a name.
SpeaksNamed(p, names) == p.speaker.who \in DOMAIN names \cup {Nobody}

DiskOK == DOMAIN files = 1..Files /\ file \in 1..Files

\* What there is to put back while the transcript is written a second time.
PutBackOK ==
  /\ DOMAIN check = {"passages", "done", "doc", "named"}
  /\ IsDoc(check.doc) /\ NamedBy(check.doc, check.named)

\* The inductive invariant: the document stands under the names of its key at
\* every moment, a second telling too, and what it would be put back to; nothing
\* is written before the engine speaks; and a job that is at rest has saved what
\* it has, unless a rescue failed.
TranscriptInv ==
  /\ flags \in Flags /\ DiskOK
  /\ IsPage(page) /\ IsDoc(page.doc) /\ page.first \in BOOLEAN
  /\ NamedBy(page.doc, named)
  /\ at \in {"streaming", "rewriting"} => SpeaksNamed(page, named)
  /\ at = "rewriting" => PutBackOK
  /\ at \in {"converting", "identifying"} => page.first
  /\ at = "queue" /\ ~page.first /\ ~flags.hurt => files[file] = Holds(page.doc)

\* A label that gets a name takes none from another.
LEMMA NamesGrow ==
  ASSUME NEW names, NEW label, NEW given
  PROVE  LET new == ApplySpeakerName(names, label, given)
         IN  /\ DOMAIN names \subseteq DOMAIN new
             /\ label \in DOMAIN new \cup {Nobody}
             /\ \A l \in DOMAIN names : new[l] = names[l]
<1>1. CASE label = Nobody \/ label \in DOMAIN names BY <1>1 DEF ApplySpeakerName
<1>2. CASE ~(label = Nobody \/ label \in DOMAIN names)
  <2>1. PICK v : ApplySpeakerName(names, label, given)
                   = [l \in DOMAIN names \cup {label} |-> IF l = label THEN v ELSE names[l]]
    BY <1>2 DEF ApplySpeakerName
  <2> QED BY <1>2, <2>1
<1> QED BY <1>1, <1>2

\* What is named by some names is named by more of them.
LEMMA StaysNamed ==
  ASSUME NEW doc, NEW names, NEW new, NamedBy(doc, names),
         DOMAIN names \subseteq DOMAIN new, \A l \in DOMAIN names : new[l] = names[l]
  PROVE  NamedBy(doc, new)
BY DEF NamedBy, NameUnder

LEMMA DocGrows ==
  ASSUME NEW doc, IsDoc(doc), NEW piece
  PROVE  /\ IsDoc(Append(doc, piece))
         /\ DOMAIN Append(doc, piece) = 1..Len(doc) + 1 /\ DOMAIN doc = 1..Len(doc)
         /\ Len(doc) \in Nat
         /\ Append(doc, piece)[Len(doc) + 1] = piece
         /\ \A i \in 1..Len(doc) : Append(doc, piece)[i] = doc[i]
<1>1. Len(doc) \in Nat /\ DOMAIN doc = 1..Len(doc) BY DEF IsDoc
<1>2. doc \in Seq(Range(doc) \cup {piece}) BY <1>1 DEF IsDoc
<1>3. /\ Append(doc, piece) \in Seq(Range(doc) \cup {piece})
      /\ Len(Append(doc, piece)) = Len(doc) + 1
  BY <1>2
<1>4. /\ Append(doc, piece)[Len(doc) + 1] = piece
      /\ \A i \in 1..Len(doc) : Append(doc, piece)[i] = doc[i]
  BY <1>2
<1>5. DOMAIN Append(doc, piece) = 1..Len(doc) + 1 BY <1>3
<1>6. \A i \in 1..Len(doc) + 1 : Append(doc, piece)[i] \in Range(Append(doc, piece))
  BY <1>5 DEF Range
<1>7. Append(doc, piece) \in Seq(Range(Append(doc, piece))) BY <1>1, <1>3, <1>5, <1>6
<1> QED BY <1>1, <1>4, <1>5, <1>7 DEF IsDoc

\* A segment is written: the page and the names go together as before.
LEMMA WritingKeepsNames ==
  ASSUME NEW w, NEW segment, NEW new,
         IsPage(w.page), IsDoc(w.page.doc), NamedBy(w.page.doc, w.named),
         SpeaksNamed(w.page, w.named)
  PROVE  LET v == WritesUnder(w, segment, new)
         IN  /\ v = [named |-> v.named, page |-> v.page]
             /\ IsPage(v.page) /\ IsDoc(v.page.doc) /\ v.page.first = FALSE
             /\ NamedBy(v.page.doc, v.named) /\ SpeaksNamed(v.page, v.named)
<1> DEFINE names == ApplySpeakerName(w.named, new.who, setup.names)
           form == Form(w.page, new)
           speaker == IF form = "same" THEN w.page.speaker ELSE new
           v == WritesUnder(w, segment, new)
<1>1. /\ DOMAIN w.named \subseteq DOMAIN names
      /\ new.who \in DOMAIN names \cup {Nobody}
      /\ \A l \in DOMAIN w.named : names[l] = w.named[l]
  BY NamesGrow
<1>2. speaker.who \in DOMAIN names \cup {Nobody} BY <1>1 DEF SpeaksNamed
<1> DEFINE span == AdjustForPause([start |-> segment.start, end |-> segment.end],
                                  talk.chunks, talk.duration)
           piece == [start |-> span.start, end |-> span.end, under |-> speaker,
                     as |-> NameUnder(names, speaker.who), form |-> form,
                     ends |-> form = "turn" /\ w.page.speaker.over]
           prev == IF form = "overlap" THEN w.page.speaker ELSE w.page.prev
           page2 == [w.page EXCEPT !.doc = Append(@, piece), !.speaker = speaker,
                                   !.first = FALSE, !.prev = prev]
<1>4. v = [named |-> names, page |-> page2] BY DEF WritesUnder
<1>5. piece.under.who = speaker.who /\ piece.as = NameUnder(names, speaker.who) OBVIOUS
<1> HIDE DEF names, form, speaker, piece, prev, v
<1>6. /\ IsPage(page2) /\ page2.doc = Append(w.page.doc, piece)
      /\ page2.speaker = speaker /\ page2.first = FALSE
  BY SMT DEF IsPage
<1> HIDE DEF page2
<1>7. IsDoc(page2.doc) BY <1>6, DocGrows
<1>8. NamedBy(page2.doc, names)
  <2>1. NamedBy(w.page.doc, names) BY <1>1, StaysNamed
  <2>2. ASSUME NEW i \in DOMAIN page2.doc
        PROVE  /\ page2.doc[i].under.who \in DOMAIN names \cup {Nobody}
               /\ page2.doc[i].as = NameUnder(names, page2.doc[i].under.who)
    <3>1. CASE i = Len(w.page.doc) + 1 BY <3>1, <1>2, <1>5, <1>6, DocGrows
    <3>2. CASE i \in 1..Len(w.page.doc)
      <4>1. page2.doc[i] = w.page.doc[i] /\ i \in DOMAIN w.page.doc
        BY <3>2, <1>6, DocGrows
      <4> QED BY <4>1, <2>1 DEF NamedBy
    <3>3. i \in 1..Len(w.page.doc) + 1 /\ Len(w.page.doc) \in Nat
      BY <2>2, <1>6, DocGrows
    <3> QED BY <3>1, <3>2, <3>3
  <2> QED BY <2>2 DEF NamedBy
<1>9. SpeaksNamed(page2, names) BY <1>2, <1>6 DEF SpeaksNamed
<1>10. v.named = names /\ v.page = page2 BY <1>4
<1> QED BY <1>4, <1>6, <1>7, <1>8, <1>9, <1>10 DEF v

\* An empty page, which any names fit.
LEMMA EmptyPageFits ==
  ASSUME NEW names
  PROVE  /\ IsPage(NewPage) /\ IsDoc(NewPage.doc) /\ NewPage.first = TRUE
         /\ NamedBy(NewPage.doc, names) /\ SpeaksNamed(NewPage, names)
BY DEF NewPage, IsPage, IsDoc, NamedBy, SpeaksNamed, Silent, Speaker

\* It is one more piece.
LEMMA WritingAppends ==
  ASSUME NEW w, NEW segment, NEW new, IsPage(w.page)
  PROVE  \E piece : WritesUnder(w, segment, new).page.doc = Append(w.page.doc, piece)
<1> DEFINE form == Form(w.page, new)
           speaker == IF form = "same" THEN w.page.speaker ELSE new
           names == ApplySpeakerName(w.named, new.who, setup.names)
           span == AdjustForPause([start |-> segment.start, end |-> segment.end],
                                  talk.chunks, talk.duration)
           piece == [start |-> span.start, end |-> span.end, under |-> speaker,
                     as |-> NameUnder(names, speaker.who), form |-> form,
                     ends |-> form = "turn" /\ w.page.speaker.over]
           prev == IF form = "overlap" THEN w.page.speaker ELSE w.page.prev
           page2 == [w.page EXCEPT !.doc = Append(@, piece), !.speaker = speaker,
                                   !.first = FALSE, !.prev = prev]
<1>1. WritesUnder(w, segment, new) = [named |-> names, page |-> page2] BY DEF WritesUnder
<1> HIDE DEF names, speaker, piece, prev
<1>2. page2.doc = Append(w.page.doc, piece) BY SMT DEF IsPage
<1> HIDE DEF page2
<1>3. WritesUnder(w, segment, new).page = page2 BY <1>1
<1> QED BY <1>2, <1>3

\* A segment of the engine is written, or leaves no trace.
LEMMA SegmentKeepsNames ==
  ASSUME NEW w, NEW segment, NEW ds, IsWriter(w),
         IsPage(w.page), IsDoc(w.page.doc), NamedBy(w.page.doc, w.named),
         SpeaksNamed(w.page, w.named), w.page.first \in BOOLEAN
  PROVE  LET v == OnSegment(w, segment, ds)
         IN  /\ IsWriter(v)
             /\ IsPage(v.page) /\ IsDoc(v.page.doc) /\ v.page.first \in BOOLEAN
             /\ NamedBy(v.page.doc, v.named) /\ SpeaksNamed(v.page, v.named)
<1>1. CASE segment.blank BY <1>1 DEF OnSegment
<1>2. CASE ~segment.blank
  <2> DEFINE new == SpeakerIn(ds, segment)
             u == WritesUnder(w, segment, new)
             heard == [segment |-> segment, by |-> u.page.speaker,
                       inherited |-> setup.diarize /\ new.who = Nobody]
             voice == Append(u.page.voice, heard)
             v == [named |-> u.named, page |-> [u.page EXCEPT !.voice = voice]]
  <2>1. OnSegment(w, segment, ds) = v BY <1>2 DEF OnSegment
  <2>2. /\ u = [named |-> u.named, page |-> u.page]
        /\ IsPage(u.page) /\ IsDoc(u.page.doc) /\ u.page.first = FALSE
        /\ NamedBy(u.page.doc, u.named) /\ SpeaksNamed(u.page, u.named)
    BY WritingKeepsNames
  <2> HIDE DEF u, voice
  <2>4. v.named = u.named /\ v.page = [u.page EXCEPT !.voice = voice] OBVIOUS
  <2>7. IsWriter(v) BY DEF IsWriter
  <2>5. /\ DOMAIN v.page = DOMAIN u.page /\ v.page.doc = u.page.doc
        /\ v.page.first = u.page.first /\ v.page.speaker = u.page.speaker
    BY <2>2, <2>4, SMT DEF IsPage
  <2> HIDE DEF v
  <2>6. IsPage(v.page) /\ SpeaksNamed(v.page, v.named)
    BY <2>2, <2>4, <2>5 DEF IsPage, SpeaksNamed
  <2> QED BY <2>1, <2>2, <2>4, <2>5, <2>6, <2>7
<1> QED BY <1>1, <1>2

\* It adds one piece, or none.
LEMMA SegmentAppends ==
  ASSUME NEW w, NEW segment, NEW ds,
         IsPage(w.page), IsDoc(w.page.doc), NamedBy(w.page.doc, w.named),
         SpeaksNamed(w.page, w.named)
  PROVE  \/ OnSegment(w, segment, ds).page.doc = w.page.doc
         \/ \E piece : OnSegment(w, segment, ds).page.doc = Append(w.page.doc, piece)
<1>1. CASE segment.blank BY <1>1 DEF OnSegment
<1>2. CASE ~segment.blank
  <2> DEFINE new == SpeakerIn(ds, segment)
             u == WritesUnder(w, segment, new)
             heard == [segment |-> segment, by |-> u.page.speaker,
                       inherited |-> setup.diarize /\ new.who = Nobody]
             voice == Append(u.page.voice, heard)
             v == [named |-> u.named, page |-> [u.page EXCEPT !.voice = voice]]
  <2>1. OnSegment(w, segment, ds) = v BY <1>2 DEF OnSegment
  <2>2. IsPage(u.page) BY WritingKeepsNames
  <2>3. \E piece : u.page.doc = Append(w.page.doc, piece)
    <3> HIDE DEF new, voice, v
    <3> QED BY WritingAppends
  <2> HIDE DEF u, voice
  <2>4. v.page = [u.page EXCEPT !.voice = voice] OBVIOUS
  <2>5. v.page.doc = u.page.doc BY <2>2, <2>4, SMT DEF IsPage
  <2> HIDE DEF v
  <2> QED BY <2>1, <2>3, <2>5
<1> QED BY <1>1, <1>2

LEMMA RefusalIsNoted ==
  ASSUME flags \in Flags, NEW o, o.failed \in BOOLEAN, o.refused \in {0, 1}
  PROVE  /\ Refused(o, flags) \in Flags
         /\ (Refused(o, flags).hurt <=> flags.hurt \/ o.failed)
<1> DEFINE r == flags.refused + o.refused
           h == flags.hurt \/ o.failed
<1>1. Refused(o, flags) = [flags EXCEPT !.refused = r, !.hurt = h] BY DEF Refused
<1>2. r \in Nat BY DEF Flags
<1>3. h \in BOOLEAN OBVIOUS
<1> HIDE DEF r, h
<1>4. [flags EXCEPT !.refused = r, !.hurt = h] \in Flags BY <1>2, <1>3 DEF Flags
<1>5. [flags EXCEPT !.refused = r, !.hurt = h].hurt = h BY DEF Flags
<1>6. h <=> flags.hurt \/ o.failed BY DEF h
<1> QED BY <1>1, <1>4, <1>5, <1>6

\* What a save may come to: the disk keeps its names, and the file that the job
\* has then holds the document unless the save failed.
LEMMA SaveOutcomes ==
  ASSUME DiskOK, flags \in Flags, NEW doc, NEW o \in Outcomes(doc)
  PROVE  /\ DOMAIN o.files = 1..Files /\ o.file \in 1..Files
         /\ o.failed \in BOOLEAN /\ o.refused \in {0, 1}
         /\ ~o.failed => o.files[o.file] = Holds(doc)
         /\ \A n \in 1..Files : o.files[n] \in {files[n], Broken, Holds(doc)}
         /\ Refused(o, flags) \in Flags
         /\ (Refused(o, flags).hurt <=> flags.hurt \/ o.failed)
<1> DEFINE free == {n \in 1..Files : files[n] = Absent}
           other == Min(free)
           hit(n, content) == [files EXCEPT ![n] = content]
<1>1. CASE o = [files |-> hit(file, Holds(doc)), file |-> file, failed |-> FALSE, refused |-> 0]
  <2>1. /\ o.files = hit(file, Holds(doc)) /\ o.file = file
        /\ o.failed = FALSE /\ o.refused = 0
    BY <1>1
  <2>2. /\ DOMAIN o.files = 1..Files /\ o.files[file] = Holds(doc)
        /\ \A n \in 1..Files : o.files[n] \in {files[n], Broken, Holds(doc)}
    BY <2>1 DEF DiskOK
  <2>3. file \in 1..Files BY DEF DiskOK
  <2>4. o.failed \in BOOLEAN /\ o.refused \in {0, 1} BY <2>1
  <2>5. /\ Refused(o, flags) \in Flags
        /\ (Refused(o, flags).hurt <=> flags.hurt \/ o.failed)
    BY <2>4, RefusalIsNoted
  <2> HIDE DEF hit
  <2> QED BY <2>1, <2>2, <2>3, <2>4, <2>5
<1>2. CASE \E fs \in {hit(file, files[file]), hit(file, Broken)} :
             /\ free # {}
             /\ o \in {[files |-> [fs EXCEPT ![other] = Holds(doc)], file |-> other,
                        failed |-> FALSE, refused |-> 1],
                       [files |-> fs, file |-> file, failed |-> TRUE, refused |-> 1],
                       [files |-> fs, file |-> other, failed |-> TRUE, refused |-> 1]}
  <2>1. PICK fs \in {hit(file, files[file]), hit(file, Broken)} :
             /\ free # {}
             /\ o \in {[files |-> [fs EXCEPT ![other] = Holds(doc)], file |-> other,
                        failed |-> FALSE, refused |-> 1],
                       [files |-> fs, file |-> file, failed |-> TRUE, refused |-> 1],
                       [files |-> fs, file |-> other, failed |-> TRUE, refused |-> 1]}
    BY <1>2
  <2>2. DOMAIN fs = 1..Files /\ \A n \in 1..Files : fs[n] \in {files[n], Broken}
    BY <2>1 DEF DiskOK
  <2>3. free \in SUBSET Nat BY TranscriptAssumption
  <2>4. other \in 1..Files BY <2>1, <2>3, LeastIsChosen DEF Min
  <2>5. DOMAIN [fs EXCEPT ![other] = Holds(doc)] = 1..Files
        /\ [fs EXCEPT ![other] = Holds(doc)][other] = Holds(doc)
        /\ \A n \in 1..Files :
             [fs EXCEPT ![other] = Holds(doc)][n] \in {files[n], Broken, Holds(doc)}
    BY <2>2, <2>4
  <2> HIDE DEF other, free, hit
  <2>6. CASE o = [files |-> [fs EXCEPT ![other] = Holds(doc)], file |-> other,
                  failed |-> FALSE, refused |-> 1]
    <3>1. /\ o.files = [fs EXCEPT ![other] = Holds(doc)] /\ o.file = other
          /\ o.failed = FALSE /\ o.refused = 1
      BY <2>6
    <3>2. o.failed \in BOOLEAN /\ o.refused \in {0, 1} BY <3>1
    <3>3. /\ Refused(o, flags) \in Flags
          /\ (Refused(o, flags).hurt <=> flags.hurt \/ o.failed)
      BY <3>2, RefusalIsNoted
    <3> QED BY <2>4, <2>5, <3>1, <3>2, <3>3
  <2>7. CASE o \in {[files |-> fs, file |-> file, failed |-> TRUE, refused |-> 1],
                    [files |-> fs, file |-> other, failed |-> TRUE, refused |-> 1]}
    <3>1. o.files = fs /\ o.file \in {file, other} /\ o.failed = TRUE /\ o.refused = 1
      BY <2>7
    <3>2. o.failed \in BOOLEAN /\ o.refused \in {0, 1} BY <3>1
    <3>3. /\ Refused(o, flags) \in Flags
          /\ (Refused(o, flags).hurt <=> flags.hurt \/ o.failed)
      BY <3>2, RefusalIsNoted
    <3>4. o.file \in 1..Files BY <2>4, <3>1 DEF DiskOK
    <3> QED BY <2>2, <3>1, <3>2, <3>3, <3>4
  <2> QED BY <2>1, <2>6, <2>7
<1>3. \/ o = [files |-> hit(file, Holds(doc)), file |-> file, failed |-> FALSE, refused |-> 0]
      \/ \E fs \in {hit(file, files[file]), hit(file, Broken)} :
             /\ free # {}
             /\ o \in {[files |-> [fs EXCEPT ![other] = Holds(doc)], file |-> other,
                        failed |-> FALSE, refused |-> 1],
                       [files |-> fs, file |-> file, failed |-> TRUE, refused |-> 1],
                       [files |-> fs, file |-> other, failed |-> TRUE, refused |-> 1]}
  <2> HIDE DEF other
  <2> QED BY DEF Outcomes, other
<1> QED BY <1>1, <1>2, <1>3

\* The same file, the same page and the same names: only where the thread is and
\* the flags change.
LEMMA OnlyTheFlags ==
  ASSUME TranscriptInv, UNCHANGED <<page, named, files, file>>,
         flags' \in Flags, flags'.hurt = flags.hurt
  PROVE  /\ flags' \in Flags /\ DiskOK'
         /\ IsPage(page') /\ IsDoc(page'.doc) /\ page'.first \in BOOLEAN
         /\ NamedBy(page'.doc, named')
         /\ flags'.hurt = flags.hurt /\ page' = page /\ named' = named
         /\ files' = files /\ file' = file
BY DEF TranscriptInv, DiskOK

LEMMA InvAtStart == TranscriptInit => TranscriptInv
<1> SUFFICES ASSUME TranscriptInit PROVE TranscriptInv OBVIOUS
<1>1. flags \in Flags BY DEF TranscriptInit, Flags
<1>2. DiskOK BY TranscriptAssumption DEF TranscriptInit, DiskOK
<1>3. /\ IsPage(page) /\ IsDoc(page.doc) /\ page.first = TRUE
      /\ NamedBy(page.doc, named)
  BY EmptyPageFits DEF TranscriptInit
<1> QED BY <1>1, <1>2, <1>3 DEF TranscriptInit, TranscriptInv

LEMMA StartsKeeps == TranscriptInv /\ Starts => TranscriptInv'
<1> SUFFICES ASSUME TranscriptInv, Starts PROVE TranscriptInv' OBVIOUS
<1> DEFINE n == flags.runs + 1
<1>0. flags \in Flags /\ n \in Nat BY DEF TranscriptInv, Flags
<1>5. flags' = [flags EXCEPT !.cancel = FALSE, !.whisper = FALSE, !.pyannote = FALSE,
                             !.again = FALSE, !.retry = FALSE, !.failed = FALSE, !.runs = n]
  BY DEF Starts
<1> HIDE DEF n
<1>1. flags' \in Flags BY <1>0, <1>5 DEF Flags
<1>2. DiskOK' BY DEF Starts, TranscriptInv, DiskOK
<1>3. /\ IsPage(page') /\ IsDoc(page'.doc) /\ page'.first = TRUE
      /\ NamedBy(page'.doc, named')
  BY EmptyPageFits DEF Starts
<1>4. at' = "converting" BY DEF Starts
<1> QED BY <1>1, <1>2, <1>3, <1>4 DEF TranscriptInv

LEMMA ConvertsKeeps == TranscriptInv /\ Converts => TranscriptInv'
<1> SUFFICES ASSUME TranscriptInv, Converts PROVE TranscriptInv' OBVIOUS
<1>1. page.first = TRUE BY DEF Converts, TranscriptInv
<1>2. at' \in {"identifying", "preparing", "queue"} BY DEF Converts, Fails
<1> QED BY <1>1, <1>2, OnlyTheFlags DEF Converts, TranscriptInv

LEMMA IdentifiesKeeps == TranscriptInv /\ Identifies => TranscriptInv'
<1> SUFFICES ASSUME TranscriptInv, Identifies PROVE TranscriptInv' OBVIOUS
<1>1. page.first = TRUE BY DEF Identifies, TranscriptInv
<1>2. at' \in {"identifying", "preparing", "queue"} BY DEF Identifies, Fails
<1>3. flags' \in Flags /\ flags'.hurt = flags.hurt
  BY DEF Identifies, TranscriptInv, Flags
<1>4. UNCHANGED <<page, named, files, file>> BY DEF Identifies
<1> QED BY <1>1, <1>2, <1>3, <1>4, OnlyTheFlags DEF TranscriptInv

LEMMA PreparesKeeps == TranscriptInv /\ Prepares => TranscriptInv'
<1> SUFFICES ASSUME TranscriptInv, Prepares PROVE TranscriptInv' OBVIOUS
<1>1. flags' \in Flags BY DEF Prepares, TranscriptInv, Flags
<1>2. DiskOK' BY DEF Prepares, TranscriptInv, DiskOK
<1>3. /\ IsPage(page') /\ IsDoc(page'.doc) /\ page'.first = TRUE
      /\ NamedBy(page'.doc, named') /\ SpeaksNamed(page', named')
  BY EmptyPageFits DEF Prepares
<1>4. at' = "streaming" BY DEF Prepares
<1> QED BY <1>1, <1>2, <1>3, <1>4 DEF TranscriptInv

LEMMA ReceivesDiarizationKeeps == TranscriptInv /\ ReceivesDiarization => TranscriptInv'
<1> SUFFICES ASSUME TranscriptInv, ReceivesDiarization PROVE TranscriptInv' OBVIOUS
<1>1. UNCHANGED <<page, named, files, file, flags, at>> /\ at = "streaming"
  BY DEF ReceivesDiarization
<1> QED BY <1>1, OnlyTheFlags DEF TranscriptInv

\* A segment, and the save that may follow it: the next page is named whole, and a
\* save that fails leaves a document that is not at rest.
LEMMA SegmentArrivesKeeps == TranscriptInv /\ SegmentArrives => TranscriptInv'
<1> SUFFICES ASSUME TranscriptInv, SegmentArrives PROVE TranscriptInv' OBVIOUS
<1> DEFINE w == OnSegment([page |-> page, named |-> named], Segment(told + 1), turns)
<1>1. at = "streaming" /\ page' = w.page /\ named' = w.named BY DEF SegmentArrives
<1>2. /\ IsPage(page) /\ IsDoc(page.doc) /\ page.first \in BOOLEAN
      /\ NamedBy(page.doc, named) /\ SpeaksNamed(page, named)
      /\ flags \in Flags /\ DiskOK
  BY <1>1 DEF TranscriptInv
<1>3. /\ IsPage(w.page) /\ IsDoc(w.page.doc) /\ w.page.first \in BOOLEAN
      /\ NamedBy(w.page.doc, w.named) /\ SpeaksNamed(w.page, w.named)
  <2>1. IsWriter([page |-> page, named |-> named]) BY DEF IsWriter
  <2> QED BY <1>2, <2>1, SegmentKeepsNames
<1>4. CASE UNCHANGED <<at, files, file, partial, flags>>
  <2>1. flags' \in Flags /\ DiskOK' /\ at' = "streaming" BY <1>1, <1>2, <1>4 DEF DiskOK
  <2> HIDE DEF w
  <2> QED BY <1>1, <1>3, <2>1 DEF TranscriptInv
<1>5. CASE \E o \in Outcomes(w.page.doc) :
             /\ Saves(o)
             /\ at' = IF o.failed THEN "saving" ELSE at
             /\ flags' = [Refused(o, flags) EXCEPT !.failed = o.failed]
  <2> HIDE DEF w
  <2>1. PICK o \in Outcomes(w.page.doc) :
             /\ Saves(o)
             /\ at' = IF o.failed THEN "saving" ELSE at
             /\ flags' = [Refused(o, flags) EXCEPT !.failed = o.failed]
    BY <1>5
  <2>2. /\ DOMAIN o.files = 1..Files /\ o.file \in 1..Files
        /\ o.failed \in BOOLEAN /\ Refused(o, flags) \in Flags
    BY <1>2, SaveOutcomes
  <2>3. DiskOK' BY <2>1, <2>2 DEF DiskOK, Saves
  <2>4. flags' \in Flags BY <2>1, <2>2 DEF Flags
  <2>5. at' \in {"saving", "streaming"} BY <1>1, <2>1
  <2> QED BY <1>1, <1>3, <2>3, <2>4, <2>5 DEF TranscriptInv
<1> QED BY <1>4, <1>5 DEF SegmentArrives

LEMMA ServerRetriesKeeps == TranscriptInv /\ ServerRetries => TranscriptInv'
<1> SUFFICES ASSUME TranscriptInv, ServerRetries PROVE TranscriptInv' OBVIOUS
<1>1. flags' \in Flags BY DEF ServerRetries, TranscriptInv, Flags
<1>2. DiskOK' BY DEF ServerRetries, TranscriptInv, DiskOK
<1>3. page' = NewPage /\ named' = NoNames BY DEF ServerRetries, Reset
<1>4. /\ IsPage(page') /\ IsDoc(page'.doc) /\ page'.first = TRUE
      /\ NamedBy(page'.doc, named') /\ SpeaksNamed(page', named')
  BY <1>3, EmptyPageFits
<1>5. at' = "streaming" BY DEF ServerRetries
<1> QED BY <1>1, <1>2, <1>4, <1>5 DEF TranscriptInv

LEMMA EngineEndsKeeps == TranscriptInv /\ EngineEnds => TranscriptInv'
<1> SUFFICES ASSUME TranscriptInv, EngineEnds PROVE TranscriptInv' OBVIOUS
<1>1. at' \in {"saving", "checking"} BY DEF EngineEnds
<1>2. page.first \in BOOLEAN /\ flags \in Flags BY DEF TranscriptInv
<1>3. flags' \in Flags /\ flags'.hurt = flags.hurt BY <1>2 DEF EngineEnds, Flags
<1>4. UNCHANGED <<page, named, files, file>> BY DEF EngineEnds
<1> QED BY <1>1, <1>2, <1>3, <1>4, OnlyTheFlags DEF TranscriptInv

LEMMA EngineFailsKeeps == TranscriptInv /\ EngineFails => TranscriptInv'
<1> SUFFICES ASSUME TranscriptInv, EngineFails PROVE TranscriptInv' OBVIOUS
<1>1. at' = "saving" BY DEF EngineFails
<1>2. flags' \in Flags /\ flags'.hurt = flags.hurt
  BY DEF EngineFails, TranscriptInv, Flags
<1>3. UNCHANGED <<page, named, files, file>> BY DEF EngineFails
<1> QED BY <1>1, <1>2, <1>3, OnlyTheFlags DEF TranscriptInv
\* What is told of Checked: the thread goes on to save.
LEMMA CheckedKeeps ==
  ASSUME TranscriptInv, Checked, UNCHANGED <<page, named, files, file, flags>>
  PROVE  TranscriptInv'
<1>1. at' = "saving" BY DEF Checked
<1>2. flags' \in Flags /\ flags'.hurt = flags.hurt BY DEF TranscriptInv
<1> QED BY <1>1, <1>2, OnlyTheFlags DEF TranscriptInv

LEMMA SkipsCheckKeeps == TranscriptInv /\ SkipsCheck => TranscriptInv'
BY CheckedKeeps DEF SkipsCheck

LEMMA ChecksVoicesKeeps == TranscriptInv /\ ChecksVoices => TranscriptInv'
<1> SUFFICES ASSUME TranscriptInv, ChecksVoices PROVE TranscriptInv' OBVIOUS
<1>1. PICK o \in Outcomes(page.doc) :
        /\ Saves(o)
        /\ flags' = Refused(o, flags)
        /\ at' \in {"saving", "relabeling"}
  BY DEF ChecksVoices, Checked
<1>2. flags \in Flags /\ DiskOK BY DEF TranscriptInv
<1>3. /\ DOMAIN o.files = 1..Files /\ o.file \in 1..Files
      /\ Refused(o, flags) \in Flags
  BY <1>2, SaveOutcomes
<1>4. DiskOK' /\ flags' \in Flags BY <1>1, <1>3 DEF DiskOK, Saves
<1>5. UNCHANGED <<page, named>> BY DEF ChecksVoices
<1> QED BY <1>1, <1>4, <1>5 DEF TranscriptInv

\* The check moves nothing, or the transcript is begun anew and can be put back.
LEMMA RelabelsHow ==
  ASSUME Relabels
  PROVE  \/ Checked /\ UNCHANGED <<page, named>>
         \/ /\ at' = "rewriting" /\ page' = NewPage
            /\ \E passages : check' = [passages |-> passages, done |-> 0, doc |-> page.doc, named |-> named]
<1>1. CASE Checked /\ UNCHANGED <<page, named, wholes>> BY <1>1
<1>2. CASE ~(Checked /\ UNCHANGED <<page, named, wholes>>)
  <2>1. \E new, names :
          IF new.moves = << >>
          THEN Checked /\ UNCHANGED <<page, named, wholes>>
          ELSE /\ at' = "rewriting"
               /\ check' = [passages |-> new.passages, done |-> 0, doc |-> page.doc, named |-> named]
               /\ page' = [Reset EXCEPT !.named = names].page
    BY <1>2 DEF Relabels
  <2>2. \A names : [Reset EXCEPT !.named = names].page = NewPage BY DEF Reset
  <2> QED BY <1>2, <2>1, <2>2
<1> QED BY <1>1, <1>2

LEMMA RelabelsKeeps == TranscriptInv /\ Relabels => TranscriptInv'
<1> SUFFICES ASSUME TranscriptInv, Relabels PROVE TranscriptInv' OBVIOUS
<1>1. UNCHANGED <<files, file, flags>> BY DEF Relabels
<1>2. CASE Checked /\ UNCHANGED <<page, named>> BY <1>1, <1>2, CheckedKeeps
<1>3. CASE /\ at' = "rewriting" /\ page' = NewPage
           /\ \E passages : check' = [passages |-> passages, done |-> 0, doc |-> page.doc, named |-> named]
  <2>1. /\ IsPage(page') /\ IsDoc(page'.doc) /\ page'.first = TRUE
        /\ NamedBy(page'.doc, named') /\ SpeaksNamed(page', named')
    BY <1>3, EmptyPageFits
  <2>2. flags' \in Flags /\ DiskOK' BY <1>1 DEF TranscriptInv, DiskOK
  <2>3. PICK passages : check' = [passages |-> passages, done |-> 0, doc |-> page.doc, named |-> named]
    BY <1>3
  <2>4. /\ DOMAIN check' = {"passages", "done", "doc", "named"}
        /\ check'.doc = page.doc /\ check'.named = named
    BY <2>3
  <2>5. PutBackOK' BY <2>4 DEF TranscriptInv, PutBackOK
  <2> QED BY <1>3, <2>1, <2>2, <2>5 DEF TranscriptInv
<1> QED BY <1>2, <1>3, RelabelsHow

LEMMA RewritesOneKeeps == TranscriptInv /\ RewritesOne => TranscriptInv'
<1> SUFFICES ASSUME TranscriptInv, RewritesOne PROVE TranscriptInv' OBVIOUS
<1> DEFINE w0 == [page |-> page, named |-> named]
           passage == check.passages[check.done + 1]
           w == WritesUnder(w0, passage.segment, passage.by)
<1>1. at = "rewriting" /\ page' = w.page /\ named' = w.named BY DEF RewritesOne
<1>2. /\ IsPage(page) /\ IsDoc(page.doc)
      /\ NamedBy(page.doc, named) /\ SpeaksNamed(page, named)
      /\ flags \in Flags /\ DiskOK /\ PutBackOK
  BY <1>1 DEF TranscriptInv
<1>3. /\ IsPage(w.page) /\ IsDoc(w.page.doc) /\ w.page.first = FALSE
      /\ NamedBy(w.page.doc, w.named) /\ SpeaksNamed(w.page, w.named)
  BY <1>2, WritingKeepsNames
<1> HIDE DEF w
<1>4. flags' \in Flags /\ DiskOK' /\ at' = "rewriting"
  BY <1>1, <1>2 DEF RewritesOne, DiskOK
<1>5. PutBackOK'
  <2> DEFINE done == check.done + 1
  <2>1. check' = [check EXCEPT !.done = done] BY DEF RewritesOne
  <2> HIDE DEF done
  <2>2. DOMAIN check' = DOMAIN check /\ check'.doc = check.doc /\ check'.named = check.named
    BY <1>2, <2>1 DEF PutBackOK
  <2> QED BY <1>2, <2>2 DEF PutBackOK
<1> QED BY <1>1, <1>3, <1>4, <1>5 DEF TranscriptInv

\* Stop puts back the document together with the names that it stands under.
LEMMA PutsBackKeeps == TranscriptInv /\ PutsBack => TranscriptInv'
<1> SUFFICES ASSUME TranscriptInv, PutsBack PROVE TranscriptInv' OBVIOUS
<1>1. IsPage(page) /\ PutBackOK /\ flags \in Flags /\ DiskOK
  BY DEF PutsBack, TranscriptInv
<1>2. page' = [page EXCEPT !.doc = check.doc, !.first = FALSE] /\ named' = check.named
  BY DEF PutsBack
<1>3. IsPage(page') /\ page'.doc = check.doc /\ page'.first = FALSE
  BY <1>1, <1>2, SMT DEF IsPage
<1>4. IsDoc(page'.doc) /\ NamedBy(page'.doc, named') BY <1>1, <1>2, <1>3 DEF PutBackOK
<1>5. flags' \in Flags /\ DiskOK' /\ at' = "saving"
  BY <1>1 DEF PutsBack, Checked, DiskOK
<1> QED BY <1>3, <1>4, <1>5 DEF TranscriptInv

LEMMA RewriteEndsKeeps == TranscriptInv /\ RewriteEnds => TranscriptInv'
BY CheckedKeeps DEF RewriteEnds

\* The last save: the file holds the document, or a rescue has failed.
LEMMA SavesAtEndKeeps == TranscriptInv /\ SavesAtEnd => TranscriptInv'
<1> SUFFICES ASSUME TranscriptInv, SavesAtEnd PROVE TranscriptInv' OBVIOUS
<1>1. at' \in {"preparing", "queue"} BY DEF SavesAtEnd, Leaves, Fails
<1>2. UNCHANGED <<page, named>> BY DEF SavesAtEnd
<1>3. flags \in Flags /\ DiskOK BY DEF TranscriptInv
<1>4. CASE page.first
  <2>1. UNCHANGED <<files, file, flags>> BY <1>4 DEF SavesAtEnd
  <2> QED BY <1>1, <1>2, <1>4, <2>1, OnlyTheFlags DEF TranscriptInv
<1>5. CASE ~page.first
  <2>1. PICK o \in Outcomes(page.doc) : Saves(o) /\ flags' = Refused(o, flags)
    BY <1>5 DEF SavesAtEnd
  <2>2. /\ DOMAIN o.files = 1..Files /\ o.file \in 1..Files
        /\ ~o.failed => o.files[o.file] = Holds(page.doc)
        /\ Refused(o, flags) \in Flags
        /\ (Refused(o, flags).hurt <=> flags.hurt \/ o.failed)
    BY <1>3, SaveOutcomes
  <2>3. DiskOK' /\ flags' \in Flags BY <2>1, <2>2 DEF DiskOK, Saves
  <2>4. ~flags'.hurt => files'[file'] = Holds(page'.doc) BY <1>2, <2>1, <2>2 DEF Saves
  <2> QED BY <1>1, <1>2, <2>3, <2>4 DEF TranscriptInv
<1> QED BY <1>4, <1>5

LEMMA UserStopsKeeps == TranscriptInv /\ UserStops => TranscriptInv'
<1> SUFFICES ASSUME TranscriptInv, UserStops PROVE TranscriptInv' OBVIOUS
<1>1. flags' \in Flags /\ flags'.hurt = flags.hurt
  BY DEF UserStops, TranscriptInv, Flags
<1>2. UNCHANGED <<at, page, named, check, files, file>> BY DEF UserStops
<1> QED BY <1>1, <1>2, OnlyTheFlags DEF TranscriptInv, PutBackOK

LEMMA RepeatsKeeps == TranscriptInv /\ Repeats => TranscriptInv'
<1> SUFFICES ASSUME TranscriptInv, Repeats PROVE TranscriptInv' OBVIOUS
<1>1. UNCHANGED <<at, page, named, check, files, file, flags>> BY DEF Repeats
<1> QED BY <1>1, OnlyTheFlags DEF TranscriptInv, PutBackOK

LEMMA StepKeepsTranscript == TranscriptInv /\ [TranscriptNext]_vars => TranscriptInv'
<1>1. TranscriptInv /\ UNCHANGED vars => TranscriptInv'
  BY DEF vars, TranscriptInv, DiskOK, PutBackOK
<1> QED BY <1>1, StartsKeeps, ConvertsKeeps, IdentifiesKeeps, PreparesKeeps,
           ReceivesDiarizationKeeps, SegmentArrivesKeeps, ServerRetriesKeeps,
           EngineEndsKeeps, EngineFailsKeeps, SkipsCheckKeeps, ChecksVoicesKeeps,
           RelabelsKeeps, RewritesOneKeeps, PutsBackKeeps, RewriteEndsKeeps,
           SavesAtEndKeeps, UserStopsKeeps, RepeatsKeeps DEF TranscriptNext

\* In every state of every job the document, and the one it would be put back to,
\* stands under the names of its key, and a job at rest has saved what it has.
THEOREM TranscriptInvariance == TranscriptSpec => []TranscriptInv
BY InvAtStart, StepKeepsTranscript, PTL DEF TranscriptSpec

\* However a job ended, all that was recognised in its last try is in its file, under
\* the names of its key, unless neither the file nor its rescue could be written
\* (_process_single_job's finally clause, save_doc, the voice check's put-back).
THEOREM TranscriptSavedAsShown == TranscriptSpec => []SavedAsShown
<1>1. TranscriptInv => SavedAsShown BY DEF TranscriptInv, SavedAsShown, NamedBy
<1> QED BY <1>1, TranscriptInvariance, PTL

-----------------------------------------------------------------------------
(* What a job tells (TranscriptJob).                                       *)

\* What follows in the two ways a transcript is written: as it was spoken, or in
\* passages.
NextTelling(f, k, start, passages, of) ==
  IF k = 0 THEN start
  ELSE IF of = "talk" THEN OnSegment(f[k - 1], Segment(k), talk.turns)
  ELSE WritesUnder(f[k - 1], passages[k].segment, passages[k].by)

\* There is a function that satisfies the two recursions.
LEMMA TellingExists ==
  ASSUME NEW start, NEW passages, NEW of
  PROVE  \E f : /\ f = [k \in Nat |-> f[k]]
                /\ \A k \in Nat : f[k] = NextTelling(f, k, start, passages, of)
<1> DEFINE Next(f, k) == NextTelling(f, k, start, passages, of)
           Upto(n, f) == \A i \in 0..n : f[i] = Next(f, i)
<1>1. \A f, g : Next(f, 0) = Next(g, 0) BY DEF NextTelling
<1>2. \A f, g : \A k \in Nat \ {0} : f[k - 1] = g[k - 1] => Next(f, k) = Next(g, k)
  BY DEF NextTelling
<1> HIDE DEF Next
<1>3. \A n \in Nat : \E f : Upto(n, f)
  <2> DEFINE Bad == {n \in Nat : ~\E f : Upto(n, f)}
  <2> SUFFICES ASSUME Bad # {} PROVE FALSE OBVIOUS
  <2>1. PICK n \in Bad : \A m \in Bad : ~(m < n) BY LeastNatural
  <2>2. n \in Nat /\ ~\E f : Upto(n, f) OBVIOUS
  <2>3. CASE n = 0
    <3> DEFINE f == [i \in {0} |-> Next(<< >>, 0)]
    <3>1. f[0] = Next(<< >>, 0) OBVIOUS
    <3> HIDE DEF f
    <3>2. Upto(0, f) BY <3>1, <1>1
    <3> QED BY <2>2, <2>3, <3>2
  <2>4. CASE n # 0
    <3>1. n - 1 \in Nat /\ n - 1 < n BY <2>2, <2>4
    <3>2. n - 1 \notin Bad BY <2>1, <3>1
    <3>3. PICK f : Upto(n - 1, f) BY <3>1, <3>2
    <3> DEFINE h == [i \in 0..n |-> IF i = n THEN Next(f, n) ELSE f[i]]
    <3>4. \A i \in 0..n : h[i] = IF i = n THEN Next(f, n) ELSE f[i] OBVIOUS
    <3> HIDE DEF h
    <3>5. ASSUME NEW i \in 0..n PROVE h[i] = Next(h, i)
      <4>1. CASE i = 0
        <5>1. h[0] = f[0] /\ f[0] = Next(f, 0) BY <4>1, <3>3, <3>1, <3>4, <2>4
        <5> QED BY <4>1, <5>1, <1>1
      <4>2. CASE i # 0
        <5>1. i \in Nat \ {0} /\ i - 1 \in 0..n /\ i - 1 # n BY <4>2, <2>2
        <5>2. h[i - 1] = f[i - 1] BY <5>1, <3>4
        <5>3. Next(h, i) = Next(f, i) BY <5>1, <5>2, <1>2
        <5>4. i # n => i \in 0..n - 1 BY <2>2
        <5>5. i # n => f[i] = Next(f, i) BY <5>4, <3>3
        <5> QED BY <5>3, <5>5, <3>4
      <4> QED BY <4>1, <4>2
    <3> QED BY <3>5, <2>2
  <2> QED BY <2>3, <2>4
<1>4. ASSUME NEW n \in Nat, NEW f, NEW g, Upto(n, f), Upto(n, g) PROVE f[n] = g[n]
  <2> DEFINE Same == {k \in 0..n : f[k] = g[k]}
  <2>1. 0 \in Same BY <1>4, <1>1
  <2>2. ASSUME NEW k \in 1..n, k - 1 \in Same PROVE k \in Same
    <3>1. k \in Nat \ {0} /\ k \in 0..n OBVIOUS
    <3>2. Next(f, k) = Next(g, k) BY <3>1, <2>2, <1>2
    <3> QED BY <3>1, <3>2, <1>4
  <2>3. Same = 0..n BY <2>1, <2>2, UpToInduction
  <2> QED BY <2>3
<1> DEFINE G(n) == CHOOSE f : Upto(n, f)
           g == [n \in Nat |-> G(n)[n]]
<1>5. \A n \in Nat : Upto(n, G(n)) BY <1>3
<1> HIDE DEF G
<1>6. \A n \in Nat : g[n] = G(n)[n] OBVIOUS
<1>7. ASSUME NEW n \in Nat PROVE g[n] = Next(g, n)
  <2>1. g[n] = Next(G(n), n) BY <1>5, <1>6
  <2>2. CASE n = 0 BY <2>1, <2>2, <1>1
  <2>3. CASE n # 0
    <3>1. n - 1 \in Nat /\ n \in Nat \ {0} /\ \A i \in 0..n - 1 : i \in 0..n BY <2>3
    <3>2. Upto(n - 1, G(n)) /\ Upto(n - 1, G(n - 1)) BY <3>1, <1>5
    <3>3. G(n)[n - 1] = G(n - 1)[n - 1] BY <3>1, <3>2, <1>4
    <3>4. G(n)[n - 1] = g[n - 1] BY <3>1, <3>3, <1>6
    <3> QED BY <2>1, <3>1, <3>4, <1>2
  <2> QED BY <2>2, <2>3
<1>8. g = [k \in Nat |-> g[k]] OBVIOUS
<1> HIDE DEF g
<1> QED BY <1>7, <1>8 DEF Next

\* What the writer has after so many segments, and after so many passages.
LEMMA TellingsAre ==
  /\ Tellings[0] = [page |-> NewPage, named |-> NoNames]
  /\ \A k \in Nat : Tellings[k + 1] = OnSegment(Tellings[k], Segment(k + 1), talk.turns)
<1> DEFINE start == [page |-> NewPage, named |-> NoNames]
           Next(f, k) == IF k = 0 THEN start ELSE OnSegment(f[k - 1], Segment(k), talk.turns)
           f == CHOOSE f : f = [k \in Nat |-> Next(f, k)]
<1>1. f = [k \in Nat |-> Next(f, k)]
  <2>3. \A s : \E g : /\ g = [k \in Nat |-> g[k]]
                      /\ \A k \in Nat : g[k] = NextTelling(g, k, s, s, "talk")
    BY TellingExists
  <2>1. PICK g : /\ g = [k \in Nat |-> g[k]]
                 /\ \A k \in Nat : g[k] = NextTelling(g, k, start, start, "talk")
    <3> HIDE DEF start
    <3> QED BY <2>3
  <2>2. ASSUME NEW k \in Nat PROVE NextTelling(g, k, start, start, "talk") = Next(g, k)
    BY DEF NextTelling
  <2> HIDE DEF Next
  <2>4. g = [k \in Nat |-> Next(g, k)] BY <2>1, <2>2
  <2> QED BY <2>4
<1>2. Tellings = f BY DEF Tellings
<1> HIDE DEF f
<1>3. \A k \in Nat : f[k] = Next(f, k) BY <1>1
<1>4. f[0] = start BY <1>3
<1>5. ASSUME NEW k \in Nat
      PROVE  f[k + 1] = OnSegment(f[k], Segment(k + 1), talk.turns)
  <2>1. k + 1 \in Nat /\ k + 1 # 0 /\ (k + 1) - 1 = k OBVIOUS
  <2> QED BY <2>1, <1>3
<1> QED BY <1>2, <1>4, <1>5

LEMMA WrittenAre ==
  ASSUME NEW start, NEW passages
  PROVE  /\ Written(start, passages)[0] = start
         /\ \A k \in Nat :
              Written(start, passages)[k + 1]
                = WritesUnder(Written(start, passages)[k], passages[k + 1].segment, passages[k + 1].by)
<1> DEFINE Next(f, k) == IF k = 0 THEN start
                         ELSE WritesUnder(f[k - 1], passages[k].segment, passages[k].by)
           f == CHOOSE f : f = [k \in Nat |-> Next(f, k)]
<1>1. f = [k \in Nat |-> Next(f, k)]
  <2>1. PICK g : /\ g = [k \in Nat |-> g[k]]
                 /\ \A k \in Nat : g[k] = NextTelling(g, k, start, passages, "check")
    BY TellingExists, SMTT(30)
  <2>2. ASSUME NEW k \in Nat PROVE NextTelling(g, k, start, passages, "check") = Next(g, k)
    BY Zenon DEF NextTelling
  <2> HIDE DEF Next
  <2>3. g = [k \in Nat |-> Next(g, k)] BY <2>1, <2>2
  <2> QED BY <2>3
<1>2. Written(start, passages) = f BY DEF Written
<1> HIDE DEF f
<1>3. \A k \in Nat : f[k] = Next(f, k) BY <1>1
<1>4. f[0] = start BY <1>3
<1>5. ASSUME NEW k \in Nat
      PROVE  f[k + 1] = WritesUnder(f[k], passages[k + 1].segment, passages[k + 1].by)
  <2>1. k + 1 \in Nat /\ k + 1 # 0 /\ (k + 1) - 1 = k OBVIOUS
  <2> QED BY <2>1, <1>3
<1> QED BY <1>2, <1>4, <1>5

\* Whoever changes neither the job nor the talk changes nothing of it.
LEMMA TellingStays ==
  ASSUME UNCHANGED <<setup, talk>>
  PROVE  \A k \in Nat : Tellings'[k] = Tellings[k]
<1>1. (/\ Tellings[0] = [page |-> NewPage, named |-> NoNames]
       /\ \A k \in Nat : Tellings[k + 1] = OnSegment(Tellings[k], Segment(k + 1), talk.turns))'
  BY TellingsAre, PTL
<1>3. ASSUME NEW w, NEW segment, NEW new PROVE WritesUnder(w, segment, new)' = WritesUnder(w, segment, new)
  BY DEF WritesUnder
<1>4. ASSUME NEW segment, NEW ds PROVE SpeakerIn(ds, segment)' = SpeakerIn(ds, segment)
  BY DEF SpeakerIn
<1>5. ASSUME NEW w, NEW segment, NEW ds PROVE OnSegment(w, segment, ds)' = OnSegment(w, segment, ds)
  BY <1>3, <1>4 DEF OnSegment
<1>6. ASSUME NEW k \in Nat
      PROVE  Tellings'[k + 1] = OnSegment(Tellings'[k], Segment(k + 1), talk.turns)
  <2>1. (Tellings[k + 1] = OnSegment(Tellings[k], Segment(k + 1), talk.turns))' BY <1>1
  <2> QED BY <2>1, <1>5 DEF Segment
<1>7. Tellings'[0] = Tellings[0] BY <1>1, TellingsAre
<1> SUFFICES ASSUME NEW n \in Nat PROVE Tellings'[n] = Tellings[n] OBVIOUS
<1> DEFINE Same == {k \in 0..n : Tellings'[k] = Tellings[k]}
<1>8. ASSUME NEW k \in 1..n, k - 1 \in Same PROVE k \in Same
  <2>1. k - 1 \in Nat /\ (k - 1) + 1 = k /\ k \in 0..n OBVIOUS
  <2>2. Tellings'[k - 1] = Tellings[k - 1] BY <1>8
  <2>3. Tellings'[k] = OnSegment(Tellings'[k - 1], Segment(k), talk.turns) BY <2>1, <1>6
  <2>4. Tellings[k] = OnSegment(Tellings[k - 1], Segment(k), talk.turns) BY <2>1, TellingsAre
  <2> QED BY <2>1, <2>2, <2>3, <2>4
<1>9. 0 \in Same /\ Same \in SUBSET (0..n) BY <1>7
<1>10. Same = 0..n
  <2> HIDE DEF Same
  <2> QED BY <1>8, <1>9, UpToInduction
<1> QED BY <1>10

\* A document begins as another one does.
LEMMA PrefixIs ==
  ASSUME NEW S, NEW s \in Seq(S), NEW t \in Seq(S), Len(s) =< Len(t),
         \A i \in 1..Len(s) : s[i] = t[i]
  PROVE  IsPrefix(s, t)
<1>1. SubSeq(s, 1, Len(s)) = SubSeq(t, 1, Len(s)) OBVIOUS
<1> QED BY <1>1 DEF IsPrefix

\* One document begins as another one does.
Begins(s, t) == Len(s) =< Len(t) /\ \A i \in 1..Len(s) : s[i] = t[i]

\* What is told is a document at every moment.
LEMMA TellingsAreDocs ==
  ASSUME NEW n \in Nat
  PROVE  /\ IsWriter(Tellings[n]) /\ IsPage(Tellings[n].page) /\ IsDoc(Tellings[n].page.doc)
         /\ NamedBy(Tellings[n].page.doc, Tellings[n].named)
         /\ SpeaksNamed(Tellings[n].page, Tellings[n].named)
         /\ Tellings[n].page.first \in BOOLEAN
<1> DEFINE Good(w) == /\ IsWriter(w) /\ IsPage(w.page) /\ IsDoc(w.page.doc)
                      /\ NamedBy(w.page.doc, w.named) /\ SpeaksNamed(w.page, w.named)
                      /\ w.page.first \in BOOLEAN
           G == {k \in 0..n : Good(Tellings[k])}
<1>1. Good(Tellings[0])
  <2> DEFINE w == [page |-> NewPage, named |-> NoNames]
  <2>1. IsWriter(w) /\ w.page = NewPage /\ w.named = NoNames BY DEF IsWriter
  <2>2. Tellings[0] = w BY TellingsAre
  <2> HIDE DEF w
  <2> QED BY <2>1, <2>2, EmptyPageFits
<1>2. ASSUME NEW k \in 1..n, Good(Tellings[k - 1]) PROVE Good(Tellings[k])
  <2>1. k - 1 \in Nat /\ (k - 1) + 1 = k OBVIOUS
  <2>2. Tellings[k] = OnSegment(Tellings[k - 1], Segment(k), talk.turns) BY <2>1, TellingsAre
  <2> QED BY <1>2, <2>2, SegmentKeepsNames
<1> HIDE DEF Good
<1>3. 0 \in G /\ G \in SUBSET (0..n) BY <1>1
<1>4. ASSUME NEW k \in 1..n, k - 1 \in G PROVE k \in G BY <1>2, <1>4
<1>5. G = 0..n
  <2> HIDE DEF G
  <2> QED BY <1>3, <1>4, UpToInduction
<1> QED BY <1>5 DEF Good

\* What is told goes on from what has been told.
LEMMA TellingGrows ==
  ASSUME NEW n \in Nat, NEW k \in 0..n
  PROVE  IsPrefix(Tellings[k].page.doc, Tellings[n].page.doc)
<1> DEFINE D(j) == Tellings[j].page.doc
           G == {j \in 0..n : k =< j => Begins(D(k), D(j))}
<1>1. \A j \in Nat : IsDoc(D(j)) /\ Len(D(j)) \in Nat BY TellingsAreDocs DEF IsDoc
<1>2. ASSUME NEW j \in Nat
      PROVE  D(j + 1) = D(j) \/ \E piece : D(j + 1) = Append(D(j), piece)
  <2> DEFINE w == Tellings[j]
             segment == Segment(j + 1)
             ds == talk.turns
             v == OnSegment(w, segment, ds)
  <2>1. Tellings[j + 1] = v BY TellingsAre
  <2>2. /\ IsWriter(w) /\ IsPage(w.page) /\ IsDoc(w.page.doc)
        /\ NamedBy(w.page.doc, w.named) /\ SpeaksNamed(w.page, w.named)
        /\ w.page.first \in BOOLEAN
    BY TellingsAreDocs
  <2> HIDE DEF w, segment, ds
  <2>3. v.page.doc = w.page.doc \/ \E piece : v.page.doc = Append(w.page.doc, piece)
    BY <2>2, SegmentAppends
  <2> HIDE DEF v
  <2> QED BY <2>1, <2>3 DEF w, D
<1> HIDE DEF D
<1>3. ASSUME NEW j \in Nat, Begins(D(k), D(j)) PROVE Begins(D(k), D(j + 1))
  <2>1. CASE D(j + 1) = D(j) BY <2>1, <1>3
  <2>2. ASSUME NEW piece, D(j + 1) = Append(D(j), piece) PROVE Begins(D(k), D(j + 1))
    <3>1. /\ Len(D(j + 1)) = Len(D(j)) + 1 /\ \A i \in 1..Len(D(j)) : D(j + 1)[i] = D(j)[i]
      <4>1. /\ IsDoc(D(j + 1)) /\ DOMAIN D(j + 1) = 1..Len(D(j)) + 1
            /\ \A i \in 1..Len(D(j)) : D(j + 1)[i] = D(j)[i]
        <5> DEFINE d == D(j)
        <5>1. IsDoc(d) BY <1>1
        <5>2. D(j + 1) = Append(d, piece) BY <2>2
        <5> HIDE DEF d
        <5>3. /\ IsDoc(Append(d, piece)) /\ DOMAIN Append(d, piece) = 1..Len(d) + 1
              /\ \A i \in 1..Len(d) : Append(d, piece)[i] = d[i]
          BY <5>1, DocGrows
        <5>4. /\ IsDoc(D(j + 1)) /\ DOMAIN D(j + 1) = 1..Len(d) + 1
              /\ \A i \in 1..Len(d) : D(j + 1)[i] = d[i]
          BY <5>2, <5>3
        <5> QED BY <5>4 DEF d
      <4>2. Len(D(j + 1)) \in Nat /\ DOMAIN D(j + 1) = 1..Len(D(j + 1))
        <5>1. j + 1 \in Nat OBVIOUS
        <5>2. IsDoc(D(j + 1)) BY <5>1, <1>1
        <5> DEFINE d == D(j + 1)
        <5> HIDE DEF d
        <5>3. IsDoc(d) => Len(d) \in Nat /\ DOMAIN d = 1..Len(d) BY DEF IsDoc
        <5> QED BY <5>2, <5>3 DEF d
      <4>3. Len(D(j)) \in Nat BY <1>1
      <4> QED BY <4>1, <4>2, <4>3
    <3>2. Len(D(j)) \in Nat /\ Len(D(k)) \in Nat BY <1>1
    <3> QED BY <1>3, <3>1, <3>2 DEF Begins
  <2> QED BY <2>1, <2>2, <1>2
<1>4. Begins(D(k), D(k))
  <2>1. k \in Nat OBVIOUS
  <2>2. Len(D(k)) \in Nat BY <1>1, <2>1
  <2> QED BY <2>2 DEF Begins
<1>5. ASSUME NEW j \in 1..n, j - 1 \in G PROVE j \in G
  <2>1. j - 1 \in Nat /\ (j - 1) + 1 = j /\ j \in 0..n OBVIOUS
  <2>2. CASE k =< j - 1 BY <2>1, <2>2, <1>3, <1>5
  <2>3. CASE k = j BY <2>1, <2>3, <1>4
  <2>4. CASE k > j BY <2>1, <2>4
  <2> QED BY <2>2, <2>3, <2>4
<1>6. 0 \in G /\ G \in SUBSET (0..n)
  <2>1. k =< 0 => k = 0 OBVIOUS
  <2> QED BY <2>1, <1>4
<1>7. G = 0..n
  <2> HIDE DEF G
  <2> QED BY <1>5, <1>6, UpToInduction
<1>8. Begins(D(k), D(n)) BY <1>7
<1>9. IsPrefix(D(k), D(n))
  <2> DEFINE S == Range(D(k)) \cup Range(D(n))
  <2>1. D(k) \in Seq(S) /\ D(n) \in Seq(S) BY <1>1 DEF IsDoc
  <2> HIDE DEF S
  <2> QED BY <2>1, <1>8, PrefixIs DEF Begins
<1> QED BY <1>9 DEF D

\* What is told so far, or told a second time.
Retold(doc) == doc \in wholes \/ IsPrefix(doc, Telling)

\* The speakers that the segments go under are those of the talk.
TurnsFollow ==
  /\ turns \in {<< >>, talk.turns}
  /\ setup.diarize /\ ~setup.remote
       /\ at \in {"preparing", "streaming", "checking", "relabeling", "rewriting", "saving"}
     => turns = talk.turns

\* While the engine speaks, the page is the telling so far.
TellsOn ==
  at = "streaming" =>
    /\ told \in 0..Len(talk.segments)
    /\ [page |-> page, named |-> named] = Tellings[told] /\ ~flags.failed

\* The check has the whole telling before it, and in the file once it may rewrite.
CheckHasAll ==
  /\ at \in {"checking", "relabeling"} => ~flags.failed /\ page.doc = Telling
  /\ at = "checking" => ~page.first
  /\ at \in {"relabeling", "rewriting"} => files[file] = Holds(Telling)

\* The page is on its way to a document that is to be told.
Rewriting(w) ==
  /\ [page |-> page, named |-> named] = w[check.done]
  /\ w[Len(check.passages)].page.doc \in wholes
  /\ \A k \in Nat :
       w[k + 1] = WritesUnder(w[k], check.passages[k + 1].segment, check.passages[k + 1].by)

RewritesToTheEnd ==
  at = "rewriting" =>
    /\ ~flags.failed /\ check.doc = Telling /\ check.done \in Nat
    /\ \E w : Rewriting(w)

\* What is to be saved at the end.
SavesATelling ==
  at = "saving" =>
    /\ Retold(page.doc)
    /\ ~flags.failed => IF page.first THEN files[file] = Holds(Telling)
                        ELSE page.doc \in {Telling} \cup wholes

FilesAreRetold ==
  \A n \in 1..Files : files[n] = Absent \/ files[n] = Broken \/ Retold(files[n].doc)

FinishedIsWhole ==
  status = "finished" =>
    at = "queue" /\ \E doc \in {Telling} \cup wholes : files[file] = Holds(doc)

\* The inductive invariant.
TellingInv ==
  /\ TranscriptInv /\ talk \in Talks
  /\ TurnsFollow /\ TellsOn /\ CheckHasAll /\ RewritesToTheEnd /\ SavesATelling
  /\ FilesAreRetold /\ FinishedIsWhole

LEMMA WritingStays ==
  ASSUME UNCHANGED <<setup, talk>>, NEW w, NEW segment, NEW new
  PROVE  WritesUnder(w, segment, new)' = WritesUnder(w, segment, new)
BY DEF WritesUnder

\* No step changes what is to be told.
LEMMA StoryStays ==
  ASSUME talk \in Talks, UNCHANGED <<setup, talk>>, wholes \subseteq wholes'
  PROVE  /\ talk' \in Talks /\ Telling' = Telling
         /\ \A k \in Nat : Tellings'[k] = Tellings[k]
         /\ FilesAreRetold /\ files' = files => FilesAreRetold'
<1>1. Len(talk.segments) \in Nat BY TranscriptAssumption
<1>2. \A k \in Nat : Tellings'[k] = Tellings[k] BY TellingStays
<1>3. Telling' = Telling
  <2>1. Telling' = Tellings'[Len(talk.segments)].page.doc BY DEF Telling
  <2> QED BY <1>1, <1>2, <2>1 DEF Telling
<1>4. FilesAreRetold /\ files' = files => FilesAreRetold'
  BY <1>3 DEF FilesAreRetold, Retold, Absent, Broken
<1> QED BY <1>2, <1>3, <1>4

\* A save puts a telling where there was one.
LEMMA SavesRetold ==
  ASSUME TellingInv, UNCHANGED <<setup, talk, wholes>>, NEW doc, Retold(doc),
         NEW o \in Outcomes(doc), Saves(o)
  PROVE  FilesAreRetold'
<1>1. \A n \in 1..Files : o.files[n] \in {files[n], Broken, Holds(doc)}
  BY SaveOutcomes DEF TellingInv, TranscriptInv
<1>2. Holds(doc).doc = doc BY DEF Holds
<1>3. Telling' = Telling /\ wholes' = wholes BY StoryStays DEF TellingInv
<1>4. files' = o.files BY DEF Saves
<1>5. ASSUME NEW n \in 1..Files
      PROVE  files'[n] = Absent \/ files'[n] = Broken \/ files'[n].doc \in wholes
               \/ IsPrefix(files'[n].doc, Telling)
  <2>1. files'[n] \in {files[n], Broken, Holds(doc)} BY <1>1, <1>4
  <2>2. files[n] = Absent \/ files[n] = Broken \/ Retold(files[n].doc)
    BY DEF TellingInv, FilesAreRetold
  <2> QED BY <1>2, <2>1, <2>2 DEF Retold
<1> QED BY <1>3, <1>5 DEF FilesAreRetold, Retold, Absent, Broken

\* The whole telling is one, and so is any part of it.
LEMMA PartIsRetold ==
  ASSUME talk \in Talks, NEW k \in 0..Len(talk.segments)
  PROVE  Retold(Tellings[k].page.doc)
<1>1. Len(talk.segments) \in Nat BY TranscriptAssumption
<1> QED BY <1>1, TellingGrows DEF Retold, Telling

LEMMA TellingIsRetold ==
  ASSUME talk \in Talks PROVE Retold(Telling)
<1>1. Len(talk.segments) \in Nat BY TranscriptAssumption
<1> QED BY <1>1, PartIsRetold DEF Telling

LEMMA TellingInvAtStart == TranscriptInit => TellingInv
<1> SUFFICES ASSUME TranscriptInit PROVE TellingInv OBVIOUS
<1>1. TranscriptInv BY InvAtStart
<1>2. FilesAreRetold BY DEF TranscriptInit, FilesAreRetold
<1> QED BY <1>1, <1>2 DEF TranscriptInit, TellingInv, TurnsFollow, TellsOn, CheckHasAll,
       RewritesToTheEnd, SavesATelling, FinishedIsWhole

\* The page on its way stays on it, whoever else moves.
LEMMA RewritingStays ==
  ASSUME UNCHANGED <<setup, talk, page, named, check>>, wholes \subseteq wholes',
         \E w : Rewriting(w)
  PROVE  (\E w : Rewriting(w))'
<1>1. PICK w : Rewriting(w) OBVIOUS
<1>2. ASSUME NEW v, NEW segment, NEW new
      PROVE  WritesUnder(v, segment, new)' = WritesUnder(v, segment, new)
  BY WritingStays
<1>3. ASSUME NEW k \in Nat
      PROVE  (w[k + 1] = WritesUnder(w[k], check.passages[k + 1].segment,
                                     check.passages[k + 1].by))'
  <2>1. w[k + 1] = WritesUnder(w[k], check.passages[k + 1].segment, check.passages[k + 1].by)
    BY <1>1 DEF Rewriting
  <2> QED BY <2>1, <1>2
<1>4. Rewriting(w)' BY <1>1, <1>3 DEF Rewriting
<1> QED BY <1>4

\* The speakers stay when no one identifies any.
LEMMA TurnsStay ==
  ASSUME TellingInv, UNCHANGED <<setup, talk, turns>>,
         \/ at \in {"preparing", "streaming", "checking", "relabeling", "rewriting", "saving"}
         \/ at' \notin {"preparing", "streaming", "checking", "relabeling", "rewriting", "saving"}
  PROVE  TurnsFollow'
BY DEF TellingInv, TurnsFollow

\* Where no document is in work.
LEMMA TellsNothing ==
  ASSUME TellingInv, TranscriptInv', TurnsFollow', UNCHANGED <<setup, talk, wholes>>,
         at' \notin {"streaming", "checking", "relabeling", "rewriting", "saving"},
         status' # "finished", FilesAreRetold'
  PROVE  TellingInv'
<1>1. talk' \in Talks BY DEF TellingInv
<1> QED BY <1>1 DEF TellingInv, TellsOn, CheckHasAll, RewritesToTheEnd, SavesATelling,
                    FinishedIsWhole

LEMMA TellsWhileStreaming ==
  ASSUME TellingInv, TranscriptInv', TurnsFollow', UNCHANGED <<setup, talk, wholes>>,
         at' = "streaming", status' # "finished", FilesAreRetold',
         told' \in 0..Len(talk.segments), ~flags'.failed,
         [page |-> page', named |-> named'] = Tellings[told']
  PROVE  TellingInv'
<1>1. talk' \in Talks /\ \A k \in Nat : Tellings'[k] = Tellings[k]
  BY StoryStays DEF TellingInv
<1>2. told' \in Nat OBVIOUS
<1>3. TellsOn' BY <1>1, <1>2 DEF TellsOn
<1> QED BY <1>1, <1>3 DEF TellingInv, CheckHasAll, RewritesToTheEnd, SavesATelling,
                          FinishedIsWhole

LEMMA TellsWhileChecking ==
  ASSUME TellingInv, TranscriptInv', TurnsFollow', UNCHANGED <<setup, talk, wholes>>,
         at' \in {"checking", "relabeling"}, status' # "finished", FilesAreRetold',
         ~flags'.failed, page'.doc = Telling, at' = "checking" => ~page'.first,
         at' = "relabeling" => files'[file'] = Holds(Telling)
  PROVE  TellingInv'
<1>1. talk' \in Talks /\ Telling' = Telling BY StoryStays DEF TellingInv
<1>2. CheckHasAll' BY <1>1 DEF CheckHasAll, Holds
<1> QED BY <1>1, <1>2 DEF TellingInv, TellsOn, RewritesToTheEnd, SavesATelling,
                          FinishedIsWhole

LEMMA TellsWhileRewriting ==
  ASSUME TellingInv, TranscriptInv', TurnsFollow', UNCHANGED <<setup, talk>>,
         wholes \subseteq wholes',
         at' = "rewriting", status' # "finished", FilesAreRetold',
         ~flags'.failed, check'.doc = Telling, check'.done \in Nat,
         files'[file'] = Holds(Telling), (\E w : Rewriting(w))'
  PROVE  TellingInv'
<1>1. talk' \in Talks /\ Telling' = Telling BY StoryStays DEF TellingInv
<1>2. CheckHasAll' /\ RewritesToTheEnd' BY <1>1 DEF CheckHasAll, RewritesToTheEnd, Holds
<1> QED BY <1>1, <1>2 DEF TellingInv, TellsOn, SavesATelling, FinishedIsWhole

LEMMA TellsWhileSaving ==
  ASSUME TellingInv, TranscriptInv', TurnsFollow', UNCHANGED <<setup, talk, wholes>>,
         at' = "saving", status' # "finished", FilesAreRetold', Retold(page'.doc),
         ~flags'.failed => IF page'.first THEN files'[file'] = Holds(Telling)
                           ELSE page'.doc \in {Telling} \cup wholes
  PROVE  TellingInv'
<1>1. talk' \in Talks /\ Telling' = Telling BY StoryStays DEF TellingInv
<1>2. SavesATelling' BY <1>1 DEF SavesATelling, Retold, Holds
<1> QED BY <1>1, <1>2 DEF TellingInv, TellsOn, CheckHasAll, RewritesToTheEnd, FinishedIsWhole

\* Stop, a repetition of the job, and no step at all.
LEMMA TellsOnWaiting ==
  ASSUME TellingInv, TranscriptInv',
         UNCHANGED <<setup, talk, at, page, named, turns, told, check, files, file, wholes>>,
         flags'.failed = flags.failed, status' \in {status, "canceling", "waiting"}
  PROVE  TellingInv'
<1>1. /\ talk' \in Talks /\ Telling' = Telling /\ FilesAreRetold'
      /\ \A k \in Nat : Tellings'[k] = Tellings[k]
  BY StoryStays DEF TellingInv
<1>2. TurnsFollow' BY DEF TellingInv, TurnsFollow
<1>3. TellsOn'
  <2> SUFFICES ASSUME at = "streaming" PROVE TellsOn' BY DEF TellsOn
  <2>1. told \in Nat BY DEF TellingInv, TellsOn
  <2> QED BY <1>1, <2>1 DEF TellingInv, TellsOn
<1>4. CheckHasAll' BY <1>1 DEF TellingInv, CheckHasAll, Holds
<1>5. RewritesToTheEnd' BY <1>1, RewritingStays DEF TellingInv, RewritesToTheEnd
<1>6. SavesATelling' BY <1>1 DEF TellingInv, SavesATelling, Retold, Holds
<1>7. FinishedIsWhole' BY <1>1 DEF TellingInv, FinishedIsWhole, Holds
<1> QED BY <1>1, <1>2, <1>3, <1>4, <1>5, <1>6, <1>7 DEF TellingInv

\* At work, the job is not finished.
LEMMA NotYetFinished ==
  ASSUME TellingInv, at # "queue" \/ status = "waiting" PROVE status # "finished"
BY DEF TellingInv, FinishedIsWhole

LEMMA StartsTells == TellingInv /\ Starts => TellingInv'
<1> SUFFICES ASSUME TellingInv, Starts PROVE TellingInv' OBVIOUS
<1>1. TranscriptInv' BY StartsKeeps DEF TellingInv
<1>2. /\ UNCHANGED <<setup, talk, files, wholes>> /\ at' = "converting" /\ status' = "running"
      /\ turns' = << >>
  BY DEF Starts
<1>3. TurnsFollow' BY <1>2 DEF TurnsFollow
<1>4. FilesAreRetold' BY <1>2, StoryStays DEF TellingInv
<1> QED BY <1>1, <1>2, <1>3, <1>4, TellsNothing

LEMMA ConvertsTells == TellingInv /\ Converts => TellingInv'
<1> SUFFICES ASSUME TellingInv, Converts PROVE TellingInv' OBVIOUS
<1>1. TranscriptInv' BY ConvertsKeeps DEF TellingInv
<1>2. /\ UNCHANGED <<setup, talk, turns, files, wholes>>
      /\ at' \in {"identifying", "preparing", "queue"}
      /\ at' = "preparing" => ~(setup.diarize /\ ~setup.remote)
      /\ status' \in {status, "canceled", "error"}
  BY DEF Converts, Fails
<1>3. TurnsFollow' BY <1>2 DEF TellingInv, TurnsFollow
<1>4. FilesAreRetold' BY <1>2, StoryStays DEF TellingInv
<1>5. status # "finished" BY NotYetFinished DEF Converts
<1> QED BY <1>1, <1>2, <1>3, <1>4, <1>5, TellsNothing

LEMMA IdentifiesTells == TellingInv /\ Identifies => TellingInv'
<1> SUFFICES ASSUME TellingInv, Identifies PROVE TellingInv' OBVIOUS
<1>1. TranscriptInv' BY IdentifiesKeeps DEF TellingInv
<1>2. /\ UNCHANGED <<setup, talk, files, wholes>> /\ at = "identifying"
      /\ \/ turns' = talk.turns /\ at' = "preparing"
         \/ turns' = turns /\ at' \in {"identifying", "queue"}
      /\ status' \in {status, "canceled", "error"}
  BY DEF Identifies, Fails
<1>3. TurnsFollow' BY <1>2 DEF TellingInv, TurnsFollow
<1>4. FilesAreRetold' BY <1>2, StoryStays DEF TellingInv
<1>5. status # "finished" BY <1>2, NotYetFinished
<1> QED BY <1>1, <1>2, <1>3, <1>4, <1>5, TellsNothing

LEMMA PreparesTells == TellingInv /\ Prepares => TellingInv'
<1> SUFFICES ASSUME TellingInv, Prepares PROVE TellingInv' OBVIOUS
<1>1. TranscriptInv' BY PreparesKeeps DEF TellingInv
<1>2. /\ UNCHANGED <<setup, talk, turns, status, files, wholes>> /\ at = "preparing"
      /\ at' = "streaming" /\ told' = 0 /\ page' = NewPage /\ named' = NoNames
  BY DEF Prepares
<1>3. ~flags'.failed BY DEF Prepares, TellingInv, TranscriptInv, Flags
<1>4. FilesAreRetold' BY <1>2, StoryStays DEF TellingInv
<1>5. status' # "finished" BY <1>2, NotYetFinished
<1>6. told' \in 0..Len(talk.segments)
  BY <1>2, TranscriptAssumption DEF TellingInv
<1>7. [page |-> page', named |-> named'] = Tellings[told'] BY <1>2, TellingsAre
<1>8. TurnsFollow' BY <1>2, TurnsStay
<1> QED BY <1>1, <1>2, <1>3, <1>4, <1>5, <1>6, <1>7, <1>8, TellsWhileStreaming

LEMMA ReceivesDiarizationTells == TellingInv /\ ReceivesDiarization => TellingInv'
<1> SUFFICES ASSUME TellingInv, ReceivesDiarization PROVE TellingInv' OBVIOUS
<1>1. TranscriptInv' BY ReceivesDiarizationKeeps DEF TellingInv
<1>2. /\ UNCHANGED <<setup, talk, at, status, page, named, told, files, flags, wholes>>
      /\ at = "streaming" /\ turns' = talk.turns
  BY DEF ReceivesDiarization
<1>3. /\ told \in 0..Len(talk.segments) /\ ~flags.failed
      /\ [page |-> page, named |-> named] = Tellings[told]
  BY <1>2 DEF TellingInv, TellsOn
<1>4. FilesAreRetold' BY <1>2, StoryStays DEF TellingInv
<1>5. status' # "finished" BY <1>2, NotYetFinished
<1>6. TurnsFollow' BY <1>2 DEF TurnsFollow
<1> QED BY <1>1, <1>2, <1>3, <1>4, <1>5, <1>6, TellsWhileStreaming

\* The speakers under which a segment is written are those of the talk.
LEMMA TurnsAreThose ==
  ASSUME TellingInv, at = "streaming", MayTell, NEW w, NEW segment
  PROVE  OnSegment(w, segment, turns) = OnSegment(w, segment, talk.turns)
<1>1. ~setup.diarize \/ turns = talk.turns BY DEF TellingInv, TurnsFollow, MayTell
<1>2. SpeakerIn(turns, segment) = SpeakerIn(talk.turns, segment)
  <2>1. CASE ~setup.diarize BY <2>1 DEF SpeakerIn
  <2>2. CASE turns = talk.turns BY <2>2
  <2> QED BY <1>1, <2>1, <2>2
<1> QED BY <1>2 DEF OnSegment

LEMMA SegmentArrivesTells == TellingInv /\ SegmentArrives => TellingInv'
<1> SUFFICES ASSUME TellingInv, SegmentArrives PROVE TellingInv' OBVIOUS
<1>1. TranscriptInv' BY SegmentArrivesKeeps DEF TellingInv
<1> DEFINE now == [page |-> page, named |-> named]
           w == OnSegment(now, Segment(told + 1), turns)
<1>2. /\ UNCHANGED <<setup, talk, status, turns, wholes>> /\ at = "streaming" /\ MayTell
      /\ page' = w.page /\ named' = w.named /\ told' = told + 1
  BY DEF SegmentArrives
<1>3. /\ told \in 0..Len(talk.segments) /\ now = Tellings[told] /\ ~flags.failed
      /\ Len(talk.segments) \in Nat /\ told < Len(talk.segments)
  BY <1>2, TranscriptAssumption DEF TellingInv, TellsOn, MayTell
<1>4. w = Tellings[told']
  <2>1. told \in Nat BY <1>3
  <2>2. Tellings[told + 1] = OnSegment(Tellings[told], Segment(told + 1), talk.turns)
    BY <2>1, TellingsAre
  <2> HIDE DEF now
  <2>3. w = OnSegment(now, Segment(told + 1), talk.turns) BY <1>2, TurnsAreThose
  <2> HIDE DEF w
  <2> QED BY <1>2, <1>3, <2>2, <2>3
<1>5. told' \in 0..Len(talk.segments) /\ told' \in Nat BY <1>2, <1>3
<1>6. IsWriter(w) BY <1>4, <1>5, TellingsAreDocs
<1>7. Retold(w.page.doc)
  <2> HIDE DEF w
  <2> QED BY <1>4, <1>5, PartIsRetold DEF TellingInv
<1>8. status' # "finished" BY <1>2, NotYetFinished
<1>9. TurnsFollow' BY <1>2, TurnsStay
<1>10. [page |-> page', named |-> named'] = Tellings[told']
  <2> HIDE DEF w
  <2> QED BY <1>2, <1>4, <1>6 DEF IsWriter
<1>11. \/ UNCHANGED <<at, files, file, partial, flags>>
       \/ \E o \in Outcomes(w.page.doc) :
            /\ Saves(o)
            /\ at' = IF o.failed THEN "saving" ELSE at
            /\ flags' = [Refused(o, flags) EXCEPT !.failed = o.failed]
  BY DEF SegmentArrives
<1> HIDE DEF w
<1>12. CASE UNCHANGED <<at, files, file, partial, flags>>
  <2>1. FilesAreRetold' BY <1>2, <1>12, StoryStays DEF TellingInv
  <2> QED BY <1>1, <1>2, <1>3, <1>5, <1>8, <1>9, <1>10, <1>12, <2>1, TellsWhileStreaming
<1>13. CASE \E o \in Outcomes(w.page.doc) :
              /\ Saves(o)
              /\ at' = IF o.failed THEN "saving" ELSE at
              /\ flags' = [Refused(o, flags) EXCEPT !.failed = o.failed]
  <2>1. PICK o \in Outcomes(w.page.doc) :
              /\ Saves(o)
              /\ at' = IF o.failed THEN "saving" ELSE at
              /\ flags' = [Refused(o, flags) EXCEPT !.failed = o.failed]
    BY <1>13
  <2>2. FilesAreRetold' BY <1>2, <1>7, <2>1, SavesRetold
  <2>3. o.failed \in BOOLEAN /\ Refused(o, flags) \in Flags
    BY SaveOutcomes DEF TellingInv, TranscriptInv
  <2>4. flags'.failed = o.failed BY <2>1, <2>3 DEF Flags
  <2>5. CASE o.failed
    <3>1. at' = "saving" /\ flags'.failed BY <2>1, <2>4, <2>5
    <3> QED BY <1>1, <1>2, <1>7, <1>8, <1>9, <2>2, <3>1, TellsWhileSaving
  <2>6. CASE ~o.failed
    <3>1. at' = "streaming" /\ ~flags'.failed BY <1>2, <2>1, <2>4, <2>6
    <3> QED BY <1>1, <1>2, <1>5, <1>8, <1>9, <1>10, <2>2, <3>1, TellsWhileStreaming
  <2> QED BY <2>5, <2>6
<1> QED BY <1>11, <1>12, <1>13

LEMMA ServerRetriesTells == TellingInv /\ ServerRetries => TellingInv'
<1> SUFFICES ASSUME TellingInv, ServerRetries PROVE TellingInv' OBVIOUS
<1>1. TranscriptInv' BY ServerRetriesKeeps DEF TellingInv
<1>2. /\ UNCHANGED <<setup, talk, at, turns, status, files, wholes>> /\ at = "streaming"
      /\ told' = 0 /\ page' = NewPage /\ named' = NoNames
  BY DEF ServerRetries, Reset
<1>3. ~flags'.failed
  BY DEF ServerRetries, TellingInv, TellsOn, TranscriptInv, Flags
<1>4. FilesAreRetold' BY <1>2, StoryStays DEF TellingInv
<1>5. status' # "finished" BY <1>2, NotYetFinished
<1>6. told' \in 0..Len(talk.segments)
  BY <1>2, TranscriptAssumption DEF TellingInv
<1>7. [page |-> page', named |-> named'] = Tellings[told'] BY <1>2, TellingsAre
<1>8. TurnsFollow' BY <1>2, TurnsStay
<1> QED BY <1>1, <1>2, <1>3, <1>4, <1>5, <1>6, <1>7, <1>8, TellsWhileStreaming

LEMMA EngineEndsTells == TellingInv /\ EngineEnds => TellingInv'
<1> SUFFICES ASSUME TellingInv, EngineEnds PROVE TellingInv' OBVIOUS
<1>1. TranscriptInv' BY EngineEndsKeeps DEF TellingInv
<1>2. /\ UNCHANGED <<setup, talk, status, page, turns, files, wholes>> /\ at = "streaming"
      /\ told = Len(talk.segments) /\ at' = IF page.first THEN "saving" ELSE "checking"
  BY DEF EngineEnds
<1>3. page.doc = Telling
  <2>1. [page |-> page, named |-> named] = Tellings[Len(talk.segments)]
    BY <1>2 DEF TellingInv, TellsOn
  <2> QED BY <2>1 DEF Telling
<1>4. flags'.failed = page.first BY DEF EngineEnds, TellingInv, TranscriptInv, Flags
<1>5. Retold(page'.doc) BY <1>2, <1>3, TellingIsRetold DEF TellingInv
<1>6. FilesAreRetold' BY <1>2, StoryStays DEF TellingInv
<1>7. status' # "finished" BY <1>2, NotYetFinished
<1>8. TurnsFollow' BY <1>2, TurnsStay
<1>9. page.first \in BOOLEAN BY DEF TellingInv, TranscriptInv
<1>10. CASE page.first
  <2>1. at' = "saving" /\ flags'.failed BY <1>2, <1>4, <1>10
  <2> QED BY <1>1, <1>2, <1>5, <1>6, <1>7, <1>8, <2>1, TellsWhileSaving
<1>11. CASE ~page.first
  <2>1. at' = "checking" /\ ~flags'.failed /\ ~page'.first BY <1>2, <1>4, <1>11
  <2> QED BY <1>1, <1>2, <1>3, <1>6, <1>7, <1>8, <2>1, TellsWhileChecking
<1> QED BY <1>10, <1>11

LEMMA EngineFailsTells == TellingInv /\ EngineFails => TellingInv'
<1> SUFFICES ASSUME TellingInv, EngineFails PROVE TellingInv' OBVIOUS
<1>1. TranscriptInv' BY EngineFailsKeeps DEF TellingInv
<1>2. /\ UNCHANGED <<setup, talk, status, page, turns, files, wholes>> /\ at = "streaming"
      /\ at' = "saving"
  BY DEF EngineFails
<1>3. flags'.failed = TRUE BY DEF EngineFails, TellingInv, TranscriptInv, Flags
<1>4. Retold(page'.doc)
  <2>1. told \in 0..Len(talk.segments) /\ [page |-> page, named |-> named] = Tellings[told]
    BY <1>2 DEF TellingInv, TellsOn
  <2>2. page.doc = Tellings[told].page.doc BY <2>1
  <2> QED BY <1>2, <2>1, <2>2, PartIsRetold DEF TellingInv
<1>5. FilesAreRetold' BY <1>2, StoryStays DEF TellingInv
<1>6. status' # "finished" BY <1>2, NotYetFinished
<1>7. TurnsFollow' BY <1>2, TurnsStay
<1> QED BY <1>1, <1>2, <1>3, <1>4, <1>5, <1>6, <1>7, TellsWhileSaving

\* The check is over, and has left the page as it was.
LEMMA CheckedTells ==
  ASSUME TellingInv, TranscriptInv', Checked, at \in {"checking", "relabeling"},
         UNCHANGED <<setup, talk, status, page, turns, files, file, flags, wholes>>
  PROVE  TellingInv'
<1>1. /\ page.doc = Telling
      /\ at = "checking" => ~page.first
      /\ at = "relabeling" => files[file] = Holds(Telling)
  BY DEF TellingInv, CheckHasAll
<1>2. Retold(page'.doc) BY <1>1, TellingIsRetold DEF TellingInv
<1>3. at' = "saving" BY DEF Checked
<1>4. FilesAreRetold' BY StoryStays DEF TellingInv
<1>5. status' # "finished" BY NotYetFinished
<1>6. TurnsFollow' BY TurnsStay
<1> QED BY <1>1, <1>2, <1>3, <1>4, <1>5, <1>6, TellsWhileSaving

LEMMA SkipsCheckTells == TellingInv /\ SkipsCheck => TellingInv'
<1>1. TellingInv /\ SkipsCheck => TranscriptInv' BY SkipsCheckKeeps DEF TellingInv
<1> QED BY <1>1, CheckedTells DEF SkipsCheck

LEMMA ChecksVoicesTells == TellingInv /\ ChecksVoices => TellingInv'
<1> SUFFICES ASSUME TellingInv, ChecksVoices PROVE TellingInv' OBVIOUS
<1>1. TranscriptInv' BY ChecksVoicesKeeps DEF TellingInv
<1>2. UNCHANGED <<setup, talk, status, page, named, turns, told, wholes>> /\ at = "checking"
  BY DEF ChecksVoices
<1>3. PICK o \in Outcomes(page.doc) :
        /\ Saves(o)
        /\ flags' = Refused(o, flags)
        /\ at' = IF o.failed THEN "saving" ELSE "relabeling"
  BY DEF ChecksVoices, Checked
<1>4. /\ o.failed \in BOOLEAN /\ flags \in Flags
      /\ ~o.failed => o.files[o.file] = Holds(page.doc)
  BY SaveOutcomes DEF TellingInv, TranscriptInv
<1>5. page.doc = Telling /\ ~page.first /\ ~flags.failed
  BY <1>2 DEF TellingInv, CheckHasAll
<1>6. ~flags'.failed BY <1>3, <1>4, <1>5 DEF Refused, Flags
<1>7. Retold(page.doc) BY <1>5, TellingIsRetold DEF TellingInv
<1>8. FilesAreRetold' BY <1>2, <1>3, <1>7, SavesRetold
<1>9. status' # "finished" BY <1>2, NotYetFinished
<1>10. TurnsFollow' BY <1>2, TurnsStay
<1>11. CASE o.failed
  <2>1. at' = "saving" BY <1>3, <1>11
  <2> QED BY <1>1, <1>2, <1>5, <1>7, <1>8, <1>9, <1>10, <2>1, TellsWhileSaving
<1>12. CASE ~o.failed
  <2>1. at' = "relabeling" /\ files'[file'] = Holds(Telling)
    BY <1>3, <1>4, <1>5, <1>12 DEF Saves
  <2> QED BY <1>1, <1>2, <1>5, <1>6, <1>8, <1>9, <1>10, <2>1, TellsWhileChecking
<1> QED BY <1>4, <1>11, <1>12

\* A check that moves something has the page begun anew, on its way to the document
\* that is told from then on.
LEMMA RewritingBegins ==
  ASSUME UNCHANGED <<setup, talk>>, NEW names, NEW passages, NEW doc, NEW putback,
         page' = NewPage, named' = names,
         check' = [passages |-> passages, done |-> 0, doc |-> doc, named |-> putback],
         wholes' = wholes \cup {Written([page |-> NewPage, named |-> names],
                                        passages)[Len(passages)].page.doc}
  PROVE  (\E w : Rewriting(w))'
<1> DEFINE start == [page |-> NewPage, named |-> names]
           w == Written(start, passages)
<1>1. w[0] = start /\ \A k \in Nat :
        w[k + 1] = WritesUnder(w[k], passages[k + 1].segment, passages[k + 1].by)
  BY WrittenAre
<1>2. w[Len(passages)].page.doc \in wholes' OBVIOUS
<1> HIDE DEF w
<1>3. PICK v : v = w OBVIOUS
<1>4. check'.passages = passages /\ check'.done = 0 OBVIOUS
<1>5. ASSUME NEW u, NEW segment, NEW new
      PROVE  WritesUnder(u, segment, new)' = WritesUnder(u, segment, new)
  BY WritingStays
<1>6. ASSUME NEW k \in Nat
      PROVE  (v[k + 1] = WritesUnder(v[k], check.passages[k + 1].segment,
                                     check.passages[k + 1].by))'
  BY <1>1, <1>3, <1>4, <1>5
<1>7. [page |-> page', named |-> named'] = v[check'.done] BY <1>1, <1>3, <1>4
<1>8. v[Len(check'.passages)].page.doc \in wholes' BY <1>2, <1>3, <1>4
<1>9. Rewriting(v)' BY <1>6, <1>7, <1>8 DEF Rewriting
<1> QED BY <1>9

LEMMA RelabelsWhat ==
  ASSUME Relabels
  PROVE  \/ Checked /\ UNCHANGED <<page, named, wholes>>
         \/ /\ at' = "rewriting" /\ page' = NewPage
            /\ \E passages :
                 /\ check' = [passages |-> passages, done |-> 0, doc |-> page.doc, named |-> named]
                 /\ wholes' = wholes \cup {Written([page |-> NewPage, named |-> named'],
                                                   passages)[Len(passages)].page.doc}
<1>1. CASE Checked /\ UNCHANGED <<page, named, wholes>> BY <1>1
<1>2. CASE ~(Checked /\ UNCHANGED <<page, named, wholes>>)
  <2>1. \E new, names :
          IF new.moves = << >>
          THEN Checked /\ UNCHANGED <<page, named, wholes>>
          ELSE LET fresh == [Reset EXCEPT !.named = names] IN
               /\ at' = "rewriting"
               /\ check' = [passages |-> new.passages, done |-> 0, doc |-> page.doc, named |-> named]
               /\ page' = fresh.page /\ named' = fresh.named
               /\ wholes' = wholes \cup {Written(fresh, new.passages)[Len(new.passages)].page.doc}
    BY <1>2 DEF Relabels
  <2>2. \A names : [Reset EXCEPT !.named = names] = [page |-> NewPage, named |-> names]
    BY DEF Reset
  <2> QED BY <1>2, <2>1, <2>2
<1> QED BY <1>1, <1>2

LEMMA RelabelsTells == TellingInv /\ Relabels => TellingInv'
<1> SUFFICES ASSUME TellingInv, Relabels PROVE TellingInv' OBVIOUS
<1>1. TranscriptInv' BY RelabelsKeeps DEF TellingInv
<1>2. UNCHANGED <<setup, talk, status, turns, files, file, flags>> /\ at = "relabeling"
  BY DEF Relabels
<1>3. CASE Checked /\ UNCHANGED <<page, named, wholes>>
  BY <1>1, <1>2, <1>3, CheckedTells
<1>4. CASE /\ at' = "rewriting" /\ page' = NewPage
           /\ \E passages :
                /\ check' = [passages |-> passages, done |-> 0, doc |-> page.doc, named |-> named]
                /\ wholes' = wholes \cup {Written([page |-> NewPage, named |-> named'],
                                                  passages)[Len(passages)].page.doc}
  <2>1. PICK passages :
          /\ check' = [passages |-> passages, done |-> 0, doc |-> page.doc, named |-> named]
          /\ wholes' = wholes \cup {Written([page |-> NewPage, named |-> named'],
                                            passages)[Len(passages)].page.doc}
    BY <1>4
  <2>2. check'.doc = page.doc /\ check'.done = 0 BY <2>1
  <2>3. wholes \subseteq wholes' BY <2>1
  <2>4. PICK names : names = named' OBVIOUS
  <2>5. PICK doc, putback : doc = page.doc /\ putback = named OBVIOUS
  <2>6. (\E w : Rewriting(w))' BY <1>2, <1>4, <2>1, <2>4, <2>5, RewritingBegins
  <2>7. page.doc = Telling /\ ~flags.failed /\ files[file] = Holds(Telling)
    BY <1>2 DEF TellingInv, CheckHasAll
  <2>8. FilesAreRetold' BY <1>2, <2>3, StoryStays DEF TellingInv
  <2>9. status' # "finished" BY <1>2, NotYetFinished
  <2>10. TurnsFollow' BY <1>2, TurnsStay
  <2> QED BY <1>1, <1>2, <1>4, <2>2, <2>3, <2>6, <2>7, <2>8, <2>9, <2>10, TellsWhileRewriting
<1> QED BY <1>3, <1>4, RelabelsWhat

LEMMA RewritesOneTells == TellingInv /\ RewritesOne => TellingInv'
<1> SUFFICES ASSUME TellingInv, RewritesOne PROVE TellingInv' OBVIOUS
<1>1. TranscriptInv' BY RewritesOneKeeps DEF TellingInv
<1> DEFINE now == [page |-> page, named |-> named]
           passage == check.passages[check.done + 1]
           v == WritesUnder(now, passage.segment, passage.by)
           done == check.done + 1
<1>2. /\ UNCHANGED <<setup, talk, at, status, turns, files, file, flags, wholes>>
      /\ at = "rewriting" /\ page' = v.page /\ named' = v.named
      /\ check' = [check EXCEPT !.done = done]
  BY DEF RewritesOne
<1>3. /\ ~flags.failed /\ check.doc = Telling /\ check.done \in Nat
      /\ files[file] = Holds(Telling) /\ \E w : Rewriting(w)
  BY <1>2 DEF TellingInv, RewritesToTheEnd, CheckHasAll
<1>4. v = [page |-> v.page, named |-> v.named]
  <2> DEFINE segment == passage.segment
             new == passage.by
  <2>1. /\ IsPage(now.page) /\ IsDoc(now.page.doc) /\ NamedBy(now.page.doc, now.named)
        /\ SpeaksNamed(now.page, now.named)
    BY <1>2 DEF TellingInv, TranscriptInv
  <2>2. v = WritesUnder(now, segment, new) OBVIOUS
  <2> HIDE DEF now, segment, new, v
  <2>3. WritesUnder(now, segment, new)
          = [named |-> WritesUnder(now, segment, new).named,
             page |-> WritesUnder(now, segment, new).page]
    BY <2>1, WritingKeepsNames
  <2> QED BY <2>2, <2>3
<1>5. PICK way : Rewriting(way) BY <1>3
<1>6. now = way[check.done] /\ way[done] = v
  <2>1. /\ now = way[check.done]
        /\ way[check.done + 1] = WritesUnder(way[check.done], check.passages[check.done + 1].segment,
                                           check.passages[check.done + 1].by)
    BY <1>3, <1>5 DEF Rewriting
  <2> QED BY <2>1
<1> HIDE DEF v
<1>7. done \in Nat BY <1>3
<1> HIDE DEF done
<1>8. PutBackOK BY <1>2 DEF TellingInv, TranscriptInv
<1>9. check'.passages = check.passages /\ check'.doc = check.doc /\ check'.done = done
  BY <1>2, <1>8 DEF PutBackOK
<1>10. (\E w : Rewriting(w))'
  <2>1. ASSUME NEW u, NEW segment, NEW new
        PROVE  WritesUnder(u, segment, new)' = WritesUnder(u, segment, new)
    BY <1>2, WritingStays
  <2>2. ASSUME NEW k \in Nat
        PROVE  (way[k + 1] = WritesUnder(way[k], check.passages[k + 1].segment,
                                       check.passages[k + 1].by))'
    <3>1. way[k + 1] = WritesUnder(way[k], check.passages[k + 1].segment, check.passages[k + 1].by)
      BY <1>5 DEF Rewriting
    <3> QED BY <1>9, <2>1, <3>1
  <2>3. [page |-> page', named |-> named'] = way[check'.done]
    BY <1>2, <1>4, <1>6, <1>9
  <2>4. way[Len(check'.passages)].page.doc \in wholes' BY <1>2, <1>5, <1>9 DEF Rewriting
  <2>5. Rewriting(way)' BY <2>2, <2>3, <2>4 DEF Rewriting
  <2> QED BY <2>5
<1>11. FilesAreRetold' BY <1>2, StoryStays DEF TellingInv
<1>12. status' # "finished" BY <1>2, NotYetFinished
<1>13. TurnsFollow' BY <1>2, TurnsStay
<1> QED BY <1>1, <1>2, <1>3, <1>7, <1>9, <1>10, <1>11, <1>12, <1>13, TellsWhileRewriting

\* Stop puts back the whole telling.
LEMMA PutsBackTells == TellingInv /\ PutsBack => TellingInv'
<1> SUFFICES ASSUME TellingInv, PutsBack PROVE TellingInv' OBVIOUS
<1>1. TranscriptInv' BY PutsBackKeeps DEF TellingInv
<1>2. /\ UNCHANGED <<setup, talk, status, turns, files, file, flags, wholes>>
      /\ at = "rewriting" /\ at' = "saving"
      /\ page' = [page EXCEPT !.doc = check.doc, !.first = FALSE]
  BY DEF PutsBack, Checked
<1>3. check.doc = Telling BY <1>2 DEF TellingInv, RewritesToTheEnd
<1>4. page'.doc = Telling /\ page'.first = FALSE
  BY <1>2, <1>3, SMT DEF TellingInv, TranscriptInv, IsPage
<1>5. Retold(page'.doc) BY <1>4, TellingIsRetold DEF TellingInv
<1>6. FilesAreRetold' BY <1>2, StoryStays DEF TellingInv
<1>7. status' # "finished" BY <1>2, NotYetFinished
<1>8. TurnsFollow' BY <1>2, TurnsStay
<1> QED BY <1>1, <1>2, <1>4, <1>5, <1>6, <1>7, <1>8, TellsWhileSaving

LEMMA RewriteEndsTells == TellingInv /\ RewriteEnds => TellingInv'
<1> SUFFICES ASSUME TellingInv, RewriteEnds PROVE TellingInv' OBVIOUS
<1>1. TranscriptInv' BY RewriteEndsKeeps DEF TellingInv
<1>2. /\ UNCHANGED <<setup, talk, status, page, turns, files, file, flags, wholes>>
      /\ at = "rewriting" /\ at' = "saving" /\ check.done = Len(check.passages)
  BY DEF RewriteEnds, Checked
<1>3. files[file] = Holds(Telling) /\ \E w : Rewriting(w)
  BY <1>2 DEF TellingInv, RewritesToTheEnd, CheckHasAll
<1>4. page.doc \in wholes
  <2>1. PICK w : Rewriting(w) BY <1>3
  <2>2. [page |-> page, named |-> named] = w[Len(check.passages)]
    BY <1>2, <2>1 DEF Rewriting
  <2>3. page = w[Len(check.passages)].page BY <2>2
  <2> QED BY <2>1, <2>3 DEF Rewriting
<1>5. Retold(page'.doc) BY <1>2, <1>4 DEF Retold
<1>6. FilesAreRetold' BY <1>2, StoryStays DEF TellingInv
<1>7. status' # "finished" BY <1>2, NotYetFinished
<1>8. TurnsFollow' BY <1>2, TurnsStay
<1> QED BY <1>1, <1>2, <1>3, <1>4, <1>5, <1>6, <1>7, <1>8, TellsWhileSaving

\* A try is over: the file of a job that is finished holds the whole of a telling.
LEMMA SavesAtEndTells == TellingInv /\ SavesAtEnd => TellingInv'
<1> SUFFICES ASSUME TellingInv, SavesAtEnd PROVE TellingInv' OBVIOUS
<1>1. TranscriptInv' BY SavesAtEndKeeps DEF TellingInv
<1>2. /\ UNCHANGED <<setup, talk, page, turns, wholes>> /\ at = "saving"
      /\ at' \in {"preparing", "queue"}
  BY DEF SavesAtEnd, Leaves, Fails
<1>3. /\ Retold(page.doc)
      /\ ~flags.failed => IF page.first THEN files[file] = Holds(Telling)
                          ELSE page.doc \in {Telling} \cup wholes
  BY <1>2 DEF TellingInv, SavesATelling
<1>4. FilesAreRetold'
  <2>1. CASE page.first
    <3>1. files' = files BY <2>1 DEF SavesAtEnd
    <3> QED BY <1>2, <3>1, StoryStays DEF TellingInv
  <2>2. CASE ~page.first
    <3>1. PICK o \in Outcomes(page.doc) : Saves(o) BY <2>2 DEF SavesAtEnd
    <3> QED BY <1>2, <1>3, <3>1, SavesRetold
  <2> QED BY <2>1, <2>2
<1>5. TurnsFollow' BY <1>2, TurnsStay
<1>6. talk' \in Talks /\ Telling' = Telling BY <1>2, StoryStays DEF TellingInv
<1>7. status # "finished" BY <1>2, NotYetFinished
<1>8. ASSUME status' = "finished"
      PROVE  at' = "queue" /\ \E doc \in {Telling} \cup wholes : files'[file'] = Holds(doc)
  <2>1. CASE page.first
    <3>1. files' = files /\ file' = file /\ Leaves(flags.failed, flags.retry)
      BY <2>1 DEF SavesAtEnd
    <3>2. ~flags.failed /\ at' = "queue" BY <1>7, <1>8, <3>1 DEF Leaves, Fails
    <3> QED BY <1>3, <2>1, <3>1, <3>2
  <2>2. CASE ~page.first
    <3>1. PICK o \in Outcomes(page.doc) :
            /\ Saves(o)
            /\ Leaves(flags.failed \/ o.failed, flags.retry /\ ~o.failed)
      BY <2>2 DEF SavesAtEnd
    <3>2. ~flags.failed /\ ~o.failed /\ at' = "queue" BY <1>7, <1>8, <3>1 DEF Leaves, Fails
    <3>3. o.files[o.file] = Holds(page.doc)
      BY <3>2, SaveOutcomes DEF TellingInv, TranscriptInv
    <3> QED BY <1>3, <2>2, <3>1, <3>2, <3>3 DEF Saves
  <2> QED BY <2>1, <2>2
<1>9. FinishedIsWhole' BY <1>2, <1>6, <1>8 DEF FinishedIsWhole, Holds
<1> QED BY <1>1, <1>2, <1>4, <1>5, <1>6, <1>9 DEF TellingInv, TellsOn, CheckHasAll,
                                     RewritesToTheEnd, SavesATelling

LEMMA UserStopsTells == TellingInv /\ UserStops => TellingInv'
<1> SUFFICES ASSUME TellingInv, UserStops PROVE TellingInv' OBVIOUS
<1>1. TranscriptInv' BY UserStopsKeeps DEF TellingInv
<1>2. flags'.failed = flags.failed BY DEF UserStops, TellingInv, TranscriptInv, Flags
<1> QED BY <1>1, <1>2, TellsOnWaiting DEF UserStops

LEMMA RepeatsTells == TellingInv /\ Repeats => TellingInv'
<1>1. TellingInv /\ Repeats => TranscriptInv' BY RepeatsKeeps DEF TellingInv
<1> QED BY <1>1, TellsOnWaiting DEF Repeats

LEMMA StepTells == TellingInv /\ [TranscriptNext]_vars => TellingInv'
<1>1. TellingInv /\ UNCHANGED vars => TellingInv'
  BY StepKeepsTranscript, TellsOnWaiting DEF vars, TellingInv
<1> QED BY <1>1, StartsTells, ConvertsTells, IdentifiesTells, PreparesTells,
           ReceivesDiarizationTells, SegmentArrivesTells, ServerRetriesTells,
           EngineEndsTells, EngineFailsTells, SkipsCheckTells, ChecksVoicesTells,
           RelabelsTells, RewritesOneTells, PutsBackTells, RewriteEndsTells,
           SavesAtEndTells, UserStopsTells, RepeatsTells DEF TranscriptNext

\* Whatever is stopped, refused, retried or put back: every file holds the segments
\* of one try, in order and without a gap, and that of a finished job the whole of
\* what was told, or of what the check told a second time (_process_single_job,
\* save_doc, check_voices).
THEOREM TranscriptFileIsOneTelling == TranscriptSpec => []FileIsOneTelling
<1>1. TellingInv => FileIsOneTelling
  <2> SUFFICES ASSUME TellingInv PROVE FileIsOneTelling OBVIOUS
  <2>1. \A n \in 1..Files :
          files[n] = Absent \/ files[n] = Broken \/ files[n].doc \in wholes
            \/ IsPrefix(files[n].doc, Telling)
    BY DEF TellingInv, FilesAreRetold, Retold
  <2>2. status = "finished" => \E doc \in {Telling} \cup wholes : files[file] = Holds(doc)
    BY DEF TellingInv, FinishedIsWhole
  <2>3. \A doc : Holds(doc).is = "whole" /\ Holds(doc).doc = doc BY DEF Holds
  <2> QED BY <2>1, <2>2, <2>3 DEF FileIsOneTelling
<1> QED BY <1>1, TellingInvAtStart, StepTells, PTL DEF TranscriptSpec

-----------------------------------------------------------------------------
(* The result of a worker process (WorkerEntry).                           *)

\* What a worker says while it works.
Chatter == {[type |-> "segment"], [type |-> "progress"]}

ItemFates == {"sent", "lost", "vector", "none", "turn"}

\* Its last word: whole, or blamed on the GPU only where there may be one.
IsVerdict(m, job, reached, found) ==
  /\ m.type = "result"
  /\ m.ok \in BOOLEAN
  /\ m.ok => /\ reached = Last(Stages(job))
             /\ job.kind = "embed" =>
                  m.holds = job.items /\ (job.items > 0 => "vector" \in ToSet(found))
  /\ ~m.ok => (m.gpu => job.requested # "cpu" /\ job.kind # "voxtral")

\* The inductive invariant: nothing is a result before the end, and Voxtral has
\* said all it has found; a worker that was put on the CPU, and Voxtral, know it;
\* only Nemotron repeats itself, until it returns.
EntryInv ==
  /\ items \in Seq(ItemFates)
  /\ asked.kind = "embed" => items \in Seq({"vector", "none"})
  /\ asked.kind = "voxtral" => device = "mps" /\ stage \in {"imports", "transcription"}
  /\ asked.requested = "cpu" /\ asked.kind # "voxtral" => device = "cpu"
  /\ beats => asked.kind = "nemotron" /\ ~returned
  /\ ~returned => sent \in Seq(Chatter)
  /\ ~returned /\ asked.kind = "voxtral" => Len(sent) = Len(items)
  /\ returned =>
       \/ sent \in Seq(Chatter)
       \/ \E s \in Seq(Chatter) : \E m :
            /\ sent = Append(s, m) /\ IsVerdict(m, asked, stage, items)
            /\ m.ok /\ asked.kind = "voxtral" => Len(s) = asked.items
  /\ returned \/ stage \in {"transcription", "diarization", "voice_check"} => swapped = "nothing"

LEMMA EntryInvAtStart == EntryInit => EntryInv
<1> SUFFICES ASSUME EntryInit PROVE EntryInv OBVIOUS
<1>1. items \in Seq(ItemFates) /\ items \in Seq({"vector", "none"}) BY DEF EntryInit
<1>2. sent \in Seq(Chatter) /\ Len(sent) = Len(items) BY DEF EntryInit
<1> QED BY <1>1, <1>2 DEF EntryInit, EntryInv

\* Failing is a word of its own, or is not heard.
LEMMA FailingKeeps ==
  ASSUME EntryInv, ~returned, NEW heard \in BOOLEAN, EndsInFailure(heard)
  PROVE  EntryInv'
<1>1. PICK gpu \in {FALSE} \cup {MayBeGpu} :
        sent' = IF heard THEN Append(sent, [type |-> "result", ok |-> FALSE, stage |-> stage, gpu |-> gpu])
                ELSE sent
  BY DEF EndsInFailure
<1> DEFINE m == [type |-> "result", ok |-> FALSE, stage |-> stage, gpu |-> gpu]
<1>2. /\ returned' = TRUE /\ swapped' = "nothing" /\ beats' = FALSE
      /\ UNCHANGED <<asked, stage, device, items>>
  BY DEF EndsInFailure
<1>3. gpu => asked.requested # "cpu" /\ asked.kind # "voxtral"
  BY <1>1 DEF MayBeGpu, EntryInv
<1>4. m.type = "result" /\ m.ok = FALSE /\ m.gpu = gpu OBVIOUS
<1>5. sent \in Seq(Chatter) BY DEF EntryInv
<1> HIDE DEF m
<1>6. IsVerdict(m, asked', stage', items') BY <1>2, <1>3, <1>4 DEF IsVerdict
<1>7. sent' \in Seq(Chatter) \/ \E s \in Seq(Chatter) : \E v :
            /\ sent' = Append(s, v) /\ IsVerdict(v, asked', stage', items')
            /\ v.ok /\ asked'.kind = "voxtral" => Len(s) = asked'.items
  <2>1. CASE sent' = sent BY <1>5, <2>1
  <2>2. CASE sent' = Append(sent, m) BY <1>4, <1>5, <1>6, <2>2
  <2> QED BY <1>1, <2>1, <2>2 DEF m
<1> QED BY <1>2, <1>7 DEF EntryInv

\* The stages of Voxtral are two.
LEMMA VoxtralStages ==
  ASSUME asked.kind = "voxtral"
  PROVE  Working = "transcription" /\ (stage = "imports" => NextStage = "transcription")
<1>1. Stages(asked) = <<"imports", "transcription">> BY DEF Stages
<1>2. Working = "transcription" BY <1>1 DEF Working, Last
<1>3. ASSUME stage = "imports" PROVE NextStage = "transcription"
  <2>1. 2..Len(Stages(asked)) = {2} BY <1>1
  <2>2. Stages(asked)[2 - 1] = stage BY <1>1, <1>3
  <2>3. (CHOOSE k \in 2..Len(Stages(asked)) : Stages(asked)[k - 1] = stage) = 2
    BY <2>1, <2>2
  <2>4. NextStage = Stages(asked)[2] BY <2>3 DEF NextStage
  <2> QED BY <1>1, <2>4
<1> QED BY <1>2, <1>3

LEMMA StageEndsKeeps == EntryInv /\ StageEnds => EntryInv'
<1> SUFFICES ASSUME EntryInv, StageEnds PROVE EntryInv' OBVIOUS
<1>1. /\ ~returned /\ ~returned' /\ stage # Working
      /\ stage' = NextStage /\ device' = DeviceAt(NextStage)
      /\ UNCHANGED <<asked, items, sent>>
      /\ beats' => asked.kind = "nemotron"
  BY DEF StageEnds
<1>2. asked.kind = "voxtral" => stage' = "transcription" /\ device' = "mps"
  BY <1>1, VoxtralStages DEF EntryInv, DeviceAt
<1>3. asked.requested = "cpu" /\ asked.kind # "voxtral" => device' = "cpu"
  BY <1>1 DEF EntryInv, DeviceAt, WhisperDevice, EmbedDevice, SelectDevice, Automatic
<1>4. stage' \in {"transcription", "diarization", "voice_check"} => swapped' = "nothing"
  BY <1>1 DEF StageEnds, SwappedFor, Shadowed
<1> QED BY <1>1, <1>2, <1>3, <1>4 DEF EntryInv

LEMMA StageFailsKeeps == EntryInv /\ StageFails => EntryInv'
BY FailingKeeps DEF StageFails

\* One more item, and a word of it.
LEMMA PutsSegmentKeeps == EntryInv /\ PutsSegment => EntryInv'
<1> SUFFICES ASSUME EntryInv, PutsSegment PROVE EntryInv' OBVIOUS
<1>1. /\ ~returned /\ asked.kind \in {"whisper", "voxtral"}
      /\ items \in Seq(ItemFates) /\ sent \in Seq(Chatter)
  BY DEF PutsSegment, EntryInv, Streams
<1>2. CASE /\ items' = Append(items, "sent")
           /\ sent' = Append(sent, [type |-> "segment"])
           /\ UNCHANGED <<asked, stage, device, swapped, beats, returned>>
  <2>1. items' \in Seq(ItemFates) /\ Len(items') = Len(items) + 1 BY <1>1, <1>2 DEF ItemFates
  <2>2. sent' \in Seq(Chatter) /\ Len(sent') = Len(sent) + 1 BY <1>1, <1>2 DEF Chatter
  <2> QED BY <1>1, <1>2, <2>1, <2>2 DEF EntryInv
<1>3. CASE /\ asked.kind = "whisper"
           /\ items' = Append(items, "lost")
           /\ UNCHANGED <<asked, stage, device, swapped, sent, beats, returned>>
  <2>1. items' \in Seq(ItemFates) BY <1>1, <1>3 DEF ItemFates
  <2> QED BY <1>1, <1>3, <2>1 DEF EntryInv
<1>4. CASE asked.kind = "voxtral" /\ \E heard \in BOOLEAN : EndsInFailure(heard)
  BY <1>1, <1>4, FailingKeeps
<1> QED BY <1>2, <1>3, <1>4 DEF PutsSegment

LEMMA EmbedsSpanKeeps == EntryInv /\ EmbedsSpan => EntryInv'
<1> SUFFICES ASSUME EntryInv, EmbedsSpan PROVE EntryInv' OBVIOUS
<1>1. PICK outcome \in {"vector", "none"} : items' = Append(items, outcome) BY DEF EmbedsSpan
<1>2. /\ ~returned /\ asked.kind = "embed"
      /\ UNCHANGED <<asked, stage, device, swapped, sent, beats, returned>>
  BY DEF EmbedsSpan
<1>3. items' \in Seq(ItemFates) /\ items' \in Seq({"vector", "none"})
  BY <1>1, <1>2 DEF EntryInv, ItemFates
<1> QED BY <1>2, <1>3 DEF EntryInv

LEMMA FindsTurnsKeeps == EntryInv /\ FindsTurns => EntryInv'
<1> SUFFICES ASSUME EntryInv, FindsTurns PROVE EntryInv' OBVIOUS
<1>1. /\ ~returned /\ asked.kind \in {"pyannote", "nemotron"} /\ items' = Append(items, "turn")
      /\ UNCHANGED <<asked, stage, device, swapped, sent, beats, returned>>
  BY DEF FindsTurns
<1>2. items' \in Seq(ItemFates) BY <1>1 DEF EntryInv, ItemFates
<1> QED BY <1>1, <1>2 DEF EntryInv

LEMMA KeepsAliveKeeps == EntryInv /\ KeepsAlive => EntryInv'
<1> SUFFICES ASSUME EntryInv, KeepsAlive PROVE EntryInv' OBVIOUS
<1>1. /\ asked.kind = "nemotron" /\ ~returned /\ sent' = Append(sent, [type |-> "progress"])
      /\ UNCHANGED <<asked, stage, device, swapped, items, beats, returned>>
  BY DEF KeepsAlive, EntryInv
<1>2. sent' \in Seq(Chatter) BY <1>1 DEF EntryInv, Chatter
<1> QED BY <1>1, <1>2 DEF EntryInv

LEMMA StopsBeatingKeeps == EntryInv /\ StopsBeating => EntryInv'
BY DEF StopsBeating, EntryInv

\* Some span has a voice, unless none could be embedded.
LEMMA SomeVoice ==
  ASSUME asked.kind = "embed", items \in Seq({"vector", "none"}), items # <<>>, ~NothingEmbedded
  PROVE  "vector" \in ToSet(items)
<1>1. PICK k \in 1..Len(items) : items[k] # "none" BY DEF NothingEmbedded
<1>2. items[k] = "vector" /\ k \in DOMAIN items BY <1>1
<1> QED BY <1>2 DEF ToSet

LEMMA ResultsKeeps == EntryInv /\ Results => EntryInv'
<1> SUFFICES ASSUME EntryInv, Results PROVE EntryInv' OBVIOUS
<1>1. /\ ~returned /\ ~beats /\ stage = Working /\ Len(items) = asked.items /\ ~NothingEmbedded
      /\ returned' = TRUE
      /\ UNCHANGED <<asked, stage, device, swapped, items, beats>>
  BY DEF Results
<1>2. sent \in Seq(Chatter) /\ items \in Seq(ItemFates) BY <1>1 DEF EntryInv
<1> DEFINE m == [type |-> "result", ok |-> TRUE, holds |-> IF Streams THEN 0 ELSE Len(items)]
<1>3. sent' = Append(sent, m) \/ sent' = sent BY DEF Results
<1>4. /\ m.type = "result" /\ m.ok = TRUE
      /\ ~Streams => m.holds = asked.items
  BY <1>1
<1> HIDE DEF m
<1>5. asked.kind = "embed" =>
        m.holds = asked.items /\ (asked.items > 0 => "vector" \in ToSet(items))
  <2> SUFFICES ASSUME asked.kind = "embed"
               PROVE  m.holds = asked.items /\ (asked.items > 0 => "vector" \in ToSet(items))
    OBVIOUS
  <2>1. m.holds = asked.items BY <1>4 DEF Streams
  <2>2. items \in Seq({"vector", "none"}) BY DEF EntryInv
  <2>3. asked.items > 0 => items # <<>> BY <1>1
  <2> QED BY <1>1, <2>1, <2>2, <2>3, SomeVoice
<1>6. stage' = Last(Stages(asked')) BY <1>1 DEF Working
<1>7. IsVerdict(m, asked', stage', items') BY <1>1, <1>4, <1>5, <1>6 DEF IsVerdict
<1>8. asked.kind = "voxtral" => Len(sent) = asked.items BY <1>1 DEF EntryInv
<1>9. stage \in {"transcription", "diarization", "voice_check"}
  <2>1. Last(Stages(asked)) \in {"transcription", "diarization", "voice_check"}
    BY DEF Stages, Last
  <2> QED BY <1>1, <2>1 DEF Working
<1>10. swapped' = "nothing" BY <1>1, <1>9 DEF EntryInv
<1>11. sent' \in Seq(Chatter) \/ \E s \in Seq(Chatter) : \E v :
            /\ sent' = Append(s, v) /\ IsVerdict(v, asked', stage', items')
            /\ v.ok /\ asked'.kind = "voxtral" => Len(s) = asked'.items
  <2>1. CASE sent' = sent BY <1>2, <2>1
  <2>2. CASE sent' = Append(sent, m) BY <1>1, <1>2, <1>7, <1>8, <2>2
  <2> QED BY <1>3, <2>1, <2>2
<1> QED BY <1>1, <1>10, <1>11 DEF EntryInv

LEMMA ChecksNothingKeeps == EntryInv /\ ChecksNothing => EntryInv'
BY FailingKeeps DEF ChecksNothing

\* Of every worker process: nothing is a result before the end, and what it knows of
\* its device and of what it has swapped in the libraries stays right.
THEOREM EntryInvariance == EntrySpec => []EntryInv
<1>1. EntryInv /\ UNCHANGED entryVars => EntryInv'
  BY DEF entryVars, EntryInv, IsVerdict, Working
<1>2. EntryInv /\ [EntryNext]_entryVars => EntryInv'
  BY <1>1, StageEndsKeeps, StageFailsKeeps, PutsSegmentKeeps, EmbedsSpanKeeps,
     FindsTurnsKeeps, KeepsAliveKeeps, StopsBeatingKeeps, ResultsKeeps,
     ChecksNothingKeeps DEF EntryNext
<1> QED BY <1>2, EntryInvAtStart, PTL DEF EntrySpec

\* What follows of the messages: only the last can be a result, and it is one that
\* the worker may give.
LEMMA WholeResult == EntryInv => ResultIsWhole
<1> SUFFICES ASSUME EntryInv PROVE ResultIsWhole OBVIOUS
<1>1. \A s \in Seq(Chatter) : \A k \in 1..Len(s) : s[k].type # "result" BY DEF Chatter
<1>2. CASE sent \in Seq(Chatter)
  <2>1. \A k \in 1..Len(sent) : sent[k].type # "result" BY <1>1, <1>2
  <2>2. sent # <<>> => Last(sent).type # "result" BY <1>2, <2>1 DEF Last
  <2> QED BY <2>1, <2>2 DEF EntryInv, ResultIsWhole
<1>3. CASE sent \notin Seq(Chatter)
  <2>1. returned BY <1>3 DEF EntryInv
  <2>s. PICK s \in Seq(Chatter) : \E m :
          /\ sent = Append(s, m) /\ IsVerdict(m, asked, stage, items)
          /\ m.ok /\ asked.kind = "voxtral" => Len(s) = asked.items
    BY <1>3, <2>1 DEF EntryInv
  <2>2. PICK m :
          /\ sent = Append(s, m) /\ IsVerdict(m, asked, stage, items)
          /\ m.ok /\ asked.kind = "voxtral" => Len(s) = asked.items
    BY <2>s
  <2>3. s \in Seq(Chatter \cup {m}) /\ m \in Chatter \cup {m} OBVIOUS
  <2>4. /\ Len(sent) = Len(s) + 1 /\ Len(s) \in Nat /\ sent[Len(s) + 1] = m
        /\ \A k \in 1..Len(s) : sent[k] = s[k]
    BY <2>2, <2>3
  <2>5. Last(sent) = m BY <2>4 DEF Last
  <2>6. \A k \in 1..Len(sent) : sent[k].type = "result" => k = Len(sent)
    BY <1>1, <2>4
  <2>7. /\ m.ok =>
             /\ stage = Working
             /\ asked.kind = "voxtral" => Len(sent) = asked.items + 1
             /\ asked.kind = "embed" =>
                  m.holds = asked.items /\ (asked.items > 0 => "vector" \in ToSet(items))
        /\ ~m.ok => (m.gpu => asked.requested # "cpu" /\ asked.kind # "voxtral")
    BY <2>2, <2>4 DEF IsVerdict, Working
  <2>8. returned \/ stage \in {"transcription", "diarization", "voice_check"} => swapped = "nothing"
    BY DEF EntryInv
  <2> QED BY <2>1, <2>5, <2>6, <2>7, <2>8 DEF ResultIsWhole
<1> QED BY <1>2, <1>3

\* What a worker process calls a success is whole, said once and last; the libraries
\* are as they were; and one that was put on the CPU never blames a GPU
\* (whisper_mp_worker, voxtral_mp_worker, pyannote_mp_worker, nemotron_mp_worker,
\* classify_worker_error).
THEOREM EntryResultIsWhole == EntrySpec => []ResultIsWhole
BY WholeResult, EntryInvariance, PTL

-----------------------------------------------------------------------------
(* The names of the voices (SpeakerTurns), and the turns that a passage is *)
(* held against (VoiceCheck).                                              *)

\* The names that stand in the key are different, and as long as the user's
\* names have not run out they are the first of them.
NamesApart(key, given) ==
  /\ IsFiniteSet(DOMAIN key)
  /\ \A l, m \in DOMAIN key : key[l] = key[m] => l = m
  /\ Cardinality(DOMAIN key) <= Len(given) =>
       \A l \in DOMAIN key : \E i \in 1..Cardinality(DOMAIN key) : key[l] = given[i]

\* A finite function has finitely many values.
LEMMA RangeIsFinite ==
  ASSUME NEW f, IsFiniteSet(DOMAIN f)
  PROVE  IsFiniteSet({f[x] : x \in DOMAIN f})
<1> DEFINE S == DOMAIN f
           T == {f[x] : x \in S}
           g == [x \in S |-> f[x]]
<1>1. g \in Surjection(S, T) BY DEF Surjection
<1>2. IsFiniteSet(S) OBVIOUS
<1>3. IsFiniteSet(T)
  <2> HIDE DEF S, T, g
  <2> QED BY <1>1, <1>2, FS_Surjection
<1> QED BY <1>3

\* However many names are taken, one of the numbers that are tried is free, and
\* the number that is given is.
LEMMA NumberIsFree ==
  ASSUME NEW X, NEW given \in Seq(X), NEW key, IsFiniteSet(DOMAIN key)
  PROVE  /\ NumberFor(key, given) \notin ToSet(given) \cup Range(key)
         /\ \E n \in Nat : NumberFor(key, given) = Numbered(n)
<1> DEFINE taken == ToSet(given) \cup Range(key)
           place == Cardinality(DOMAIN key)
           count == Cardinality(taken)
           tried == place .. place + count
           free  == {n \in tried : Numbered(n) \notin taken}
<1>1. IsFiniteSet(taken)
  <2>1. IsFiniteSet(Range(key)) BY RangeIsFinite DEF Range
  <2>2. Len(given) \in Int /\ 1 \in Int /\ DOMAIN given = 1..Len(given) OBVIOUS
  <2>3. IsFiniteSet(DOMAIN given)
    <3> DEFINE n == Len(given)
    <3>1. n \in Int /\ 1 \in Int BY <2>2
    <3> HIDE DEF n
    <3>2. IsFiniteSet(1..n) BY <3>1, FS_Interval, Zenon
    <3> QED BY <2>2, <3>2 DEF n
  <2>4. IsFiniteSet(ToSet(given)) BY <2>3, RangeIsFinite DEF ToSet
  <2> QED BY <2>1, <2>4, FS_Union
<1>2. place \in Nat /\ count \in Nat
  <2> DEFINE D == DOMAIN key
  <2>1. IsFiniteSet(D) OBVIOUS
  <2>2. Cardinality(D) \in Nat
    <3> HIDE DEF D
    <3> QED BY <2>1, FS_CardinalityType
  <2>3. count \in Nat
    <3> HIDE DEF taken
    <3> QED BY <1>1, FS_CardinalityType
  <2> QED BY <2>2, <2>3
<1>3. IsFiniteSet(tried) /\ Cardinality(tried) = count + 1
  <2> HIDE DEF place, count
  <2> DEFINE last == place + count
  <2>1. place \in Int /\ last \in Int /\ ~(place > last) /\ (last - place) + 1 = count + 1
    BY <1>2
  <2> HIDE DEF last
  <2>2. /\ IsFiniteSet(place..last)
        /\ Cardinality(place..last) = IF place > last THEN 0 ELSE last - place + 1
    BY <2>1, FS_Interval, Zenon
  <2> QED BY <2>1, <2>2 DEF last
<1>4. free # {}
  <2> SUFFICES ASSUME free = {} PROVE FALSE OBVIOUS
  <2> DEFINE f == [n \in tried |-> Numbered(n)]
  <2>1. f \in [tried -> taken] OBVIOUS
  <2>2. count < Cardinality(tried)
    <3> HIDE DEF tried, count
    <3> QED BY <1>2, <1>3
  <2>3. \A x, y \in tried : f[x] = f[y] => x = y BY DEF Numbered
  <2>4. \E x, y \in tried : x # y /\ f[x] = f[y]
    <3> HIDE DEF tried, taken, f
    <3> QED BY <1>1, <1>3, <2>1, <2>2, FS_PigeonHole
  <2> QED BY <2>3, <2>4
<1>5. \E n \in free : \A m \in free : ~ (m < n)
  <2>1. free \in SUBSET Nat
    <3> HIDE DEF count, place, taken
    <3> QED BY <1>2
  <2> HIDE DEF free
  <2> QED BY <1>4, <2>1, LeastNatural
<1>6. \E n \in tried : /\ Numbered(n) \notin taken
                       /\ \A k \in place .. n - 1 : Numbered(k) \in taken
  <2> PICK n \in free : \A m \in free : ~ (m < n) BY <1>5
  <2>1. ASSUME NEW k \in place .. n - 1 PROVE Numbered(k) \in taken
    <3>1. k \in tried /\ k < n
      <4> HIDE DEF place, count, taken
      <4> QED BY <1>2
    <3> QED BY <3>1
  <2> QED BY <2>1
<1>7. PICK n \in tried : NumberFor(key, given) = Numbered(n) /\ Numbered(n) \notin taken
  <2> DEFINE n == CHOOSE n \in tried :
               /\ Numbered(n) \notin taken
               /\ \A k \in place .. n - 1 : Numbered(k) \in taken
  <2>1. n \in tried /\ Numbered(n) \notin taken BY <1>6
  <2>2. NumberFor(key, given) = Numbered(n) BY DEF NumberFor
  <2> QED BY <2>1, <2>2
<1>8. n \in Nat
  <2> HIDE DEF place, count, taken
  <2> QED BY <1>2
<1> QED BY <1>7, <1>8

\* Two labels never come to share a name, and nobody's name changes when another
\* label gets one; for any names that the user gave that are different, though
\* some of them look like the numbers that labels get when the names run out
\* (_apply_speaker_name).
THEOREM NamesStayApart ==
  ASSUME NEW X, NEW given \in Seq(X),
         \A i, j \in 1..Len(given) : given[i] = given[j] => i = j,
         NEW key, NamesApart(key, given), NEW label
  PROVE  /\ NamesApart(NoNames, given)
         /\ NamesApart(ApplySpeakerName(key, label, given), given)
         /\ \A l \in DOMAIN key : ApplySpeakerName(key, label, given)[l] = key[l]
<1> DEFINE new == ApplySpeakerName(key, label, given)
           D == DOMAIN key
           card == Cardinality(D)
<1>1. NamesApart(NoNames, given)
  <2>1. DOMAIN NoNames = {} BY DEF NoNames
  <2> QED BY <2>1, FS_EmptySet DEF NamesApart
<1>2. IsFiniteSet(D) BY DEF NamesApart
<1>3. card \in Nat
  <2> HIDE DEF D
  <2> QED BY <1>2, FS_CardinalityType
<1>4. \A l \in D : new[l] = key[l]
  <2> HIDE DEF D
  <2> QED BY NamesGrow DEF D
<1>5. ASSUME label = Nobody \/ label \in D
      PROVE  NamesApart(new, given)
  <2>1. new = key BY <1>5 DEF ApplySpeakerName
  <2> HIDE DEF new
  <2> QED BY <2>1
<1>6. ASSUME ~(label = Nobody \/ label \in D)
      PROVE  NamesApart(new, given)
  <2> DEFINE name == IF card < Len(given) THEN given[card + 1] ELSE NumberFor(key, given)
             E == D \cup {label}
  <2>1. new = [l \in E |-> IF l = label THEN name ELSE key[l]]
    BY <1>6 DEF ApplySpeakerName
  <2>2. IsFiniteSet(E) /\ Cardinality(E) = card + 1
    <3>1. label \notin D BY <1>6
    <3> HIDE DEF D
    <3> QED BY <1>2, <3>1, FS_AddElement
  <2>3. ASSUME NEW l \in D PROVE key[l] # name
    <3>1. CASE card < Len(given)
      <4>1. PICK i \in 1..card : key[l] = given[i] BY <1>3, <3>1 DEF NamesApart
      <4>2. i \in 1..Len(given) /\ card + 1 \in 1..Len(given) /\ i # card + 1
        <5> HIDE DEF card
        <5> QED BY <1>3, <3>1
      <4>3. given[i] # given[card + 1] 
        <5> HIDE DEF card
        <5> QED BY <4>2
      <4> QED BY <3>1, <4>1, <4>3
    <3>2. CASE ~(card < Len(given))
      <4>1. NumberFor(key, given) \notin ToSet(given) \cup Range(key)
        BY <1>2, NumberIsFree
      <4>2. key[l] \in Range(key) BY DEF Range
      <4> QED BY <3>2, <4>1, <4>2
    <3> QED BY <3>1, <3>2
  <2>4. \A l, m \in E : new[l] = new[m] => l = m
    <3>1. \A l, m \in D : key[l] = key[m] => l = m BY DEF NamesApart
    <3> HIDE DEF name, D, new
    <3> QED BY <1>6, <2>1, <2>3, <3>1
  <2>5. ASSUME card + 1 <= Len(given), NEW l \in E
        PROVE  \E i \in 1..card + 1 : new[l] = given[i]
    <3>1. name = given[card + 1]
      <4>1. card < Len(given)
        <5> HIDE DEF card
        <5> QED BY <1>3, <2>5
      <4> QED BY <4>1
    <3>2. CASE l = label
      <4>1. new[l] = given[card + 1]
        <5> HIDE DEF name, D, card, new
        <5> QED BY <2>1, <3>1, <3>2
      <4>2. card + 1 \in 1..card + 1
        <5> HIDE DEF card
        <5> QED BY <1>3
      <4> QED BY <4>1, <4>2
    <3>3. CASE l # label
      <4>1. l \in D BY <3>3
      <4>2. card <= Len(given)
        <5> HIDE DEF card
        <5> QED BY <1>3, <2>5
      <4>3. PICK i \in 1..card : key[l] = given[i] BY <4>1, <4>2 DEF NamesApart
      <4>4. i \in 1..card + 1
        <5> HIDE DEF card
        <5> QED BY <1>3
      <4> HIDE DEF new
      <4> QED BY <1>4, <4>1, <4>3, <4>4
    <3> QED BY <3>2, <3>3
  <2>6. DOMAIN new = E BY <2>1
  <2> HIDE DEF new, E
  <2> QED BY <2>2, <2>4, <2>5, <2>6 DEF NamesApart
<1> QED BY <1>1, <1>4, <1>5, <1>6

\* What the diarization hands over: turns by their beginnings, which may nest.
IsTurns(diarized) ==
  /\ diarized \in Seq([start : Nat, end : Nat, label : STRING])
  /\ \A i, j \in DOMAIN diarized : i <= j => diarized[i].start <= diarized[j].start

\* What is known of them.
LEMMA TurnsAre ==
  ASSUME NEW diarized, IsTurns(diarized)
  PROVE  /\ Len(diarized) \in Nat /\ DOMAIN diarized = 1..Len(diarized)
         /\ \A n \in 1..Len(diarized) : diarized[n].start \in Nat /\ diarized[n].end \in Nat
         /\ \A i, j \in 1..Len(diarized) : i <= j => diarized[i].start <= diarized[j].start
<1> DEFINE T == [start : Nat, end : Nat, label : STRING]
<1>1. diarized \in Seq(T) BY DEF IsTurns
<1>2. \A n \in 1..Len(diarized) : diarized[n] \in T
  <2> HIDE DEF T
  <2> QED BY <1>1
<1>3. \A i, j \in DOMAIN diarized : i <= j => diarized[i].start <= diarized[j].start BY DEF IsTurns
<1>4. Len(diarized) \in Nat /\ DOMAIN diarized = 1..Len(diarized)
  <2> HIDE DEF T
  <2> QED BY <1>1
<1> QED BY <1>2, <1>3, <1>4

\* The greatest end of the first turns is the end of one of them.
LEMMA EndsAre ==
  ASSUME NEW diarized, IsTurns(diarized), NEW i \in DOMAIN diarized, NEW j \in 1..i
  PROVE  EndsSoFar(diarized, i) \in Nat /\ EndsSoFar(diarized, i) >= diarized[j].end
<1> DEFINE Ends(n) == {diarized[k].end : k \in 1..n}
           Bounded(n) == \E b \in Nat : \A e \in Ends(n) : e <= b
           T == {n \in 1..Len(diarized) : ~Bounded(n)}
<1>1. /\ Len(diarized) \in Nat /\ DOMAIN diarized = 1..Len(diarized)
      /\ \A n \in 1..Len(diarized) : diarized[n].end \in Nat
  BY TurnsAre
<1>2. T = {}
  <2> SUFFICES ASSUME T # {} PROVE FALSE OBVIOUS
  <2>1. T \in SUBSET Nat BY <1>1
  <2>2. PICK n \in T : \A m \in T : ~(m < n)
    <3> HIDE DEF T
    <3> QED BY <2>1, LeastNatural
  <2>3. n \in 1..Len(diarized) /\ ~Bounded(n) OBVIOUS
  <2>4. PICK b \in Nat : \A k \in 1..n - 1 : diarized[k].end <= b
    <3>1. CASE n = 1
      <4>1. 1..n - 1 = {} BY <3>1
      <4> QED BY <4>1
    <3>2. CASE n # 1
      <4>1. n - 1 \in 1..Len(diarized) /\ n - 1 < n BY <1>1, <2>3, <3>2
      <4>2. n - 1 \notin T BY <2>2, <4>1
      <4>3. Bounded(n - 1) BY <4>1, <4>2
      <4> QED BY <4>3
    <3> QED BY <3>1, <3>2
  <2> DEFINE c == IF diarized[n].end <= b THEN b ELSE diarized[n].end
  <2> DEFINE e == diarized[n].end
  <2>5. c \in Nat /\ b <= c /\ diarized[n].end <= c
    <3>1. e \in Nat /\ b \in Nat BY <1>1, <2>3
    <3>2. c = IF e <= b THEN b ELSE e OBVIOUS
    <3> HIDE DEF T, e, c
    <3>3. c \in Nat /\ b <= c /\ e <= c BY <3>1, <3>2
    <3> QED BY <3>3 DEF e
  <2>6. ASSUME NEW k \in 1..n PROVE diarized[k].end <= c
    <3>1. CASE k = n BY <2>5, <3>1
    <3>2. CASE k # n
      <4> HIDE DEF T, c
      <4>1. /\ n \in Int /\ k \in Int /\ 1 <= k /\ k <= n
            /\ Len(diarized) \in Int /\ n <= Len(diarized)
        BY <1>1, <2>3
      <4>2. k \in 1..n - 1 /\ k \in 1..Len(diarized) BY <3>2, <4>1
      <4>3. diarized[k].end <= b /\ diarized[k].end \in Nat BY <1>1, <2>4, <4>2
      <4> QED BY <2>5, <4>3
    <3> QED BY <3>1, <3>2
  <2>7. Bounded(n)
    <3> HIDE DEF c
    <3> QED BY <2>5, <2>6
  <2> QED BY <2>3, <2>7
<1>3. i \in 1..Len(diarized) /\ 1..i \subseteq 1..Len(diarized) /\ j \in 1..i BY <1>1
<1>4. Bounded(i) BY <1>2, <1>3
<1>5. PICK b \in Nat : \A e \in Ends(i) : e <= b BY <1>4
<1>6. Ends(i) \in SUBSET Nat /\ diarized[j].end \in Ends(i) BY <1>1, <1>3
<1>7. Max(Ends(i)) \in Ends(i) /\ \A e \in Ends(i) : Max(Ends(i)) >= e
  <2> DEFINE E == Ends(i)
  <2>1. E \in SUBSET Nat /\ E # {} /\ \A e \in E : e <= b BY <1>5, <1>6
  <2> HIDE DEF E
  <2>2. Max(E) \in E /\ \A e \in E : Max(E) >= e
    BY <2>1, GreatestIsChosen DEF Max
  <2> QED BY <2>2 DEF E
<1> QED BY <1>6, <1>7 DEF EndsSoFar

\* A turn has a part in a span when it ends after the span begins and begins
\* before it ends.
LEMMA PartOfSpan ==
  ASSUME NEW a \in Int, NEW b \in Int, NEW c \in Int, NEW d \in Int,
         Max({0, Min({b, d}) - Max({a, c})}) > 0
  PROVE  a < d /\ c < b
<1>1. ASSUME NEW x \in Int, NEW y \in Int
      PROVE  /\ Max({x, y}) = IF x >= y THEN x ELSE y
             /\ Min({x, y}) = IF x <= y THEN x ELSE y
  BY DEF Max, Min
<1> DEFINE low == Min({b, d})
           high == Max({a, c})
           part == low - high
<1>2. low = (IF b <= d THEN b ELSE d) /\ high = (IF a >= c THEN a ELSE c) BY <1>1
<1>3. low \in Int /\ high \in Int /\ low <= b /\ low <= d /\ high >= a /\ high >= c
  <2> HIDE DEF low, high
  <2> QED BY <1>2
<1>4. part \in Int
  <2> HIDE DEF low, high
  <2> QED BY <1>3
<1>5. Max({0, part}) = IF 0 >= part THEN 0 ELSE part
  <2> HIDE DEF part
  <2> QED BY <1>1, <1>4
<1>6. part > 0
  <2>1. Max({0, part}) > 0 OBVIOUS
  <2> HIDE DEF part
  <2> QED BY <1>4, <1>5, <2>1
<1>7. low > high
  <2> HIDE DEF low, high
  <2> QED BY <1>3, <1>6
<1> HIDE DEF low, high
<1> QED BY <1>3, <1>7

\* The search that begins at the first turn whose running maximum reaches the
\* span, and ends at a turn that begins after it, finds what looking at all of
\* the turns does: each turn with a part in the span, in order; for any turns in
\* the order of their beginnings, however they nest (turns_inside).
THEOREM NoTurnIsMissed ==
  ASSUME NEW diarized, IsTurns(diarized), NEW span \in [start : Int, end : Int]
  PROVE  TurnsInside(diarized, span)
           = TurnsAt(diarized, {i \in DOMAIN diarized : Inside(diarized[i], span) > 0})
<1> DEFINE first == FirstTurn(diarized, span)
           reaching == {i \in DOMAIN diarized : EndsSoFar(diarized, i) >= span.start}
<1>1. /\ Len(diarized) \in Nat /\ DOMAIN diarized = 1..Len(diarized)
      /\ \A n \in 1..Len(diarized) : diarized[n].start \in Nat /\ diarized[n].end \in Nat
      /\ \A i, j \in 1..Len(diarized) : i <= j => diarized[i].start <= diarized[j].start
  BY TurnsAre
<1>2. span.start \in Int /\ span.end \in Int OBVIOUS
<1>3. /\ first = IF reaching = {} THEN Len(diarized) + 1 ELSE Min(reaching)
      /\ reaching \in SUBSET (1..Len(diarized))
  BY <1>1 DEF FirstTurn
<1>4. reaching # {} => Min(reaching) \in reaching /\ \A i \in reaching : Min(reaching) <= i
  <2> SUFFICES ASSUME reaching # {}
               PROVE  Min(reaching) \in reaching /\ \A i \in reaching : Min(reaching) <= i
    OBVIOUS
  <2>1. reaching \in SUBSET Nat BY <1>1, <1>3
  <2> HIDE DEF reaching
  <2> QED BY <2>1, LeastIsChosen DEF Min
<1>5. first \in Nat \ {0}
  <2> HIDE DEF first, reaching
  <2> QED BY <1>1, <1>3, <1>4
<1>6. ASSUME NEW i \in DOMAIN diarized, Inside(diarized[i], span) > 0
      PROVE  i \in Scanned(diarized, span)
  <2>1. diarized[i].start \in Int /\ diarized[i].end \in Int /\ i \in 1..Len(diarized) BY <1>1
  <2>2. diarized[i].start < span.end /\ span.start < diarized[i].end
    <3> DEFINE a == diarized[i].start
               b == diarized[i].end
               c == span.start
               d == span.end
    <3>1. a \in Int /\ b \in Int /\ c \in Int /\ d \in Int BY <1>2, <2>1
    <3>2. Max({0, Min({b, d}) - Max({a, c})}) > 0 BY <1>6 DEF Inside
    <3> HIDE DEF a, b, c, d
    <3>3. a < d /\ c < b BY <3>1, <3>2, PartOfSpan
    <3> QED BY <3>3 DEF a, b, c, d
  <2>3. EndsSoFar(diarized, i) \in Nat /\ EndsSoFar(diarized, i) >= diarized[i].end
    <3>1. i \in 1..i BY <2>1
    <3> QED BY <3>1, EndsAre
  <2>4. i \in reaching
    <3>1. EndsSoFar(diarized, i) >= span.start BY <1>2, <2>1, <2>2, <2>3
    <3> QED BY <3>1
  <2>5. first <= i
    <3> HIDE DEF first, reaching
    <3> QED BY <1>3, <1>4, <2>4
  <2>6. i \in first..Len(diarized)
    <3> HIDE DEF first
    <3> QED BY <1>1, <1>5, <2>1, <2>5
  <2>7. ASSUME NEW j \in first..i PROVE diarized[j].start <= span.end
    <3>1. j \in 1..Len(diarized) /\ j <= i
      <4> HIDE DEF first
      <4> QED BY <1>1, <1>5, <2>1
    <3>2. diarized[j].start \in Nat /\ diarized[j].start <= diarized[i].start BY <1>1, <2>1, <3>1
    <3> QED BY <1>2, <2>1, <2>2, <3>2
  <2> QED BY <2>6, <2>7 DEF Scanned
<1>7. Scanned(diarized, span) \subseteq DOMAIN diarized
  <2>1. first..Len(diarized) \subseteq 1..Len(diarized)
    <3> HIDE DEF first
    <3> QED BY <1>1, <1>5
  <2> QED BY <1>1, <2>1 DEF Scanned
<1>8. {i \in Scanned(diarized, span) : Inside(diarized[i], span) > 0}
        = {i \in DOMAIN diarized : Inside(diarized[i], span) > 0}
  BY <1>6, <1>7
<1> QED BY <1>8 DEF TurnsInside

-----------------------------------------------------------------------------
(* The audio that is transcribed (AudioConvert).  The places of the file   *)
(* that the conversion is past are counted from the first one on: what the *)
(* seek leaves out lies before the start, what the stop leaves out after   *)
(* it, and what was written is what was asked of the places passed.        *)

\* The file and the request are some, and the pending frames are the rest of the
\* packet read last.
ConversionFits ==
  /\ media \in Media /\ request \in Requests
  /\ packet \in 1 .. Len(media.packets) + 1
  /\ offset \in Int
  /\ written \in Seq([time : MediaTimes, length : Nat])
  /\ pending \in Seq([time : MediaTimes, length : Nat])
  /\ ends \in {"not", "refused", "empty", "done"}
  /\ ends = "done" => written # << >>
  /\ pending # << >> =>
       /\ packet - 1 \in 1 .. Len(media.packets)
       /\ Readable(media.packets[packet - 1])
       /\ Len(pending) <= Len(media.packets[packet - 1])
       /\ \A i \in 1 .. Len(pending) :
            pending[i] = media.packets[packet - 1]
                           [Len(media.packets[packet - 1]) - Len(pending) + i]

\* The places that lie behind.
Passed ==
  {p \in Places(media) :
     \/ p[1] < packet - 1
     \/ p[1] = packet - 1 /\ p[2] + Len(pending) <= Len(media.packets[packet - 1])}

AllTimed == \A p \in Places(media) : FrameAt(media, p).time # NoTime

WrittenAsPassed ==
  AllTimed =>
    /\ ToSet(written) = {FrameAt(media, p) : p \in {p \in Passed : InRange(FrameAt(media, p))}}
    /\ \A i, j \in 1 .. Len(written) : i < j => written[i].time < written[j].time
    /\ ends \in {"empty", "done"} =>
         \A p \in Places(media) : InRange(FrameAt(media, p)) => p \in Passed

OffsetOfFirst ==
  written # << >> =>
    IF written[1].time # NoTime THEN offset = written[1].time - Origin
    ELSE Start # NoTime => offset = Start - Origin

ConvertInv == ConversionFits /\ WrittenAsPassed /\ OffsetOfFirst

\* What is assumed of a file: its packets, and its places.
LEMMA Packets ==
  ASSUME NEW m \in Media
  PROVE  /\ Len(m.packets) \in Nat
         /\ \A k \in 1 .. Len(m.packets) :
              /\ m.packets[k] \in Seq([time : MediaTimes, length : Nat])
              /\ m.packets[k] # << >> /\ Len(m.packets[k]) \in Nat \ {0}
<1> DEFINE F == [time : MediaTimes, length : Nat]
<1>1. m.packets \in Seq(Seq(F) \ {<< >>})
  BY ConvertAssumption
<1>2. ASSUME NEW T, NEW s \in Seq(T) PROVE Len(s) \in Nat /\ \A k \in 1 .. Len(s) : s[k] \in T
  OBVIOUS
<1> HIDE DEF F
<1>3. /\ Len(m.packets) \in Nat
      /\ \A k \in 1 .. Len(m.packets) : m.packets[k] \in Seq(F) \ {<< >>}
  BY <1>1, <1>2
<1>4. ASSUME NEW s \in Seq(F), s # << >> PROVE Len(s) \in Nat \ {0}
  BY <1>4
<1> QED BY <1>3, <1>4 DEF F

LEMMA PlaceOf ==
  ASSUME NEW m \in Media, NEW p \in Places(m)
  PROVE  /\ p = <<p[1], p[2]>>
         /\ p[1] \in 1 .. Len(m.packets) /\ p[2] \in 1 .. Len(m.packets[p[1]])
         /\ Readable(m.packets[p[1]])
         /\ FrameAt(m, p) \in [time : MediaTimes, length : Nat]
         /\ FrameAt(m, p).length > 0
<1>0. PICK k \in 1 .. Len(m.packets) :
        Readable(m.packets[k]) /\ p \in {<<k, i>> : i \in 1 .. Len(m.packets[k])}
  BY DEF Places
<1>1. PICK i \in 1 .. Len(m.packets[k]) : p = <<k, i>> BY <1>0
<1>2. FrameAt(m, p).length > 0 BY ConvertAssumption
<1>3. m.packets[k] \in Seq([time : MediaTimes, length : Nat]) BY Packets
<1>4. m.packets[k][i] \in [time : MediaTimes, length : Nat]
  <2> DEFINE s == m.packets[k]
             F == [time : MediaTimes, length : Nat]
  <2>1. s \in Seq(F) /\ i \in 1 .. Len(s) BY <1>3
  <2> HIDE DEF s, F
  <2>2. s[i] \in F BY <2>1
  <2> QED BY <2>2 DEF s, F
<1> QED BY <1>0, <1>1, <1>2, <1>4 DEF FrameAt

LEMMA IsPlace ==
  ASSUME NEW m \in Media, NEW k \in 1 .. Len(m.packets),
         NEW i \in 1 .. Len(m.packets[k]), Readable(m.packets[k])
  PROVE  <<k, i>> \in Places(m)
BY DEF Places

LEMMA FramesInOrder ==
  ASSUME NEW m \in Media, NEW p \in Places(m), NEW q \in Places(m), IsBefore(p, q),
         FrameAt(m, p).time # NoTime, FrameAt(m, q).time # NoTime
  PROVE  FrameAt(m, p).time + FrameAt(m, p).length <= FrameAt(m, q).time
BY ConvertAssumption

\* The bounds of the range are positions, or there are none.
LEMMA RangeIsInteger ==
  ASSUME ConversionFits
  PROVE  /\ Origin \in Int
         /\ Start \in Int /\ Stop \in Int
         /\ Start # NoTime => request.start # NoTime /\ Start = request.start + Origin
<1>1. /\ media.container \in MediaTimes /\ media.audio \in MediaTimes
      /\ request.start \in MediaTimes /\ request.stop \in MediaTimes
  BY ConvertAssumption DEF ConversionFits
<1>2. Origin \in Int
  BY <1>1 DEF Origin, MediaTimes, NoTime
<1> QED BY <1>1, <1>2 DEF Start, Stop, MediaTimes, NoTime

\* A frame that has a time is dropped, or ends the conversion, as it should.
LEMMA RangeIsKept ==
  ASSUME ConversionFits, NEW f \in [time : MediaTimes, length : Nat], f.time # NoTime
  PROVE  InRange(f) <=> ~BeforeStart(f) /\ ~AfterStop(f)
<1>1. f.time \in Int /\ f.length \in Int BY DEF MediaTimes, NoTime
<1> QED BY <1>1, RangeIsInteger DEF InRange, BeforeStart, AfterStop

\* The file and what is asked of it stay, and so do the bounds.
LEMMA RangeStays ==
  ASSUME UNCHANGED <<media, request>>
  PROVE  /\ Origin' = Origin /\ Start' = Start /\ Stop' = Stop
         /\ AllTimed' = AllTimed
         /\ \A f : InRange(f)' = InRange(f)
<1>1. Origin' = Origin BY DEF Origin
<1>2. Start' = Start /\ Stop' = Stop BY <1>1 DEF Start, Stop
<1> QED BY <1>1, <1>2 DEF InRange, AllTimed

\* Where the container is sought to, nothing that was asked for is left out.
LEMMA LandsBeforeStart ==
  ASSUME ConversionFits, AllTimed, packet \in Landings, pending = << >>,
         NEW p \in Passed
  PROVE  ~InRange(FrameAt(media, p))
<1>1. media \in Media BY DEF ConversionFits
<1>2. p \in Places(media) BY DEF Passed
<1>3. /\ p[1] \in 1 .. Len(media.packets) /\ p[2] \in 1 .. Len(media.packets[p[1]])
      /\ FrameAt(media, p) \in [time : MediaTimes, length : Nat]
  BY <1>1, <1>2, PlaceOf
<1>4. packet \in 1 .. Len(media.packets) + 1 /\ Len(media.packets) \in Nat
  BY <1>1, Packets DEF ConversionFits
<1>5. p[1] < packet
  BY <1>3, <1>4 DEF Passed
<1>6. /\ Start # NoTime /\ packet \in 1 .. Len(media.packets)
      /\ Readable(media.packets[packet]) /\ media.packets[packet][1].time <= Start
  BY <1>3, <1>4, <1>5 DEF Landings
<1> DEFINE q == <<packet, 1>>
<1>7. q \in Places(media) /\ FrameAt(media, q) = media.packets[packet][1]
  <2>1. 1 \in 1 .. Len(media.packets[packet]) BY <1>1, <1>6, Packets
  <2> QED BY <1>1, <1>6, <2>1, IsPlace DEF FrameAt
<1>8. IsBefore(p, q) BY <1>5 DEF IsBefore
<1>9. FrameAt(media, q).time # NoTime /\ FrameAt(media, p).time # NoTime
  BY <1>2, <1>7 DEF AllTimed
<1>10. FrameAt(media, p).time + FrameAt(media, p).length <= FrameAt(media, q).time
  <2> HIDE DEF q
  <2> QED BY <1>1, <1>2, <1>7, <1>8, <1>9, FramesInOrder
<1>11. FrameAt(media, q) \in [time : MediaTimes, length : Nat]
  <2> HIDE DEF q
  <2> QED BY <1>1, <1>7, PlaceOf
<1>12. FrameAt(media, p).time + FrameAt(media, p).length <= Start
  <2> DEFINE a == FrameAt(media, p).time + FrameAt(media, p).length
             b == FrameAt(media, q).time
  <2>1. a \in Int /\ b \in Int /\ Start \in Int
    BY <1>3, <1>11, RangeIsInteger DEF MediaTimes, NoTime
  <2>2. a <= b /\ b <= Start BY <1>6, <1>7, <1>10
  <2> HIDE DEF a, b
  <2>3. a <= Start BY <2>1, <2>2
  <2> QED BY <2>3 DEF a
<1>13. FrameAt(media, p).time + FrameAt(media, p).length \in Int /\ Start \in Int
  BY <1>3, RangeIsInteger DEF MediaTimes, NoTime
<1> QED BY <1>6, <1>12, <1>13 DEF InRange

LEMMA ConvertInvAtStart == ConvertInit => ConvertInv
<1> SUFFICES ASSUME ConvertInit PROVE ConvertInv
  OBVIOUS
<1>1. ConversionFits
  <2>1. media \in Media /\ Len(media.packets) \in Nat BY Packets DEF ConvertInit
  <2>2. packet \in 1 .. Len(media.packets) + 1
    BY <2>1 DEF ConvertInit, Landings
  <2> QED BY <2>1, <2>2 DEF ConvertInit, ConversionFits
<1>2. AllTimed => \A p \in Passed : ~InRange(FrameAt(media, p))
  BY <1>1, LandsBeforeStart DEF ConvertInit
<1>3. written = << >> /\ ends \notin {"empty", "done"} BY DEF ConvertInit
<1>4. ToSet(written) = {} /\ Len(written) = 0 BY <1>3 DEF ToSet
<1> QED BY <1>1, <1>2, <1>3, <1>4 DEF ConvertInv, WrittenAsPassed, OffsetOfFirst

\* Reading on leaves the places behind as they are.
LEMMA ReadsPacketKeeps == ConvertInv /\ ReadsPacket => ConvertInv'
<1> SUFFICES ASSUME ConvertInv, ReadsPacket PROVE ConvertInv'
  OBVIOUS
<1> USE DEF ConvertInv
<1>0. /\ media' = media /\ request' = request /\ written' = written /\ offset' = offset
      /\ pending = << >> /\ ends = "not" /\ media \in Media
  BY DEF ReadsPacket, ConversionFits
<1>1. /\ Origin' = Origin /\ Start' = Start /\ Stop' = Stop /\ AllTimed' = AllTimed
      /\ \A f : InRange(f)' = InRange(f)
  BY <1>0, RangeStays
<1>2. Len(media.packets) \in Nat /\ packet \in 1 .. Len(media.packets) + 1
  BY <1>0, Packets DEF ConversionFits
<1>3. CASE packet > Len(media.packets)
  <2>1. /\ packet' = packet /\ pending' = pending
        /\ ends' = IF written = << >> THEN "empty" ELSE "done"
    BY <1>3 DEF ReadsPacket, Finishes
  <2>2. ConversionFits' BY <1>0, <2>1 DEF ConversionFits
  <2>3. Passed' = Passed BY <1>0, <2>1 DEF Passed
  <2>4. \A p \in Places(media) : p \in Passed
    <3> SUFFICES ASSUME NEW p \in Places(media) PROVE p \in Passed
      OBVIOUS
    <3>1. p[1] \in 1 .. Len(media.packets) /\ p[2] \in 1 .. Len(media.packets[p[1]])
      BY <1>0, PlaceOf
    <3>2. Len(pending) = 0 /\ Len(media.packets[p[1]]) \in Nat BY <1>0, <3>1, Packets
    <3> QED BY <1>2, <1>3, <3>1, <3>2 DEF Passed
  <2>5. WrittenAsPassed' BY <1>0, <1>1, <2>3, <2>4 DEF WrittenAsPassed
  <2> QED BY <1>0, <1>1, <2>2, <2>5 DEF OffsetOfFirst
<1>4. CASE ~(packet > Len(media.packets))
  <2>1. /\ packet' = packet + 1 /\ ends' = ends
        /\ pending' = IF Readable(media.packets[packet]) THEN media.packets[packet]
                      ELSE << >>
        /\ packet \in 1 .. Len(media.packets)
    BY <1>2, <1>4 DEF ReadsPacket
  <2>2. media.packets[packet] \in Seq([time : MediaTimes, length : Nat])
        /\ Len(media.packets[packet]) \in Nat
    BY <1>0, <2>1, Packets
  <2>3. ConversionFits'
    <3>1. packet' - 1 = packet /\ packet' \in 1 .. Len(media.packets) + 1 BY <2>1, <1>2
    <3>2. pending' # << >> => Readable(media.packets[packet]) /\ pending' = media.packets[packet]
      BY <2>1
    <3>3. pending' \in Seq([time : MediaTimes, length : Nat]) BY <2>1, <2>2
    <3>4. pending' # << >> =>
            \A i \in 1 .. Len(pending') :
              Len(media.packets[packet]) - Len(pending') + i = i
      BY <2>2, <3>2
    <3>5. pending' # << >> =>
            /\ packet' - 1 \in 1 .. Len(media.packets)
            /\ Readable(media.packets[packet' - 1])
            /\ Len(pending') <= Len(media.packets[packet' - 1])
            /\ \A i \in 1 .. Len(pending') :
                 pending'[i] = media.packets[packet' - 1]
                                [Len(media.packets[packet' - 1]) - Len(pending') + i]
      <4> SUFFICES ASSUME pending' # << >>
                   PROVE  /\ packet' - 1 \in 1 .. Len(media.packets)
                          /\ Readable(media.packets[packet' - 1])
                          /\ Len(pending') <= Len(media.packets[packet' - 1])
                          /\ \A i \in 1 .. Len(pending') :
                               pending'[i] = media.packets[packet' - 1]
                                 [Len(media.packets[packet' - 1]) - Len(pending') + i]
        OBVIOUS
      <4>1. pending' = media.packets[packet' - 1] /\ packet' - 1 = packet BY <3>1, <3>2
      <4>2. Readable(media.packets[packet' - 1]) BY <3>2, <4>1
      <4>3. Len(pending') <= Len(media.packets[packet' - 1]) BY <2>2, <3>1, <3>2
      <4>4. \A i \in 1 .. Len(pending') :
              Len(media.packets[packet' - 1]) - Len(pending') + i = i
        BY <3>4, <4>1
      <4> QED BY <2>1, <4>1, <4>2, <4>3, <4>4
    <3> QED BY <1>0, <2>1, <3>1, <3>3, <3>5 DEF ConversionFits
  <2>4. Passed' = Passed
    <3> SUFFICES ASSUME NEW p \in Places(media) PROVE p \in Passed' <=> p \in Passed
      BY <1>0 DEF Passed
    <3>1. /\ p[1] \in 1 .. Len(media.packets) /\ p[2] \in 1 .. Len(media.packets[p[1]])
          /\ Readable(media.packets[p[1]]) /\ Len(media.packets[p[1]]) \in Nat
      BY <1>0, PlaceOf, Packets
    <3>2. p \in Passed <=> p[1] < packet
      BY <1>0, <1>2, <3>1 DEF Passed
    <3>3. packet' - 1 = packet BY <2>1
    <3>4. p[1] = packet => Len(pending') = Len(media.packets[packet])
      BY <2>1, <3>1
    <3>5. p \in Passed' <=> \/ p[1] < packet
                            \/ p[1] = packet /\ p[2] + Len(pending') <= Len(media.packets[packet])
      BY <1>0, <3>3 DEF Passed
    <3> QED BY <3>1, <3>2, <3>4, <3>5
  <2>5. WrittenAsPassed' BY <1>0, <1>1, <2>1, <2>4 DEF WrittenAsPassed
  <2> QED BY <1>0, <1>1, <2>3, <2>5 DEF OffsetOfFirst
<1> QED BY <1>3, <1>4

\* The frame that is taken, and its place.
NextPlace == <<packet - 1, Len(media.packets[packet - 1]) - Len(pending) + 1>>

LEMMA NextFrame ==
  ASSUME ConversionFits, pending # << >>
  PROVE  /\ NextPlace \in Places(media)
         /\ Head(pending) = FrameAt(media, NextPlace)
         /\ Head(pending) \in [time : MediaTimes, length : Nat]
         /\ NextPlace \notin Passed
         /\ \A p \in Places(media) \ (Passed \cup {NextPlace}) : IsBefore(NextPlace, p)
         /\ \A p \in Passed : IsBefore(p, NextPlace)
<1> DEFINE P == media.packets[packet - 1]
           F == [time : MediaTimes, length : Nat]
<1>1. /\ media \in Media /\ packet - 1 \in 1 .. Len(media.packets) /\ Readable(P)
      /\ pending \in Seq(F) /\ Len(pending) <= Len(P)
      /\ \A i \in 1 .. Len(pending) : pending[i] = P[Len(P) - Len(pending) + i]
  BY DEF ConversionFits
<1>2. P \in Seq(F) /\ Len(P) \in Nat BY <1>1, Packets
<1>3. Len(pending) \in Nat \ {0} /\ Head(pending) = pending[1]
  <2> HIDE DEF P, F
  <2> QED BY <1>1
<1>4. Len(P) - Len(pending) + 1 \in 1 .. Len(P) BY <1>1, <1>2, <1>3
<1>5. NextPlace \in Places(media) BY <1>1, <1>4, IsPlace DEF NextPlace
<1>6. Head(pending) = FrameAt(media, NextPlace)
  <2>1. pending[1] = P[Len(P) - Len(pending) + 1] BY <1>1, <1>3
  <2> QED BY <1>3, <2>1 DEF FrameAt, NextPlace
<1>7. Head(pending) \in F BY <1>1, <1>5, <1>6, PlaceOf
<1>8. /\ NextPlace[1] = packet - 1 /\ NextPlace[2] = Len(P) - Len(pending) + 1
      /\ packet \in Nat
  BY <1>1 DEF NextPlace, ConversionFits
<1>9. NextPlace \notin Passed BY <1>2, <1>3, <1>8 DEF Passed
<1>10. ASSUME NEW p \in Places(media)
       PROVE  /\ p \in Passed => IsBefore(p, NextPlace)
              /\ p \notin Passed /\ p # NextPlace => IsBefore(NextPlace, p)
  <2>1. /\ p = <<p[1], p[2]>> /\ p[1] \in Nat /\ p[2] \in Nat
        /\ p[1] \in 1 .. Len(media.packets) /\ p[2] \in 1 .. Len(media.packets[p[1]])
    BY <1>1, PlaceOf
  <2>2. p # NextPlace => p[1] # packet - 1 \/ p[2] # NextPlace[2]
    BY <1>8, <2>1 DEF NextPlace
  <2>3. p \in Passed <=> \/ p[1] < packet - 1
                         \/ p[1] = packet - 1 /\ p[2] + Len(pending) <= Len(P)
    BY DEF Passed
  <2> HIDE DEF P
  <2> QED BY <1>2, <1>3, <1>8, <2>1, <2>2, <2>3, SMTT(30) DEF IsBefore
<1> QED BY <1>5, <1>6, <1>7, <1>9, <1>10 DEF Passed

\* A frame behind another one begins later.
LEMMA LaterBegins ==
  ASSUME NEW m \in Media, NEW p \in Places(m), NEW q \in Places(m), IsBefore(p, q),
         FrameAt(m, p).time # NoTime, FrameAt(m, q).time # NoTime
  PROVE  /\ FrameAt(m, p).time \in Int /\ FrameAt(m, q).time \in Int
         /\ FrameAt(m, p).time < FrameAt(m, q).time
<1>1. /\ FrameAt(m, p) \in [time : MediaTimes, length : Nat] /\ FrameAt(m, p).length > 0
      /\ FrameAt(m, q) \in [time : MediaTimes, length : Nat]
  BY PlaceOf
<1>2. FrameAt(m, p).time + FrameAt(m, p).length <= FrameAt(m, q).time
  BY FramesInOrder
<1>3. FrameAt(m, p).time \in Int /\ FrameAt(m, q).time \in Int /\ FrameAt(m, p).length \in Int
  BY <1>1 DEF MediaTimes, NoTime
<1> QED BY <1>1, <1>2, <1>3

LEMMA TakingKeepsFits == ConvertInv /\ TakesFrame => ConversionFits'
<1> SUFFICES ASSUME ConvertInv, TakesFrame PROVE ConversionFits'
  OBVIOUS
<1> DEFINE f == Head(pending)
           F == [time : MediaTimes, length : Nat]
<1>1. /\ pending # << >> /\ ends = "not" /\ media' = media /\ request' = request
      /\ packet' = packet /\ pending' = Tail(pending)
  BY DEF TakesFrame
<1>2. ConversionFits /\ media \in Media BY DEF ConvertInv, ConversionFits
<1>3. f \in F BY <1>1, <1>2, NextFrame
<1>4. /\ Len(media.packets[packet - 1]) \in Nat
      /\ packet - 1 \in 1 .. Len(media.packets)
      /\ Len(pending) <= Len(media.packets[packet - 1])
  BY <1>1, <1>2, Packets DEF ConversionFits
<1>5. /\ pending' \in Seq(F) /\ Len(pending) \in Nat \ {0}
      /\ Len(pending') = Len(pending) - 1
      /\ \A i \in 1 .. Len(pending') : pending'[i] = pending[i + 1] /\ i + 1 \in 1 .. Len(pending)
  <2>1. pending \in Seq(F) BY <1>2 DEF ConversionFits
  <2> HIDE DEF F
  <2> QED BY <1>1, <2>1
<1>6. \A i \in 1 .. Len(pending') :
        pending'[i] = media.packets[packet - 1]
                        [Len(media.packets[packet - 1]) - Len(pending') + i]
  <2> SUFFICES ASSUME NEW i \in 1 .. Len(pending')
               PROVE  pending'[i] = media.packets[packet - 1]
                        [Len(media.packets[packet - 1]) - Len(pending') + i]
    OBVIOUS
  <2>1. pending'[i] = media.packets[packet - 1]
                        [Len(media.packets[packet - 1]) - Len(pending) + (i + 1)]
    BY <1>1, <1>2, <1>5 DEF ConversionFits
  <2>2. Len(media.packets[packet - 1]) - Len(pending) + (i + 1)
          = Len(media.packets[packet - 1]) - Len(pending') + i
    <3> DEFINE n == Len(media.packets[packet - 1])
               k == Len(pending)
    <3>1. n \in Nat /\ k \in Nat /\ i \in Nat /\ Len(pending') = k - 1 BY <1>4, <1>5
    <3> HIDE DEF n, k
    <3>2. n - k + (i + 1) = n - Len(pending') + i BY <3>1
    <3> QED BY <3>2 DEF n, k
  <2> QED BY <2>1, <2>2
<1>7. /\ written' \in Seq(F) /\ offset' \in Int
      /\ ends' \in {"not", "empty", "done"} /\ (ends' = "done" => written' # << >>)
  <2>1. CASE UNCHANGED <<written, offset>> /\ (Finishes \/ UNCHANGED ends)
    BY <1>1, <1>2, <2>1 DEF Finishes, ConversionFits
  <2>2. CASE written' = Append(written, f) /\ UNCHANGED ends
             /\ offset' = IF written = << >> THEN OffsetOf(f) ELSE offset
    <3>1. OffsetOf(f) \in Int
      BY <1>2, <1>3, RangeIsInteger DEF OffsetOf, MediaTimes, NoTime, ConversionFits
    <3>2. written \in Seq(F) /\ offset \in Int BY <1>2 DEF ConversionFits
    <3> HIDE DEF f, F
    <3> QED BY <1>1, <1>3, <2>2, <3>1, <3>2
  <2> QED BY <2>1, <2>2 DEF TakesFrame
<1>8. /\ Readable(media.packets[packet - 1])
      /\ Len(pending') <= Len(media.packets[packet - 1])
  BY <1>1, <1>2, <1>4, <1>5 DEF ConversionFits
<1> QED BY <1>1, <1>2, <1>4, <1>5, <1>6, <1>7, <1>8 DEF ConversionFits

\* What is behind the conversion, of what was asked for.
Asked(places) == {FrameAt(media, p) : p \in {p \in places : InRange(FrameAt(media, p))}}

LEMMA TakingKeepsWritten == ConvertInv /\ TakesFrame => WrittenAsPassed'
<1> SUFFICES ASSUME ConvertInv, TakesFrame, AllTimed PROVE WrittenAsPassed'
  <2>1. TakesFrame => AllTimed' = AllTimed BY RangeStays DEF TakesFrame
  <2> QED BY <2>1 DEF WrittenAsPassed
<1> DEFINE f == Head(pending)
           F == [time : MediaTimes, length : Nat]
<1>1. /\ pending # << >> /\ ends = "not" /\ media' = media /\ request' = request
      /\ packet' = packet /\ pending' = Tail(pending)
  BY DEF TakesFrame
<1>2. ConversionFits /\ media \in Media BY DEF ConvertInv, ConversionFits
<1>3. /\ NextPlace \in Places(media) /\ f = FrameAt(media, NextPlace) /\ f \in F
      /\ NextPlace \notin Passed
      /\ \A p \in Places(media) \ (Passed \cup {NextPlace}) : IsBefore(NextPlace, p)
      /\ \A p \in Passed : IsBefore(p, NextPlace)
  BY <1>1, <1>2, NextFrame
<1>4. f.time # NoTime BY <1>3 DEF AllTimed
<1>5. InRange(f) <=> ~BeforeStart(f) /\ ~AfterStop(f) BY <1>2, <1>3, <1>4, RangeIsKept
<1>6. \A g : InRange(g)' = InRange(g) BY <1>1, RangeStays
<1>7. Passed' = Passed \cup {NextPlace}
  <2>1. Len(pending) \in Nat \ {0} /\ Len(pending') = Len(pending) - 1
    <3>1. pending \in Seq(F) BY <1>2 DEF ConversionFits
    <3> HIDE DEF F
    <3> QED BY <1>1, <3>1
  <2>2. packet - 1 \in 1 .. Len(media.packets) /\ Len(media.packets[packet - 1]) \in Nat
    BY <1>1, <1>2, Packets DEF ConversionFits
  <2> SUFFICES ASSUME NEW p \in Places(media)
               PROVE  p \in Passed' <=> p \in Passed \/ p = NextPlace
    BY <1>1, <1>3 DEF Passed
  <2>3. p = <<p[1], p[2]>> /\ p[1] \in Nat /\ p[2] \in Nat
    <3>1. p = <<p[1], p[2]>> /\ p[1] \in 1 .. Len(media.packets)
          /\ p[2] \in 1 .. Len(media.packets[p[1]])
      BY <1>2, PlaceOf
    <3> QED BY <3>1
  <2> DEFINE n == Len(media.packets[packet - 1])
             k == Len(pending)
             j == Len(pending')
  <2>4. p \in Passed' <=> p[1] < packet - 1 \/ (p[1] = packet - 1 /\ p[2] + j <= n)
    BY <1>1 DEF Passed
  <2>5. p \in Passed <=> p[1] < packet - 1 \/ (p[1] = packet - 1 /\ p[2] + k <= n)
    BY DEF Passed
  <2>6. p = NextPlace <=> p[1] = packet - 1 /\ p[2] = n - k + 1
    BY <2>3 DEF NextPlace
  <2>7. n \in Nat /\ k \in Nat /\ j = k - 1 BY <2>1, <2>2
  <2> HIDE DEF n, k, j
  <2> QED BY <2>3, <2>4, <2>5, <2>6, <2>7
<1>8. /\ ToSet(written) = Asked(Passed)
      /\ \A i, j \in 1 .. Len(written) : i < j => written[i].time < written[j].time
  BY DEF ConvertInv, WrittenAsPassed, Asked
<1>9. Asked(Passed \cup {NextPlace})
        = IF InRange(f) THEN Asked(Passed) \cup {f} ELSE Asked(Passed)
  BY <1>3 DEF Asked
<1>10. CASE ~InRange(f)
  <2>1. written' = written
        /\ (ends' \in {"empty", "done"} => AfterStop(f))
    BY <1>1, <1>5, <1>10 DEF TakesFrame
  <2>2. ToSet(written') = Asked(Passed') BY <1>7, <1>8, <1>9, <1>10, <2>1
  <2>3. ASSUME AfterStop(f), NEW p \in Places(media), InRange(FrameAt(media, p))
        PROVE  p \in Passed'
    <3> SUFFICES ASSUME p \notin Passed, p # NextPlace PROVE FALSE
      BY <1>7
    <3>1. IsBefore(NextPlace, p) BY <1>3
    <3>2. FrameAt(media, p).time # NoTime BY DEF AllTimed
    <3>3. /\ f.time \in Int /\ FrameAt(media, p).time \in Int
          /\ f.time < FrameAt(media, p).time
      BY <1>2, <1>3, <1>4, <3>1, <3>2, LaterBegins
    <3>4. Stop # NoTime /\ Stop < f.time /\ FrameAt(media, p).time <= Stop
      BY <2>3 DEF AfterStop, InRange
    <3>5. Stop \in Int BY <1>2, RangeIsInteger
    <3> QED BY <3>3, <3>4, <3>5
  <2> QED BY <1>1, <1>6, <1>8, <2>1, <2>2, <2>3 DEF WrittenAsPassed, Asked
<1>11. CASE InRange(f)
  <2>1. written' = Append(written, f) /\ ends' = "not"
    BY <1>1, <1>5, <1>11 DEF TakesFrame
  <2>2. written \in Seq(F) BY <1>2 DEF ConversionFits
  <2>3. /\ ToSet(written') = ToSet(written) \cup {f}
        /\ Len(written') = Len(written) + 1 /\ Len(written) \in Nat
        /\ \A i \in 1 .. Len(written) : written'[i] = written[i]
        /\ written'[Len(written) + 1] = f
    <3> HIDE DEF F, f
    <3> QED BY <1>3, <2>1, <2>2 DEF ToSet
  <2>4. ToSet(written') = Asked(Passed') BY <1>7, <1>8, <1>9, <1>11, <2>3
  <2>5. ASSUME NEW i \in 1 .. Len(written)
        PROVE  written[i].time < f.time
    <3>1. written[i] \in ToSet(written) BY <2>2 DEF ToSet
    <3>2. PICK p \in Passed : written[i] = FrameAt(media, p)
      BY <1>8, <3>1 DEF Asked
    <3>3. p \in Places(media) /\ IsBefore(p, NextPlace) BY <1>3 DEF Passed
    <3>4. FrameAt(media, p).time # NoTime BY <3>3 DEF AllTimed
    <3> QED BY <1>2, <1>3, <1>4, <3>2, <3>3, <3>4, LaterBegins
  <2>6. \A i, j \in 1 .. Len(written') : i < j => written'[i].time < written'[j].time
    <3> SUFFICES ASSUME NEW i \in 1 .. Len(written'), NEW j \in 1 .. Len(written'), i < j
                 PROVE  written'[i].time < written'[j].time
      OBVIOUS
    <3>1. i \in 1 .. Len(written) BY <2>3
    <3>2. CASE j \in 1 .. Len(written) BY <1>8, <2>3, <3>1, <3>2
    <3>3. CASE j = Len(written) + 1 BY <2>3, <2>5, <3>1, <3>3
    <3> QED BY <2>3, <3>2, <3>3
  <2> QED BY <1>1, <1>6, <2>1, <2>4, <2>6 DEF WrittenAsPassed, Asked
<1> QED BY <1>10, <1>11

LEMMA TakingKeepsOffset == ConvertInv /\ TakesFrame => OffsetOfFirst'
<1> SUFFICES ASSUME ConvertInv, TakesFrame PROVE OffsetOfFirst'
  OBVIOUS
<1> DEFINE f == Head(pending)
           F == [time : MediaTimes, length : Nat]
<1>1. Origin' = Origin /\ Start' = Start BY RangeStays DEF TakesFrame
<1>2. ConversionFits /\ pending # << >> BY DEF ConvertInv, TakesFrame
<1>3. CASE UNCHANGED <<written, offset>>
  BY <1>1, <1>3 DEF ConvertInv, OffsetOfFirst
<1>4. CASE written' = Append(written, f)
           /\ offset' = IF written = << >> THEN OffsetOf(f) ELSE offset
  <2>1. written \in Seq(F) /\ f \in F BY <1>2, NextFrame DEF ConversionFits
  <2>2. written'[1] = IF written = << >> THEN f ELSE written[1]
    <3> HIDE DEF f, F
    <3> QED BY <1>4, <2>1
  <2>3. IF f.time # NoTime THEN OffsetOf(f) = f.time - Origin
        ELSE Start # NoTime => OffsetOf(f) = Start - Origin
    BY DEF OffsetOf
  <2> HIDE DEF f
  <2> QED BY <1>1, <1>4, <2>2, <2>3 DEF ConvertInv, OffsetOfFirst
<1> QED BY <1>3, <1>4 DEF TakesFrame

LEMMA StandingKeepsConversion == ConvertInv /\ UNCHANGED convertVars => ConvertInv'
<1> SUFFICES ASSUME ConvertInv, UNCHANGED convertVars PROVE ConvertInv'
  OBVIOUS
<1>1. UNCHANGED <<media, request, packet, pending, written, offset, ends>>
  BY DEF convertVars
<1>2. Origin' = Origin /\ Start' = Start /\ \A f : InRange(f)' = InRange(f)
  BY <1>1, RangeStays
<1>3. ConversionFits' BY <1>1 DEF ConvertInv, ConversionFits
<1>4. Passed' = Passed BY <1>1 DEF Passed
<1> QED BY <1>1, <1>2, <1>3, <1>4 DEF ConvertInv, WrittenAsPassed, OffsetOfFirst, AllTimed

\* What was written is what was asked of the places that lie behind, and the
\* offset is that of its first frame, for any file whose frames follow one another
\* and wherever the container is sought to.
THEOREM ConvertInvariance == ConvertSpec => []ConvertInv
<1>1. ConvertInv /\ [ConvertNext]_convertVars => ConvertInv'
  BY ReadsPacketKeeps, TakingKeepsFits, TakingKeepsWritten, TakingKeepsOffset,
     StandingKeepsConversion DEF ConvertNext, ConvertInv
<1> QED BY <1>1, ConvertInvAtStart, PTL DEF ConvertSpec

LEMMA CutIsRight == ConvertInv => CutIsWhatWasAsked
<1> SUFFICES ASSUME ConvertInv, ends = "done" PROVE CutIsWhatWasAsked
  BY DEF CutIsWhatWasAsked
<1>1. ConversionFits /\ written # << >> BY DEF ConvertInv, ConversionFits
<1>2. AllTimed <=> \A f \in ReadableFrames : f.time # NoTime
  BY DEF AllTimed, ReadableFrames
<1>3. CASE AllTimed
  <2>1. ToSet(written) = {f \in ReadableFrames : InRange(f)}
    <3>1. /\ ToSet(written) = Asked(Passed)
          /\ \A p \in Places(media) : InRange(FrameAt(media, p)) => p \in Passed
      BY <1>3 DEF ConvertInv, WrittenAsPassed, Asked
    <3>2. Asked(Passed) = {f \in ReadableFrames : InRange(f)}
      BY <3>1 DEF Asked, ReadableFrames, Passed
    <3> QED BY <3>1, <3>2
  <2>2. written[1].time # NoTime
    <3>1. written[1] \in ToSet(written)
      <4> DEFINE F == [time : MediaTimes, length : Nat]
      <4>1. written \in Seq(F) BY <1>1 DEF ConversionFits
      <4> HIDE DEF F
      <4> QED BY <1>1, <4>1 DEF ToSet
    <3> QED BY <1>2, <1>3, <2>1, <3>1
  <2>3. offset = written[1].time - Origin
    BY <1>1, <2>2 DEF ConvertInv, OffsetOfFirst
  <2> QED BY <1>2, <1>3, <2>1, <2>3 DEF ConvertInv, WrittenAsPassed, CutIsWhatWasAsked
<1>4. CASE ~AllTimed
  <2>1. ASSUME Start # NoTime, written[1].time = NoTime PROVE offset = request.start
    <3>1. offset = Start - Origin BY <1>1, <2>1 DEF ConvertInv, OffsetOfFirst
    <3>2. Start = request.start + Origin /\ Origin \in Int /\ request.start \in Int
      BY <1>1, <2>1, RangeIsInteger, ConvertAssumption
         DEF ConversionFits, MediaTimes, NoTime
    <3> QED BY <3>1, <3>2
  <2> QED BY <1>2, <1>4, <2>1 DEF CutIsWhatWasAsked
<1> QED BY <1>3, <1>4

\* A conversion that ends well has written every frame that can be read of what
\* was asked for and no other, once and in order, and the time stamps count from
\* the first; for any file whose frames follow one another, with packets that
\* cannot be read and a seek that lands anywhere before the start.
THEOREM ConvertCutIsWhatWasAsked == ConvertSpec => []CutIsWhatWasAsked
BY ConvertInvariance, CutIsRight, PTL

=============================================================================
