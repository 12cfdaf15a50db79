--------------------------- MODULE EditorSegments ---------------------------
(***************************************************************************)
(* How the transcript editor follows the audio in the text: the segment    *)
(* whose time stamp holds the position is selected, and between two        *)
(* segments nothing is, until the next one begins.  The text is a sequence *)
(* of fragments, each with a link or without; a link that is no time stamp *)
(* makes the search raise.                                                 *)
(***************************************************************************)
EXTENDS Integers, Sequences, FiniteSets, FiniteSetsExt

CONSTANTS
  Documents,  \* the texts
  MaxTime     \* bound: the length of the audio

\* A text as the application writes it: its time stamps are those of segments in
\* the order in which they begin.
IsText(d) ==
  LET stamps == {k \in 1..Len(d) : d[k].link = "stamp"}
  IN  /\ d \in Seq([link : {"stamp", "none", "other"}, start : Int, stop : Int])
      /\ \A k \in stamps : 0 <= d[k].start /\ d[k].start <= d[k].stop
      /\ \A j, k \in stamps : j < k => d[j].start <= d[k].start

ASSUME SegmentsAssumption == MaxTime \in Nat /\ \A d \in Documents : IsText(d)

VARIABLES
  text,      \* the fragments of the document
  cursor,    \* the fragment the cursor is in
  position,  \* of the audio
  current,   \* playback_segment_start, _stop and _selected
  follows    \* the loop has looked at this position

segmentVars == <<text, cursor, position, current, follows>>

\* A fragment with a time stamp, without a link, with some other link.
Stamped(start, stop) == [link |-> "stamp", start |-> start, stop |-> stop]
Plain == [link |-> "none", start |-> -1, stop |-> -1]
Linked == [link |-> "other", start |-> -1, stop |-> -1]

Holds(fragment, t) == fragment.link = "stamp" /\ fragment.start <= t /\ t <= fragment.stop

\* The segment of a fragment, and none.
SegmentAt(k) == [start |-> text[k].start, stop |-> text[k].stop, selected |-> TRUE]
NoSegment == [start |-> -1, stop |-> -1, selected |-> FALSE]

\* The places of the text from the cursor on in a direction, nearest first; what
\* is read on the way to a place.
From(place, dir) == IF dir = "right" THEN place..Len(text) ELSE 1..place
Between(place, k) == {j \in 1..Len(text) : (place <= j /\ j <= k) \/ (k <= j /\ j <= place)}

NotFound == 0
Raised == -1

\* find_segment: the first place from `place` on whose fragment is `wanted`.
Find(place, dir, wanted) ==
  LET hits == {k \in From(place, dir) : wanted[k]}
      near == IF dir = "right" THEN Min(hits) ELSE Max(hits)
      read == IF hits = {} THEN From(place, dir) ELSE Between(place, near)
  IN  IF \E k \in read : text[k].link = "other" THEN Raised
      ELSE IF hits = {} THEN NotFound ELSE near

HoldsAt(t) == [k \in 1..Len(text) |-> Holds(text[k], t)]

\* select_segment_for_audio_position: here, else towards the position, else, with
\* the cursor moved there, from the beginning.
Towards(t) == IF text[cursor].link = "stamp" /\ t < text[cursor].start THEN "left" ELSE "right"
NearbyFor(t) == IF Holds(text[cursor], t) THEN cursor ELSE Find(cursor, Towards(t), HoldsAt(t))
PlaceFor(t) == IF NearbyFor(t) = NotFound THEN Find(1, "right", HoldsAt(t)) ELSE NearbyFor(t)
WhenRaised(t) == IF NearbyFor(t) = NotFound THEN 1 ELSE cursor

\* A fault: the next segment is looked for from the cursor on.
PlaceAfterHere(t) ==
  LET later == {k \in cursor..Len(text) : text[k].link = "stamp" /\ text[k].start > t}
  IN  IF later = {} THEN NotFound ELSE Min(later)

\* find_next_segment_after_audio_position: the first of the text to start later.
PlaceAfter(t) ==
  LET later == {k \in 1..Len(text) : text[k].link = "stamp" /\ text[k].start > t}
  IN  IF later = {} THEN NotFound ELSE Min(later)

\* _schedule_next_segment.
Schedules(t) ==
  LET next == PlaceAfter(t)
  IN  IF next = NotFound
      THEN current' = NoSegment /\ cursor' = 1
      ELSE /\ current' = [SegmentAt(next) EXCEPT !.selected = FALSE]
           /\ cursor' = next

\* The segment of the position is selected, or the next one is waited for.
Selects(t) ==
  LET place == PlaceFor(t)
  IN  \/ place \notin {NotFound, Raised} /\ current' = SegmentAt(place) /\ cursor' = place
      \/ place = NotFound /\ Schedules(t)

\* The cursor of a document that is played: on a stamp, else on the first one
\* (find_segment without a time).
FirstStamp == Find(1, "right", [k \in 1..Len(text) |-> text[k].link = "stamp"])
StartsAt(place) == IF text[place].link = "stamp" THEN place ELSE FirstStamp

SegmentsInit ==
  /\ text \in Documents
  /\ \E place \in 1..Len(text) :
       /\ StartsAt(place) \notin {NotFound, Raised}
       /\ cursor = StartsAt(place)
  /\ current = SegmentAt(cursor)
  /\ position = text[cursor].start
  /\ follows = TRUE

\* The audio goes on.
AudioPlays(t) ==
  /\ position' = t /\ t > position
  /\ follows' = FALSE
  /\ UNCHANGED <<text, cursor, current>>

Due == IF current.selected THEN position > current.stop
       ELSE current.start > -1 /\ position >= current.start

\* The loop of play_along looks; what raises makes it stop following.
Looks ==
  /\ ~follows /\ follows' = TRUE
  /\ IF ~Due THEN UNCHANGED <<cursor, current>>
     ELSE \/ Selects(position)
          \/ PlaceFor(position) = Raised /\ current' = NoSegment /\ cursor' = WhenRaised(position)
  /\ UNCHANGED <<text, position>>

\* seek_audio_to: what raises ends the handler where it is.
Seeks(t) ==
  /\ position' = t
  /\ \/ Selects(t) /\ follows' = TRUE
     \/ PlaceFor(t) = Raised /\ follows' = FALSE /\ cursor' = WhenRaised(t) /\ UNCHANGED current
  /\ UNCHANGED text

SegmentsNext ==
  \/ \E t \in 0..MaxTime : AudioPlays(t) \/ Seeks(t)
  \/ Looks

SegmentsSpec == SegmentsInit /\ [][SegmentsNext]_segmentVars

-----------------------------------------------------------------------------
(* The editor keeps its place: where the loop has looked, the segment that *)
(* is selected is the one the cursor is in and one that is heard, and      *)
(* nothing is selected only where nothing is said -- whatever was sought   *)
(* before, forwards or back, over gaps and through segments that overlap.  *)
(* (A link that is no stamp, pasted into the text, makes the search raise, *)
(* and the editor stops following: nothing is said of such texts.)         *)
FollowsAudio ==
  follows /\ (\A k \in 1..Len(text) : text[k].link # "other") =>
    /\ current.selected => (Holds(text[cursor], position) /\ SegmentAt(cursor) = current)
    /\ ~current.selected => \A k \in 1..Len(text) : ~Holds(text[k], position)
=============================================================================
