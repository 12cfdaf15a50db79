---------------------------- MODULE AudioConvert ----------------------------
(***************************************************************************)
(* The conversion of a media file to the audio that is transcribed         *)
(* (noScribe/audio/convert.py): from the start to the stop that were asked *)
(* for, frame by frame.  The container is only sought to some packet at or *)
(* before the start, packets may be unreadable, and the time line need not *)
(* begin at zero.  Times are small integers.                               *)
(***************************************************************************)
EXTENDS Integers, Sequences, SequencesExt

CONSTANTS
  Media,     \* the files: whether there is a picture, when the container and the
             \* audio say that they start, or NoTime, and the audio's packets
  Requests   \* the start and the stop asked for, or NoTime

NoTime == -1

VARIABLES
  media,    \* the file, and
  request,  \* what is asked for
  packet,   \* the next packet
  pending,  \* pending_frames
  written,  \* the frames given to the encoder
  offset,   \* start_offset_ms
  ends      \* how the conversion has ended, or "not"

convertVars == <<media, request, packet, pending, written, offset, ends>>

\* A packet is a sequence of frames, or unreadable.  A frame begins at a time and
\* lasts a while.
AFrame(time, length) == [time |-> time, length |-> length]
Unreadable == <<AFrame(NoTime, 0)>>

Readable(p) == p # Unreadable

\* The places of a file where there is a frame that can be read: the packet's
\* number, and the frame's in it.
Places(m) ==
  UNION {{<<k, i>> : i \in 1..Len(m.packets[k])} :
           k \in {k \in 1..Len(m.packets) : Readable(m.packets[k])}}

FrameAt(m, p) == m.packets[p[1]][p[2]]

IsBefore(p, q) == p[1] < q[1] \/ (p[1] = q[1] /\ p[2] < q[2])

MediaTimes == Nat \cup {NoTime}

\* The frames of a file last a while and follow one another, where they have
\* times.
ASSUME ConvertAssumption ==
  /\ \A m \in Media :
       /\ m.video \in BOOLEAN /\ m.container \in MediaTimes /\ m.audio \in MediaTimes
       /\ m.packets \in Seq(Seq([time : MediaTimes, length : Nat]) \ {<<>>})
       /\ \A p \in Places(m) : FrameAt(m, p).length > 0
       /\ \A p, q \in Places(m) :
            /\ IsBefore(p, q)
            /\ FrameAt(m, p).time # NoTime /\ FrameAt(m, q).time # NoTime
            => FrameAt(m, p).time + FrameAt(m, p).length <= FrameAt(m, q).time
  /\ \A r \in Requests : r.start \in MediaTimes /\ r.stop \in MediaTimes

\* _start_time: where the time line begins that the player shows.
Origin ==
  CASE media.video /\ media.container # NoTime -> media.container
    [] ~(media.video /\ media.container # NoTime) /\ media.audio # NoTime -> media.audio
    [] OTHER -> 0

\* Positions are counted from there.
Start == IF request.start = NoTime THEN NoTime ELSE request.start + Origin
Stop == IF request.stop = NoTime THEN NoTime ELSE request.stop + Origin

\* _validate_range: nothing lies between a stop and a later start.
RangeIsEmpty == Stop # NoTime /\ Stop <= (IF Start # NoTime THEN Start ELSE Origin)

\* Where seeking can land: a packet that begins no later than the start, wherever
\* the container has its index.
Landings ==
  IF Start = NoTime THEN {1}
  ELSE {1} \cup {k \in 1..Len(media.packets) :
                   Readable(media.packets[k]) /\ media.packets[k][1].time # NoTime /\ media.packets[k][1].time <= Start}

\* open, seek and stop_after.
ConvertInit ==
  /\ media \in Media /\ request \in Requests
  /\ packet \in Landings
  /\ pending = <<>> /\ written = <<>> /\ offset = 0
  /\ ends = IF RangeIsEmpty THEN "refused" ELSE "not"

\* _finished: what holds no audio at all is an error.
Finishes == ends' = IF written = <<>> THEN "empty" ELSE "done"

ReadsPacket ==
  /\ ends = "not" /\ pending = <<>>
  /\ IF packet > Len(media.packets)
     THEN Finishes /\ UNCHANGED <<packet, pending>>
     ELSE /\ packet' = packet + 1
          /\ pending' = IF Readable(media.packets[packet]) THEN media.packets[packet] ELSE <<>>
          /\ UNCHANGED ends
  /\ UNCHANGED <<media, request, written, offset>>

\* A fault: a frame that begins before the start is dropped, not one that ends.
BeforeStartByBegin(f) == Start # NoTime /\ f.time # NoTime /\ f.time < Start

\* What seeking landed on before the start.
BeforeStart(f) == Start # NoTime /\ f.time # NoTime /\ f.time + f.length <= Start

AfterStop(f) == Stop # NoTime /\ f.time # NoTime /\ Stop < f.time

\* The time stamps of the transcript count from the first sample that is written.
OffsetOf(f) ==
  IF f.time # NoTime THEN f.time - Origin
  ELSE IF Start # NoTime THEN Start - Origin ELSE offset

TakesFrame ==
  /\ ends = "not" /\ pending # <<>>
  /\ LET f == Head(pending)
     IN  /\ pending' = Tail(pending)
         /\ \/ BeforeStart(f) /\ UNCHANGED <<written, offset, ends>>
            \/ ~BeforeStart(f) /\ AfterStop(f) /\ Finishes /\ UNCHANGED <<written, offset>>
            \/ /\ ~BeforeStart(f) /\ ~AfterStop(f)
               /\ written' = Append(written, f)
               /\ offset' = IF written = <<>> THEN OffsetOf(f) ELSE offset
               /\ UNCHANGED ends
  /\ UNCHANGED <<media, request, packet>>

ConvertNext == ReadsPacket \/ TakesFrame

ConvertSpec == ConvertInit /\ [][ConvertNext]_convertVars

-----------------------------------------------------------------------------
\* What can be read of the file, and what of it touches the range asked for.
ReadableFrames == {FrameAt(media, p) : p \in Places(media)}

InRange(f) ==
  /\ Start # NoTime => f.time + f.length > Start
  /\ Stop # NoTime => f.time <= Stop

(* A conversion that ends well has written what was asked for, every frame *)
(* of it that can be read and no other, once and in order, wherever the    *)
(* container was sought to; and the offset that the transcript's time      *)
(* stamps are counted from is where the first written sample is in the     *)
(* file (convert, start_offset_ms).  (Of files whose frames have no times  *)
(* only the latter can be said, and only as the start asked for.)          *)
CutIsWhatWasAsked ==
  ends = "done" =>
    IF \A f \in ReadableFrames : f.time # NoTime
    THEN /\ ToSet(written) = {f \in ReadableFrames : InRange(f)}
         /\ \A i, j \in 1..Len(written) : i < j => written[i].time < written[j].time
         /\ offset = written[1].time - Origin
    ELSE Start # NoTime /\ written[1].time = NoTime => offset = request.start
=============================================================================
