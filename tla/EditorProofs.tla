---------------------------- MODULE EditorProofs ----------------------------
(***************************************************************************)
(* What the handlers of the editor promise one another, for any set of     *)
(* transcripts and any depth of handlers inside handlers.                  *)
(*                                                                         *)
(* The argument is about the stack of handlers.  Whatever sets the editor  *)
(* playing puts a loop on top of it, and every handler that could run on   *)
(* top of that loop either waits for `keep` to be gone or takes it back    *)
(* first; so as long as `keep` stands and nothing is paused, the innermost *)
(* handler is the loop, and no other has had the chance to take its player *)
(* away.  And a player that is heard has a loop somewhere on the stack,    *)
(* whose end stops it.  The last part is about the segment that follows    *)
(* the audio (EditorSegments).                                             *)
(***************************************************************************)
EXTENDS Editor, EditorSegments, LineProofs

\* Where a handler can be.
Places == Pumps \cup {"removes", "load_cleaned", "load_failed", "source_loaded",
                     "open_clears", "open_shows", "close_cleaned", "play_asks"}
Frame == [at : Places, file : Files \cup {NoFile}, mine : BOOLEAN]
Players == [state : {"none", "stopped", "playing", "paused"}, loaded : BOOLEAN, failed : BOOLEAN]
Looping == {"play_starts", "play_loops"}
Opening == {"open_clears", "open_parses", "open_shows"}

\* A stack of handlers; those that open a transcript know which.
Stack(s) ==
  /\ s \in Seq(Frame)
  /\ \A k \in 1..Len(s) : s[k].at \in Opening => s[k].file \in Files

\* A player that is none is NoPlayer.
PlayerOK == player \in Players /\ (player.state = "none" => player = NoPlayer)

FlagsOK ==
  /\ path \in Files \cup {NoFile}
  /\ shown \in Files \cup {NoFile, Loading}
  /\ modified \in BOOLEAN /\ keep \in BOOLEAN /\ paused \in BOOLEAN
  /\ temp \in BOOLEAN /\ closed \in BOOLEAN
  /\ ret \in {"none", "done", "true", "false", "raised"}

\* The editor means to play: the innermost handler is the loop that does, and
\* its player is there and still the one it was started with.
OnlyLoopsKeep ==
  keep /\ ~paused => At(Looping) /\ Inner.mine /\ player # NoPlayer

\* A player is heard: a loop is under way that will stop it.
SomebodyStops ==
  player.state = "playing" /\ ~paused =>
    \E k \in 1..Len(calls) : calls[k].at \in Looping

PlayingOK == Stack(calls) /\ PlayerOK /\ OnlyLoopsKeep /\ SomebodyStops

EditorInv == FlagsOK /\ PlayingOK

-----------------------------------------------------------------------------
(* The stack.                                                              *)

LEMMA HandlersAreFrames ==
  ASSUME NEW at \in Places, NEW file \in Files \cup {NoFile}
  PROVE  /\ Handler(at, file) \in Frame
         /\ Handler(at, file).at = at /\ Handler(at, file).file = file
         /\ Handler(at, file).mine
BY DEF Handler, Frame

\* A handler is called.
LEMMA StackGrows ==
  ASSUME NEW s, Stack(s), NEW h \in Frame, h.at \in Opening => h.file \in Files
  PROVE  /\ Stack(Append(s, h)) /\ Append(s, h) # <<>>
         /\ Len(Append(s, h)) = Len(s) + 1
         /\ Append(s, h)[Len(s) + 1] = h
         /\ \A k \in 1..Len(s) : Append(s, h)[k] = s[k]
<1>1. s \in Seq(Frame) /\ Len(s) \in Nat BY DEF Stack
<1>2. Append(s, h) \in Seq(Frame) /\ Len(Append(s, h)) = Len(s) + 1 BY <1>1
<1>3. \A k \in 1..Len(s) : Append(s, h)[k] = s[k] BY <1>1
<1>4. Append(s, h)[Len(s) + 1] = h BY <1>1
<1>5. Append(s, h) # <<>> BY <1>1, <1>2
<1>6. ASSUME NEW k \in 1..Len(Append(s, h)), Append(s, h)[k].at \in Opening
      PROVE  Append(s, h)[k].file \in Files
  <2>1. CASE k = Len(s) + 1 BY <2>1, <1>4, <1>6
  <2>2. CASE k \in 1..Len(s) BY <2>2, <1>3, <1>6 DEF Stack
  <2> QED BY <2>1, <2>2, <1>1, <1>2
<1> QED BY <1>2, <1>3, <1>4, <1>5, <1>6 DEF Stack

\* The innermost handler returns.
LEMMA StackShrinks ==
  ASSUME NEW s, Stack(s), s # <<>>
  PROVE  /\ Stack(Front(s))
         /\ Len(Front(s)) = Len(s) - 1
         /\ \A k \in 1..Len(s) - 1 : Front(s)[k] = s[k]
<1>1. s \in Seq(Frame) /\ Len(s) \in Nat /\ Len(s) > 0 BY DEF Stack
<1>2. Front(s) = [k \in 1..Len(s) - 1 |-> s[k]]
  BY <1>1, SMTT(30) DEF Front
<1>3. Front(s) \in Seq(Frame) /\ Len(Front(s)) = Len(s) - 1
  <2>1. \A k \in 1..Len(s) - 1 : s[k] \in Frame BY <1>1
  <2>2. Len(s) - 1 \in Nat BY <1>1
  <2> QED BY <2>1, <2>2, <1>2
<1> QED BY <1>1, <1>2, <1>3 DEF Stack

\* The innermost handler goes on, to another place of its own.
LEMMA StackMoves ==
  ASSUME NEW s, Stack(s), s # <<>>, NEW at \in Places,
         at \in Opening => s[Len(s)].file \in Files
  PROVE  LET t == [s EXCEPT ![Len(s)].at = at]
         IN  /\ Stack(t) /\ Len(t) = Len(s) /\ t # <<>>
             /\ t[Len(s)].at = at /\ t[Len(s)].mine = s[Len(s)].mine
             /\ \A k \in 1..Len(s) - 1 : t[k] = s[k]
<1> DEFINE t == [s EXCEPT ![Len(s)].at = at]
<1>1. s \in Seq(Frame) /\ Len(s) \in Nat /\ Len(s) > 0 BY DEF Stack
<1>2. s[Len(s)] \in Frame BY <1>1
<1>3. [s[Len(s)] EXCEPT !.at = at] \in Frame BY <1>2 DEF Frame
<1>4. t = [s EXCEPT ![Len(s)] = [s[Len(s)] EXCEPT !.at = at]] OBVIOUS
<1>5. t \in Seq(Frame) /\ Len(t) = Len(s) BY <1>1, <1>3, <1>4
<1>6. t[Len(s)] = [s[Len(s)] EXCEPT !.at = at] BY <1>1, <1>4
<1>7. \A k \in 1..Len(s) - 1 : t[k] = s[k] BY <1>1, <1>4
<1>8. /\ t[Len(s)].at = at /\ t[Len(s)].mine = s[Len(s)].mine
      /\ t[Len(s)].file = s[Len(s)].file
  BY <1>2, <1>6 DEF Frame
<1>9. t # <<>> BY <1>1, <1>5
<1>10. ASSUME NEW k \in 1..Len(t), t[k].at \in Opening
       PROVE  t[k].file \in Files
  <2>1. CASE k = Len(s) BY <2>1, <1>8, <1>10
  <2>2. CASE k \in 1..Len(s) - 1 BY <2>2, <1>1, <1>7, <1>10 DEF Stack
  <2> QED BY <2>1, <2>2, <1>1, <1>5
<1> QED BY <1>5, <1>7, <1>8, <1>9, <1>10 DEF Stack

\* The innermost handler is succeeded by one of the same depth.
LEMMA StackReplaced ==
  ASSUME NEW s, Stack(s), s # <<>>, NEW h \in Frame, h.at \notin Opening
  PROVE  LET t == [s EXCEPT ![Len(s)] = h]
         IN  /\ Stack(t) /\ Len(t) = Len(s) /\ t # <<>>
             /\ t[Len(s)] = h
             /\ \A k \in 1..Len(s) - 1 : t[k] = s[k]
<1> DEFINE t == [s EXCEPT ![Len(s)] = h]
<1>1. s \in Seq(Frame) /\ Len(s) \in Nat /\ Len(s) > 0 BY DEF Stack
<1>2. t \in Seq(Frame) /\ Len(t) = Len(s) BY <1>1
<1>3. t[Len(s)] = h BY <1>1
<1>4. \A k \in 1..Len(s) - 1 : t[k] = s[k] BY <1>1
<1>5. t # <<>> BY <1>1, <1>2
<1> HIDE DEF t
<1>6. ASSUME NEW k \in 1..Len(t), t[k].at \in Opening
      PROVE  t[k].file \in Files
  <2>1. CASE k = Len(s) BY <2>1, <1>3, <1>6
  <2>2. CASE k \in 1..Len(s) - 1
    <3>1. t[k] = s[k] /\ k \in 1..Len(s) BY <2>2, <1>1, <1>4
    <3> QED BY <3>1, <1>6 DEF Stack
  <2> QED BY <2>1, <2>2, <1>1, <1>2
<1>7. Stack(t) BY <1>2, <1>6 DEF Stack
<1> QED BY <1>2, <1>3, <1>4, <1>5, <1>7 DEF t

\* Every handler under way loses its claim to the player.
LEMMA StackDisowned ==
  ASSUME NEW s, Stack(s)
  PROVE  LET t == [k \in 1..Len(s) |-> [s[k] EXCEPT !.mine = FALSE]]
         IN  Stack(t)
<1> DEFINE t == [k \in 1..Len(s) |-> [s[k] EXCEPT !.mine = FALSE]]
<1>1. s \in Seq(Frame) /\ Len(s) \in Nat BY DEF Stack
<1>2. \A k \in 1..Len(s) : s[k] \in Frame BY <1>1
<1>3. \A k \in 1..Len(s) :
        t[k] \in Frame /\ t[k].at = s[k].at /\ t[k].file = s[k].file
  BY <1>2 DEF Frame
<1>4. t \in Seq(Frame) /\ Len(t) = Len(s) BY <1>1, <1>3
<1> QED BY <1>3, <1>4 DEF Stack

-----------------------------------------------------------------------------
(* The player.                                                             *)

LEMMA PlayerInState ==
  ASSUME PlayerOK, NEW state \in {"stopped", "playing", "paused"}
  PROVE  LET p == InState(player, state)
         IN  /\ p \in Players /\ (p.state = "none" => p = NoPlayer)
             /\ player # NoPlayer => p # NoPlayer
             /\ state # "playing" => p.state # "playing"
<1>1. CASE player = NoPlayer BY <1>1 DEF InState, PlayerOK, NoPlayer
<1>2. CASE player # NoPlayer
  <2>1. InState(player, state) = [player EXCEPT !.state = state] BY <1>2 DEF InState
  <2>2. player \in Players BY DEF PlayerOK
  <2>3. /\ [player EXCEPT !.state = state] \in Players
        /\ [player EXCEPT !.state = state].state = state
    BY <2>2 DEF Players
  <2>4. state # NoPlayer.state BY DEF NoPlayer
  <2> QED BY <1>2, <2>1, <2>3, <2>4 DEF NoPlayer
<1> QED BY <1>1, <1>2

LEMMA NewPlayerIsOne ==
  /\ NewPlayer \in Players /\ NewPlayer.state = "stopped" /\ NewPlayer # NoPlayer
  /\ NoPlayer \in Players /\ NoPlayer.state = "none"
BY DEF NewPlayer, NoPlayer, Players

-----------------------------------------------------------------------------
(* What the handlers share.                                                *)

\* Elsewhere than in a loop the editor does not mean to play.
LEMMA NotMeant ==
  ASSUME OnlyLoopsKeep, NEW places, At(places), places \cap Looping = {}
  PROVE  ~keep \/ paused
BY DEF OnlyLoopsKeep, At

\* The audio is cleaned up below handlers that have stopped playing.
LEMMA AfterCleaning ==
  ASSUME NEW outer, Stack(outer), CleansUnder(outer), ~keep' \/ paused'
  PROVE  PlayingOK' /\ ret' = "none"
<1> DEFINE mild == [k \in 1..Len(outer) |-> [outer[k] EXCEPT !.mine = FALSE]]
<1>1. Stack(mild) BY StackDisowned
<1>2. PICK at \in {"removes", "released"} : calls' = Append(mild, Handler(at, NoFile))
  BY DEF CleansUnder
<1>3. Handler(at, NoFile) \in Frame /\ Handler(at, NoFile).at \notin Opening
  BY DEF Handler, Frame, Opening, Places, Pumps
<1> HIDE DEF mild
<1>4. Stack(calls') BY <1>1, <1>2, <1>3, StackGrows
<1>5. player' = NoPlayer /\ ret' = "none" BY DEF CleansUnder
<1>6. PlayerOK' BY <1>5, NewPlayerIsOne DEF PlayerOK
<1>7. OnlyLoopsKeep' BY DEF OnlyLoopsKeep
<1>8. SomebodyStops' BY <1>5, NewPlayerIsOne DEF SomebodyStops
<1> QED BY <1>4, <1>5, <1>6, <1>7, <1>8 DEF PlayingOK

LEMMA AfterLoading ==
  ASSUME NEW outer, Stack(outer), LoadsUnder(outer)
  PROVE  PlayingOK' /\ keep' = FALSE /\ paused' = FALSE /\ ret' = "none"
<1>1. Handler("load_cleaned", NoFile) \in Frame
      /\ Handler("load_cleaned", NoFile).at \notin Opening
  BY DEF Handler, Frame, Opening, Places, Pumps
<1>2. Stack(Append(outer, Handler("load_cleaned", NoFile))) BY <1>1, StackGrows
<1>3. keep' = FALSE /\ paused' = FALSE BY DEF LoadsUnder, Stops
<1> QED BY <1>2, <1>3, AfterCleaning DEF LoadsUnder

LEMMA AfterSource ==
  ASSUME NEW outer, Stack(outer), SourceUnder(outer)
  PROVE  PlayingOK' /\ keep' = FALSE /\ paused' = FALSE /\ ret' = "none"
<1>1. Handler("source_loaded", NoFile) \in Frame
      /\ Handler("source_loaded", NoFile).at \notin Opening
  BY DEF Handler, Frame, Opening, Places, Pumps
<1>2. Stack(Append(outer, Handler("source_loaded", NoFile))) BY <1>1, StackGrows
<1> QED BY <1>2, AfterLoading DEF SourceUnder

\* A handler that is no loop returns; the player goes on as it was.
LEMMA AfterReturning ==
  ASSUME PlayingOK, NEW places, At(places), places \cap Looping = {},
         calls' = Front(calls), UNCHANGED <<player, paused>>, keep' \in {keep, FALSE}
  PROVE  PlayingOK'
<1>1. calls # <<>> /\ Stack(calls) BY DEF At, PlayingOK
<1>2. /\ Stack(Front(calls)) /\ Len(Front(calls)) = Len(calls) - 1
      /\ \A k \in 1..Len(calls) - 1 : Front(calls)[k] = calls[k]
  BY <1>1, StackShrinks
<1>3. PlayerOK' BY DEF PlayingOK, PlayerOK
<1>4. OnlyLoopsKeep' BY NotMeant DEF PlayingOK, OnlyLoopsKeep
<1>5. SomebodyStops'
  <2>1. SUFFICES ASSUME player.state = "playing", ~paused
                 PROVE  \E k \in 1..Len(calls') : calls'[k].at \in Looping
    BY DEF SomebodyStops
  <2>2. PICK k \in 1..Len(calls) : calls[k].at \in Looping
    BY <2>1 DEF PlayingOK, SomebodyStops
  <2>3. k # Len(calls) BY <2>2 DEF At, Inner
  <2>4. Len(calls) \in Nat BY <1>1 DEF Stack
  <2>5. k \in 1..Len(calls) - 1 BY <2>2, <2>3, <2>4
  <2> QED BY <2>2, <2>5, <1>2
<1> QED BY <1>2, <1>3, <1>4, <1>5 DEF PlayingOK

\* A handler that is no loop goes on to another place.
LEMMA AfterMoving ==
  ASSUME PlayingOK, NEW places, At(places), places \cap Looping = {},
         NEW at \in Places, at \in Opening => Inner.file \in Files,
         calls' = Moved(at), UNCHANGED <<player, paused, keep>>
  PROVE  PlayingOK'
<1> DEFINE t == [calls EXCEPT ![Len(calls)].at = at]
<1>1. calls # <<>> /\ Stack(calls) /\ (~keep \/ paused) BY NotMeant DEF At, PlayingOK
<1>2. Stack(t) /\ Len(t) = Len(calls) /\ \A k \in 1..Len(calls) - 1 : t[k] = calls[k]
  BY <1>1, StackMoves DEF Inner
<1>3. calls' = t BY DEF Moved
<1> HIDE DEF t
<1>4. SomebodyStops'
  <2>1. SUFFICES ASSUME player.state = "playing", ~paused
                 PROVE  \E k \in 1..Len(calls') : calls'[k].at \in Looping
    BY DEF SomebodyStops
  <2>2. PICK k \in 1..Len(calls) : calls[k].at \in Looping
    BY <2>1 DEF PlayingOK, SomebodyStops
  <2>3. k # Len(calls) /\ Len(calls) \in Nat BY <2>2, <1>1 DEF At, Inner, Stack
  <2>4. k \in 1..Len(calls) - 1 BY <2>2, <2>3
  <2> QED BY <2>2, <2>4, <1>2, <1>3
<1> QED BY <1>1, <1>2, <1>3, <1>4 DEF PlayingOK, PlayerOK, OnlyLoopsKeep

\* A handler stops the player and leaves the stack s.
LEMMA AfterStopping ==
  ASSUME PlayerOK, StopsIn, Stack(calls')
  PROVE  PlayingOK' /\ keep' = FALSE /\ paused' = FALSE
<1>1. keep' = FALSE /\ paused' = FALSE /\ player' = InState(player, "stopped")
  BY DEF StopsIn, Stops
<1>2. PlayerOK' /\ player'.state # "playing" BY <1>1, PlayerInState DEF PlayerOK
<1> QED BY <1>1, <1>2 DEF PlayingOK, OnlyLoopsKeep, SomebodyStops

\* A loop is on top and sets its player going.
LEMMA AfterGoing ==
  ASSUME PlayerOK, NEW outer, Stack(outer), outer # <<>>,
         outer[Len(outer)].at = "play_starts", outer[Len(outer)].mine,
         player # NoPlayer, SetsGoing(outer)
  PROVE  PlayingOK' /\ keep' = TRUE /\ ret' = "none"
<1>1. keep' = TRUE /\ calls' = outer /\ ret' = "none"
      /\ player' = InState(player, "playing")
  BY DEF SetsGoing
<1>2. PlayerOK' /\ player' # NoPlayer BY <1>1, PlayerInState DEF PlayerOK
<1>3. OnlyLoopsKeep' BY <1>1, <1>2 DEF OnlyLoopsKeep, At, Inner, Looping
<1>4. Len(outer) \in 1..Len(outer) BY DEF Stack
<1>5. SomebodyStops' BY <1>1, <1>4 DEF SomebodyStops, Looping
<1> QED BY <1>1, <1>2, <1>3, <1>5 DEF PlayingOK

\* A fresh loop takes the place of the handler that asked for it.
LEMMA AfterGoingIn ==
  ASSUME PlayerOK, NEW outer, Stack(outer), outer # <<>>, player # NoPlayer,
         SetsGoing([outer EXCEPT ![Len(outer)] = Handler("play_starts", NoFile)])
  PROVE  PlayingOK' /\ keep' = TRUE /\ ret' = "none"
<1> DEFINE t == [outer EXCEPT ![Len(outer)] = Handler("play_starts", NoFile)]
<1>1. /\ Handler("play_starts", NoFile) \in Frame
      /\ Handler("play_starts", NoFile).at = "play_starts"
      /\ Handler("play_starts", NoFile).mine
  BY DEF Handler, Frame, Places, Pumps
<1>2. Stack(t) /\ Len(t) = Len(outer) /\ t # <<>>
      /\ t[Len(outer)] = Handler("play_starts", NoFile)
  BY <1>1, StackReplaced DEF Opening
<1> QED BY <1>1, <1>2, AfterGoing

\* play_current_segment in a handler that stands on top of `outer`.
LEMMA AfterPlaying ==
  ASSUME PlayerOK, NEW outer, Stack(outer), outer # <<>>, ~keep \/ paused, PlaysIn(outer)
  PROVE  PlayingOK' /\ ret' = "none" /\ {keep', paused'} \subseteq {TRUE, FALSE, keep, paused}
<1>1. CASE StopsIn /\ calls' = Front(outer) /\ ret' = "none"
  BY <1>1, StackShrinks, AfterStopping
<1>2. CASE /\ player = NoPlayer /\ player' = NewPlayer
           /\ calls' = [outer EXCEPT ![Len(outer)].at = "play_waits"]
           /\ ret' = "none" /\ UNCHANGED <<keep, paused>>
  <2>1. "play_waits" \in Places \ Opening BY DEF Opening, Places, Pumps
  <2>2. Stack([outer EXCEPT ![Len(outer)].at = "play_waits"]) BY <2>1, StackMoves
  <2>3. Stack(calls') BY <1>2, <2>2
  <2>4. PlayerOK' /\ player'.state # "playing" BY <1>2, NewPlayerIsOne DEF PlayerOK
  <2> QED BY <1>2, <2>3, <2>4 DEF PlayingOK, OnlyLoopsKeep, SomebodyStops
<1>3. CASE /\ player # NoPlayer /\ UNCHANGED paused
           /\ SetsGoing([outer EXCEPT ![Len(outer)] = Handler("play_starts", NoFile)])
  BY <1>3, AfterGoingIn
<1> QED BY <1>1, <1>2, <1>3 DEF PlaysIn

-----------------------------------------------------------------------------
(* Each handler keeps the invariant: first those that clean up and load.   *)

LEMMA RemovesTempKeeps ==
  ASSUME EditorInv, RemovesTemp PROVE EditorInv'
<1>0. FlagsOK /\ PlayingOK BY DEF EditorInv
<1>1. At({"released", "removes", "retries"})
      /\ {"released", "removes", "retries"} \cap Looping = {}
  BY DEF RemovesTemp, Looping
<1>2. UNCHANGED <<path, shown, modified, keep, paused, player, closed>> BY DEF RemovesTemp
<1>3. CASE calls' = Front(calls) /\ temp' \in {temp, FALSE} /\ ret' \in {"done", "raised"}
  <2>1. PlayingOK' BY <1>0, <1>1, <1>2, <1>3, AfterReturning
  <2>2. FlagsOK' BY <1>0, <1>2, <1>3 DEF FlagsOK
  <2> QED BY <2>1, <2>2 DEF EditorInv
<1>4. CASE calls' = Moved("retries") /\ UNCHANGED <<temp, ret>>
  <2>1. "retries" \in Places \ Opening BY DEF Places, Pumps, Opening
  <2>2. PlayingOK' BY <1>0, <1>1, <1>2, <1>4, <2>1, AfterMoving
  <2>3. FlagsOK' BY <1>0, <1>2, <1>4 DEF FlagsOK
  <2> QED BY <2>2, <2>3 DEF EditorInv
<1> QED BY <1>3, <1>4 DEF RemovesTemp, Returned

\* A handler at `places` cleans up, and goes on at `at`.
LEMMA FailingCleans ==
  ASSUME PlayingOK, NEW places, At(places), places \cap Looping = {},
         CleansUnder(Moved("load_failed")), UNCHANGED <<keep, paused>>
  PROVE  PlayingOK' /\ ret' = "none"
<1>1. calls # <<>> /\ Stack(calls) /\ (~keep \/ paused) BY NotMeant DEF At, PlayingOK
<1>2. "load_failed" \in Places \ Opening BY DEF Places, Pumps, Opening
<1>3. Stack(Moved("load_failed")) BY <1>1, <1>2, StackMoves DEF Moved
<1> QED BY <1>1, <1>3, AfterCleaning

LEMMA DecodesAudioKeeps ==
  ASSUME EditorInv, DecodesAudio PROVE EditorInv'
<1>0. FlagsOK /\ PlayingOK BY DEF EditorInv
<1>1. At({"load_cleaned"}) /\ {"load_cleaned"} \cap Looping = {}
  BY DEF DecodesAudio, Looping
<1>2. UNCHANGED <<path, shown, modified, keep, paused, closed>> /\ temp' = TRUE
  BY DEF DecodesAudio
<1>3. CASE player' = NewPlayer /\ calls' = Moved("load_waits") /\ ret' = "none"
  <2>1. calls # <<>> /\ Stack(calls) /\ (~keep \/ paused)
    BY <1>0, <1>1, NotMeant DEF At, PlayingOK
  <2>2. "load_waits" \in Places \ Opening BY DEF Places, Pumps, Opening
  <2>3. Stack(calls') BY <1>3, <2>1, <2>2, StackMoves DEF Moved
  <2>4. PlayingOK'
    BY <1>2, <1>3, <2>1, <2>3, NewPlayerIsOne
    DEF PlayingOK, PlayerOK, OnlyLoopsKeep, SomebodyStops
  <2>5. FlagsOK' BY <1>0, <1>2, <1>3 DEF FlagsOK
  <2> QED BY <2>4, <2>5 DEF EditorInv
<1>4. CASE CleansUnder(Moved("load_failed"))
  <2>1. PlayingOK' /\ ret' = "none" BY <1>0, <1>1, <1>2, <1>4, FailingCleans
  <2>2. FlagsOK' BY <1>0, <1>2, <2>1 DEF FlagsOK
  <2> QED BY <2>1, <2>2 DEF EditorInv
<1> QED BY <1>3, <1>4 DEF DecodesAudio

LEMMA CleansAgainKeeps ==
  ASSUME EditorInv, CleansAgain PROVE EditorInv'
<1>0. FlagsOK /\ PlayingOK BY DEF EditorInv
<1>1. At({"load_cleaned"}) /\ {"load_cleaned"} \cap Looping = {}
  BY DEF CleansAgain, Looping
<1>2. PlayingOK' /\ ret' = "none" BY <1>0, <1>1, FailingCleans DEF CleansAgain
<1>3. FlagsOK' BY <1>0, <1>2 DEF CleansAgain, FlagsOK
<1> QED BY <1>2, <1>3 DEF EditorInv

LEMMA WaitsForMediaKeeps ==
  ASSUME EditorInv, WaitsForMedia PROVE EditorInv'
<1>0. FlagsOK /\ PlayingOK BY DEF EditorInv
<1>1. At({"load_waits"}) /\ {"load_waits"} \cap Looping = {}
  BY DEF WaitsForMedia, Looping
<1>2. UNCHANGED <<path, shown, modified, keep, paused, temp, closed>> BY DEF WaitsForMedia
<1>3. CASE Returned("true") /\ UNCHANGED player
  <2>1. PlayingOK' BY <1>0, <1>1, <1>2, <1>3, AfterReturning DEF Returned
  <2>2. FlagsOK' BY <1>0, <1>2, <1>3 DEF FlagsOK, Returned
  <2> QED BY <2>1, <2>2 DEF EditorInv
<1>4. CASE CleansUnder(Moved("load_failed"))
  <2>1. PlayingOK' /\ ret' = "none" BY <1>0, <1>1, <1>2, <1>4, FailingCleans
  <2>2. FlagsOK' BY <1>0, <1>2, <2>1 DEF FlagsOK
  <2> QED BY <2>1, <2>2 DEF EditorInv
<1> QED BY <1>3, <1>4 DEF WaitsForMedia

LEMMA LoadFailsKeeps ==
  ASSUME EditorInv, LoadFails PROVE EditorInv'
<1>0. FlagsOK /\ PlayingOK BY DEF EditorInv
<1>1. At({"load_failed"}) /\ {"load_failed"} \cap Looping = {} BY DEF LoadFails, Looping
<1>2. PlayingOK' BY <1>0, <1>1, AfterReturning DEF LoadFails, Returned
<1>3. FlagsOK' BY <1>0 DEF LoadFails, Returned, FlagsOK
<1> QED BY <1>2, <1>3 DEF EditorInv

LEMMA SourceIsLoadedKeeps ==
  ASSUME EditorInv, SourceIsLoaded PROVE EditorInv'
<1>0. FlagsOK /\ PlayingOK BY DEF EditorInv
<1>1. At({"source_loaded"}) /\ {"source_loaded"} \cap Looping = {}
  BY DEF SourceIsLoaded, Looping
<1>2. PlayingOK' BY <1>0, <1>1, AfterReturning DEF SourceIsLoaded, Returned
<1>3. FlagsOK' BY <1>0 DEF SourceIsLoaded, Returned, FlagsOK
<1> QED BY <1>2, <1>3 DEF EditorInv

LEMMA ChoosesAudioKeeps ==
  ASSUME EditorInv, ChoosesAudio PROVE EditorInv'
<1>1. PlayingOK' /\ keep' = FALSE /\ paused' = FALSE /\ ret' = "none"
  BY AfterSource DEF ChoosesAudio, EditorInv, PlayingOK
<1>2. FlagsOK' BY <1>1 DEF ChoosesAudio, EditorInv, FlagsOK
<1> QED BY <1>1, <1>2 DEF EditorInv

-----------------------------------------------------------------------------
(* The handlers that open, save and close.                                 *)

LEMMA OpensKeeps ==
  ASSUME EditorInv, NEW file \in Files, Opens(file) PROVE EditorInv'
<1>0. FlagsOK /\ PlayingOK BY DEF EditorInv
<1>1. /\ Handler("open_clears", file) \in Frame
      /\ Handler("open_clears", file).file \in Files
  BY DEF Handler, Frame, Places, Pumps
<1>2. Stack(Append(calls, Handler("open_clears", file)))
  BY <1>0, <1>1, StackGrows DEF PlayingOK
<1>3. keep' = FALSE /\ paused' = FALSE BY DEF Opens, Stops
<1>4. PlayingOK' /\ ret' = "none" BY <1>2, <1>3, AfterCleaning DEF Opens
<1>5. FlagsOK' BY <1>0, <1>3, <1>4 DEF Opens, FlagsOK
<1> QED BY <1>4, <1>5 DEF EditorInv

LEMMA ClearsTextKeeps ==
  ASSUME EditorInv, ClearsText PROVE EditorInv'
<1>0. FlagsOK /\ PlayingOK BY DEF EditorInv
<1>1. At({"open_clears"}) /\ {"open_clears"} \cap Looping = {} BY DEF ClearsText, Looping
<1>2. UNCHANGED <<path, keep, paused, player, temp, closed>> BY DEF ClearsText
<1>3. CASE /\ shown' = Loading /\ modified' = FALSE
           /\ calls' = Moved("open_parses") /\ ret' = "none"
  <2>1. calls # <<>> /\ Stack(calls) BY <1>0, <1>1 DEF At, PlayingOK
  <2>2. calls[Len(calls)].file \in Files
    BY <1>1, <2>1 DEF At, Inner, Stack, Opening
  <2>3. "open_parses" \in Places BY DEF Places, Pumps
  <2>4. PlayingOK' BY <1>0, <1>1, <1>2, <1>3, <2>2, <2>3, AfterMoving DEF Inner
  <2>5. FlagsOK' BY <1>0, <1>2, <1>3 DEF FlagsOK
  <2> QED BY <2>4, <2>5 DEF EditorInv
<1>4. CASE Returned("none") /\ UNCHANGED <<shown, modified>>
  <2>1. PlayingOK' BY <1>0, <1>1, <1>2, <1>4, AfterReturning DEF Returned
  <2>2. FlagsOK' BY <1>0, <1>2, <1>4 DEF FlagsOK, Returned
  <2> QED BY <2>1, <2>2 DEF EditorInv
<1> QED BY <1>3, <1>4 DEF ClearsText

\* The innermost handler opens a transcript, and knows which.
LEMMA OpeningKnowsItsFile ==
  ASSUME Stack(calls), At(Opening) PROVE Inner.file \in Files
BY DEF Stack, At, Inner

LEMMA ParsesFileKeeps ==
  ASSUME EditorInv, ParsesFile PROVE EditorInv'
<1>0. FlagsOK /\ PlayingOK BY DEF EditorInv
<1>1. At({"open_parses"}) /\ {"open_parses"} \cap Looping = {} BY DEF ParsesFile, Looping
<1>2. calls # <<>> /\ Stack(calls) /\ Inner.file \in Files
  BY <1>0, <1>1, OpeningKnowsItsFile DEF At, PlayingOK, Opening
<1>3. CASE /\ LoadsUnder(Moved("open_shows")) \/ SourceUnder(Moved("open_shows"))
           /\ UNCHANGED <<shown, modified>>
  <2>1. "open_shows" \in Places BY DEF Places, Pumps
  <2>2. Stack(Moved("open_shows")) BY <1>2, <2>1, StackMoves DEF Moved, Inner
  <2>3. PlayingOK' /\ keep' = FALSE /\ paused' = FALSE /\ ret' = "none"
    BY <1>3, <2>2, AfterLoading, AfterSource
  <2>4. FlagsOK' BY <1>0, <1>3, <2>3 DEF FlagsOK, ParsesFile
  <2> QED BY <2>3, <2>4 DEF EditorInv
<1>4. CASE Shows /\ keep' = FALSE /\ UNCHANGED <<paused, player>>
  <2>1. PlayingOK' BY <1>0, <1>1, <1>4, AfterReturning DEF Shows, Returned
  <2>2. FlagsOK' BY <1>0, <1>2, <1>4 DEF FlagsOK, ParsesFile, Shows, Returned
  <2> QED BY <2>1, <2>2 DEF EditorInv
<1> QED BY <1>3, <1>4 DEF ParsesFile

LEMMA ShowsTextKeeps ==
  ASSUME EditorInv, ShowsText PROVE EditorInv'
<1>0. FlagsOK /\ PlayingOK BY DEF EditorInv
<1>1. At({"open_shows"}) /\ {"open_shows"} \cap Looping = {} BY DEF ShowsText, Looping
<1>2. Inner.file \in Files
  BY <1>0, <1>1, OpeningKnowsItsFile DEF At, PlayingOK, Opening
<1>3. PlayingOK' BY <1>0, <1>1, AfterReturning DEF ShowsText, Shows, Returned
<1>4. FlagsOK' BY <1>0, <1>2 DEF ShowsText, Shows, Returned, FlagsOK
<1> QED BY <1>3, <1>4 DEF EditorInv

\* A step that leaves the stack, the player and the pause alone, and does not
\* begin to play.
LEMMA AsideKeeps ==
  ASSUME PlayingOK, UNCHANGED <<calls, player, paused>>, keep' \in {keep, FALSE}
  PROVE  PlayingOK'
<1>1. Stack(calls') BY DEF PlayingOK
<1>2. PlayerOK' BY DEF PlayingOK, PlayerOK
<1>3. OnlyLoopsKeep' BY DEF PlayingOK, OnlyLoopsKeep, At, Inner
<1>4. SomebodyStops' BY DEF PlayingOK, SomebodyStops
<1> QED BY <1>1, <1>2, <1>3, <1>4 DEF PlayingOK

LEMMA SavesKeeps ==
  ASSUME EditorInv, Saves \/ \E file \in Files : SavesAs(file) PROVE EditorInv'
<1>1. PlayingOK' BY AsideKeeps DEF EditorInv, Saves, SavesAs
<1>2. FlagsOK' BY DEF EditorInv, FlagsOK, Saves, SavesAs
<1> QED BY <1>1, <1>2 DEF EditorInv

LEMMA ClosesKeeps ==
  ASSUME EditorInv, Closes PROVE EditorInv'
<1>0. FlagsOK /\ PlayingOK BY DEF EditorInv
<1>1. keep' = FALSE /\ paused' = FALSE BY DEF Closes, Stops
<1>2. CASE CleansUnder(Append(calls, Handler("close_cleaned", NoFile)))
  <2>1. Handler("close_cleaned", NoFile) \in Frame
        /\ Handler("close_cleaned", NoFile).at \notin Opening
    BY DEF Handler, Frame, Opening, Places, Pumps
  <2>2. Stack(Append(calls, Handler("close_cleaned", NoFile)))
    BY <1>0, <2>1, StackGrows DEF PlayingOK
  <2>3. PlayingOK' /\ ret' = "none" BY <1>1, <1>2, <2>2, AfterCleaning
  <2>4. FlagsOK' BY <1>0, <1>1, <2>3 DEF FlagsOK, Closes
  <2> QED BY <2>3, <2>4 DEF EditorInv
<1>3. CASE player' = InState(player, "stopped") /\ UNCHANGED <<calls, ret>>
  <2>1. PlayingOK' BY <1>0, <1>3, AfterStopping DEF PlayingOK, Closes, StopsIn
  <2>2. FlagsOK' BY <1>0, <1>1, <1>3 DEF FlagsOK, Closes
  <2> QED BY <2>1, <2>2 DEF EditorInv
<1> QED BY <1>2, <1>3 DEF Closes

LEMMA WindowClosesKeeps ==
  ASSUME EditorInv, WindowCloses PROVE EditorInv'
<1>0. FlagsOK /\ PlayingOK BY DEF EditorInv
<1>1. At({"close_cleaned"}) /\ {"close_cleaned"} \cap Looping = {}
  BY DEF WindowCloses, Looping
<1>2. PlayingOK' BY <1>0, <1>1, AfterReturning DEF WindowCloses, Returned
<1>3. FlagsOK' BY <1>0 DEF WindowCloses, Returned, FlagsOK
<1> QED BY <1>2, <1>3 DEF EditorInv

-----------------------------------------------------------------------------
(* The handlers that play along, and the player.                           *)

LEMMA PausesKeeps ==
  ASSUME EditorInv, Pauses PROVE EditorInv'
<1>0. FlagsOK /\ PlayingOK BY DEF EditorInv
<1>1. keep' = FALSE /\ paused' = TRUE /\ player' = InState(player, "paused")
      /\ calls' = calls
  BY DEF Pauses
<1>2. PlayerOK' BY <1>0, <1>1, PlayerInState DEF PlayingOK, PlayerOK
<1>3. PlayingOK' BY <1>0, <1>1, <1>2 DEF PlayingOK, OnlyLoopsKeep, SomebodyStops
<1>4. FlagsOK' BY <1>0, <1>1 DEF Pauses, FlagsOK
<1> QED BY <1>3, <1>4 DEF EditorInv

LEMMA ResumesKeeps ==
  ASSUME EditorInv, Resumes PROVE EditorInv'
<1>0. FlagsOK /\ PlayingOK BY DEF EditorInv
<1>1. paused' = FALSE /\ UNCHANGED <<path, shown, modified, temp, closed>> BY DEF Resumes
<1>2. CASE player = NoPlayer /\ keep' = FALSE /\ UNCHANGED <<player, calls, ret>>
  <2>1. PlayerOK' BY <1>0, <1>2 DEF PlayingOK, PlayerOK
  <2>2. SomebodyStops' BY <1>2, NewPlayerIsOne DEF SomebodyStops
  <2>3. PlayingOK' BY <1>0, <1>2, <2>1, <2>2 DEF PlayingOK, OnlyLoopsKeep
  <2>4. FlagsOK' BY <1>0, <1>1, <1>2 DEF FlagsOK
  <2> QED BY <2>3, <2>4 DEF EditorInv
<1>3. CASE /\ player # NoPlayer
           /\ SetsGoing(Append(calls, Handler("play_starts", NoFile)))
  <2>1. /\ Handler("play_starts", NoFile) \in Frame
        /\ Handler("play_starts", NoFile).at = "play_starts"
        /\ Handler("play_starts", NoFile).mine
    BY DEF Handler, Frame, Places, Pumps
  <2> DEFINE outer == Append(calls, Handler("play_starts", NoFile))
  <2>2. Stack(outer) /\ outer # <<>> /\ Len(outer) = Len(calls) + 1
        /\ outer[Len(calls) + 1] = Handler("play_starts", NoFile)
    BY <1>0, <2>1, StackGrows DEF PlayingOK, Opening
  <2>3. SetsGoing(outer) BY <1>3
  <2> HIDE DEF outer
  <2>4. PlayingOK' /\ keep' = TRUE /\ ret' = "none"
    BY <1>0, <1>3, <2>1, <2>2, <2>3, AfterGoing DEF PlayingOK
  <2>5. FlagsOK' BY <1>0, <1>1, <2>4 DEF FlagsOK
  <2> QED BY <2>4, <2>5 DEF EditorInv
<1> QED BY <1>2, <1>3 DEF Resumes

LEMMA PlaysKeeps ==
  ASSUME EditorInv, Plays PROVE EditorInv'
<1> DEFINE outer == Append(calls, Handler("play_asks", NoFile))
<1>0. FlagsOK /\ PlayingOK BY DEF EditorInv
<1>1. UNCHANGED <<path, shown, modified, temp, closed>> /\ ~keep BY DEF Plays
<1>2. /\ Handler("play_asks", NoFile) \in Frame
      /\ Handler("play_asks", NoFile).at \notin Opening
      /\ Handler("play_asks", NoFile).mine
  BY DEF Handler, Frame, Places, Pumps, Opening
<1>3. Stack(outer) /\ outer # <<>> /\ Len(outer) = Len(calls) + 1
      /\ outer[Len(calls) + 1] = Handler("play_asks", NoFile)
  BY <1>0, <1>2, StackGrows DEF PlayingOK
<1>4. \/ PlaysIn(outer)
      \/ /\ player # NoPlayer /\ paused' = FALSE
         /\ SetsGoing([outer EXCEPT ![Len(outer)].at = "play_starts"])
      \/ SourceUnder(outer)
      \/ StopsIn /\ UNCHANGED <<calls, ret>>
  BY DEF Plays
<1> HIDE DEF outer
<1>5. CASE PlaysIn(outer)
  <2>1. PlayingOK' /\ ret' = "none" /\ {keep', paused'} \subseteq {TRUE, FALSE, keep, paused}
    BY <1>0, <1>1, <1>3, <1>5, AfterPlaying DEF PlayingOK
  <2>2. FlagsOK' BY <1>0, <1>1, <2>1 DEF FlagsOK
  <2> QED BY <2>1, <2>2 DEF EditorInv
<1>6. CASE /\ player # NoPlayer /\ paused' = FALSE
           /\ SetsGoing([outer EXCEPT ![Len(outer)].at = "play_starts"])
  <2> DEFINE loop == [outer EXCEPT ![Len(outer)].at = "play_starts"]
  <2>1. "play_starts" \in Places \ Opening BY DEF Places, Pumps, Opening
  <2>2. Stack(loop) /\ Len(loop) = Len(outer) /\ loop # <<>>
        /\ loop[Len(outer)].at = "play_starts"
        /\ loop[Len(outer)].mine = outer[Len(outer)].mine
    BY <1>3, <2>1, StackMoves
  <2>3. SetsGoing(loop) /\ outer[Len(outer)].mine BY <1>2, <1>3, <1>6
  <2> HIDE DEF loop
  <2>4. PlayingOK' /\ keep' = TRUE /\ ret' = "none"
    BY <1>0, <1>6, <2>2, <2>3, AfterGoing DEF PlayingOK
  <2>5. FlagsOK' BY <1>0, <1>1, <1>6, <2>4 DEF FlagsOK
  <2> QED BY <2>4, <2>5 DEF EditorInv
<1>7. CASE SourceUnder(outer)
  <2>1. PlayingOK' /\ keep' = FALSE /\ paused' = FALSE /\ ret' = "none"
    BY <1>3, <1>7, AfterSource
  <2>2. FlagsOK' BY <1>0, <1>1, <2>1 DEF FlagsOK
  <2> QED BY <2>1, <2>2 DEF EditorInv
<1>8. CASE StopsIn /\ UNCHANGED <<calls, ret>>
  <2>1. PlayingOK' /\ keep' = FALSE /\ paused' = FALSE
    BY <1>0, <1>8, AfterStopping DEF PlayingOK
  <2>2. FlagsOK' BY <1>0, <1>1, <1>8, <2>1 DEF FlagsOK
  <2> QED BY <2>1, <2>2 DEF EditorInv
<1> QED BY <1>4, <1>5, <1>6, <1>7, <1>8

\* The innermost handler ends with the player stopped.
LEMMA EndsPlayKeeps ==
  ASSUME EditorInv, calls # <<>>, EndsPlay, UNCHANGED <<path, shown, modified, temp, closed>>
  PROVE  EditorInv'
<1>0. FlagsOK /\ PlayingOK BY DEF EditorInv
<1>1. Stack(calls') BY <1>0, StackShrinks DEF PlayingOK, EndsPlay, Returned
<1>2. PlayingOK' /\ keep' = FALSE /\ paused' = FALSE
  BY <1>0, <1>1, AfterStopping DEF PlayingOK, EndsPlay
<1>3. FlagsOK' BY <1>0, <1>2 DEF FlagsOK, EndsPlay, Returned
<1> QED BY <1>2, <1>3 DEF EditorInv

LEMMA AudioWasFoundKeeps ==
  ASSUME EditorInv, AudioWasFound PROVE EditorInv'
<1>0. FlagsOK /\ PlayingOK BY DEF EditorInv
<1>1. At({"play_asks"}) /\ {"play_asks"} \cap Looping = {} BY DEF AudioWasFound, Looping
<1>2. calls # <<>> /\ Stack(calls) /\ (~keep \/ paused)
  BY <1>0, <1>1, NotMeant DEF At, PlayingOK
<1>3. UNCHANGED <<path, shown, modified, temp, closed>> BY DEF AudioWasFound
<1>4. CASE PlaysIn(calls)
  <2>1. PlayingOK' /\ ret' = "none" /\ {keep', paused'} \subseteq {TRUE, FALSE, keep, paused}
    BY <1>0, <1>2, <1>4, AfterPlaying DEF PlayingOK
  <2>2. FlagsOK' BY <1>0, <1>3, <2>1 DEF FlagsOK
  <2> QED BY <2>1, <2>2 DEF EditorInv
<1>5. CASE EndsPlay BY <1>2, <1>3, <1>5, EndsPlayKeeps
<1> QED BY <1>4, <1>5 DEF AudioWasFound

LEMMA PlayWaitsKeeps ==
  ASSUME EditorInv, PlayWaits PROVE EditorInv'
<1>0. FlagsOK /\ PlayingOK BY DEF EditorInv
<1>1. calls # <<>> /\ Stack(calls) BY <1>0 DEF PlayWaits, At, PlayingOK
<1>2. UNCHANGED <<path, shown, modified, temp, closed>> BY DEF PlayWaits
<1>3. CASE /\ player.loaded /\ UNCHANGED paused
           /\ SetsGoing([calls EXCEPT ![Len(calls)] = Handler("play_starts", NoFile)])
  <2>1. player # NoPlayer BY <1>3 DEF NoPlayer
  <2>2. PlayingOK' /\ keep' = TRUE /\ ret' = "none"
    BY <1>0, <1>1, <1>3, <2>1, AfterGoingIn DEF PlayingOK
  <2>3. FlagsOK' BY <1>0, <1>2, <1>3, <2>2 DEF FlagsOK
  <2> QED BY <2>2, <2>3 DEF EditorInv
<1>4. CASE EndsPlay BY <1>1, <1>2, <1>4, EndsPlayKeeps
<1> QED BY <1>3, <1>4 DEF PlayWaits

LEMMA PlayStartsKeeps ==
  ASSUME EditorInv, PlayStarts PROVE EditorInv'
<1>0. FlagsOK /\ PlayingOK BY DEF EditorInv
<1>1. At({"play_starts"}) /\ UNCHANGED <<path, shown, modified, temp, closed>>
  BY DEF PlayStarts
<1>2. calls # <<>> /\ Stack(calls) BY <1>0, <1>1 DEF At, PlayingOK
<1>3. CASE calls' = Moved("play_loops") /\ UNCHANGED <<keep, paused, player, ret>>
  <2> DEFINE t == [calls EXCEPT ![Len(calls)].at = "play_loops"]
  <2>1. "play_loops" \in Places \ Opening BY DEF Places, Pumps, Opening
  <2>2. /\ Stack(t) /\ Len(t) = Len(calls) /\ t # <<>>
        /\ t[Len(calls)].at = "play_loops" /\ t[Len(calls)].mine = calls[Len(calls)].mine
        /\ \A k \in 1..Len(calls) - 1 : t[k] = calls[k]
    BY <1>2, <2>1, StackMoves
  <2>3. calls' = t BY <1>3 DEF Moved
  <2> HIDE DEF t
  <2>4. PlayerOK' BY <1>0, <1>3 DEF PlayingOK, PlayerOK
  <2>5. OnlyLoopsKeep'
    BY <1>0, <1>3, <2>2, <2>3 DEF PlayingOK, OnlyLoopsKeep, At, Inner, Looping
  <2>6. Len(calls) \in 1..Len(calls) BY <1>2 DEF Stack
  <2>7. SomebodyStops' BY <2>2, <2>3, <2>6 DEF SomebodyStops, Looping
  <2>8. PlayingOK' BY <2>2, <2>3, <2>4, <2>5, <2>7 DEF PlayingOK
  <2>9. FlagsOK' BY <1>0, <1>1, <1>3 DEF FlagsOK
  <2> QED BY <2>8, <2>9 DEF EditorInv
<1>4. CASE EndsPlay BY <1>1, <1>2, <1>4, EndsPlayKeeps
<1> QED BY <1>3, <1>4 DEF PlayStarts

LEMMA PlayEndsKeeps ==
  ASSUME EditorInv, PlayEnds PROVE EditorInv'
<1>0. FlagsOK /\ PlayingOK BY DEF EditorInv
<1>1. At({"play_loops"}) /\ UNCHANGED <<path, shown, modified, temp, closed>>
  BY DEF PlayEnds
<1>2. calls # <<>> /\ Stack(calls) BY <1>0, <1>1 DEF At, PlayingOK
<1>3. CASE paused /\ Returned("none") /\ UNCHANGED <<keep, paused, player>>
  <2>1. Stack(calls') BY <1>2, <1>3, StackShrinks DEF Returned
  <2>2. PlayerOK' BY <1>0, <1>3 DEF PlayingOK, PlayerOK
  <2>3. PlayingOK' BY <1>3, <2>1, <2>2 DEF PlayingOK, OnlyLoopsKeep, SomebodyStops
  <2>4. FlagsOK' BY <1>0, <1>1, <1>3 DEF FlagsOK, Returned
  <2> QED BY <2>3, <2>4 DEF EditorInv
<1>4. CASE EndsPlay BY <1>1, <1>2, <1>4, EndsPlayKeeps
<1> QED BY <1>3, <1>4 DEF PlayEnds

LEMMA HandOnTextKeeps ==
  ASSUME EditorInv, MovesCursor \/ EditsText PROVE EditorInv'
<1>1. PlayingOK' BY AsideKeeps DEF EditorInv, MovesCursor, EditsText
<1>2. FlagsOK' BY DEF EditorInv, FlagsOK, MovesCursor, EditsText
<1> QED BY <1>1, <1>2 DEF EditorInv

LEMMA PlayerMovesKeeps ==
  ASSUME EditorInv, PlayerMoves PROVE EditorInv'
<1>0. FlagsOK /\ PlayingOK BY DEF EditorInv
<1>1. /\ player # NoPlayer /\ player \in Players /\ player.state # "none"
      /\ UNCHANGED <<path, shown, modified, keep, paused, temp, calls, ret, closed>>
  BY <1>0 DEF PlayerMoves, PlayingOK, PlayerOK
<1>2. player' \in Players /\ player'.state \in {player.state, "stopped"}
  BY <1>1 DEF PlayerMoves, Players
<1>3. PlayerOK' /\ player' # NoPlayer BY <1>1, <1>2 DEF PlayerOK, NoPlayer
<1>4. OnlyLoopsKeep' BY <1>0, <1>1, <1>3 DEF PlayingOK, OnlyLoopsKeep, At, Inner
<1>5. SomebodyStops' BY <1>0, <1>1, <1>2 DEF PlayingOK, SomebodyStops
<1>6. PlayingOK' BY <1>0, <1>1, <1>3, <1>4, <1>5 DEF PlayingOK
<1>7. FlagsOK' BY <1>0, <1>1 DEF FlagsOK
<1> QED BY <1>6, <1>7 DEF EditorInv

-----------------------------------------------------------------------------
(* The theorems.                                                           *)

LEMMA EditorStarts == ASSUME EditorInit PROVE EditorInv
<1>1. FlagsOK BY DEF EditorInit, FlagsOK
<1>2. calls = <<>> /\ Len(calls) = 0 /\ calls \in Seq(Frame) BY DEF EditorInit
<1>3. Stack(calls) BY <1>2 DEF Stack
<1>4. PlayerOK /\ player.state # "playing" BY NewPlayerIsOne DEF EditorInit, PlayerOK
<1>5. OnlyLoopsKeep BY DEF EditorInit, OnlyLoopsKeep
<1>6. SomebodyStops BY <1>4 DEF SomebodyStops
<1> QED BY <1>1, <1>3, <1>4, <1>5, <1>6 DEF EditorInv, PlayingOK

\* No handler of the editor breaks the invariant, wherever it is called from.
LEMMA EditorSteps == ASSUME EditorInv, [EditorNext]_editorVars PROVE EditorInv'
<1>1. CASE UNCHANGED editorVars
  <2>1. UNCHANGED <<path, shown, modified, keep, paused, player, temp, calls, ret, closed>>
    BY <1>1 DEF editorVars
  <2>2. PlayingOK' BY <2>1, AsideKeeps DEF EditorInv
  <2>3. FlagsOK' BY <2>1 DEF EditorInv, FlagsOK
  <2> QED BY <2>2, <2>3 DEF EditorInv
<1>2. CASE EditorNext
  BY <1>2, OpensKeeps, SavesKeeps, ClosesKeeps, ChoosesAudioKeeps, PausesKeeps,
     ResumesKeeps, PlaysKeeps, HandOnTextKeeps, RemovesTempKeeps, DecodesAudioKeeps,
     CleansAgainKeeps, WaitsForMediaKeeps, LoadFailsKeeps, SourceIsLoadedKeeps,
     ClearsTextKeeps, ParsesFileKeeps, ShowsTextKeeps, WindowClosesKeeps,
     AudioWasFoundKeeps, PlayWaitsKeeps, PlayStartsKeeps, PlayEndsKeeps, PlayerMovesKeeps
  DEF EditorNext
<1> QED BY <1>1, <1>2

(* The invariant holds of every behaviour: whatever the user does in the   *)
(* middle of whatever handler (noScribeEdit.py, the handlers that call     *)
(* processEvents).                                                         *)
THEOREM EditorInvariance == EditorSpec => []EditorInv
<1>1. EditorInit => EditorInv BY EditorStarts
<1>2. EditorInv /\ [EditorNext]_editorVars => EditorInv' BY EditorSteps
<1> QED BY <1>1, <1>2, PTL DEF EditorSpec

(* The state keeps its types (the fields that __init__ sets).              *)
THEOREM EditorTypeCorrect == EditorSpec => []EditorTypeOK
<1>1. EditorInv => EditorTypeOK
  BY DEF EditorInv, FlagsOK, PlayingOK, PlayerOK, Players, EditorTypeOK
<1> QED BY <1>1, EditorInvariance, PTL

(* A loop that goes on playing steers the player it was started with, for  *)
(* any transcripts and any depth of handlers inside handlers (play_along). *)
THEOREM EditorLoopsOwnPlayer == EditorSpec => []LoopsOwnPlayer
<1>1. EditorInv => LoopsOwnPlayer
  BY DEF EditorInv, PlayingOK, OnlyLoopsKeep, LoopsOwnPlayer
<1> QED BY <1>1, EditorInvariance, PTL

(* When every handler has ended and nothing is paused no audio is heard:   *)
(* a loop that is left behind by another has stopped it (the finally of    *)
(* play_along, _stop_playback).                                            *)
THEOREM EditorStoppedIsSilent == EditorSpec => []StoppedIsSilent
<1>1. ASSUME EditorInv, calls = <<>>, ~paused
      PROVE  ~keep /\ player.state # "playing"
  <2>1. ~keep BY <1>1 DEF EditorInv, PlayingOK, OnlyLoopsKeep, At
  <2>2. Len(calls) = 0 BY <1>1
  <2>3. player.state # "playing" BY <1>1, <2>2 DEF EditorInv, PlayingOK, SomebodyStops
  <2> QED BY <2>1, <2>3
<1>2. EditorInv => StoppedIsSilent BY <1>1 DEF StoppedIsSilent
<1> QED BY <1>2, EditorInvariance, PTL
-----------------------------------------------------------------------------
(* The segment that follows the audio (EditorSegments).                    *)

\* No link but time stamps: the search cannot raise.
OnlyStamps == \A k \in 1..Len(text) : text[k].link # "other"

StampsIn == {k \in 1..Len(text) : text[k].link = "stamp"}

\* What is said now is selected, and has begun.
Selecting ==
  /\ text[cursor].link = "stamp" /\ current = SegmentAt(cursor)
  /\ current.start <= position
  /\ follows => position <= current.stop

\* The next segment is waited for: whatever does not begin later is over.
Waiting ==
  /\ text[cursor].link = "stamp" /\ current = [SegmentAt(cursor) EXCEPT !.selected = FALSE]
  /\ \A k \in StampsIn : text[k].stop < position \/ current.start <= text[k].start
  /\ follows => position < current.start

\* Nothing comes any more.
Ending == current = NoSegment /\ \A k \in StampsIn : text[k].stop < position

SegmentsInv ==
  /\ IsText(text) /\ cursor \in 1..Len(text) /\ position \in Nat
  /\ follows \in BOOLEAN
  /\ OnlyStamps => Selecting \/ Waiting \/ Ending

LEMMA TextTimes ==
  ASSUME IsText(text)
  PROVE  /\ \A k \in 1..Len(text) : text[k].start \in Int /\ text[k].stop \in Int
         /\ \A k \in StampsIn : text[k].start \in Nat /\ text[k].start <= text[k].stop
         /\ \A j, k \in StampsIn : j < k => text[j].start <= text[k].start
         /\ StampsIn \subseteq 1..Len(text)
         /\ \A k \in 1..Len(text) : text[k].link = "stamp" => k \in StampsIn
<1> DEFINE Fragment == [link : {"stamp", "none", "other"}, start : Int, stop : Int]
<1>1. text \in Seq(Fragment) BY DEF IsText
<1>2. \A k \in 1..Len(text) : text[k] \in Fragment
  <2> HIDE DEF Fragment
  <2> QED BY <1>1
<1>3. \A k \in 1..Len(text) : text[k].start \in Int /\ text[k].stop \in Int BY <1>2
<1>4. \A k \in StampsIn : 0 <= text[k].start /\ text[k].start <= text[k].stop
  BY DEF IsText, StampsIn
<1>5. \A j, k \in StampsIn : j < k => text[j].start <= text[k].start
  BY DEF IsText, StampsIn
<1>6. StampsIn \subseteq 1..Len(text) BY DEF StampsIn
<1> HIDE DEF Fragment
<1>7. \A k \in StampsIn : text[k].start \in Nat BY <1>3, <1>4, <1>6
<1> QED BY <1>3, <1>4, <1>5, <1>6, <1>7 DEF StampsIn

\* A search finds a place that is wanted, or there is none in its direction; only a
\* link of another kind makes it raise.
LEMMA FindIs ==
  ASSUME IsText(text), NEW place \in 1..Len(text), NEW dir \in {"left", "right"}, NEW wanted
  PROVE  LET f == Find(place, dir, wanted)
         IN  \/ f = Raised /\ ~OnlyStamps
             \/ f = NotFound /\ \A k \in From(place, dir) : ~wanted[k]
             \/ f \in 1..Len(text) /\ wanted[f]
<1> DEFINE hits == {k \in From(place, dir) : wanted[k]}
           near == IF dir = "right" THEN Min(hits) ELSE Max(hits)
           read == IF hits = {} THEN From(place, dir) ELSE Between(place, near)
<1>0. Len(text) \in Nat BY DEF IsText
<1>1. From(place, dir) \subseteq 1..Len(text) BY <1>0 DEF From
<1>2. read \subseteq 1..Len(text) BY <1>1 DEF Between
<1>3. hits # {} => near \in hits
  <2>1. hits \in SUBSET Nat /\ \A n \in hits : n =< Len(text) BY <1>0, <1>1
  <2>2. hits # {} => Min(hits) \in hits BY <2>1, LeastIsChosen DEF Min
  <2>3. hits # {} => Max(hits) \in hits BY <1>0, <2>1, GreatestIsChosen DEF Max
  <2> HIDE DEF hits
  <2> QED BY <2>2, <2>3
<1>4. Find(place, dir, wanted)
        = IF \E k \in read : text[k].link = "other" THEN Raised
          ELSE IF hits = {} THEN NotFound ELSE near
  BY DEF Find
<1>5. CASE \E k \in read : text[k].link = "other"
  BY <1>2, <1>4, <1>5 DEF OnlyStamps
<1>6. CASE ~(\E k \in read : text[k].link = "other") /\ hits = {} BY <1>4, <1>6
<1>7. CASE ~(\E k \in read : text[k].link = "other") /\ hits # {}
  <2>1. Find(place, dir, wanted) = near /\ near \in hits BY <1>3, <1>4, <1>7
  <2> HIDE DEF near
  <2> QED BY <1>1, <2>1
<1> QED BY <1>5, <1>6, <1>7
\* The place of a moment: there, or nowhere because nothing is said then.
LEMMA PlaceForIs ==
  ASSUME IsText(text), cursor \in 1..Len(text), NEW t \in Nat
  PROVE  \/ PlaceFor(t) = Raised /\ ~OnlyStamps
         \/ PlaceFor(t) = NotFound /\ \A k \in 1..Len(text) : ~Holds(text[k], t)
         \/ PlaceFor(t) \in 1..Len(text) /\ Holds(text[PlaceFor(t)], t)
<1> DEFINE wanted == HoldsAt(t)
<1>1. \A k \in 1..Len(text) : wanted[k] = Holds(text[k], t) BY DEF HoldsAt
<1> HIDE DEF wanted
<1>2. Towards(t) \in {"left", "right"} BY DEF Towards
<1>3. Len(text) \in Nat /\ 1 \in 1..Len(text) BY DEF IsText
<1>4. CASE Holds(text[cursor], t)
  <2>1. NearbyFor(t) = cursor BY <1>4 DEF NearbyFor
  <2>2. PlaceFor(t) = cursor BY <2>1, <1>3 DEF PlaceFor, NotFound
  <2> QED BY <2>2, <1>4
<1>5. CASE ~Holds(text[cursor], t)
  <2>1. NearbyFor(t) = Find(cursor, Towards(t), wanted) BY <1>5 DEF NearbyFor, wanted
  <2>2. \/ NearbyFor(t) = Raised /\ ~OnlyStamps
        \/ NearbyFor(t) = NotFound
        \/ NearbyFor(t) \in 1..Len(text) /\ wanted[NearbyFor(t)]
    BY <2>1, <1>2, FindIs
  <2>3. NearbyFor(t) # NotFound => PlaceFor(t) = NearbyFor(t) BY DEF PlaceFor
  <2>4. CASE NearbyFor(t) = NotFound
    <3>1. PlaceFor(t) = Find(1, "right", wanted) BY <2>4 DEF PlaceFor, wanted
    <3>2. \/ PlaceFor(t) = Raised /\ ~OnlyStamps
          \/ PlaceFor(t) = NotFound /\ \A k \in From(1, "right") : ~wanted[k]
          \/ PlaceFor(t) \in 1..Len(text) /\ wanted[PlaceFor(t)]
      BY <3>1, <1>3, FindIs
    <3>3. From(1, "right") = 1..Len(text) BY DEF From
    <3> QED BY <3>2, <3>3, <1>1
  <2>5. CASE NearbyFor(t) # NotFound BY <2>2, <2>3, <2>5, <1>1
  <2> QED BY <2>4, <2>5
<1> QED BY <1>4, <1>5

\* The next segment is the first of the text to begin later.
LEMMA PlaceAfterIs ==
  ASSUME IsText(text), NEW t \in Nat
  PROVE  \/ PlaceAfter(t) = NotFound /\ \A k \in StampsIn : text[k].start <= t
         \/ /\ PlaceAfter(t) \in StampsIn /\ text[PlaceAfter(t)].start > t
            /\ \A k \in StampsIn : text[k].start > t => PlaceAfter(t) <= k
<1> DEFINE later == {k \in 1..Len(text) : text[k].link = "stamp" /\ text[k].start > t}
<1>1. Len(text) \in Nat /\ later \in SUBSET Nat BY DEF IsText
<1>2. \A k \in StampsIn : text[k].start \in Int BY TextTimes
<1>3. CASE later = {} 
  <2>1. PlaceAfter(t) = NotFound BY <1>3 DEF PlaceAfter
  <2>2. \A k \in StampsIn : ~(text[k].start > t) BY <1>3 DEF StampsIn
  <2> QED BY <2>1, <2>2, <1>2
<1>4. CASE later # {}
  <2>1. PlaceAfter(t) = Min(later) BY <1>4 DEF PlaceAfter
  <2> HIDE DEF later
  <2>2. Min(later) \in later /\ \A k \in later : Min(later) =< k
    BY <1>1, <1>4, LeastIsChosen DEF Min
  <2> QED BY <2>1, <2>2 DEF later, StampsIn
<1> QED BY <1>3, <1>4

\* A segment that is selected is one that is heard, and one that is waited for the
\* next: the stamps being in order, whatever begins before it has begun already.
LEMMA SelectsFollows ==
  ASSUME SegmentsInv, NEW t \in Nat, Selects(t), position' = t, text' = text,
         follows' = TRUE
  PROVE  SegmentsInv'
<1>1. IsText(text) /\ cursor \in 1..Len(text) /\ Len(text) \in Nat BY DEF SegmentsInv, IsText
<1>2. \/ PlaceFor(t) = Raised /\ ~OnlyStamps
      \/ PlaceFor(t) = NotFound /\ \A k \in 1..Len(text) : ~Holds(text[k], t)
      \/ PlaceFor(t) \in 1..Len(text) /\ Holds(text[PlaceFor(t)], t)
  BY <1>1, PlaceForIs
<1>3. CASE /\ PlaceFor(t) \notin {NotFound, Raised}
           /\ current' = SegmentAt(PlaceFor(t)) /\ cursor' = PlaceFor(t)
  <2>1. cursor' \in 1..Len(text) /\ Holds(text[cursor'], t) BY <1>2, <1>3
  <2>2. current' = [start |-> text[cursor'].start, stop |-> text[cursor'].stop, selected |-> TRUE]
    BY <1>3 DEF SegmentAt
  <2>3. Selecting' BY <2>1, <2>2 DEF Selecting, Holds, SegmentAt
  <2> QED BY <1>1, <2>1, <2>3 DEF SegmentsInv
<1>4. CASE PlaceFor(t) = NotFound /\ Schedules(t)
  <2>1. \A k \in StampsIn : text[k].stop < t \/ t < text[k].start
    <3> SUFFICES ASSUME NEW k \in StampsIn PROVE text[k].stop < t \/ t < text[k].start
      OBVIOUS
    <3>1. ~Holds(text[k], t)
      BY <1>2, <1>4 DEF StampsIn, NotFound, Raised
    <3>2. text[k].stop \in Int /\ text[k].start \in Int BY <1>1, TextTimes
    <3> QED BY <3>1, <3>2 DEF Holds, StampsIn
  <2>2. CASE PlaceAfter(t) = NotFound
    <3>1. current' = NoSegment /\ cursor' = 1 BY <1>4, <2>2 DEF Schedules
    <3>2. \A k \in StampsIn : text[k].start <= t /\ text[k].start \in Int
      <4>1. NotFound \notin StampsIn BY <1>1 DEF StampsIn, NotFound
      <4> QED BY <1>1, <2>2, <4>1, PlaceAfterIs, TextTimes
    <3>3. \A k \in StampsIn : text[k].stop < t BY <2>1, <3>2
    <3>4. Ending' BY <3>1, <3>3 DEF Ending, StampsIn
    <3> QED BY <1>1, <3>1, <3>4 DEF SegmentsInv
  <2>3. CASE PlaceAfter(t) # NotFound
    <3> DEFINE next == PlaceAfter(t)
    <3>1. /\ next \in StampsIn /\ text[next].start > t
          /\ \A k \in StampsIn : text[k].start > t => next <= k
      BY <1>1, <2>3, PlaceAfterIs
    <3>2. current' = [SegmentAt(next) EXCEPT !.selected = FALSE] /\ cursor' = next
      BY <1>4, <2>3 DEF Schedules
    <3>3. \A k \in StampsIn : text[k].stop < t \/ text[next].start <= text[k].start
      <4> SUFFICES ASSUME NEW k \in StampsIn, t < text[k].start
                   PROVE  text[next].start <= text[k].start
        BY <2>1
      <4>1. next <= k /\ k \in 1..Len(text) /\ next \in 1..Len(text) BY <3>1 DEF StampsIn
      <4>2. next < k => text[next].start <= text[k].start BY <1>1, <3>1, TextTimes
      <4>3. text[next].start \in Int BY <1>1, <3>1, TextTimes
      <4> HIDE DEF next
      <4> QED BY <4>1, <4>2, <4>3
    <3> HIDE DEF next
    <3>4. current'.start = text[next].start BY <3>2 DEF SegmentAt
    <3>5. current' = [SegmentAt(cursor) EXCEPT !.selected = FALSE]'
      BY <3>2 DEF SegmentAt
    <3>6. text[next].link = "stamp" /\ next \in 1..Len(text) BY <3>1 DEF StampsIn
    <3>7. Waiting' BY <3>1, <3>2, <3>3, <3>4, <3>5, <3>6 DEF Waiting, StampsIn
    <3> QED BY <1>1, <3>2, <3>6, <3>7 DEF SegmentsInv
  <2> QED BY <2>2, <2>3
<1> QED BY <1>3, <1>4 DEF Selects

LEMMA SegmentsInvAtStart == SegmentsInit => SegmentsInv
<1> SUFFICES ASSUME SegmentsInit PROVE SegmentsInv OBVIOUS
<1>1. IsText(text) BY SegmentsAssumption DEF SegmentsInit
<1>2. PICK place \in 1..Len(text) :
        StartsAt(place) \notin {NotFound, Raised} /\ cursor = StartsAt(place)
  BY DEF SegmentsInit
<1>3. cursor \in 1..Len(text) /\ text[cursor].link = "stamp"
  <2>1. CASE text[place].link = "stamp" BY <1>2, <2>1 DEF StartsAt
  <2>2. CASE text[place].link # "stamp"
    <3> DEFINE wanted == [k \in 1..Len(text) |-> text[k].link = "stamp"]
    <3>1. cursor = Find(1, "right", wanted) BY <1>2, <2>2 DEF StartsAt, FirstStamp
    <3>2. \A k \in 1..Len(text) : wanted[k] = (text[k].link = "stamp") OBVIOUS
    <3>3. Len(text) \in Nat /\ 1 \in 1..Len(text) BY <1>1, <1>2 DEF IsText
    <3> HIDE DEF wanted
    <3>4. cursor \in 1..Len(text) /\ wanted[cursor] BY <1>1, <1>2, <3>1, <3>3, FindIs
    <3> QED BY <3>2, <3>4
  <2> QED BY <2>1, <2>2
<1>4. text[cursor].start \in Nat /\ text[cursor].start <= text[cursor].stop
  BY <1>1, <1>3, TextTimes
<1>5. Selecting BY <1>3, <1>4 DEF SegmentsInit, Selecting, SegmentAt
<1> QED BY <1>1, <1>3, <1>4, <1>5 DEF SegmentsInit, SegmentsInv

\* The audio goes on: what was over is over.
LEMMA AudioPlaysKeeps ==
  ASSUME SegmentsInv, NEW t \in 0..MaxTime, AudioPlays(t)
  PROVE  SegmentsInv'
<1>1. /\ position' = t /\ t > position /\ ~follows' /\ follows' = FALSE
      /\ UNCHANGED <<text, cursor, current>> /\ t \in Nat /\ position \in Nat
  BY SegmentsAssumption DEF AudioPlays, SegmentsInv
<1>2. \A k \in StampsIn : text[k].stop \in Int /\ text[k].start \in Int
  BY TextTimes DEF SegmentsInv
<1>3. \A k \in StampsIn : text[k].stop < position => text[k].stop < t BY <1>1, <1>2
<1>4. text[cursor].link = "stamp" => text[cursor].start \in Int
  BY <1>2 DEF StampsIn, SegmentsInv
<1>5. Selecting => Selecting' BY <1>1, <1>4 DEF Selecting, SegmentAt
<1>6. Waiting => Waiting' BY <1>1, <1>3 DEF Waiting, SegmentAt, StampsIn
<1>7. Ending => Ending' BY <1>1, <1>3 DEF Ending, StampsIn
<1>8. OnlyStamps' => OnlyStamps BY <1>1 DEF OnlyStamps
<1> QED BY <1>1, <1>5, <1>6, <1>7, <1>8 DEF SegmentsInv

\* The loop looks: as long as nothing is due, nothing has changed.
LEMMA LooksKeeps == SegmentsInv /\ Looks => SegmentsInv'
<1> SUFFICES ASSUME SegmentsInv, Looks PROVE SegmentsInv' OBVIOUS
<1>1. follows' = TRUE /\ UNCHANGED <<text, position>> /\ position \in Nat
      /\ IsText(text) /\ cursor \in 1..Len(text)
  BY DEF Looks, SegmentsInv
<1>2. CASE ~Due /\ UNCHANGED <<cursor, current>>
  <2>1. ASSUME Selecting PROVE Selecting'
    <3>1. current.selected /\ current.stop = text[cursor].stop /\ text[cursor].stop \in Int
      BY <1>1, <2>1, TextTimes DEF Selecting, SegmentAt
    <3>2. position <= current.stop BY <1>1, <1>2, <3>1 DEF Due
    <3> QED BY <1>1, <1>2, <2>1, <3>2 DEF Selecting, SegmentAt
  <2>2. ASSUME Waiting PROVE Waiting'
    <3>1. ~current.selected /\ current.start = text[cursor].start /\ text[cursor].start \in Nat
      BY <1>1, <2>2, TextTimes DEF Waiting, SegmentAt
    <3>2. position < current.start BY <1>1, <1>2, <3>1 DEF Due
    <3> QED BY <1>1, <1>2, <2>2, <3>2 DEF Waiting, SegmentAt, StampsIn
  <2>3. Ending => Ending' BY <1>1, <1>2 DEF Ending, StampsIn
  <2>4. OnlyStamps' => OnlyStamps BY <1>1 DEF OnlyStamps
  <2> QED BY <1>1, <1>2, <2>1, <2>2, <2>3, <2>4 DEF SegmentsInv
<1>3. CASE Selects(position) BY <1>1, <1>3, SelectsFollows
<1>4. CASE PlaceFor(position) = Raised /\ current' = NoSegment /\ cursor' = WhenRaised(position)
  <2>1. ~OnlyStamps BY <1>1, <1>4, PlaceForIs DEF Raised, NotFound
  <2>2. ~OnlyStamps' BY <1>1, <2>1 DEF OnlyStamps
  <2>3. cursor' \in 1..Len(text) BY <1>1, <1>4 DEF WhenRaised, IsText
  <2> QED BY <1>1, <2>2, <2>3 DEF SegmentsInv
<1> QED BY <1>2, <1>3, <1>4 DEF Looks

LEMMA SeeksKeeps ==
  ASSUME SegmentsInv, NEW t \in 0..MaxTime, Seeks(t)
  PROVE  SegmentsInv'
<1>1. position' = t /\ t \in Nat /\ UNCHANGED text /\ IsText(text) /\ cursor \in 1..Len(text)
  BY SegmentsAssumption DEF Seeks, SegmentsInv
<1>2. CASE Selects(t) /\ follows' = TRUE BY <1>1, <1>2, SelectsFollows
<1>3. CASE PlaceFor(t) = Raised /\ follows' = FALSE /\ cursor' = WhenRaised(t)
  <2>1. ~OnlyStamps BY <1>1, <1>3, PlaceForIs DEF Raised, NotFound
  <2>2. ~OnlyStamps' BY <1>1, <2>1 DEF OnlyStamps
  <2>3. cursor' \in 1..Len(text) BY <1>1, <1>3 DEF WhenRaised, IsText
  <2> QED BY <1>1, <1>3, <2>2, <2>3 DEF SegmentsInv
<1> QED BY <1>2, <1>3 DEF Seeks

\* Whatever is played or sought, what is selected has begun, and what is waited for
\* is the next to begin.
THEOREM SegmentsInvariance == SegmentsSpec => []SegmentsInv
<1>1. SegmentsInv /\ UNCHANGED segmentVars => SegmentsInv'
  BY DEF segmentVars, SegmentsInv, Selecting, Waiting, Ending, StampsIn, SegmentAt, OnlyStamps
<1>2. SegmentsInv /\ [SegmentsNext]_segmentVars => SegmentsInv'
  BY <1>1, AudioPlaysKeeps, LooksKeeps, SeeksKeeps DEF SegmentsNext
<1> QED BY <1>2, SegmentsInvAtStart, PTL DEF SegmentsSpec

\* Where the loop of the editor has looked, what is selected is what the cursor is in
\* and what is heard, and nothing is selected only where nothing is said
\* (select_segment_for_audio_position, _schedule_next_segment, play_along).
THEOREM EditorFollowsAudio == SegmentsSpec => []FollowsAudio
<1>1. SegmentsInv => FollowsAudio
  <2> SUFFICES ASSUME SegmentsInv, follows, OnlyStamps
               PROVE  /\ current.selected => (Holds(text[cursor], position) /\ SegmentAt(cursor) = current)
                      /\ ~current.selected => \A k \in 1..Len(text) : ~Holds(text[k], position)
    BY DEF FollowsAudio, OnlyStamps
  <2>1. IsText(text) /\ position \in Nat /\ cursor \in 1..Len(text) BY DEF SegmentsInv
  <2>2. CASE Selecting BY <2>1, <2>2 DEF Selecting, SegmentAt, Holds
  <2>3. CASE Waiting
    <3>1. ~current.selected /\ current.start = text[cursor].start
      BY <2>3 DEF Waiting, SegmentAt
    <3>2. ASSUME NEW k \in StampsIn PROVE text[k].stop < position \/ position < text[k].start
      <4>1. /\ text[k].stop \in Int /\ text[k].start \in Int /\ text[cursor].start \in Int
        BY <2>1, <2>3, TextTimes DEF Waiting
      <4> QED BY <2>1, <2>3, <3>1, <4>1 DEF Waiting
    <3>3. \A k \in StampsIn : text[k].stop \in Int /\ text[k].start \in Int
      BY <2>1, TextTimes
    <3>4. \A k \in StampsIn : ~Holds(text[k], position) BY <2>1, <3>2, <3>3 DEF Holds
    <3> QED BY <3>1, <3>4 DEF StampsIn, Holds
  <2>4. CASE Ending
    <3>1. ~current.selected BY <2>4 DEF Ending, NoSegment
    <3>2. \A k \in StampsIn : text[k].stop \in Int BY <2>1, TextTimes
    <3>3. \A k \in StampsIn : ~Holds(text[k], position) BY <2>1, <2>4, <3>2 DEF Holds, Ending
    <3> QED BY <3>1, <3>3 DEF StampsIn, Holds
  <2> QED BY <2>2, <2>3, <2>4 DEF SegmentsInv
<1> QED BY <1>1, SegmentsInvariance, PTL
=============================================================================
