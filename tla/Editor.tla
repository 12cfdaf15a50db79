------------------------------- MODULE Editor -------------------------------
(***************************************************************************)
(* The transcript editor (noScribeEdit): opening transcripts, loading      *)
(* their audio, playing along.  All of it runs on the one thread of the    *)
(* GUI, but a handler that waits -- for the audio to load, to start, to be *)
(* let go of, and the loop that plays along -- pumps the events itself, so *)
(* that the handlers of what the user does meanwhile run inside it.        *)
(* `calls` is the stack of handlers that are under way.                    *)
(***************************************************************************)
EXTENDS Integers, Sequences, SequencesExt

CONSTANTS
  Files,     \* the transcripts on disk
  MaxCalls   \* bound: handlers inside handlers

ASSUME EditorAssumption == MaxCalls \in Nat

VARIABLES
  path,      \* path: the file that is saved to
  shown,     \* the transcript in the text widget
  modified,  \* the document's modified flag
  keep,      \* keep_playing
  paused,    \* playback_paused
  player,    \* media_player
  temp,      \* tmpdir: a temporary audio file is there
  calls,     \* the handlers under way, the innermost last
  ret,       \* what the innermost call has returned or raised
  closed     \* the window is closed

editorVars == <<path, shown, modified, keep, paused, player, temp, calls, ret, closed>>

NoFile == "no file"
Loading == "loading"
\* A media player as the handlers see it.
NewPlayer == [state |-> "stopped", loaded |-> FALSE, failed |-> FALSE]
NoPlayer == [state |-> "none", loaded |-> FALSE, failed |-> FALSE]

\* A handler under way: where it is, the file it opens, and whether the player
\* it started is still the editor's.
Handler(at, file) == [at |-> at, file |-> file, mine |-> TRUE]

Pumps == {"released", "retries", "open_parses", "load_waits", "play_waits", "play_starts", "play_loops"}

EditorTypeOK ==
  /\ path \in Files \cup {NoFile}
  /\ shown \in Files \cup {NoFile, Loading}
  /\ {modified, keep, paused, temp, closed} \subseteq BOOLEAN
  /\ player \in [state : {"none", "stopped", "playing", "paused"}, loaded : BOOLEAN, failed : BOOLEAN]
  /\ ret \in {"none", "done", "true", "false", "raised"}

Inner == calls[Len(calls)]
At(places) == calls # <<>> /\ Inner.at \in places

\* The user's events are handled where some handler pumps them.
Listening == ~closed /\ (calls = <<>> \/ At(Pumps)) /\ Len(calls) < MaxCalls

EditorInit ==
  /\ path = NoFile /\ shown = NoFile /\ modified = FALSE
  /\ keep = FALSE /\ paused = FALSE /\ player = NoPlayer /\ temp = FALSE
  /\ calls = <<>> /\ ret = "none" /\ closed = FALSE

-----------------------------------------------------------------------------
(* What the handlers share.                                                *)

Returned(value) == calls' = Front(calls) /\ ret' = value
Moved(at) == [calls EXCEPT ![Len(calls)].at = at]

InState(p, state) == IF p = NoPlayer THEN p ELSE [p EXCEPT !.state = state]

\* _stop_playback, but for the player.
Stops == keep' = FALSE /\ paused' = FALSE

\* _cleanup_temp_audio called by the last handler of `outer`: it lets go of the
\* player first, and pumps meanwhile if there is one.
CleansUnder(outer) ==
  /\ player' = NoPlayer
  /\ calls' = Append([k \in 1..Len(outer) |-> [outer[k] EXCEPT !.mine = FALSE]],
                     Handler(IF player = NoPlayer THEN "removes" ELSE "released", NoFile))
  /\ ret' = "none"

\* _load_audio called by the last handler of `outer`.
LoadsUnder(outer) == Stops /\ CleansUnder(Append(outer, Handler("load_cleaned", NoFile)))

\* open_audio_source: the file chosen is loaded, or none is, or it is not there.
SourceUnder(outer) == LoadsUnder(Append(outer, Handler("source_loaded", NoFile)))

\* The rest of _cleanup_temp_audio: the directory is removed, which another
\* program's hand on the file can prevent.
RemovesTemp ==
  /\ At({"released", "removes", "retries"})
  /\ \/ /\ temp \/ Inner.at # "retries"
        /\ temp' = FALSE /\ Returned("done")
     \/ /\ temp /\ Inner.at # "retries"
        /\ calls' = Moved("retries")
        /\ UNCHANGED <<temp, ret>>
     \/ /\ Inner.at = "retries"
        /\ Returned("raised") /\ UNCHANGED temp
  /\ UNCHANGED <<path, shown, modified, keep, paused, player, closed>>

-----------------------------------------------------------------------------
(* Loading audio.                                                          *)

\* The audio is decoded into a file of its own, and the player is given it.
DecodesAudio ==
  /\ At({"load_cleaned"}) /\ ret # "raised"
  /\ \/ /\ temp' = TRUE
        /\ player' = NewPlayer
        /\ calls' = Moved("load_waits") /\ ret' = "none"
     \/ /\ temp' = TRUE
        /\ CleansUnder(Moved("load_failed"))
  /\ UNCHANGED <<path, shown, modified, keep, paused, closed>>

\* Nothing could be cleaned up: it is tried once more.
CleansAgain ==
  /\ At({"load_cleaned"}) /\ ret = "raised"
  /\ CleansUnder(Moved("load_failed"))
  /\ UNCHANGED <<path, shown, modified, keep, paused, temp, closed>>

\* The player has loaded the file; or it fails, or takes too long, or is gone.
WaitsForMedia ==
  /\ At({"load_waits"})
  /\ \/ /\ player.loaded /\ ~player.failed
        /\ Returned("true") /\ UNCHANGED player
     \/ /\ player.failed \/ ~player.loaded
        /\ CleansUnder(Moved("load_failed"))
  /\ UNCHANGED <<path, shown, modified, keep, paused, temp, closed>>

LoadFails ==
  /\ At({"load_failed"})
  /\ Returned(IF ret = "raised" THEN "raised" ELSE "false")
  /\ UNCHANGED <<path, shown, modified, keep, paused, player, temp, closed>>

\* open_audio_source ends: the transcript names another audio file now.
SourceIsLoaded ==
  /\ At({"source_loaded"})
  /\ modified' = (modified \/ ret # "raised")
  /\ Returned(ret)
  /\ UNCHANGED <<path, shown, keep, paused, player, temp, closed>>

\* The button "audio source".
ChoosesAudio ==
  /\ Listening
  /\ SourceUnder(calls)
  /\ UNCHANGED <<path, shown, modified, temp, closed>>

-----------------------------------------------------------------------------
(* Opening and saving.                                                     *)

\* A fault: a file is opened while another plays.
OpensPlaying(file) ==
  /\ Listening
  /\ path' = file
  /\ CleansUnder(Append(calls, Handler("open_clears", file)))
  /\ UNCHANGED <<shown, modified, keep, paused, temp, closed>>

\* _file_open(file): it has been read.  The recent files are opened without a
\* question; the button asks first, and opens whatever has become of the saving.
Opens(file) ==
  /\ Listening
  /\ path' = file
  /\ Stops
  /\ CleansUnder(Append(calls, Handler("open_clears", file)))
  /\ UNCHANGED <<shown, modified, temp, closed>>

\* The text widget is emptied, or the opening ends where it is.
ClearsText ==
  /\ At({"open_clears"})
  /\ \/ /\ ret # "raised"
        /\ shown' = Loading /\ modified' = FALSE
        /\ calls' = Moved("open_parses") /\ ret' = "none"
     \/ /\ ret = "raised"
        /\ Returned("none") /\ UNCHANGED <<shown, modified>>
  /\ UNCHANGED <<path, keep, paused, player, temp, closed>>

Shows == shown' = Inner.file /\ modified' = FALSE /\ Returned("none")

\* The transcript names its audio, or the user is asked for it, or there is none.
ParsesFile ==
  /\ At({"open_parses"})
  /\ \/ /\ LoadsUnder(Moved("open_shows")) \/ SourceUnder(Moved("open_shows"))
        /\ UNCHANGED <<shown, modified>>
     \/ /\ Shows
        /\ keep' = FALSE /\ UNCHANGED <<paused, player>>
  /\ UNCHANGED <<path, temp, closed>>

\* The text is shown whatever has become of the audio.
ShowsText ==
  /\ At({"open_shows"})
  /\ Shows
  /\ keep' = FALSE
  /\ UNCHANGED <<path, paused, player, temp, closed>>

\* file_save and file_saveas: a document that has no file gets one.
Saves ==
  /\ Listening /\ path # NoFile
  /\ modified' = FALSE
  /\ UNCHANGED <<path, shown, keep, paused, player, temp, calls, ret, closed>>

SavesAs(file) ==
  /\ Listening
  /\ path' = file /\ modified' = FALSE
  /\ shown' = IF shown = Loading THEN Loading ELSE file
  /\ UNCHANGED <<keep, paused, player, temp, calls, ret, closed>>

\* closeEvent: the playing ends before the question, which can be cancelled.
Closes ==
  /\ Listening
  /\ Stops
  /\ \/ CleansUnder(Append(calls, Handler("close_cleaned", NoFile)))
     \/ modified /\ player' = InState(player, "stopped") /\ UNCHANGED <<calls, ret>>
  /\ UNCHANGED <<path, shown, modified, temp, closed>>

WindowCloses ==
  /\ At({"close_cleaned"})
  /\ closed' = TRUE
  /\ Returned("none")
  /\ UNCHANGED <<path, shown, modified, keep, paused, player, temp>>

-----------------------------------------------------------------------------
(* Playing along.                                                          *)

\* A handler that plays ends with the player stopped.
StopsIn == Stops /\ player' = InState(player, "stopped")
EndsPlay == StopsIn /\ Returned("none")

Pauses ==
  /\ Listening /\ keep
  /\ keep' = FALSE /\ paused' = TRUE
  /\ player' = InState(player, "paused")
  /\ UNCHANGED <<path, shown, modified, temp, calls, ret, closed>>

\* The player is set going.
SetsGoing(outer) ==
  /\ keep' = TRUE
  /\ player' = InState(player, "playing")
  /\ calls' = outer
  /\ ret' = "none"

Resumes ==
  /\ Listening /\ ~keep /\ paused
  /\ paused' = FALSE
  /\ IF player = NoPlayer
     THEN keep' = FALSE /\ UNCHANGED <<player, calls, ret>>
     ELSE SetsGoing(Append(calls, Handler("play_starts", NoFile)))
  /\ UNCHANGED <<path, shown, modified, temp, closed>>

\* With the audio in place, the segment is looked for; a player is made if there is none.
PlaysIn(outer) ==
  \/ /\ shown \notin Files
     /\ StopsIn /\ calls' = Front(outer) /\ ret' = "none"
  \/ /\ shown \in Files /\ player = NoPlayer
     /\ player' = NewPlayer
     /\ calls' = [outer EXCEPT ![Len(outer)].at = "play_waits"]
     /\ ret' = "none" /\ UNCHANGED <<keep, paused>>
  \/ /\ shown \in Files /\ player # NoPlayer
     /\ SetsGoing([outer EXCEPT ![Len(outer)] = Handler("play_starts", NoFile)])
     /\ UNCHANGED paused

\* play_along at rest.  From the cursor outside the segments, play_current_segment
\* starts over even when it was paused.
Plays ==
  /\ Listening /\ ~keep
  /\ LET outer == Append(calls, Handler("play_asks", NoFile))
     IN  \/ temp /\ ~paused /\ PlaysIn(outer)
         \/ temp /\ paused /\ shown \in Files /\ player # NoPlayer
            /\ SetsGoing([outer EXCEPT ![Len(outer)].at = "play_starts"]) /\ paused' = FALSE
         \/ ~temp /\ SourceUnder(outer)
         \/ ~temp /\ StopsIn /\ UNCHANGED <<calls, ret>>
  /\ UNCHANGED <<path, shown, modified, temp, closed>>

AudioWasFound ==
  /\ At({"play_asks"})
  /\ IF ret = "true" /\ temp THEN PlaysIn(calls) ELSE EndsPlay
  /\ UNCHANGED <<path, shown, modified, temp, closed>>

PlayWaits ==
  /\ At({"play_waits"})
  /\ \/ /\ player.loaded /\ ~player.failed
        /\ SetsGoing([calls EXCEPT ![Len(calls)] = Handler("play_starts", NoFile)])
        /\ UNCHANGED paused
     \/ /\ player.failed \/ ~player.loaded
        /\ EndsPlay
  /\ UNCHANGED <<path, shown, modified, temp, closed>>

\* _wait_for_playback_start: it has started, or was stopped; or it fails.
PlayStarts ==
  /\ At({"play_starts"})
  /\ \/ /\ ~keep \/ (player # NoPlayer /\ ~player.failed)
        /\ calls' = Moved("play_loops")
        /\ UNCHANGED <<keep, paused, player, ret>>
     \/ keep /\ EndsPlay
  /\ UNCHANGED <<path, shown, modified, temp, closed>>

LeavesLoop == ~keep \/ player = NoPlayer \/ player.failed \/ player.state = "stopped"

\* A fault: the loop ends, and nobody stops the player.
PlayEndsOnly ==
  /\ At({"play_loops"}) /\ LeavesLoop
  /\ Returned("none")
  /\ UNCHANGED <<path, shown, modified, keep, paused, player, temp, closed>>

\* The loop ends; what was paused is left as it is.
PlayEnds ==
  /\ At({"play_loops"}) /\ LeavesLoop
  /\ IF paused THEN Returned("none") /\ UNCHANGED <<keep, paused, player>> ELSE EndsPlay
  /\ UNCHANGED <<path, shown, modified, temp, closed>>

\* The user's hand on the text; the program's own moves are not heard.
MovesCursor ==
  /\ Listening /\ keep
  /\ keep' = FALSE
  /\ UNCHANGED <<path, shown, modified, paused, player, temp, calls, ret, closed>>

EditsText ==
  /\ Listening
  /\ modified' = TRUE /\ keep' = FALSE
  /\ UNCHANGED <<path, shown, paused, player, temp, calls, ret, closed>>

\* The media backend, in its own time.
PlayerMoves ==
  /\ player # NoPlayer
  /\ \/ player' = [player EXCEPT !.loaded = TRUE]
     \/ player' = [player EXCEPT !.failed = TRUE, !.state = "stopped"]
     \/ player.state = "playing" /\ player' = [player EXCEPT !.state = "stopped"]
  /\ player' # player
  /\ UNCHANGED <<path, shown, modified, keep, paused, temp, calls, ret, closed>>

EditorNext ==
  \/ \E file \in Files : Opens(file) \/ SavesAs(file)
  \/ Saves \/ Closes \/ ChoosesAudio \/ Pauses \/ Resumes \/ Plays \/ MovesCursor \/ EditsText
  \/ RemovesTemp \/ DecodesAudio \/ CleansAgain \/ WaitsForMedia \/ LoadFails \/ SourceIsLoaded
  \/ ClearsText \/ ParsesFile \/ ShowsText \/ WindowCloses
  \/ AudioWasFound \/ PlayWaits \/ PlayStarts \/ PlayEnds
  \/ PlayerMoves

EditorSpec == EditorInit /\ [][EditorNext]_editorVars

-----------------------------------------------------------------------------
(* A loop that goes on playing steers the player it was started with:      *)
(* whatever was opened, closed or played in the handlers that ran inside   *)
(* it, it never goes on with the audio of another transcript, or with a    *)
(* player that is gone (play_along).  A loop that is left paused is no     *)
(* such: started while an inner one was paused, it keeps that flag.        *)
LoopsOwnPlayer ==
  (At({"play_starts", "play_loops"}) /\ keep /\ ~paused) => (Inner.mine /\ player # NoPlayer)

(* When every handler has ended and nothing is paused, the editor is not   *)
(* playing and no audio is heard that no loop would stop (the finally of   *)
(* play_along, _stop_playback).                                            *)
StoppedIsSilent == (calls = <<>> /\ ~paused) => (~keep /\ player.state # "playing")

(* The text that is shown is the transcript of the file that is saved to:  *)
(* path is the "current file".  The code does not keep it: a file opened   *)
(* while another one is loading leaves its name and the other one's text.  *)
PathIsDocument == (calls = <<>> /\ path # NoFile) => shown = path
=============================================================================
