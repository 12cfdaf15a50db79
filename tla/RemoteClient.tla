---------------------------- MODULE RemoteClient ----------------------------
(***************************************************************************)
(* A remote backend (noScribe/plugins/remote_http/plugin.py) that runs     *)
(* workflows on a noScribe server, one after the other: it reserves a job, *)
(* polls while the job is queued, uploads the audio and reads the events.  *)
(* Requests and answers may be lost at every point, and the user may       *)
(* cancel at every point, from another thread.                             *)
(*                                                                         *)
(*   client    run_workflow: where it stands, and its locals               *)
(*   event     _cancel_event                                               *)
(*   asked     what the caller's is_cancelled() answers                    *)
(*   canceller cancel() on the user's thread, with the job id it has read  *)
(*   doc       the caller's own copy of the segments (transcribe's handle) *)
(*   link      per job, the connection of the upload and its answer        *)
(*   serve     per job, what the server does for it                        *)
(*   pipe      per job, the events under way from the server to the client *)
(* The server is its scheduler (JobScheduler), with the coroutine and the  *)
(* thread of a job reduced to the steps a client can tell apart.  The jobs *)
(* of Rivals belong to other clients.  A workflow is one transcription of  *)
(* Items segments.                                                         *)
(***************************************************************************)
EXTENDS JobScheduler

CONSTANTS
  Rivals,    \* the jobs of other clients
  Items,     \* how many segments a whole transcription has
  PipeSize   \* how many events may be under way

ASSUME ClientAssumption ==
  /\ Rivals \subseteq Jobs
  /\ Items \in Nat \ {0}
  /\ PipeSize \in Nat \ {0}

VARIABLES client, event, asked, canceller, doc, link, serve, pipe

serverVars == <<sched, link, serve, pipe>>

clientVars == <<client, event, asked, canceller, doc, link, serve, pipe, sched>>

Own == Jobs \ Rivals

\* "cancelling" is a workflow whose thread calls self.cancel() itself;
\* "failing" and "returning" have the finally clauses before them.
ClientAt == {"idle", "reserving", "polling", "uploading", "reading",
             "cancelling", "failing", "returning"}

\* The locals of run_workflow: the id of the job, the state it last heard of,
\* the segments of the transcription, and which results it has.
NewWorkflow ==
  [at |-> "idle", job |-> NoJob, heard |-> "", segments |-> << >>,
   try |-> 0, info |-> FALSE, final |-> FALSE]

NotCancelling == [at |-> "none", job |-> NoJob]

NotServing == [at |-> "none", try |-> 0, item |-> 0]

ClientInit ==
  /\ SchedulerInit
  /\ client = NewWorkflow
  /\ event = FALSE /\ asked = FALSE
  /\ canceller = NotCancelling
  /\ doc = << >>
  /\ link = [j \in Jobs |-> "closed"]
  /\ serve = [j \in Jobs |-> NotServing]
  /\ pipe = [j \in Jobs |-> << >>]

ClientGoes(to) ==
  /\ client' = [client EXCEPT !.at = to]
  /\ UNCHANGED <<event, asked, canceller, doc>>

-----------------------------------------------------------------------------
(* The thread of the workflow.                                             *)

\* The caller starts with an empty document and no wish to stop; the event is
\* cleared.
Begin ==
  /\ client.at = "idle"
  /\ client' = [NewWorkflow EXCEPT !.at = "reserving"]
  /\ event' = FALSE /\ asked' = FALSE /\ doc' = << >>
  /\ UNCHANGED <<canceller, serverVars>>

\* Ids are random: nobody remembers the id of a new job.
Fresh(j) ==
  sched.state[j] = "unknown" /\ serve[j] = NotServing /\ canceller.job # j

\* The reservation is made, and its id and token arrive.
Reserved(j) ==
  /\ client.at = "reserving"
  /\ Fresh(j)
  /\ Submit(j, TRUE)
  /\ IF sched'.state[j] = "unknown"
     THEN client' = [client EXCEPT !.at = "failing"]
     ELSE client' = [client EXCEPT !.at = "polling", !.job = j,
                                   !.heard = sched'.state[j]]
  /\ UNCHANGED <<event, asked, canceller, doc, link, serve, pipe>>

\* The request does not arrive, or its answer does not.
ReservationLost(j) ==
  /\ client.at = "reserving"
  /\ \/ UNCHANGED sched
     \/ Fresh(j) /\ Submit(j, TRUE)
  /\ ClientGoes("failing")
  /\ UNCHANGED <<link, serve, pipe>>

\* The loop over "queued": the wait ends early when the event is set.
StopsPolling ==
  /\ client.at = "polling" /\ client.heard \in {"queued", "ready_for_upload"}
  /\ event \/ asked
  /\ ClientGoes("cancelling")
  /\ UNCHANGED serverVars

\* A status request, and its answer.
Polls ==
  /\ client.at = "polling" /\ client.heard = "queued" /\ ~event /\ ~asked
  /\ Get(client.job, TRUE)
  /\ client' = [client EXCEPT !.heard = sched'.state[client.job]]
  /\ UNCHANGED <<event, asked, canceller, doc, link, serve, pipe>>

\* A status request that fails ends the workflow, although the job is queued.
PollLost ==
  /\ client.at = "polling" /\ client.heard = "queued"
  /\ UNCHANGED sched \/ Get(client.job, TRUE)
  /\ ClientGoes("failing")
  /\ UNCHANGED <<link, serve, pipe>>

\* The job's turn has come, and nobody has cancelled: the upload starts.
StartsUpload ==
  /\ client.at = "polling" /\ client.heard = "ready_for_upload" /\ ~event /\ ~asked
  /\ ClientGoes("uploading")
  /\ link' = [link EXCEPT ![client.job] = "open"]
  /\ UNCHANGED <<sched, serve, pipe>>

\* Any other state is an error.
FindsJobOver ==
  /\ client.at = "polling" /\ client.heard \notin {"queued", "ready_for_upload"}
  /\ ClientGoes("failing")
  /\ UNCHANGED serverVars

\* The upload ends without an answer that is ok: a chunk is read after the
\* cancellation, the file has been closed by it, the connection drops, or the
\* server refuses (link "refused").  No request deletes the job here.
UploadBreaks ==
  /\ client.at = "uploading"
  /\ ClientGoes("failing")
  /\ link' = [link EXCEPT ![client.job] = "closed"]
  /\ UNCHANGED <<sched, serve, pipe>>

\* The answer to the upload is there, and is kept as _active_response.
Answered ==
  /\ client.at = "uploading" /\ link[client.job] = "streaming"
  /\ ClientGoes("reading")
  /\ UNCHANGED serverVars

\* A line has arrived after a cancellation.
StopsReading ==
  /\ client.at = "reading" /\ pipe[client.job] # << >>
  /\ event \/ asked
  /\ ClientGoes("cancelling")
  /\ UNCHANGED serverVars

\* Fault: the segments of the first try are kept.
HeardWithoutReset(c, e) ==
  CASE e.type = "task_started" -> [c EXCEPT !.try = IF e.retry THEN 2 ELSE 1]
    [] e.type = "segment" -> [c EXCEPT !.segments = Append(@, e.item)]
    [] e.type = "task_result" ->
         IF e.ok THEN [c EXCEPT !.info = TRUE] ELSE [c EXCEPT !.at = "failing"]
    [] e.type = "result" ->
         IF e.ok THEN [c EXCEPT !.final = TRUE] ELSE [c EXCEPT !.at = "failing"]

\* What one event does to the locals; _require_success raises for a result
\* that is not ok.
Heard(c, e) ==
  CASE e.type = "task_started" ->
         [c EXCEPT !.segments = << >>, !.info = FALSE,
                   !.try = IF e.retry THEN 2 ELSE 1]
    [] e.type = "segment" -> [c EXCEPT !.segments = Append(@, e.item)]
    [] e.type = "task_result" ->
         IF e.ok THEN [c EXCEPT !.info = TRUE] ELSE [c EXCEPT !.at = "failing"]
    [] e.type = "result" ->
         IF e.ok THEN [c EXCEPT !.final = TRUE] ELSE [c EXCEPT !.at = "failing"]

\* Fault: the caller rolls back when a task starts for the first time only.
DocIgnoresRetry(d, e) ==
  IF e.type = "segment" THEN Append(d, e.item)
  ELSE IF e.type = "task_started" /\ ~e.retry THEN << >> ELSE d

\* transcribe's handle: the caller is told to roll back when a task is retried.
DocAfter(d, e) ==
  IF e.type = "segment" THEN Append(d, e.item)
  ELSE IF e.type = "task_started" /\ e.retry THEN << >> ELSE d

Reads ==
  /\ client.at = "reading" /\ pipe[client.job] # << >> /\ ~event /\ ~asked
  /\ LET e == Head(pipe[client.job])
     IN  /\ client' = Heard(client, e)
         /\ doc' = DocAfter(doc, e)
  /\ pipe' = [pipe EXCEPT ![client.job] = Tail(@)]
  /\ UNCHANGED <<event, asked, canceller, sched, link, serve>>

\* The body ends: with a result, or without one.
ReadsEnd ==
  /\ client.at = "reading" /\ pipe[client.job] = << >>
  /\ link[client.job] = "ended"
  /\ ClientGoes(IF client.final THEN "returning" ELSE "failing")
  /\ UNCHANGED serverVars

\* The connection drops, or cancel() has closed the response under the reader.
ReadBreaks ==
  /\ client.at = "reading"
  /\ ClientGoes("failing")
  /\ UNCHANGED serverVars

\* self.cancel() by the thread itself: the event, and a request to delete the
\* job, which may be lost.
CancelsItself ==
  /\ client.at = "cancelling"
  /\ event' = TRUE
  /\ client' = [client EXCEPT !.at = "failing"]
  /\ Cancel(client.job) \/ UNCHANGED sched
  /\ UNCHANGED <<asked, canceller, doc, link, serve, pipe>>

\* Fault: the response stays open.
EndsWithOpenResponse ==
  /\ client.at \in {"failing", "returning"}
  /\ client' = NewWorkflow
  /\ UNCHANGED <<link, event, asked, canceller, doc, sched, serve, pipe>>

\* The finally clauses: the response is closed, and the job forgotten.
Ends ==
  /\ client.at \in {"failing", "returning"}
  /\ client' = NewWorkflow
  /\ link' = [j \in Jobs |-> IF j = client.job THEN "closed" ELSE link[j]]
  /\ pipe' = [j \in Jobs |-> IF j = client.job THEN << >> ELSE pipe[j]]
  /\ UNCHANGED <<event, asked, canceller, doc, sched, serve>>

ClientSteps ==
  \/ \E j \in Own : Reserved(j) \/ ReservationLost(j)
  \/ StopsPolling \/ Polls \/ PollLost \/ StartsUpload \/ FindsJobOver
  \/ UploadBreaks \/ Answered
  \/ StopsReading \/ Reads \/ ReadsEnd \/ ReadBreaks
  \/ CancelsItself \/ Ends

-----------------------------------------------------------------------------
(* cancel() on another thread.  is_cancelled() is true before it starts.   *)

UserCancels ==
  /\ client.at # "idle" /\ ~asked /\ canceller.at = "none"
  /\ asked' = TRUE
  /\ canceller' = [at |-> "setting", job |-> NoJob]
  /\ UNCHANGED <<client, event, doc, serverVars>>

CancelSets ==
  /\ canceller.at = "setting"
  /\ event' = TRUE
  /\ canceller' = [canceller EXCEPT !.at = "looking"]
  /\ UNCHANGED <<client, asked, doc, serverVars>>

\* The section under _active_lock.  The upload and the response that it finds
\* are closed, which the thread of the workflow meets as UploadBreaks or
\* ReadBreaks.
CancelLooks ==
  /\ canceller.at = "looking"
  /\ canceller' = IF client.job = NoJob THEN NotCancelling
                  ELSE [at |-> "deleting", job |-> client.job]
  /\ UNCHANGED <<client, event, asked, doc, serverVars>>

\* DELETE, which may be lost.
CancelDeletes ==
  /\ canceller.at = "deleting"
  /\ Cancel(canceller.job) \/ UNCHANGED sched
  /\ canceller' = NotCancelling
  /\ UNCHANGED <<client, event, asked, doc, link, serve, pipe>>

CancelSteps == CancelSets \/ CancelLooks \/ CancelDeletes

-----------------------------------------------------------------------------
(* The server, as far as it shows.                                         *)

Serves(j, to) == serve' = [serve EXCEPT ![j] = [@ EXCEPT !.at = to]]

\* The request arrives: receive_audio begins, or refuses.
UploadArrives(j) ==
  /\ link[j] = "open" /\ serve[j].at = "none"
  /\ BeginUpload(j)
  /\ IF sched'.state[j] = "uploading"
     THEN Serves(j, "receiving") /\ UNCHANGED link
     ELSE link' = [link EXCEPT ![j] = "refused"] /\ UNCHANGED serve
  /\ UNCHANGED <<client, event, asked, canceller, doc, pipe>>

\* The audio is complete and the job not cancelled: its thread starts, and the
\* answer begins.
UploadComplete(j) ==
  /\ serve[j].at = "receiving" /\ link[j] = "open"
  /\ BeginProcessing(j)
  /\ Serves(j, "working")
  /\ link' = [link EXCEPT ![j] = "streaming"]
  /\ UNCHANGED <<client, event, asked, canceller, doc, pipe>>

\* The upload breaks off, times out, or finds its job cancelled: the slot is
\* given back.
UploadWithdrawn(j) ==
  /\ serve[j].at = "receiving"
  /\ sched' = CancelFinished(Cancelled(Reap(sched), j), j)
  /\ serve' = [serve EXCEPT ![j] = NotServing]
  /\ link' = [link EXCEPT ![j] = IF @ = "open" THEN "refused" ELSE @]
  /\ UNCHANGED <<client, event, asked, canceller, doc, pipe>>

\* An event of the job's thread goes to whoever reads it.
Sends(j, e) ==
  pipe' = [pipe EXCEPT ![j] = IF link[j] = "streaming" THEN Append(@, e) ELSE @]

CanSend(j) == Len(pipe[j]) < PipeSize \/ link[j] = "closed"

\* The processor tells of the first try, of a second one, or of a segment.
Works(j) ==
  /\ serve[j].at = "working" /\ sched.state[j] = "running" /\ CanSend(j)
  /\ \/ /\ serve[j].try < 2
        /\ serve' = [serve EXCEPT ![j].try = @ + 1, ![j].item = 0]
        /\ Sends(j, [type |-> "task_started", retry |-> serve[j].try = 1])
     \/ /\ serve[j].try > 0 /\ serve[j].item < Items
        /\ serve' = [serve EXCEPT ![j].item = @ + 1]
        /\ Sends(j, [type |-> "segment", item |-> serve[j].item + 1])
     \/ /\ serve[j].try > 0 /\ serve[j].item = Items
        /\ Serves(j, "done")
        /\ Sends(j, [type |-> "task_result", ok |-> TRUE])
     \/ /\ serve[j].try > 0
        /\ Serves(j, "broken")
        /\ Sends(j, [type |-> "task_result", ok |-> FALSE])
  /\ UNCHANGED <<client, event, asked, canceller, doc, sched, link>>

\* generate() is closed because its client is gone: the job is cancelled.
ReaderGone(j) ==
  /\ serve[j].at \in {"working", "done", "broken"} /\ link[j] = "closed"
  /\ sched.state[j] = "running"
  /\ Cancel(j)
  /\ UNCHANGED <<client, event, asked, canceller, doc, link, serve, pipe>>

\* The verdict of the thread, the last event and the end of the answer.
ServerEnds(j) ==
  /\ \/ serve[j].at = "done" /\ sched.state[j] = "running" /\ Complete(j)
     \/ serve[j].at = "broken" /\ sched.state[j] = "running" /\ Fail(j)
     \/ serve[j].at # "none" /\ serve[j].at # "receiving"
          /\ sched.state[j] = "cancelling" /\ FinishCancel(j)
  /\ CanSend(j)
  /\ Sends(j, [type |-> "result", ok |-> sched'.state[j] = "completed"])
  /\ link' = [link EXCEPT ![j] = IF @ = "streaming" THEN "ended" ELSE @]
  /\ serve' = [serve EXCEPT ![j] = NotServing]
  /\ UNCHANGED <<client, event, asked, canceller, doc>>

ServerSteps(j) ==
  UploadArrives(j) \/ UploadComplete(j) \/ UploadWithdrawn(j)
  \/ Works(j) \/ ReaderGone(j) \/ ServerEnds(j)

\* Other clients: reserve, poll, upload, cancel, or stay away.
RivalSteps(j) ==
  /\ \/ Submit(j, TRUE) \/ Get(j, TRUE) \/ BeginUpload(j)
     \/ Owner(j) \/ Cancel(j)
  /\ UNCHANGED <<client, event, asked, canceller, doc, link, serve, pipe>>

TimePasses == Tick /\ UNCHANGED <<client, event, asked, canceller, doc, link, serve, pipe>>

\* A request of somebody else lets the server look at its deadlines.
OtherRequest ==
  ReapExpired /\ UNCHANGED <<client, event, asked, canceller, doc, link, serve, pipe>>

ClientNext ==
  \/ Begin \/ ClientSteps \/ UserCancels \/ CancelSteps
  \/ \E j \in Own : ServerSteps(j)
  \/ \E j \in Rivals : RivalSteps(j)
  \/ TimePasses \/ OtherRequest

ClientSpec == ClientInit /\ [][ClientNext]_clientVars

\* The thread and the server go on, time passes, somebody sends a request now
\* and then, and the other clients' work ends.  Nothing is assumed of answers.
ClientFairSpec ==
  /\ ClientSpec
  /\ WF_clientVars(ClientSteps) /\ WF_clientVars(CancelSteps)
  /\ \A j \in Own : WF_clientVars(ServerSteps(j))
  /\ \A j \in Rivals : WF_clientVars(Owner(j) /\ UNCHANGED <<client, event, asked, canceller, doc, link, serve, pipe>>)
  /\ WF_clientVars(TimePasses) /\ WF_clientVars(OtherRequest)

-----------------------------------------------------------------------------
(* Properties.                                                             *)

\* What run_workflow returns is what the caller has put into its document by
\* then, whole: the two forget the segments of a failed try at the same event,
\* although one clears whenever a task starts and the other only when it is
\* told of a retry.
AnswerIsDocument ==
  client.at = "returning" =>
    client.info /\ doc = client.segments /\ Len(doc) = Items

\* The document of the caller is a task stream: the segments of one try, in
\* their order, from the first, and a result only when they are complete;
\* however the connection breaks and whoever cancels.
Stream == INSTANCE TaskStream
            WITH Tasks <- 1,
                 phase <- IF client.at = "idle" THEN "idle"
                          ELSE IF client.info \/ client.at \in {"cancelling", "failing", "returning"}
                            THEN "over"
                          ELSE IF client.try = 0 THEN "ready" ELSE "trying",
                 results <- IF client.info THEN 1 ELSE 0,
                 tries <- IF client.try = 2 THEN 2 ELSE 1,
                 told <- IF client.at = "idle" THEN << >> ELSE doc

DocumentIsTaskStream == Stream!StreamSpec

\* A workflow that has ended leaves nothing on the server for ever: whichever
\* answer was lost, and whether or not a request to delete the job arrived, the
\* job gives up its place in the line and the slot.
GoneIsFreed ==
  \A j \in Own :
    client.job # j ~> sched.state[j] \notin {"queued"} \cup SlotStates

=============================================================================
