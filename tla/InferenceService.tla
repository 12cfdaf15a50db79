-------------------------- MODULE InferenceService --------------------------
(***************************************************************************)
(* The HTTP service of noScribe/server/api.py on top of the scheduler: for *)
(* every job the coroutine that receives its audio, the thread that works  *)
(* on it, the timer that limits it, the generator that streams its events, *)
(* and the cancellations that clients, timers and closing generators send. *)
(*                                                                         *)
(* Per job:                                                                *)
(*   handler  receive_audio, from begin_upload to the start of the stream  *)
(*   audio    whether the uploaded file exists                             *)
(*   worker   run(), the job's thread                                      *)
(*   timer    the threading.Timer of run()                                 *)
(*   failed   whether error_code is set                                    *)
(*   event    cancel_event                                                 *)
(*   events   the queue of events between the thread and the generator     *)
(*   stream   generate() and the response that iterates over it            *)
(* For all jobs:                                                           *)
(*   lock     the cancellation that holds the service's _lock, or None     *)
(*   stopped  the jobs whose inference processor.cancel() is stopping      *)
(* A section under _lock that no other thread can see half-done is one     *)
(* action.  Cancellation is two: scheduler methods need no _lock and may   *)
(* come between its change of state and its event.                         *)
(***************************************************************************)
EXTENDS JobScheduler

CONSTANTS
  QueueSize,       \* maxsize of a job's event queue
  StuckFiles       \* the jobs for whose file unlink may raise OSError

ASSUME ServiceAssumption ==
  QueueSize \in Nat \ {0} /\ StuckFiles \subseteq Jobs

VARIABLES handler, audio, worker, timer, failed, event, events, stream,
          lock, stopped

perJob == <<handler, audio, worker, timer, failed, event, events, stream>>

serviceVars == <<sched, perJob, lock, stopped>>

Handlers == {"none", "begun", "receiving", "discarding", "withdrawing",
             "withdrawn", "received", "streaming", "raised"}

Workers == {"none", "starting", "processing", "emitting", "cleaning",
            "settling", "reporting", "ending", "done"}

\* "off" is a cancelled timer, "fired" one whose callback has not yet called
\* self.cancel, "cancelling" one that is inside of it, "done" one that has been.
Timers == {"none", "armed", "fired", "cancelling", "done", "off"}

\* "open" is a generator in events.get, "yielded" one whose event is being
\* sent; "closed" a generator whose client is gone.
Streams == {"none", "pending", "open", "yielded", "closing", "cancelling",
            "closed", "completed"}

Events == {"progress", "ok", "error", "END"}

Cancellers == {"client", "timer", "stream"}

NoCancellation == [by |-> "nobody", job |-> NoJob]

\* __init__.
ServiceInit ==
  /\ SchedulerInit
  /\ handler = [j \in Jobs |-> "none"]
  /\ audio = [j \in Jobs |-> FALSE]
  /\ worker = [j \in Jobs |-> "none"]
  /\ timer = [j \in Jobs |-> "none"]
  /\ failed = [j \in Jobs |-> FALSE]
  /\ event = [j \in Jobs |-> FALSE]
  /\ events = [j \in Jobs |-> << >>]
  /\ stream = [j \in Jobs |-> "none"]
  /\ lock = NoCancellation
  /\ stopped = {}

Unlocked == lock = NoCancellation

\* The keys of _cancel_events: from the start of a job's thread to its verdict.
Registered(j) ==
  worker[j] \in {"starting", "processing", "emitting", "cleaning", "settling"}

\* The thread of the job is inside processor.process.
InProcessor(j) == worker[j] \in {"processing", "emitting"}

\* finished.is_set().
Finished(j) == worker[j] = "done"

HasRoom(j) == Len(events[j]) < QueueSize

-----------------------------------------------------------------------------
(* Requests that need the scheduler only.                                  *)

\* reserve_job, and the admission of direct_audio_request.  An id is random:
\* it is not one that a thread or a response still refers to.
Reserve(j, allowQueue) ==
  /\ handler[j] = "none"
  /\ Submit(j, allowQueue)
  /\ UNCHANGED <<perJob, lock, stopped>>

\* job_status, and (without renewal) a request for upload_audio that is
\* refused before begin_upload.
Status(j, renew) == Get(j, renew) /\ UNCHANGED <<perJob, lock, stopped>>

TimePasses == Tick /\ UNCHANGED <<perJob, lock, stopped>>

-----------------------------------------------------------------------------
(* receive_audio.                                                          *)

\* The handler moves on, and nothing but the scheduler changes otherwise.
HandlerGoes(j, to) ==
  /\ handler' = [handler EXCEPT ![j] = to]
  /\ UNCHANGED <<audio, worker, timer, failed, event, events, stream,
                 lock, stopped>>

\* begin_upload owns the slot from here on, or raises InvalidJobState.
UploadStarts(j) ==
  /\ handler[j] = "none"
  /\ BeginUpload(j)
  /\ HandlerGoes(j, IF sched'.state[j] = "uploading" THEN "begun" ELSE "none")

\* mkstemp.
StorageOpens(j) ==
  /\ handler[j] = "begun"
  /\ handler' = [handler EXCEPT ![j] = "receiving"]
  /\ audio' = [audio EXCEPT ![j] = TRUE]
  /\ UNCHANGED <<sched, worker, timer, failed, event, events, stream,
                 lock, stopped>>

\* mkstemp raises OSError: the slot is given back.
StorageFails(j) ==
  /\ handler[j] = "begun"
  /\ HandlerGoes(j, "withdrawing")
  /\ UNCHANGED sched

\* A chunk arrives, and the job is asked whether it has been cancelled.
ReceiveChunk(j) ==
  /\ handler[j] = "receiving"
  /\ Get(j, FALSE)
  /\ HandlerGoes(j, IF sched'.state[j] = "cancelling" THEN "discarding"
                                                       ELSE "receiving")

\* The upload times out, breaks off, or has not the size it should have.
UploadFails(j) ==
  /\ handler[j] = "receiving"
  /\ HandlerGoes(j, "discarding")
  /\ UNCHANGED sched

\* Every byte is there.
UploadEnds(j) ==
  /\ handler[j] = "receiving"
  /\ HandlerGoes(j, "received")
  /\ UNCHANGED sched

\* Fault: a failed upload leaves its file behind.
DiscardNothing(j) ==
  /\ handler[j] = "discarding"
  /\ HandlerGoes(j, "withdrawing")
  /\ UNCHANGED sched

\* The except clause deletes the file.
Discard(j) ==
  /\ handler[j] = "discarding"
  /\ handler' = [handler EXCEPT ![j] = "withdrawing"]
  /\ audio' = [audio EXCEPT ![j] = FALSE]
  /\ UNCHANGED <<sched, worker, timer, failed, event, events, stream,
                 lock, stopped>>

\* unlink raises OSError out of the except clause.
DiscardFails(j) ==
  /\ j \in StuckFiles
  /\ handler[j] = "discarding"
  /\ HandlerGoes(j, "raised")
  /\ UNCHANGED sched

\* scheduler.cancel, then scheduler.finish_cancel.
Withdraw(j) ==
  /\ handler[j] = "withdrawing"
  /\ Cancel(j)
  /\ HandlerGoes(j, "withdrawn")

\* Fault: the slot of a failed upload is not given back.
WithdrawHalfway(j) ==
  /\ handler[j] = "withdrawn"
  /\ HandlerGoes(j, "raised")
  /\ UNCHANGED sched

WithdrawEnds(j) ==
  /\ handler[j] = "withdrawn"
  /\ FinishCancel(j)
  /\ HandlerGoes(j, "raised")

\* stream_processing: the cancellation that came before the registration is
\* caught up with, the event registered and the thread (with its timer)
\* started.
StreamStarts(j) ==
  /\ handler[j] = "received"
  /\ Unlocked
  /\ Get(j, FALSE)
  /\ event' = [event EXCEPT ![j] = (sched'.state[j] = "cancelling")]
  /\ handler' = [handler EXCEPT ![j] = "streaming"]
  /\ worker' = [worker EXCEPT ![j] = "starting"]
  /\ timer' = [timer EXCEPT ![j] = "armed"]
  /\ stream' = [stream EXCEPT ![j] = "pending"]
  /\ UNCHANGED <<audio, failed, events, lock, stopped>>

Receive(j) ==
  \/ StorageOpens(j) \/ StorageFails(j)
  \/ ReceiveChunk(j) \/ UploadFails(j) \/ UploadEnds(j)
  \/ Discard(j) \/ DiscardFails(j) \/ Withdraw(j) \/ WithdrawEnds(j)
  \/ StreamStarts(j)

-----------------------------------------------------------------------------
(* run(): the job's thread.                                                *)

WorkerGoes(j, to) ==
  /\ worker' = [worker EXCEPT ![j] = to]
  /\ UNCHANGED <<handler, stream, lock>>

\* begin_processing; InvalidJobState if the job has been cancelled meanwhile.
WorkerBegins(j) ==
  /\ worker[j] = "starting"
  /\ \/ /\ BeginProcessing(j)
        /\ WorkerGoes(j, "processing")
        /\ UNCHANGED failed
     \/ /\ sched.state[j] # "uploading"
        /\ WorkerGoes(j, "cleaning")
        /\ failed' = [failed EXCEPT ![j] = TRUE]
        /\ UNCHANGED sched
  /\ UNCHANGED <<audio, timer, events, event, stopped>>

\* The processor calls emit.
ProcessorEmits(j) ==
  /\ worker[j] = "processing"
  /\ WorkerGoes(j, "emitting")
  /\ UNCHANGED <<sched, audio, timer, failed, events, event, stopped>>

\* Fault: emit waits for room even if the job is cancelled.
EmitWaits(j) ==
  /\ worker[j] = "emitting"
  /\ HasRoom(j)
  /\ events' = [events EXCEPT ![j] = Append(@, "progress")]
  /\ WorkerGoes(j, "processing")
  /\ UNCHANGED <<sched, audio, timer, failed, event, stopped>>

\* emit: it waits for room in the queue until the job is cancelled.
EmitReturns(j) ==
  /\ worker[j] = "emitting"
  /\ \/ event[j] /\ UNCHANGED events
     \/ ~event[j] /\ HasRoom(j)
        /\ events' = [events EXCEPT ![j] = Append(@, "progress")]
  /\ WorkerGoes(j, "processing")
  /\ UNCHANGED <<sched, audio, timer, failed, event, stopped>>

\* processor.process returns, or raises.
ProcessorEnds(j) ==
  /\ worker[j] = "processing"
  /\ \E raised \in BOOLEAN : failed' = [failed EXCEPT ![j] = raised]
  /\ WorkerGoes(j, "cleaning")
  /\ UNCHANGED <<sched, audio, timer, events, event>>
  /\ stopped' = stopped \ {j}

\* timer.cancel, timer.join and the deletion of the file.
WorkerCleansUp(j) ==
  /\ worker[j] = "cleaning"
  /\ timer[j] \in {"armed", "done"}
  /\ timer' = [timer EXCEPT ![j] = "off"]
  /\ \/ /\ audio' = [audio EXCEPT ![j] = FALSE]
        /\ UNCHANGED failed
     \/ /\ j \in StuckFiles
        /\ failed' = [failed EXCEPT ![j] = TRUE]
        /\ UNCHANGED audio
  /\ WorkerGoes(j, "settling")
  /\ UNCHANGED <<sched, events, event, stopped>>

\* The verdict, while the event cannot change: scheduler.cancel and
\* finish_cancel, fail, or complete.
Settles(j) ==
  \/ event[j] /\ sched' = CancelFinished(Cancelled(Reap(sched), j), j)
  \/ ~event[j] /\ failed[j] /\ Fail(j)
  \/ ~event[j] /\ ~failed[j] /\ Complete(j)

WorkerSettles(j) ==
  /\ worker[j] = "settling"
  /\ Unlocked
  /\ Settles(j)
  /\ WorkerGoes(j, "reporting")
  /\ UNCHANGED <<audio, timer, failed, events, event, stopped>>

\* Fault: the stream reports what the processor did.
ResultOfProcessor(j) == IF failed[j] THEN "error" ELSE "ok"

\* What the stream is told at last.
Result(j) == IF event[j] \/ failed[j] THEN "error" ELSE "ok"

\* emit waits for room, put_nowait does not.  The locals of run() are not read
\* again, and get their first values back.
WorkerReports(j) ==
  /\ worker[j] = "reporting"
  /\ \/ HasRoom(j) /\ events' = [events EXCEPT ![j] = Append(@, Result(j))]
     \/ ~HasRoom(j) /\ event[j] /\ UNCHANGED events
  /\ WorkerGoes(j, "ending")
  /\ event' = [event EXCEPT ![j] = FALSE]
  /\ failed' = [failed EXCEPT ![j] = FALSE]
  /\ UNCHANGED <<sched, audio, timer, stopped>>

\* The end mark, for which the thread waits a second, and finished.set().
WorkerEnds(j) ==
  /\ worker[j] = "ending"
  /\ \/ HasRoom(j) /\ events' = [events EXCEPT ![j] = Append(@, "END")]
     \/ ~HasRoom(j) /\ UNCHANGED events
  /\ WorkerGoes(j, "done")
  /\ UNCHANGED <<sched, audio, timer, failed, event, stopped>>

\* The steps that the thread takes by itself; the processor ends in its own
\* time.
WorkerSteps(j) ==
  \/ WorkerBegins(j) \/ EmitReturns(j) \/ WorkerCleansUp(j)
  \/ WorkerReports(j) \/ WorkerEnds(j)

Work(j) ==
  \/ WorkerSteps(j) \/ ProcessorEmits(j) \/ ProcessorEnds(j) \/ WorkerSettles(j)

-----------------------------------------------------------------------------
(* The timer, and InferenceService.cancel.                                 *)

\* job_timeout_seconds have passed: timeout_job sets timed_out.
TimerFires(j) ==
  /\ timer[j] = "armed"
  /\ timer' = [timer EXCEPT ![j] = "fired"]
  /\ UNCHANGED <<sched, handler, audio, worker, failed, event, events, stream,
                 lock, stopped>>

\* The caller `by` is at the state `to` of its call of cancel.
Caller(by, j, to) ==
  /\ timer' = IF by = "timer" THEN [timer EXCEPT ![j] = to] ELSE timer
  /\ stream' = IF by = "stream" THEN [stream EXCEPT ![j] = to] ELSE stream
  /\ UNCHANGED <<handler, audio, worker, failed, events>>

After(by) == IF by = "timer" THEN "done" ELSE "closed"

\* cancel takes _lock and marks the job; JobNotFound ends the call.
CancelBegins(by, j) ==
  /\ by = "timer" => timer[j] = "fired"
  /\ by = "stream" => stream[j] = "closing" /\ ~Finished(j)
  /\ Unlocked
  /\ Cancel(j)
  /\ IF sched'.state[j] = "unknown"
       THEN Caller(by, j, After(by)) /\ UNCHANGED lock
       ELSE /\ Caller(by, j, "cancelling")
            /\ lock' = [by |-> by, job |-> j]
  /\ UNCHANGED <<event, stopped>>

\* Fault: the processor is stopped whoever it works for.
CancelEndsUnchecked ==
  /\ ~Unlocked
  /\ event' = [event EXCEPT ![lock.job] = @ \/ Registered(lock.job)]
  /\ stopped' = stopped \cup {k \in Jobs : InProcessor(k)}
  /\ Caller(lock.by, lock.job, After(lock.by))
  /\ lock' = NoCancellation
  /\ UNCHANGED sched

\* If the job's event is registered it is set, and the processor is told to
\* stop what it does.
CancelEnds ==
  /\ ~Unlocked
  /\ IF Registered(lock.job)
       THEN /\ event' = [event EXCEPT ![lock.job] = TRUE]
            /\ stopped' = stopped \cup {k \in Jobs : InProcessor(k)}
       ELSE UNCHANGED <<event, stopped>>
  /\ Caller(lock.by, lock.job, After(lock.by))
  /\ lock' = NoCancellation
  /\ UNCHANGED sched

-----------------------------------------------------------------------------
(* generate(), and the response that iterates over it.                     *)

StreamGoes(j, to) ==
  /\ stream' = [stream EXCEPT ![j] = to]
  /\ UNCHANGED <<sched, handler, audio, worker, timer, failed, event, lock,
                 stopped>>

\* The first event is asked for, or the client is gone before that and the
\* generator, never started, runs no finally clause.
StreamOpens(j) ==
  /\ stream[j] = "pending"
  /\ \E to \in {"open", "closed"} : StreamGoes(j, to)
  /\ UNCHANGED events

\* events.get.
StreamReads(j) ==
  /\ stream[j] = "open"
  /\ events[j] # << >>
  /\ events' = [events EXCEPT ![j] = Tail(@)]
  /\ StreamGoes(j, IF Head(events[j]) = "END" THEN "completed" ELSE "yielded")

\* The queue stays empty, and the thread has finished.
StreamRunsDry(j) ==
  /\ stream[j] = "open"
  /\ events[j] = << >> /\ Finished(j)
  /\ StreamGoes(j, "completed")
  /\ UNCHANGED events

\* The event has been sent, or the client is gone and the generator is closed.
StreamResumes(j) ==
  /\ stream[j] = "yielded"
  /\ \E to \in {"open", "closing"} : StreamGoes(j, to)
  /\ UNCHANGED events

\* A closed generator whose thread has finished cancels nothing.
StreamCloses(j) ==
  /\ stream[j] = "closing"
  /\ Finished(j)
  /\ StreamGoes(j, "closed")
  /\ UNCHANGED events

Generate(j) ==
  \/ StreamOpens(j) \/ StreamReads(j) \/ StreamRunsDry(j)
  \/ StreamResumes(j) \/ StreamCloses(j)

-----------------------------------------------------------------------------
ServiceNext ==
  \/ \E j \in Jobs :
       \/ \E allowQueue \in BOOLEAN : Reserve(j, allowQueue)
       \/ \E renew \in BOOLEAN : Status(j, renew)
       \/ UploadStarts(j)
       \/ Receive(j)
       \/ Work(j)
       \/ TimerFires(j)
       \/ \E by \in Cancellers : CancelBegins(by, j)
       \/ Generate(j)
  \/ CancelEnds
  \/ TimePasses

ServiceSpec == ServiceInit /\ [][ServiceNext]_serviceVars

(* The upload and job timeouts end what a client or an engine draws out;   *)
(* whoever waits for _lock gets it in the end; an engine that is cancelled *)
(* stops, because it asks is_cancelled between any two events.  Nothing is *)
(* assumed of clients, nor of the response that reads the events.          *)
ServiceFairness ==
  /\ \A j \in Jobs :
       /\ WF_serviceVars(\/ StorageOpens(j) \/ StorageFails(j) \/ Discard(j)
                         \/ Withdraw(j) \/ WithdrawEnds(j))
       /\ WF_serviceVars(UploadFails(j) \/ UploadEnds(j))
       /\ SF_serviceVars(StreamStarts(j))
       /\ WF_serviceVars(WorkerSteps(j))
       /\ SF_serviceVars(event[j] /\ ProcessorEnds(j))
       /\ SF_serviceVars(WorkerSettles(j))
       /\ WF_serviceVars(TimerFires(j))
       /\ SF_serviceVars(CancelBegins("timer", j))
  /\ WF_serviceVars(CancelEnds)

ServiceFairSpec == ServiceSpec /\ ServiceFairness

-----------------------------------------------------------------------------
(* Properties.                                                             *)

\* Every variable has its type.
ServiceTypeOK ==
  /\ TypeOK
  /\ handler \in [Jobs -> Handlers]
  /\ audio \in [Jobs -> BOOLEAN]
  /\ worker \in [Jobs -> Workers]
  /\ timer \in [Jobs -> Timers]
  /\ failed \in [Jobs -> BOOLEAN]
  /\ event \in [Jobs -> BOOLEAN]
  /\ \A j \in Jobs : events[j] \in Seq(Events) /\ Len(events[j]) <= QueueSize
  /\ stream \in [Jobs -> Streams]
  /\ lock \in [by : Cancellers, job : Jobs] \cup {NoCancellation}
  /\ stopped \subseteq Jobs

\* No two workflows execute at once: the processor works for the job that has
\* the slot, and the slot is not released, by cancellation or timeout, before
\* processor.process has returned.
OneWorkflow ==
  \A j \in Jobs : InProcessor(j) =>
    sched.active = j /\ sched.state[j] \in {"running", "cancelling"}

\* processor.cancel() knows no job: it stops whatever runs.  It only ever stops
\* a job whose own cancellation was asked for, never the next one.
OwnCancellation == \A j \in stopped : event[j]

\* A job that is being cancelled has its event set as soon as there is one: the
\* cancellations that come before, during and after stream_processing all
\* reach the thread.
CancellationReachesThread ==
  \A j \in Jobs :
    sched.state[j] = "cancelling" /\ Registered(j) /\ Unlocked => event[j]

\* A thread that is about to give its verdict without having been cancelled
\* finds its job running: fail and complete do not raise InvalidJobState in
\* the finally clause, where nobody would tell the stream.
VerdictIsAccepted ==
  \A j \in Jobs :
    worker[j] = "settling" /\ Unlocked /\ ~event[j] => sched.state[j] = "running"

\* The result that ends the stream agrees with the state that the scheduler
\* shows for the job, as long as it shows one.
StreamTellsVerdict ==
  \A j \in Jobs :
    /\ "ok" \in Members(events[j]) => sched.state[j] \in {"completed", "unknown"}
    /\ "error" \in Members(events[j]) =>
         sched.state[j] \in {"failed", "cancelled", "unknown"}

\* Zero retention: an uploaded file that can be deleted exists only while its
\* job has the slot, so no path to a terminal state leaves one behind.
UploadIsDeleted ==
  \A j \in Jobs \ StuckFiles : audio[j] =>
    sched.active = j /\ sched.state[j] \in OwnedStates

\* A coroutine or a thread is there that will give the job's slot back.
HasOwner(j) ==
  \/ handler[j] \notin {"none", "streaming", "raised"}
  \/ Registered(j)

\* A job that owns the slot, which no deadline takes away, has somebody who will
\* give it back, as long as its file can be deleted.
SlotHasOwner ==
  \A j \in Jobs \ StuckFiles : sched.state[j] \in OwnedStates => HasOwner(j)

\* The slot is worked for: by one workflow at most, and, if its job is past the
\* deadlines, by somebody who will give it back.
SlotIsWorkedFor == OneWorkflow /\ SlotHasOwner

\* A cancellation arrives, whenever it comes, at the job it was asked for and
\* at no other.
CancellationArrives == OwnCancellation /\ CancellationReachesThread

\* The scheduler takes the verdict that a thread gives, and the stream tells it.
VerdictIsTold == VerdictIsAccepted /\ StreamTellsVerdict

\* The service does what SchedulerFairSpec assumes of the owners of the slot:
\* each upload, run and cancellation comes to an end.
SlotOwnersFinish == OwnersFinish

=============================================================================
