---------------------------- MODULE LocalWorker ----------------------------
(***************************************************************************)
(* The tasks of a job on local worker processes:                           *)
(*   server/processor.py   process, _run_with_cpu_retry (one thread)       *)
(*   plugins/registry.py   _run, cancel                                    *)
(*   inference.py          LocalInferenceBackend (run_*_worker,            *)
(*                         _next_message, _cleanup, cancel)                *)
(*   worker_errors.py      what a worker says of its device and failures   *)
(* with the worker process, the queue through which it reports, and a      *)
(* canceller: InferenceService.cancel on another thread.                   *)
(*                                                                         *)
(*   call       the thread of the job: `at` is where it stands, `outcome`  *)
(*              how the last worker call ended, `device` what the plugin's *)
(*              settings say, `seen` is worker_state["device"]             *)
(*   flag       is_cancelled() of the job (its cancel_event is set)        *)
(*   active     whether registry._active is set                            *)
(*   event      _cancel_event of the backend                               *)
(*   process    whether _process is set                                    *)
(*   canceller  how far a cancellation has come                            *)
(*   child      the worker process, `done` the items it has put            *)
(*   buffer     what the child has put and its feeder thread not yet       *)
(*              written;  pipe  what has been written and not been read    *)
(*   told       the items emitted since the last task_started event        *)
(*   tried      (history) the device of the worker whose failure led to    *)
(*              the retry that is under way                                *)
(*                                                                         *)
(* "cpu" stands for "mps" too: neither is retried.  An item is a segment   *)
(* or a step of progress; log and status messages change nothing.          *)
(***************************************************************************)
EXTENDS Naturals, Sequences

CONSTANTS
  Tasks,    \* how many tasks a job has
  Items,    \* how many items a whole task has
  CutShort  \* whether a process that dies may leave half a message behind:
            \* one longer than what the pipe takes at once

ASSUME WorkerAssumption == Tasks \in Nat \ {0} /\ Items \in Nat /\ CutShort \in BOOLEAN

VARIABLES call, flag, active, event, process, canceller, child, buffer, pipe,
          told, tried

queueVars == <<buffer, pipe>>
backendVars == <<event, process>>
workerVars == <<call, flag, active, event, process, canceller, child, buffer, pipe,
          told, tried>>

Places == {"between", "preparing", "looking", "calling", "starting", "registering",
           "polling", "getting", "checking", "cleaning", "leaving", "judging", "over"}

Outcomes == {"none", "ok", "gpu", "other", "crash", "cancelled"}

Devices == {"unknown", "cuda", "cpu"}

Messages ==
  [type : {"state"}, device : Devices] \cup [type : {"item"}, number : 1 .. Items]
    \cup [type : {"result"}, outcome : {"ok", "gpu", "other"}] \cup [type : {"half"}]

NoChild == [is |-> "none", device |-> "unknown", done |-> 0]

NoCall == [at |-> "between", task |-> 1, retry |-> FALSE, outcome |-> "none",
           device |-> "auto", seen |-> "unknown"]

\* The device that a worker is asked for: device_override in a retry.
Requested == IF call.retry THEN "cpu" ELSE call.device

\* What is known of the device before the worker has said so; both sides
\* begin with it.
Presumed(requested) == IF requested = "cpu" THEN "cpu" ELSE "unknown"

Goes(place) == call' = [call EXCEPT !.at = place]

\* The worker call ends like that.
Ends(outcome) == call' = [call EXCEPT !.at = "cleaning", !.outcome = outcome]

-----------------------------------------------------------------------------
(* The worker process.                                                     *)

Puts(message) == buffer' = Append(buffer, message) /\ UNCHANGED pipe

ChildActs == UNCHANGED <<call, flag, active, event, process, canceller, told, tried>>

\* The device is selected, and reported before it is used.  (The other reports
\* of the worker's state repeat what is known.)
SelectsDevice ==
  /\ child.is = "working" /\ child.device = "unknown"
  /\ \E d \in IF Requested = "auto" THEN {"cuda", "cpu"} ELSE {Requested} :
       /\ child' = [child EXCEPT !.device = d]
       /\ Puts([type |-> "state", device |-> d])
  /\ ChildActs

\* A segment, or progress.
PutsItem ==
  /\ child.is = "working" /\ child.device # "unknown" /\ child.done < Items
  /\ child' = [child EXCEPT !.done = @ + 1]
  /\ Puts([type |-> "item", number |-> child.done + 1])
  /\ ChildActs

\* The result, after all items, or a failure, which is classified as one of the
\* GPU only if the device is not the CPU.
PutsResult ==
  /\ child.is = "working"
  /\ \E outcome \in {"ok", "gpu", "other"} :
       /\ outcome = "ok" => child.device # "unknown" /\ child.done = Items
       /\ outcome = "gpu" => child.device # "cpu"
       /\ Puts([type |-> "result", outcome |-> outcome])
  /\ child' = [child EXCEPT !.is = "finished"]
  /\ ChildActs

\* The feeder thread of the child writes a message into the pipe.
FeederWrites ==
  /\ child.is \in {"working", "finished"} /\ buffer # << >>
  /\ pipe' = Append(pipe, Head(buffer)) /\ buffer' = Tail(buffer)
  /\ UNCHANGED child
  /\ ChildActs

\* A process ends when its feeder has written everything.
ChildExits ==
  /\ child.is = "finished" /\ buffer = << >>
  /\ child' = [child EXCEPT !.is = "dead"]
  /\ UNCHANGED queueVars
  /\ ChildActs

\* A process that is killed or crashes loses what is still in its buffer; the
\* message that is just being written may be cut in two.
Dies ==
  /\ child' = [child EXCEPT !.is = "dead"]
  /\ buffer' = << >>
  /\ \/ UNCHANGED pipe
     \/ CutShort /\ buffer # << >> /\ pipe' = Append(pipe, [type |-> "half"])

IsAlive == child.is \in {"working", "finished"}

ChildCrashes == IsAlive /\ Dies /\ ChildActs

\* terminate() on a child that is alive.
Terminate == IF IsAlive THEN Dies ELSE UNCHANGED <<child, buffer, pipe>>

-----------------------------------------------------------------------------
(* The thread of the job.                                                  *)

CallerOnly == UNCHANGED <<flag, active, canceller, child, buffer, pipe>>

\* The workflow begins.  The plugin's device setting is what it is for the
\* whole job.
JobBegins ==
  /\ call.at = "between"
  /\ \E d \in {"auto", "cuda", "cpu"} :
       call' = [NoCall EXCEPT !.at = "preparing", !.device = d]
  /\ CallerOnly /\ UNCHANGED <<event, process, told, tried>>

\* The audio is validated and converted, or refused.
Prepares ==
  /\ call.at = "preparing"
  /\ Goes("looking") \/ Goes("over")
  /\ CallerOnly /\ UNCHANGED <<event, process, told, tried>>

\* The loop over the tasks, which returns if the job has been cancelled.
LooksAtTask ==
  /\ call.at = "looking"
  /\ \/ flag /\ Goes("over") /\ UNCHANGED told
     \/ /\ ~flag /\ told' = << >>
        /\ call' = [call EXCEPT !.at = "calling", !.retry = FALSE]
  /\ CallerOnly /\ UNCHANGED <<event, process, tried>>

\* registry._run: the backend becomes the active one.
EntersRegistry ==
  /\ call.at = "calling" /\ ~active
  /\ active' = TRUE
  /\ Goes("starting")
  /\ UNCHANGED <<flag, event, process, canceller, child, buffer, pipe, told, tried>>

\* Fault: what is known of the device is kept from the worker before.
StartsWorkerKnowingly ==
  /\ call.at = "starting"
  /\ event' = FALSE
  /\ child' = [NoChild EXCEPT !.is = "working", !.device = Presumed(Requested)]
  /\ Goes("registering")
  /\ UNCHANGED <<flag, active, process, canceller, buffer, pipe, told, tried>>

\* The old cancellation is cleared and the process started.
StartsWorker ==
  /\ call.at = "starting"
  /\ event' = FALSE
  /\ child' = [NoChild EXCEPT !.is = "working", !.device = Presumed(Requested)]
  /\ call' = [call EXCEPT !.at = "registering", !.seen = Presumed(Requested)]
  /\ UNCHANGED <<flag, active, process, canceller, buffer, pipe, told, tried>>

\* _set_active.
RegistersProcess ==
  /\ call.at = "registering"
  /\ process' = TRUE
  /\ Goes("polling")
  /\ CallerOnly /\ UNCHANGED <<event, told, tried>>

\* The head of _next_message: a cancellation, noticed by either sign of it, is
\* passed on to the worker and raised.
Polls ==
  /\ call.at = "polling"
  /\ \/ /\ event \/ flag
        /\ event' = TRUE /\ Terminate
        /\ Ends("cancelled")
     \/ /\ ~event /\ ~flag
        /\ Goes("getting")
        /\ UNCHANGED <<event, child, buffer, pipe>>
  /\ UNCHANGED <<flag, active, process, canceller, told, tried>>

\* A message is read in time, and handled.  One that was cut in two is never
\* complete: the reader waits for the rest without a timeout.
Reads ==
  /\ call.at = "getting" /\ pipe # << >> /\ Head(pipe).type # "half"
  /\ pipe' = Tail(pipe)
  /\ LET message == Head(pipe)
     IN \/ /\ message.type = "state"
           /\ call' = [call EXCEPT !.at = "polling", !.seen = message.device]
           /\ UNCHANGED told
        \/ /\ message.type = "item"
           /\ told' = Append(told, message.number)
           /\ Goes("polling")
        \/ /\ message.type = "result"
           /\ Ends(message.outcome)
           /\ UNCHANGED told
  /\ UNCHANGED <<flag, active, event, process, canceller, child, buffer, tried>>

\* Nothing came: Empty.
TimesOut ==
  /\ call.at = "getting" /\ pipe = << >>
  /\ Goes("checking")
  /\ CallerOnly /\ UNCHANGED <<event, process, told, tried>>

\* Fault: nobody looks whether the worker lives.
ChecksNothing ==
  /\ call.at = "checking"
  /\ Goes("polling")
  /\ CallerOnly /\ UNCHANGED <<event, process, told, tried>>

\* Only then is the worker looked at.
ChecksWorker ==
  /\ call.at = "checking"
  /\ IF IsAlive THEN Goes("polling") ELSE Ends("crash")
  /\ CallerOnly /\ UNCHANGED <<event, process, told, tried>>

\* Fault: the process is waited for, but not ended.
CleansUpPolitely ==
  /\ call.at = "cleaning"
  /\ IF IsAlive THEN UNCHANGED child ELSE child' = NoChild
  /\ buffer' = << >> /\ pipe' = << >>
  /\ process' = FALSE
  /\ canceller' = IF canceller = "killing" THEN "closed" ELSE canceller
  /\ Goes("leaving")
  /\ tried' = IF call.retry THEN tried ELSE child.device
  /\ UNCHANGED <<flag, active, event, told>>

\* _cleanup: the process is ended if it has not ended by itself, its object and
\* the queue are closed, and the backend forgets them.  A canceller that has
\* read the process finds it closed, which raises, and is ignored.
CleansUp ==
  /\ call.at = "cleaning"
  /\ child' = NoChild /\ buffer' = << >> /\ pipe' = << >>
  /\ process' = FALSE
  /\ canceller' = IF canceller = "killing" THEN "closed" ELSE canceller
  /\ Goes("leaving")
  /\ tried' = IF call.retry THEN tried ELSE child.device
  /\ UNCHANGED <<flag, active, event, told>>

LeavesRegistry ==
  /\ call.at = "leaving"
  /\ active' = FALSE
  /\ Goes("judging")
  /\ UNCHANGED <<flag, event, process, canceller, child, buffer, pipe, told, tried>>

\* WorkerError.allows_cpu_retry.
AllowsRetry ==
  \/ call.outcome = "gpu"
  \/ call.outcome = "crash" /\ call.seen = "cuda"

\* The result is emitted and the next task follows.
TaskSucceeds ==
  /\ call.at = "judging" /\ call.outcome = "ok"
  /\ call' = [call EXCEPT !.at = IF call.task = Tasks THEN "over" ELSE "looking",
                          !.task = @ + 1]
  /\ CallerOnly /\ UNCHANGED <<event, process, told, tried>>

MayRetry == ~call.retry /\ ~flag /\ AllowsRetry /\ call.device = "auto"

\* Fault: the task starts again unannounced.
TaskIsRetriedSilently ==
  /\ call.at = "judging" /\ MayRetry
  /\ call' = [call EXCEPT !.at = "calling", !.retry = TRUE]
  /\ CallerOnly /\ UNCHANGED <<event, process, told, tried>>

\* on_retry announces that the task starts again, and it does, on the CPU.
TaskIsRetried ==
  /\ call.at = "judging" /\ MayRetry
  /\ told' = << >>
  /\ call' = [call EXCEPT !.at = "calling", !.retry = TRUE]
  /\ CallerOnly /\ UNCHANGED <<event, process, tried>>

TaskFails ==
  /\ call.at = "judging" /\ call.outcome # "ok" /\ ~MayRetry
  /\ Goes("over")
  /\ CallerOnly /\ UNCHANGED <<event, process, told, tried>>

\* The thread of the service forgets the job, for which it needs the lock that
\* a canceller holds.
JobEnds ==
  /\ call.at = "over" /\ canceller = "idle"
  /\ call' = NoCall /\ flag' = FALSE /\ told' = << >> /\ tried' = "unknown"
  /\ UNCHANGED <<active, event, process, canceller, child, buffer, pipe>>

-----------------------------------------------------------------------------
(* The canceller.                                                          *)

CancellerOnly == UNCHANGED <<call, active, process, told, tried>>

\* InferenceService.cancel: the cancel_event of the job is set first.
CancelBegins ==
  /\ canceller = "idle" /\ call.at # "between"
  /\ flag' = TRUE /\ canceller' = "looking"
  /\ UNCHANGED <<event, child, buffer, pipe>> /\ CancellerOnly

\* registry.cancel reads the active backend.
CancelLooks ==
  /\ canceller = "looking"
  /\ canceller' = IF active THEN "signalling" ELSE "idle"
  /\ UNCHANGED <<flag, event, child, buffer, pipe>> /\ CancellerOnly

\* The backend's cancel sets its event ...
CancelSignals ==
  /\ canceller = "signalling"
  /\ event' = TRUE /\ canceller' = "reading"
  /\ UNCHANGED <<flag, child, buffer, pipe>> /\ CancellerOnly

\* ... reads the process ...
CancelReads ==
  /\ canceller = "reading"
  /\ canceller' = IF process THEN "killing" ELSE "idle"
  /\ UNCHANGED <<flag, event, child, buffer, pipe>> /\ CancellerOnly

\* ... and terminates it, unless it has been closed meanwhile.
CancelKills ==
  /\ canceller \in {"killing", "closed"}
  /\ IF canceller = "killing" THEN Terminate ELSE UNCHANGED <<child, buffer, pipe>>
  /\ canceller' = "idle"
  /\ UNCHANGED <<flag, event>> /\ CancellerOnly

-----------------------------------------------------------------------------

Caller ==
  \/ Prepares \/ LooksAtTask \/ EntersRegistry \/ StartsWorker \/ RegistersProcess
  \/ Polls \/ Reads \/ TimesOut \/ ChecksWorker \/ CleansUp \/ LeavesRegistry
  \/ TaskSucceeds \/ TaskIsRetried \/ TaskFails \/ JobEnds

Canceller == CancelLooks \/ CancelSignals \/ CancelReads \/ CancelKills

WorkerProcess ==
  \/ SelectsDevice \/ PutsItem \/ PutsResult \/ FeederWrites \/ ChildExits
  \/ ChildCrashes

WorkerInit ==
  /\ call = NoCall /\ flag = FALSE /\ active = FALSE
  /\ event = FALSE /\ process = FALSE /\ canceller = "idle"
  /\ child = NoChild /\ buffer = << >> /\ pipe = << >>
  /\ told = << >> /\ tried = "unknown"

WorkerNext == JobBegins \/ Caller \/ CancelBegins \/ Canceller \/ WorkerProcess

WorkerSpec == WorkerInit /\ [][WorkerNext]_workerVars

-----------------------------------------------------------------------------
(* Safety.                                                                 *)

\* Type invariant; a buffer holds what one worker has put.
WorkerTypeOK ==
  /\ call \in [at : Places, task : 1 .. Tasks + 1, retry : BOOLEAN,
              outcome : Outcomes, device : {"auto", "cuda", "cpu"}, seen : Devices]
  /\ {flag, active, event, process} \subseteq BOOLEAN
  /\ canceller \in {"idle", "looking", "signalling", "reading", "killing", "closed"}
  /\ child \in [is : {"none", "working", "finished", "dead"}, device : Devices,
               done : 0 .. Items]
  /\ \A q \in {buffer, pipe} :
       Len(q) <= Items + 2 /\ \A i \in 1 .. Len(q) : q[i] \in Messages
  /\ Len(told) <= Items /\ \A i \in 1 .. Len(told) : told[i] \in 1 .. Items
  /\ tried \in Devices

\* However a worker call ends, and whoever terminated what, no worker process
\* and none of its messages outlives the call: the next worker is alone.
NothingIsLeftBehind ==
  call.at \notin {"registering", "polling", "getting", "checking", "cleaning"} =>
    child.is = "none" /\ buffer = << >> /\ pipe = << >> /\ ~process

\* A job ends as cancelled only if its own cancellation was asked for, although
\* the backend's event outlives jobs and can be set late.
CancelledWasAsked == call.outcome = "cancelled" => flag

\* A task is not repeated on the CPU if the worker that failed ran there: what
\* the parent believes of the device, from messages that may be lost, is never
\* another worker's.
RetryLeavesCuda == call.retry => tried # "cpu"

\* What the parent concludes of a worker that has ended is true of that worker
\* and that job, whatever it still believes of those before.
ConclusionsAreOwn == CancelledWasAsked /\ RetryLeavesCuda

\* Whoever reads the events sees whole tasks, each from one try, at most two
\* tries of a task, and no result before the last item.
Stream == INSTANCE TaskStream
            WITH phase <- CASE call.at = "between" -> "idle"
                            [] call.at \in {"preparing", "looking"} -> "ready"
                            [] call.at = "over" -> "over"
                            [] OTHER -> "trying",
                 results <- call.task - 1,
                 tries <- IF call.retry THEN 2 ELSE 1

ImplementsTaskStream == Stream!StreamSpec

-----------------------------------------------------------------------------
(* Liveness.  The thread and the canceller go on, and the thread gets the  *)
(* service's lock in the end; nothing is assumed of the worker process.    *)

WorkerFairSpec ==
  /\ WorkerSpec
  /\ WF_workerVars(Caller) /\ WF_workerVars(Canceller) /\ SF_workerVars(JobEnds)

\* A cancelled job ends, whenever the cancellation comes and whatever the worker
\* does: although the event that tells of it may be cleared, and a process that
\* is not yet registered is not terminated.
CancelledEnds == flag ~> call.at = "between"

\* "Shared by every bundled transcription plugin, so they all get the same
\* cancellation, crash detection and cleanup" (noScribe/inference.py): a worker
\* that has died is noticed, also with messages of it still unread.
CrashIsDetected == child.is = "dead" ~> call.at = "cleaning"

\* Nobody waits for ever for a worker: one that has died is noticed, and one
\* that hangs can be cancelled.
NobodyWaitsForEver == CancelledEnds /\ CrashIsDetected

=============================================================================
