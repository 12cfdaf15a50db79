---------------------------- MODULE DesktopQueue ----------------------------
(***************************************************************************)
(* The job queue of the desktop application: TranscriptionQueue of         *)
(* noScribe/jobs.py, the handlers of the buttons in noScribe/main.py,      *)
(* which run on the GUI thread, and transcription_worker with              *)
(* _process_single_job, which run on threads that those handlers start.    *)
(* Both sides read and write the list of jobs, the states of the jobs and  *)
(* the flags `cancel` and `_cancel_job_only` without a lock.               *)
(*                                                                         *)
(*   jobs           queue.jobs                                             *)
(*   status         job.status                                             *)
(*   cancel         self.cancel                                            *)
(*   cancelJobOnly  self._cancel_job_only                                  *)
(*   worker         what each thread is doing: `at` names the stretch of   *)
(*                  code, `job` and `first` (start_job_index) are locals,  *)
(*                  `raised` is the exception on its way to the worker     *)
(*   dialog         the modal question of a job's X button: "none", or     *)
(*                  what will be done with which job if the user confirms  *)
(*   asked          (history) the jobs that the user has asked to cancel   *)
(*   due            (history) the waiting jobs that the user has started   *)
(*   closed         whether on_closing has run                             *)
(*                                                                         *)
(* The other handlers compute what they do after their question has been   *)
(* answered and are one action.  Modal questions exclude each other.       *)
(***************************************************************************)
EXTENDS Line

CONSTANTS
  Jobs,       \* the jobs
  Workers,    \* the threads
  NoJob,      \* no job
  Liberties   \* what the user may do, of Imprudent

\* Moments at which a click finds the threads in a state that its handler does
\* not foresee:
\*   "late answer"       a thread goes on while a job's question is open
\*   "quick click"       a thread is started, or jobs are removed or repeated,
\*                       while another thread is between two jobs
\*   "remove cancelling" a job that is being cancelled is removed
Imprudent == {"late answer", "quick click", "remove cancelling"}

ASSUME QueueAssumption == NoJob \notin Jobs /\ Liberties \subseteq Imprudent

VARIABLES jobs, status, cancel, cancelJobOnly, worker, dialog, asked, due, closed

vars == <<jobs, status, cancel, cancelJobOnly, worker, dialog, asked, due, closed>>

flags == <<cancel, cancelJobOnly>>
user == <<dialog, closed>>

\* The statuses that show the job at work, with the button that cancels it.
WorkStatuses == {"audio_conversion", "waiting_for_server",
                 "speaker_identification", "transcription"}

RUNNING_STATUSES == WorkStatuses \cup {"canceling"}

\* "none" before the job is created.
JobStatus == {"none", "waiting", "canceled", "finished", "error"} \cup RUNNING_STATUSES

\* Inside _process_single_job.
Stages == {"converting", "identifying", "transcribing", "checking"}

Between == {"starting", "looping", "picked", "failing", "finishing", "resetting"}

Idle == [at |-> "idle", job |-> NoJob, first |-> 0, raised |-> "nothing"]

NoDialog == [asks |-> "none", job |-> NoJob]

Waiting == {j \in Members(jobs) : status[j] = "waiting"}
Running == {j \in Members(jobs) : status[j] \in RUNNING_STATUSES}

\* The thread is at work on a job, up to the end of _process_single_job.
Processing(w) == worker[w].at \in Stages

QueueInit ==
  /\ jobs = << >>
  /\ status = [j \in Jobs |-> "none"]
  /\ cancel = FALSE /\ cancelJobOnly = FALSE
  /\ worker = [w \in Workers |-> Idle]
  /\ dialog = NoDialog
  /\ asked = {} /\ due = {}
  /\ closed = FALSE

-----------------------------------------------------------------------------
(* The buttons.                                                            *)

\* The GUI thread handles a click: no question is open, nor the window closed.
Click == dialog = NoDialog /\ ~closed

\* A click that finds a thread between two jobs is a quick one.
Unhurried ==
  "quick click" \in Liberties \/ \A w \in Workers : worker[w].at \notin Between

\* Threads are alike: a new one is any that is not in use.
IdleWorkers == {w \in Workers : worker[w] = Idle}
NewWorker == CHOOSE w \in IdleWorkers : TRUE

\* Thread(target=self.transcription_worker, ...).start(); index 0 counts as no
\* start_job_index.
StartWorker(index) ==
  /\ IdleWorkers # {}
  /\ worker' = [worker EXCEPT ![NewWorker].at = "starting", ![NewWorker].first = index]

\* create_job: the job is added, and a thread started unless it is only to be
\* queued or another job runs.
CreateJob(j, enqueue) ==
  /\ Click
  /\ j \notin Members(jobs) /\ \A w \in Workers : worker[w].job # j
  /\ jobs' = Append(jobs, j)
  /\ status' = [status EXCEPT ![j] = "waiting"]
  /\ IF enqueue \/ Running # {} THEN UNCHANGED worker
     ELSE Unhurried /\ StartWorker(Len(jobs))
  /\ asked' = asked \ {j}
  /\ due' = IF enqueue THEN due \ {j} ELSE due \cup {j}
  /\ UNCHANGED <<flags, user>>

\* on_queue_run.
Run ==
  /\ Click
  /\ Waiting # {}
  /\ IF Running # {} THEN UNCHANGED worker ELSE Unhurried /\ StartWorker(0)
  /\ due' = due \cup Waiting
  /\ UNCHANGED <<jobs, status, flags, user, asked>>

\* on_queue_stop, once confirmed.
StopAll ==
  /\ status' = [j \in Jobs |-> IF j \in Waiting THEN "canceled"
                               ELSE IF j \in Running THEN "canceling"
                               ELSE status[j]]
  /\ cancel' = TRUE /\ cancelJobOnly' = FALSE
  /\ asked' = asked \cup Waiting \cup Running
  /\ UNCHANGED <<jobs, worker, dialog, due>>

Stop == Click /\ StopAll /\ UNCHANGED closed

\* on_closing: the threads have two seconds each before the process ends.
Close == Click /\ StopAll /\ closed' = TRUE

\* on_queue_clear, once confirmed: clear_inactive.
Clear ==
  /\ Click /\ Unhurried
  /\ jobs' = Without(jobs, Members(jobs) \ Running)
  /\ UNCHANGED <<status, flags, worker, user, asked, due>>

\* _on_queue_row_action: the state of the job decides what is asked.
RowAsk(j) ==
  /\ Click
  /\ j \in Members(jobs)
  /\ dialog' = [asks |-> IF status[j] \in WorkStatuses THEN "cancel" ELSE "remove",
                job |-> j]
  /\ status[j] \notin WorkStatuses => Unhurried
  /\ status[j] = "canceling" => "remove cancelling" \in Liberties
  /\ UNCHANGED <<jobs, status, flags, worker, asked, due, closed>>

\* The answer no.
RowDismiss ==
  /\ dialog # NoDialog
  /\ dialog' = NoDialog
  /\ UNCHANGED <<jobs, status, flags, worker, asked, due, closed>>

\* Confirmed: a job that waits, has ended or is being cancelled is removed.
RowRemove ==
  /\ dialog.asks = "remove"
  /\ jobs' = Without(jobs, {dialog.job})
  /\ dialog' = NoDialog
  /\ UNCHANGED <<status, flags, worker, asked, due, closed>>

\* Confirmed: the job that ran when the question was asked is cancelled.
RowCancel ==
  /\ dialog.asks = "cancel"
  /\ status' = [status EXCEPT ![dialog.job] = "canceling"]
  /\ cancel' = TRUE /\ cancelJobOnly' = TRUE
  /\ asked' = asked \cup {dialog.job}
  /\ dialog' = NoDialog
  /\ UNCHANGED <<jobs, worker, due, closed>>

\* _on_queue_row_repeat.
RowRepeat(j) ==
  /\ Click
  /\ j \in Members(jobs)
  /\ status[j] \in {"error", "canceled"}
  /\ Unhurried
  /\ status' = [status EXCEPT ![j] = "waiting"]
  /\ asked' = asked \ {j}
  /\ due' = due \cup {j}
  /\ IF Running # {} THEN UNCHANGED worker
     ELSE \E i \in 1 .. Len(jobs) : jobs[i] = j /\ StartWorker(i - 1)
  /\ UNCHANGED <<jobs, flags, user>>

Answer == RowDismiss \/ RowRemove \/ RowCancel

-----------------------------------------------------------------------------
(* The threads.                                                            *)

\* The thread goes on to the next stretch of code.
WorkerGoes(w, to) ==
  /\ worker' = [worker EXCEPT ![w].at = to]
  /\ UNCHANGED <<jobs, user, due>>

\* Its job has the status s from now on.
Shows(w, s) == status' = [status EXCEPT ![worker[w].job] = s]

\* transcription_worker forgets earlier cancellations.
WorkerStarts(w) ==
  /\ worker[w].at = "starting"
  /\ cancel' = FALSE
  /\ WorkerGoes(w, "looping")
  /\ UNCHANGED <<status, cancelJobOnly, asked>>

\* The job at start_job_index if it waits, or else the first that does.
NextJob(w) ==
  LET first   == worker[w].first
      waiting == {i \in 1 .. Len(jobs) : status[jobs[i]] = "waiting"}
      next    == CHOOSE i \in waiting : \A k \in waiting : i <= k
  IN  IF first > 0 /\ first + 1 \in waiting THEN jobs[first + 1] ELSE jobs[next]

\* Nothing waits: the thread ends.
WorkerEnds(w) ==
  /\ worker[w].at = "looping"
  /\ Waiting = {}
  /\ worker' = [worker EXCEPT ![w] = Idle]
  /\ UNCHANGED <<jobs, status, flags, user, asked, due>>

\* Stop was pressed: what waits, also what was added since, is cancelled.
WorkerStops(w) ==
  /\ worker[w].at = "looping"
  /\ Waiting # {} /\ cancel /\ ~cancelJobOnly
  /\ status' = [j \in Jobs |-> IF j \in Waiting THEN "canceled" ELSE status[j]]
  /\ worker' = [worker EXCEPT ![w] = Idle]
  /\ UNCHANGED <<jobs, flags, user, asked, due>>

WorkerPicks(w) ==
  /\ worker[w].at = "looping"
  /\ Waiting # {} /\ ~(cancel /\ ~cancelJobOnly)
  /\ worker' = [worker EXCEPT ![w].at = "picked", ![w].job = NextJob(w)]
  /\ UNCHANGED <<jobs, status, flags, user, asked, due>>

\* Fault: earlier cancellations are forgotten with every job.
WorkerBeginsAfresh(w) ==
  /\ worker[w].at = "picked"
  /\ Shows(w, "audio_conversion")
  /\ cancel' = FALSE
  /\ WorkerGoes(w, "converting")
  /\ UNCHANGED <<cancelJobOnly, asked>>

\* set_running.
WorkerBegins(w) ==
  /\ worker[w].at = "picked"
  /\ Shows(w, "audio_conversion")
  /\ WorkerGoes(w, "converting")
  /\ UNCHANGED <<flags, asked>>

\* The audio is converted, and the speakers are to be identified.
Identifies(w) ==
  /\ worker[w].at = "converting"
  /\ Shows(w, "speaker_identification")
  /\ WorkerGoes(w, "identifying")
  /\ UNCHANGED <<flags, asked>>

\* Transcription begins; in one workflow with the identification (a remote
\* one) it keeps the status until the server reports.
Transcribes(w) ==
  /\ worker[w].at \in {"converting", "identifying"}
  /\ \/ Shows(w, "transcription")
     \/ worker[w].at = "identifying" /\ UNCHANGED status
  /\ WorkerGoes(w, "transcribing")
  /\ UNCHANGED <<flags, asked>>

\* The engine reports where the job is, whatever has been asked since.
EngineReports(w) ==
  /\ worker[w].at = "transcribing"
  /\ \E s \in WorkStatuses \ {"audio_conversion"} : Shows(w, s)
  /\ WorkerGoes(w, "transcribing")
  /\ UNCHANGED <<flags, asked>>

\* The transcript is complete; the voice check follows.
ChecksVoices(w) ==
  /\ worker[w].at = "transcribing"
  /\ WorkerGoes(w, "checking")
  /\ UNCHANGED <<status, flags, asked>>

\* The voice check ends, also because it has been stopped: the job is complete.
Completes(w) ==
  /\ worker[w].at = "checking"
  /\ WorkerGoes(w, "finishing")
  /\ UNCHANGED <<status, flags, asked>>

\* An exception, of an engine or because cancel is set.  Conversion and
\* identification set the job's verdict before they pass it on, and only they
\* tell a cancellation by the message.
Raises(w) ==
  /\ worker[w].at \in {"converting", "identifying", "transcribing"}
  /\ \E told \in {"cancellation", "error"} :
       /\ told = "cancellation" => cancel /\ worker[w].at # "transcribing"
       /\ worker[w].at = "identifying" /\ cancel => told = "cancellation"
       /\ worker' = [worker EXCEPT ![w].at = "failing", ![w].raised = told]
  /\ IF worker[w].at = "transcribing" THEN UNCHANGED status
     ELSE Shows(w, IF cancel THEN "canceled" ELSE "error")
  /\ UNCHANGED <<jobs, flags, user, asked, due>>

\* Fault: a cancelled job gets no verdict.
FailsSilently(w) ==
  /\ worker[w].at = "failing"
  /\ IF cancel THEN UNCHANGED status ELSE Shows(w, "error")
  /\ worker' = [worker EXCEPT ![w].at = "resetting", ![w].raised = "nothing"]
  /\ asked' = asked \ {worker[w].job}
  /\ UNCHANGED <<jobs, flags, user, due>>

\* The except clause of the worker: set_canceled or set_error.
Fails(w) ==
  /\ worker[w].at = "failing"
  /\ Shows(w, IF worker[w].raised = "cancellation" \/ cancel THEN "canceled"
                                                             ELSE "error")
  /\ worker' = [worker EXCEPT ![w].at = "resetting", ![w].raised = "nothing"]
  /\ asked' = asked \ {worker[w].job}
  /\ UNCHANGED <<jobs, flags, user, due>>

\* set_finished.
Finishes(w) ==
  /\ worker[w].at = "finishing"
  /\ Shows(w, "finished")
  /\ WorkerGoes(w, "resetting")
  /\ asked' = asked \ {worker[w].job}
  /\ UNCHANGED flags

\* Fault: the flags are not reset after a single cancellation.
ResetsNothing(w) ==
  /\ worker[w].at = "resetting"
  /\ worker' = [worker EXCEPT ![w].at = "looping", ![w].job = NoJob]
  /\ UNCHANGED <<jobs, status, flags, user, asked, due>>

\* Fault: the thread ends with its job.
ResetsAndEnds(w) ==
  /\ worker[w].at = "resetting"
  /\ cancel' = (cancel /\ ~cancelJobOnly)
  /\ cancelJobOnly' = FALSE
  /\ worker' = [worker EXCEPT ![w] = Idle]
  /\ UNCHANGED <<jobs, status, user, asked, due>>

\* The finally clause: a cancellation of one job is over with that job.
Resets(w) ==
  /\ worker[w].at = "resetting"
  /\ cancel' = (cancel /\ ~cancelJobOnly)
  /\ cancelJobOnly' = FALSE
  /\ worker' = [worker EXCEPT ![w].at = "looping", ![w].job = NoJob]
  /\ UNCHANGED <<jobs, status, user, asked, due>>

WorkerSteps(w) ==
  \/ WorkerStarts(w) \/ WorkerEnds(w) \/ WorkerStops(w) \/ WorkerPicks(w)
  \/ WorkerBegins(w) \/ Identifies(w) \/ Transcribes(w)
  \/ ChecksVoices(w) \/ Completes(w) \/ Raises(w)
  \/ Fails(w) \/ Finishes(w) \/ Resets(w)

\* While a job's question is open, threads go on if the answer may be late.
Undisturbed == dialog = NoDialog \/ "late answer" \in Liberties

-----------------------------------------------------------------------------
QueueNext ==
  \/ \E j \in Jobs :
       \/ \E enqueue \in BOOLEAN : CreateJob(j, enqueue)
       \/ RowAsk(j)
       \/ RowRepeat(j)
  \/ Run \/ Stop \/ Close \/ Clear
  \/ Answer
  \/ \E w \in Workers : Undisturbed /\ (WorkerSteps(w) \/ EngineReports(w))

QueueSpec == QueueInit /\ [][QueueNext]_vars

\* Threads run on, conversions and engines come to an end, and questions are
\* answered.  A thread is not slowed by the user, hence SF where Undisturbed
\* makes it wait for an answer.
QueueFairSpec ==
  /\ QueueSpec
  /\ WF_vars(Answer)
  /\ SF_vars(Undisturbed /\ \E w \in Workers : WorkerSteps(w))

-----------------------------------------------------------------------------
(* Properties.                                                             *)

\* Every variable has its type.
QueueTypeOK ==
  /\ jobs \in Seq(Jobs)
  /\ status \in [Jobs -> JobStatus]
  /\ cancel \in BOOLEAN /\ cancelJobOnly \in BOOLEAN
  /\ worker \in [Workers -> [at : {"idle"} \cup Stages \cup Between,
                             job : Jobs \cup {NoJob}, first : Nat,
                             raised : {"nothing", "cancellation", "error"}]]
  /\ dialog \in [asks : {"none", "remove", "cancel"}, job : Jobs \cup {NoJob}]
  /\ asked \subseteq Jobs /\ due \subseteq Jobs
  /\ closed \in BOOLEAN

\* One thread at a time works through the queue, although only the states of
\* the jobs in the list keep the buttons from starting another.
OneThread ==
  \A v, w \in Workers : worker[v].at # "idle" /\ worker[w].at # "idle" => v = w

\* A job in the list that is shown at work has a thread: or else it would be
\* at work for ever, and neither Run nor Start nor Repeat would start one.
RunningHasThread ==
  \A j \in Running : \E w \in Workers : worker[w].job = j

\* Both: one thread, and it is there for whatever is shown at work.
OneThreadAtWork == OneThread /\ RunningHasThread

\* The thread of a job that the user has cancelled, alone or with the queue,
\* finds the flag set at whatever point it looks, until the job ends.
CancellationIsNotLost ==
  \A w \in Workers : Processing(w) /\ worker[w].job \in asked => cancel

\* A job is only cancelled if the user has asked for it: a cancellation, of a
\* single job or of the queue, does not reach the job that runs next.
CancellationIsOwn ==
  \A w \in Workers : Processing(w) /\ cancel => worker[w].job \in asked

\* A job that the user has started does not wait for ever: whether a button
\* starts a thread or leaves the job to the one that runs, it is taken up
\* (or cancelled, or removed).
StartedIsTakenUp ==
  \A j \in Jobs :
    (j \in due /\ j \in Waiting) ~> (j \notin Waiting)

-----------------------------------------------------------------------------
(* A statement of a comment that the code does not keep.                   *)

\* transcription_worker: "a job that finishes anyway (Stop during the voice
\* check, whose transcript is complete) is FINISHED from here on."
FinishedStaysFinished ==
  [][\A j \in Members(jobs) :
       status[j] = "finished" => status'[j] = "finished"]_vars

=============================================================================
