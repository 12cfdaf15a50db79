--------------------------- MODULE DesktopProofs ----------------------------
(***************************************************************************)
(* Safety of DesktopQueue for queues of any number of jobs and threads and *)
(* any sequence of clicks, when the user clicks at none of the moments     *)
(* that the handlers do not foresee; of QueueTable, for every user:        *)
(* pressing what is drawn is a behaviour of the queue, and what is drawn   *)
(* is the queue; and of LocalWorker, the process that works for a job of   *)
(* it, for jobs of any number of tasks, tasks of any number of items, and  *)
(* processes that may or may not cut a message short.                      *)
(***************************************************************************)
EXTENDS QueueTable, LocalWorker, LineProofs, TLAPS

\* A thread without a job is not there, about to begin or between two jobs.
Unbound == {"idle", "starting", "looping"}

ThreadShape ==
  \A w \in Workers :
    /\ worker[w].at = "idle" => worker[w] = Idle
    /\ worker[w].job = NoJob <=> worker[w].at \in Unbound

\* A job that a thread is at work on is in the list and shown at work, and the
\* flag is set exactly if the user has cancelled it.
OwnJob ==
  \A w \in Workers :
    Processing(w) =>
      /\ worker[w].job \in Running
      /\ worker[w].job \in asked <=> cancel

\* So it is with the job that has been taken from the line, which is not yet
\* shown at work.
PickedJob ==
  \A w \in Workers :
    worker[w].at = "picked" =>
      /\ worker[w].job \in Members(jobs)
      /\ status[worker[w].job] \in {"waiting", "canceled"}
      /\ status[worker[w].job] = "canceled" => cancel
      /\ worker[w].job \in asked <=> cancel

\* A job that is over is not shown at work.
LeftJob ==
  \A w \in Workers : worker[w].at = "resetting" => status[worker[w].job] \notin RUNNING_STATUSES

\* Nobody has asked to cancel a job that waits.
WaitingIsFresh == Waiting \cap asked = {}

\* A single job's cancellation is for the job that a thread has.
SingleHasJob ==
  cancelJobOnly => \E w \in Workers : worker[w].at \notin Unbound \cup {"picked"}

\* While a question is open, what it asks about stays as it was.
QuestionHolds ==
  /\ dialog = NoDialog \/ dialog.asks \in {"remove", "cancel"}
  /\ dialog.asks = "remove" =>
       /\ status[dialog.job] \notin RUNNING_STATUSES
       /\ \A w \in Workers : worker[w].at \notin Between
  /\ dialog.asks = "cancel" =>
       dialog.job \in Members(jobs) /\ status[dialog.job] \in WorkStatuses

QueueInvariant ==
  /\ QueueTypeOK /\ ThreadShape /\ OneThread /\ RunningHasThread
  /\ OwnJob /\ PickedJob /\ LeftJob /\ WaitingIsFresh /\ SingleHasJob /\ QuestionHolds

-----------------------------------------------------------------------------
(* Threads.                                                                *)

\* Where one thread is not idle, the others are.
LEMMA OthersIdle ==
  ASSUME ThreadShape, OneThread, NEW w \in Workers, worker[w].at # "idle"
  PROVE  \A v \in Workers : v # w => worker[v] = Idle
BY DEF ThreadShape, OneThread

\* A thread at rest has no job and no exception.
LEMMA IdleShape ==
  Idle.at = "idle" /\ Idle.job = NoJob /\ Idle.first = 0 /\ Idle.raised = "nothing"
BY DEF Idle

\* A button that starts a thread finds none at work.
LEMMA AllIdle ==
  ASSUME Liberties = {}, QueueInvariant, Unhurried, Running = {}
  PROVE  \A w \in Workers : worker[w] = Idle
<1> SUFFICES ASSUME NEW w \in Workers, worker[w].at # "idle" PROVE FALSE
  BY DEF QueueInvariant, ThreadShape
<1>1. worker[w].at \in Stages
  BY DEF QueueInvariant, QueueTypeOK, Unhurried
<1> QED BY <1>1 DEF QueueInvariant, OwnJob, Processing

\* So the new thread is the only one, and it has no job yet.
LEMMA StartsAlone ==
  ASSUME Liberties = {}, QueueInvariant, Unhurried, Running = {}, NEW i \in Nat, StartWorker(i)
  PROVE  /\ worker' \in [Workers -> [at : {"idle"} \cup Stages \cup Between,
                                     job : Jobs \cup {NoJob}, first : Nat,
                                     raised : {"nothing", "cancellation", "error"}]]
         /\ \A w \in Workers : worker'[w].at \in {"idle", "starting"} /\ worker'[w].job = NoJob
         /\ ThreadShape' /\ OneThread' /\ ~cancelJobOnly
<1>1. \A w \in Workers : worker[w] = Idle BY AllIdle
<1> PICK n \in Workers : n = NewWorker
  BY DEF StartWorker, NewWorker, IdleWorkers
<1>3. worker' = [worker EXCEPT ![n].at = "starting", ![n].first = i] BY DEF StartWorker
<1>4. worker \in [Workers -> [at : {"idle"} \cup Stages \cup Between,
                             job : Jobs \cup {NoJob}, first : Nat,
                             raised : {"nothing", "cancellation", "error"}]]
  BY DEF QueueInvariant, QueueTypeOK
<1>5. /\ worker'[n] = [at |-> "starting", job |-> NoJob, first |-> i, raised |-> "nothing"]
      /\ \A w \in Workers : w # n => worker'[w] = Idle
      /\ worker' = [w \in Workers |-> worker'[w]]
  <2>1. \A w \in Workers : w # n => worker'[w] = worker[w] BY <1>3, <1>4
  <2>2. /\ worker'[n].at = "starting" /\ worker'[n].first = i
        /\ worker'[n].job = worker[n].job /\ worker'[n].raised = worker[n].raised
    BY <1>3, <1>4
  <2>3. worker'[n] = [at |-> worker'[n].at, job |-> worker'[n].job,
                      first |-> worker'[n].first, raised |-> worker'[n].raised]
    BY <1>3, <1>4
  <2>4. worker' = [w \in Workers |-> worker'[w]] BY <1>3, <1>4
  <2> QED BY <1>1, <2>1, <2>2, <2>3, <2>4, IdleShape
<1>6. \A w \in Workers : worker'[w] \in [at : {"idle"} \cup Stages \cup Between,
                                         job : Jobs \cup {NoJob}, first : Nat,
                                         raised : {"nothing", "cancellation", "error"}]
  BY <1>5 DEF Idle, Between
<1>7. ~cancelJobOnly
  BY <1>1, IdleShape DEF QueueInvariant, SingleHasJob, Unbound
<1> QED BY <1>5, <1>6, <1>7, IdleShape DEF ThreadShape, OneThread, Unbound

\* The clicks that may start a thread.
LEMMA CreateJobStep ==
  ASSUME Liberties = {}, QueueInvariant, NEW j \in Jobs, NEW enqueue \in BOOLEAN, CreateJob(j, enqueue)
  PROVE  QueueInvariant'
<1> USE DEF QueueInvariant
<1>1. /\ jobs' \in Seq(Jobs) /\ Members(jobs') = Members(jobs) \cup {j}
  BY AppendMembers DEF CreateJob, QueueTypeOK
<1>2. /\ status' \in [Jobs -> JobStatus] /\ status'[j] = "waiting"
      /\ \A k \in Jobs : k # j => status'[k] = status[k]
  BY DEF CreateJob, QueueTypeOK, JobStatus
<1>3. Members(jobs) \subseteq Jobs /\ j \notin Members(jobs) BY DEF CreateJob, Members, QueueTypeOK
<1>4. Running' = Running /\ Waiting' = Waiting \cup {j}
  BY <1>1, <1>2, <1>3 DEF Running, Waiting, RUNNING_STATUSES, WorkStatuses
<1>5. asked' = asked \ {j} /\ UNCHANGED <<cancel, cancelJobOnly, dialog, closed>> /\ dialog = NoDialog
  BY DEF CreateJob, flags, user, Click
<1>6. WaitingIsFresh' /\ QuestionHolds'
  BY <1>4, <1>5 DEF WaitingIsFresh, QuestionHolds, NoDialog
<1>7. CASE UNCHANGED worker
  <2>1. QueueTypeOK'
    BY <1>1, <1>2, <1>5, <1>7 DEF QueueTypeOK, CreateJob
  <2>2. \A w \in Workers : worker[w].job # j BY DEF CreateJob
  <2>3. \A w \in Workers : worker[w].job \in Jobs \cup {NoJob} BY DEF QueueTypeOK
  <2>4. ThreadShape' /\ OneThread' /\ RunningHasThread' /\ SingleHasJob'
    BY <1>4, <1>5, <1>7 DEF ThreadShape, OneThread, RunningHasThread, SingleHasJob
  <2>5. OwnJob'
    BY <1>4, <1>5, <1>7, <2>2 DEF OwnJob, Processing
  <2>6. PickedJob'
    BY <1>1, <1>2, <1>3, <1>5, <1>7, <2>2 DEF PickedJob
  <2>7. LeftJob'
    BY <1>2, <1>7, <2>2, <2>3, QueueAssumption DEF LeftJob, ThreadShape, Unbound
  <2> QED
    BY <1>6, <2>1, <2>4, <2>5, <2>6, <2>7
<1>8. CASE Unhurried /\ Running = {} /\ StartWorker(Len(jobs))
  <2>1. Len(jobs) \in Nat BY DEF QueueTypeOK
  <2>2. /\ ThreadShape' /\ OneThread' /\ ~cancelJobOnly
        /\ \A w \in Workers : worker'[w].at \in {"idle", "starting"}
    BY <1>8, <2>1, StartsAlone
  <2>3. QueueTypeOK'
    BY <1>1, <1>2, <1>5, <1>8, <2>1, StartsAlone DEF QueueTypeOK, CreateJob
  <2> QED
    BY <1>4, <1>5, <1>6, <1>8, <2>2, <2>3
    DEF RunningHasThread, OwnJob, PickedJob, LeftJob, SingleHasJob, Processing, Stages
<1> QED BY <1>7, <1>8 DEF CreateJob

LEMMA RunStep ==
  ASSUME Liberties = {}, QueueInvariant, Run
  PROVE  QueueInvariant'
<1> USE DEF QueueInvariant
<1>1. /\ UNCHANGED <<jobs, status, cancel, cancelJobOnly, dialog, closed, asked>>
      /\ dialog = NoDialog
  BY DEF Run, flags, user, Click
<1>2. due' \subseteq Jobs
  BY DEF Run, Waiting, Members, QueueTypeOK
<1>3. Running' = Running /\ Waiting' = Waiting
  BY <1>1 DEF Running, Waiting, Members
<1>4. WaitingIsFresh' /\ QuestionHolds'
  BY <1>1, <1>3 DEF WaitingIsFresh, QuestionHolds, NoDialog
<1>5. CASE UNCHANGED worker
  <2>1. QueueTypeOK' BY <1>1, <1>2, <1>5 DEF QueueTypeOK
  <2>2. ThreadShape' /\ OneThread' /\ RunningHasThread' /\ SingleHasJob'
    BY <1>1, <1>3, <1>5 DEF ThreadShape, OneThread, RunningHasThread, SingleHasJob
  <2>3. OwnJob' /\ PickedJob' /\ LeftJob'
    BY <1>1, <1>3, <1>5 DEF OwnJob, PickedJob, LeftJob, Processing
  <2> QED BY <1>4, <2>1, <2>2, <2>3
<1>6. CASE Unhurried /\ Running = {} /\ StartWorker(0)
  <2>1. /\ ThreadShape' /\ OneThread' /\ ~cancelJobOnly
        /\ \A w \in Workers : worker'[w].at \in {"idle", "starting"}
    BY <1>6, StartsAlone
  <2>2. QueueTypeOK' BY <1>1, <1>2, <1>6, StartsAlone DEF QueueTypeOK
  <2> QED
    BY <1>1, <1>3, <1>4, <1>6, <2>1, <2>2
    DEF RunningHasThread, OwnJob, PickedJob, LeftJob, SingleHasJob, Processing, Stages
<1> QED BY <1>5, <1>6 DEF Run

LEMMA RowRepeatStep ==
  ASSUME Liberties = {}, QueueInvariant, NEW j \in Jobs, RowRepeat(j)
  PROVE  QueueInvariant'
<1> USE DEF QueueInvariant
<1>1. /\ UNCHANGED <<jobs, cancel, cancelJobOnly, dialog, closed>> /\ dialog = NoDialog
      /\ asked' = asked \ {j} /\ due' = due \cup {j} /\ Unhurried
      /\ status[j] \in {"error", "canceled"}
  BY DEF RowRepeat, flags, user, Click
<1>2. /\ status' \in [Jobs -> JobStatus] /\ status'[j] = "waiting"
      /\ \A k \in Jobs : k # j => status'[k] = status[k]
  BY DEF RowRepeat, QueueTypeOK, JobStatus
<1>3. Members(jobs) \subseteq Jobs BY DEF Members, QueueTypeOK
<1>4. Running' = Running /\ Waiting' \subseteq Waiting \cup {j}
  BY <1>1, <1>2, <1>3 DEF Running, Waiting, RUNNING_STATUSES, WorkStatuses, Members
<1>5. WaitingIsFresh' /\ QuestionHolds'
  BY <1>1, <1>4 DEF WaitingIsFresh, QuestionHolds, NoDialog
<1>6. CASE UNCHANGED worker
  <2>1. QueueTypeOK' BY <1>1, <1>2, <1>6 DEF QueueTypeOK
  <2>2. ThreadShape' /\ OneThread' /\ RunningHasThread' /\ SingleHasJob'
    BY <1>1, <1>4, <1>6 DEF ThreadShape, OneThread, RunningHasThread, SingleHasJob
  <2>3. \A w \in Workers : worker[w].at \notin Between BY <1>1 DEF Unhurried
  <2>4. \A w \in Workers : Processing(w) => worker[w].job # j
    BY <1>1 DEF OwnJob, Running, RUNNING_STATUSES, WorkStatuses
  <2>5. OwnJob' BY <1>1, <1>4, <1>6, <2>4 DEF OwnJob, Processing
  <2>6. PickedJob' /\ LeftJob' BY <1>6, <2>3 DEF PickedJob, LeftJob, Between
  <2> QED BY <1>5, <2>1, <2>2, <2>5, <2>6
<1>7. CASE Running = {} /\ \E i \in 1 .. Len(jobs) : jobs[i] = j /\ StartWorker(i - 1)
  <2>1. PICK i \in 1 .. Len(jobs) : StartWorker(i - 1) BY <1>7
  <2>2. i - 1 \in Nat BY DEF QueueTypeOK
  <2>3. /\ ThreadShape' /\ OneThread' /\ ~cancelJobOnly
        /\ \A w \in Workers : worker'[w].at \in {"idle", "starting"}
    BY <1>1, <1>7, <2>1, <2>2, StartsAlone
  <2>4. QueueTypeOK' BY <1>1, <1>2, <1>7, <2>1, <2>2, StartsAlone DEF QueueTypeOK
  <2> QED
    BY <1>1, <1>4, <1>5, <1>7, <2>3, <2>4
    DEF RunningHasThread, OwnJob, PickedJob, LeftJob, SingleHasJob, Processing, Stages
<1> QED BY <1>6, <1>7 DEF RowRepeat

\* The other clicks, and the answers to questions.
LEMMA StopStep ==
  ASSUME QueueInvariant, Stop \/ Close
  PROVE  QueueInvariant'
<1> USE DEF QueueInvariant
<1>1. /\ UNCHANGED <<jobs, worker, dialog, due>> /\ closed' \in BOOLEAN /\ dialog = NoDialog
      /\ cancel' = TRUE /\ cancelJobOnly' = FALSE /\ asked' = asked \cup Waiting \cup Running
  BY DEF Stop, Close, StopAll, Click, QueueTypeOK
<1>2. Members(jobs) \subseteq Jobs /\ Waiting \subseteq Members(jobs) /\ Running \subseteq Members(jobs)
  BY DEF Members, QueueTypeOK, Waiting, Running
<1>3. status' = [k \in Jobs |-> IF k \in Waiting THEN "canceled"
                                ELSE IF k \in Running THEN "canceling" ELSE status[k]]
  BY DEF Stop, Close, StopAll
<1>4. status' \in [Jobs -> JobStatus]
  BY <1>3 DEF JobStatus, RUNNING_STATUSES, QueueTypeOK
<1>5. QueueTypeOK' BY <1>1, <1>2, <1>4 DEF QueueTypeOK
<1>6. Running' = Running /\ Waiting' = {}
  <2>1. Members(jobs)' = Members(jobs) BY <1>1 DEF Members
  <2> QED BY <1>2, <1>3, <2>1 DEF Running, Waiting, RUNNING_STATUSES, WorkStatuses
<1>7. ThreadShape' /\ OneThread' /\ RunningHasThread' /\ SingleHasJob' /\ WaitingIsFresh'
  BY <1>1, <1>6 DEF ThreadShape, OneThread, RunningHasThread, SingleHasJob, WaitingIsFresh
<1>8. OwnJob' /\ QuestionHolds'
  BY <1>1, <1>6 DEF OwnJob, Processing, QuestionHolds, NoDialog
<1>9. PickedJob'
  <2> SUFFICES ASSUME NEW w \in Workers, worker[w].at = "picked"
               PROVE  /\ worker[w].job \in Members(jobs)
                      /\ status'[worker[w].job] \in {"waiting", "canceled"}
                      /\ worker[w].job \in asked'
    BY <1>1 DEF PickedJob, Members
  <2> DEFINE j == worker[w].job
  <2>1. /\ j \in Members(jobs) /\ status[j] \in {"waiting", "canceled"}
        /\ status[j] = "canceled" => j \in asked
    BY DEF PickedJob
  <2>2. j \notin Running BY <2>1 DEF Running, RUNNING_STATUSES, WorkStatuses
  <2>3. CASE status[j] = "waiting"
    BY <1>1, <1>2, <1>3, <2>1, <2>3 DEF Waiting
  <2>4. CASE status[j] = "canceled"
    BY <1>1, <1>2, <1>3, <2>1, <2>2, <2>4
  <2> QED BY <2>1, <2>3, <2>4
<1>10. LeftJob'
  <2> SUFFICES ASSUME NEW w \in Workers, worker[w].at = "resetting"
               PROVE  status'[worker[w].job] \notin RUNNING_STATUSES
    BY <1>1 DEF LeftJob
  <2>1. status[worker[w].job] \notin RUNNING_STATUSES /\ worker[w].job \in Jobs
    BY QueueAssumption DEF LeftJob, ThreadShape, Unbound, QueueTypeOK
  <2> QED BY <1>3, <2>1 DEF Running, RUNNING_STATUSES, WorkStatuses
<1> QED BY <1>5, <1>7, <1>8, <1>9, <1>10

LEMMA ClearStep ==
  ASSUME Liberties = {}, QueueInvariant, Clear
  PROVE  QueueInvariant'
<1> USE DEF QueueInvariant
<1>1. /\ UNCHANGED <<status, cancel, cancelJobOnly, worker, dialog, closed, asked, due>>
      /\ dialog = NoDialog /\ \A w \in Workers : worker[w].at \notin Between
  BY DEF Clear, flags, user, Click, Unhurried
<1>2. /\ jobs' \in Seq(Jobs)
      /\ Members(jobs') = Members(jobs) \ (Members(jobs) \ Running)
  BY WithoutMembers DEF Clear, QueueTypeOK
<1>3. Running' = Running /\ Waiting' = {}
  BY <1>1, <1>2 DEF Running, Waiting, RUNNING_STATUSES, WorkStatuses
<1>4. QueueTypeOK' BY <1>1, <1>2 DEF QueueTypeOK
<1>5. ThreadShape' /\ OneThread' /\ RunningHasThread' /\ SingleHasJob' /\ WaitingIsFresh'
  BY <1>1, <1>3 DEF ThreadShape, OneThread, RunningHasThread, SingleHasJob, WaitingIsFresh
<1>6. OwnJob' /\ QuestionHolds'
  BY <1>1, <1>3 DEF OwnJob, Processing, QuestionHolds, NoDialog
<1>7. PickedJob' /\ LeftJob'
  BY <1>1 DEF PickedJob, LeftJob, Between
<1> QED BY <1>4, <1>5, <1>6, <1>7

LEMMA RowAskStep ==
  ASSUME Liberties = {}, QueueInvariant, NEW j \in Jobs, RowAsk(j)
  PROVE  QueueInvariant'
<1> USE DEF QueueInvariant
<1>1. /\ UNCHANGED <<jobs, status, cancel, cancelJobOnly, worker, asked, due, closed>>
      /\ j \in Members(jobs)
      /\ dialog' = [asks |-> IF status[j] \in WorkStatuses THEN "cancel" ELSE "remove", job |-> j]
      /\ status[j] \notin WorkStatuses =>
           status[j] # "canceling" /\ \A w \in Workers : worker[w].at \notin Between
  BY DEF RowAsk, Unhurried, flags
<1>2. QuestionHolds'
  <2>1. CASE status[j] \in WorkStatuses
    <3>1. dialog' = [asks |-> "cancel", job |-> j] BY <1>1, <2>1
    <3> QED BY <1>1, <2>1, <3>1 DEF QuestionHolds, Members
  <2>2. CASE status[j] \notin WorkStatuses
    <3>1. dialog' = [asks |-> "remove", job |-> j] BY <1>1, <2>2
    <3> QED BY <1>1, <2>2, <3>1 DEF QuestionHolds, RUNNING_STATUSES
  <2> QED BY <2>1, <2>2
<1>3. QueueTypeOK' BY <1>1 DEF QueueTypeOK
<1>4. Running' = Running /\ Waiting' = Waiting /\ Members(jobs)' = Members(jobs)
  BY <1>1 DEF Running, Waiting, Members
<1>5. ThreadShape' /\ OneThread' /\ RunningHasThread' /\ SingleHasJob' /\ WaitingIsFresh'
  BY <1>1, <1>4 DEF ThreadShape, OneThread, RunningHasThread, SingleHasJob, WaitingIsFresh
<1>6. OwnJob' /\ PickedJob' /\ LeftJob'
  BY <1>1, <1>4 DEF OwnJob, Processing, PickedJob, LeftJob
<1> QED BY <1>2, <1>3, <1>5, <1>6

LEMMA RowRemoveStep ==
  ASSUME QueueInvariant, RowRemove
  PROVE  QueueInvariant'
<1> USE DEF QueueInvariant
<1>1. /\ UNCHANGED <<status, cancel, cancelJobOnly, worker, asked, due, closed>>
      /\ dialog' = NoDialog /\ dialog.asks = "remove" /\ jobs' = Without(jobs, {dialog.job})
  BY DEF RowRemove, flags
<1>2. /\ status[dialog.job] \notin RUNNING_STATUSES
      /\ \A w \in Workers : worker[w].at \notin Between
  BY <1>1 DEF QuestionHolds
<1>3. jobs' \in Seq(Jobs) /\ Members(jobs') = Members(jobs) \ {dialog.job}
  BY <1>1, WithoutMembers DEF QueueTypeOK
<1>4. Running' = Running /\ Waiting' \subseteq Waiting
  BY <1>1, <1>2, <1>3 DEF Running, Waiting
<1>5. QueueTypeOK' /\ QuestionHolds'
  BY <1>1, <1>3 DEF QueueTypeOK, QuestionHolds, NoDialog
<1>6. ThreadShape' /\ OneThread' /\ RunningHasThread' /\ SingleHasJob' /\ WaitingIsFresh'
  BY <1>1, <1>4 DEF ThreadShape, OneThread, RunningHasThread, SingleHasJob, WaitingIsFresh
<1>7. OwnJob' BY <1>1, <1>4 DEF OwnJob, Processing
<1>8. PickedJob' /\ LeftJob' BY <1>1, <1>2 DEF PickedJob, LeftJob, Between
<1> QED BY <1>5, <1>6, <1>7, <1>8

LEMMA RowCancelStep ==
  ASSUME QueueInvariant, RowCancel
  PROVE  QueueInvariant'
<1> USE DEF QueueInvariant
<1> DEFINE j == dialog.job
<1>1. /\ UNCHANGED <<jobs, worker, due, closed>> /\ dialog' = NoDialog /\ dialog.asks = "cancel"
      /\ status' = [status EXCEPT ![j] = "canceling"]
      /\ cancel' = TRUE /\ cancelJobOnly' = TRUE /\ asked' = asked \cup {j}
  BY DEF RowCancel
<1>2. j \in Members(jobs) /\ status[j] \in WorkStatuses BY <1>1 DEF QuestionHolds
<1>3. Members(jobs) \subseteq Jobs /\ Members(jobs)' = Members(jobs) /\ j \in Jobs /\ j # NoJob
  BY <1>1, <1>2, QueueAssumption DEF Members, QueueTypeOK
<1>4. /\ status' \in [Jobs -> JobStatus] /\ status'[j] = "canceling"
      /\ \A k \in Jobs : k # j => status'[k] = status[k]
  BY <1>1, <1>3 DEF QueueTypeOK, JobStatus, RUNNING_STATUSES
<1>5. Running' = Running /\ Waiting' = Waiting /\ j \notin Waiting /\ j \in Running
  BY <1>2, <1>3, <1>4 DEF Running, Waiting, RUNNING_STATUSES, WorkStatuses
<1>6. PICK w \in Workers : worker[w].job = j
  BY <1>5 DEF RunningHasThread
<1>7. worker[w].at \notin Unbound \cup {"picked"}
  BY <1>2, <1>3, <1>6 DEF ThreadShape, PickedJob, WorkStatuses
<1>8. \A v \in Workers : v # w => worker[v].at = "idle"
  BY <1>7, OthersIdle, IdleShape DEF Unbound
<1>9. QueueTypeOK' /\ QuestionHolds'
  BY <1>1, <1>3, <1>4 DEF QueueTypeOK, QuestionHolds, NoDialog
<1>10. ThreadShape' /\ OneThread' /\ RunningHasThread' /\ SingleHasJob' /\ WaitingIsFresh'
  BY <1>1, <1>5, <1>7 DEF ThreadShape, OneThread, RunningHasThread, SingleHasJob, WaitingIsFresh
<1>11. OwnJob'
  BY <1>1, <1>5, <1>6, <1>8 DEF OwnJob, Processing, Stages
<1>12. PickedJob' BY <1>1, <1>7, <1>8 DEF PickedJob
<1>13. LeftJob'
  <2>1. worker[w].at # "resetting"
    BY <1>2, <1>6 DEF LeftJob, RUNNING_STATUSES
  <2> QED BY <1>1, <1>8, <2>1 DEF LeftJob
<1> QED BY <1>9, <1>10, <1>11, <1>12, <1>13

LEMMA RowDismissStep ==
  ASSUME QueueInvariant, RowDismiss \/ UNCHANGED vars
  PROVE  QueueInvariant'
<1> USE DEF QueueInvariant
<1>1. /\ UNCHANGED <<jobs, status, cancel, cancelJobOnly, worker, asked, due, closed>>
      /\ dialog' = NoDialog \/ UNCHANGED dialog
  BY DEF RowDismiss, flags, vars
<1>2. Running' = Running /\ Waiting' = Waiting /\ Members(jobs)' = Members(jobs)
  BY <1>1 DEF Running, Waiting, Members
<1>3. QueueTypeOK' /\ QuestionHolds'
  BY <1>1, <1>2 DEF QueueTypeOK, QuestionHolds, NoDialog
<1>4. ThreadShape' /\ OneThread' /\ RunningHasThread' /\ SingleHasJob' /\ WaitingIsFresh'
  BY <1>1, <1>2 DEF ThreadShape, OneThread, RunningHasThread, SingleHasJob, WaitingIsFresh
<1>5. OwnJob' /\ PickedJob' /\ LeftJob'
  BY <1>1, <1>2 DEF OwnJob, Processing, PickedJob, LeftJob
<1> QED BY <1>3, <1>4, <1>5

-----------------------------------------------------------------------------
(* What threads do.                                                        *)

\* What is the same for every step of a thread w that does not touch the list
\* nor the question: it is enough to look at w.
LEMMA ThreadStep ==
  ASSUME QueueInvariant, dialog = NoDialog, NEW w \in Workers, worker[w].at # "idle",
         UNCHANGED <<jobs, dialog, closed, due>>, asked' \subseteq asked,
         status' \in [Jobs -> JobStatus], cancel' \in BOOLEAN, cancelJobOnly' \in BOOLEAN,
         NEW to, worker' = [worker EXCEPT ![w] = to],
         to \in [at : {"idle"} \cup Stages \cup Between, job : Jobs \cup {NoJob}, first : Nat,
                 raised : {"nothing", "cancellation", "error"}],
         to.at = "idle" => to = Idle,
         to.job = NoJob <=> to.at \in Unbound,
         \A j \in Running' : to.job = j,
         to.at \in Stages => to.job \in Running' /\ (to.job \in asked' <=> cancel'),
         to.at = "picked" => /\ to.job \in Members(jobs) /\ status'[to.job] \in {"waiting", "canceled"}
                             /\ status'[to.job] = "canceled" => cancel'
                             /\ to.job \in asked' <=> cancel',
         to.at = "resetting" => status'[to.job] \notin RUNNING_STATUSES,
         Waiting' \subseteq Waiting,
         cancelJobOnly' => to.at \notin Unbound \cup {"picked"}
  PROVE  QueueInvariant'
<1> USE DEF QueueInvariant
<1>1. \A v \in Workers : v # w => worker[v] = Idle BY OthersIdle
<1>2. worker'[w] = to /\ \A v \in Workers : v # w => worker'[v] = Idle
  BY <1>1 DEF QueueTypeOK
<1>3. QueueTypeOK'
  BY DEF QueueTypeOK
<1>4. ThreadShape' /\ OneThread' /\ RunningHasThread' /\ SingleHasJob'
  BY <1>2, IdleShape DEF ThreadShape, OneThread, RunningHasThread, SingleHasJob, Unbound
<1>5. Members(jobs)' = Members(jobs) BY DEF Members
<1>6. OwnJob' BY <1>2, IdleShape DEF OwnJob, Processing, Stages
<1>7. PickedJob' BY <1>2, <1>5, IdleShape DEF PickedJob
<1>8. LeftJob' BY <1>2, IdleShape DEF LeftJob
<1>9. WaitingIsFresh' BY DEF WaitingIsFresh
<1>10. QuestionHolds' BY DEF QuestionHolds, NoDialog
<1> QED BY <1>3, <1>4, <1>6, <1>7, <1>8, <1>9, <1>10

\* Only the job of the thread is shown at work.
LEMMA OnlyOwnJob ==
  ASSUME QueueInvariant, NEW w \in Workers, worker[w].at # "idle"
  PROVE  \A j \in Running : worker[w].job = j
<1> SUFFICES ASSUME NEW j \in Running PROVE worker[w].job = j
  OBVIOUS
<1>1. PICK v \in Workers : worker[v].job = j BY DEF QueueInvariant, RunningHasThread
<1>2. j # NoJob BY QueueAssumption DEF Running, Members, QueueInvariant, QueueTypeOK
<1>3. v = w BY <1>1, <1>2, OthersIdle, IdleShape DEF QueueInvariant
<1> QED BY <1>1, <1>3

\* Before a thread is at work nothing is shown at work, nor is a single job being
\* cancelled.
LEMMA NothingYet ==
  ASSUME QueueInvariant, NEW w \in Workers, worker[w].at # "idle", worker[w].at \in Unbound \cup {"picked"}
  PROVE  Running = {} /\ ~cancelJobOnly
<1> USE DEF QueueInvariant
<1>0. \A v \in Workers : v # w => worker[v].at = "idle"
  BY OthersIdle, IdleShape
<1>1. ~cancelJobOnly
  BY <1>0 DEF SingleHasJob, Unbound
<1>2. \A j \in Running : worker[w].job = j BY OnlyOwnJob
<1>3. \A j \in Running : j \in Jobs /\ status[j] \in RUNNING_STATUSES
  BY DEF Running, Members, QueueTypeOK
<1>4. CASE worker[w].at = "picked"
  <2>1. status[worker[w].job] \notin RUNNING_STATUSES
    BY <1>4 DEF PickedJob, RUNNING_STATUSES, WorkStatuses
  <2> QED BY <1>1, <1>2, <1>3, <2>1
<1>5. CASE worker[w].at \in Unbound
  <2>1. worker[w].job = NoJob BY <1>5 DEF ThreadShape
  <2> QED BY <1>1, <1>2, <1>3, <2>1, QueueAssumption
<1> QED BY <1>4, <1>5

\* The next job is one that waits.
LEMMA NextJobWaits ==
  ASSUME QueueTypeOK, NEW w \in Workers, Waiting # {}
  PROVE  NextJob(w) \in Waiting
<1> DEFINE waiting == {i \in 1 .. Len(jobs) : status[jobs[i]] = "waiting"}
           next == CHOOSE i \in waiting : \A k \in waiting : i <= k
<1>1. waiting \in SUBSET Nat /\ waiting # {}
  BY DEF Waiting, Members, QueueTypeOK
<1>2. \E i \in waiting : \A k \in waiting : ~ (k < i) BY <1>1, LeastNatural
<1>3. \E i \in waiting : \A k \in waiting : i <= k BY <1>1, <1>2
<1>4. next \in waiting BY <1>3
<1>5. \A i \in waiting : jobs[i] \in Waiting BY DEF Waiting, Members
<1>6. NextJob(w) = IF worker[w].first > 0 /\ worker[w].first + 1 \in waiting
                   THEN jobs[worker[w].first + 1] ELSE jobs[next]
  BY DEF NextJob
<1> QED BY <1>4, <1>5, <1>6

\* A thread before it has a job.
LEMMA EarlySteps ==
  ASSUME QueueInvariant, dialog = NoDialog, NEW w \in Workers,
         WorkerStarts(w) \/ WorkerEnds(w) \/ WorkerStops(w) \/ WorkerPicks(w)
  PROVE  QueueInvariant'
<1> USE DEF QueueInvariant
<1> DEFINE r == worker[w]
           Rec == [at : {"idle"} \cup Stages \cup Between, job : Jobs \cup {NoJob}, first : Nat,
                   raised : {"nothing", "cancellation", "error"}]
<1>1. worker[w].at \in {"starting", "looping"}
  BY DEF WorkerStarts, WorkerEnds, WorkerStops, WorkerPicks
<1>2. /\ worker[w].job = NoJob /\ worker[w] \in Rec
      /\ worker[w].at # "idle" /\ worker[w].at \in Unbound
  BY <1>1 DEF ThreadShape, Unbound, QueueTypeOK
<1>3. Running = {} /\ ~cancelJobOnly BY <1>2, NothingYet
<1>4. CASE WorkerStarts(w)
  <2> DEFINE to == [worker[w] EXCEPT !.at = "looping"]
  <2>1. /\ UNCHANGED <<jobs, dialog, closed, due, asked, status, cancelJobOnly>> /\ cancel' = FALSE
        /\ worker' = [worker EXCEPT ![w] = to]
    BY <1>4 DEF WorkerStarts, WorkerGoes, user
  <2>2. to \in Rec /\ to.at = "looping" /\ to.job = NoJob BY <1>2 DEF Between
  <2>3. Running' = {} /\ Waiting' = Waiting BY <1>3, <2>1 DEF Running, Waiting, Members
  <2>4. status' \in [Jobs -> JobStatus] /\ cancelJobOnly' \in BOOLEAN BY <2>1 DEF QueueTypeOK
  <2> HIDE DEF to
  <2> QED
    BY <1>2, <1>3, <2>1, <2>2, <2>3, <2>4, ThreadStep DEF Unbound, Stages
<1>5. CASE WorkerEnds(w)
  <2>1. /\ UNCHANGED <<jobs, dialog, closed, due, asked, status, cancel, cancelJobOnly>>
        /\ worker' = [worker EXCEPT ![w] = Idle]
    BY <1>5 DEF WorkerEnds, user, flags
  <2>2. Idle \in Rec BY DEF Idle
  <2>3. Running' = {} /\ Waiting' = Waiting BY <1>3, <2>1 DEF Running, Waiting, Members
  <2>4. status' \in [Jobs -> JobStatus] /\ cancelJobOnly' \in BOOLEAN /\ cancel' \in BOOLEAN
    BY <2>1 DEF QueueTypeOK
  <2> QED
    BY <1>2, <1>3, <2>1, <2>2, <2>3, <2>4, IdleShape, ThreadStep DEF Unbound, Stages
<1>6. CASE WorkerStops(w)
  <2>1. /\ UNCHANGED <<jobs, dialog, closed, due, asked, cancel, cancelJobOnly>>
        /\ status' = [j \in Jobs |-> IF j \in Waiting THEN "canceled" ELSE status[j]]
        /\ worker' = [worker EXCEPT ![w] = Idle]
    BY <1>6 DEF WorkerStops, user, flags
  <2>2. Idle \in Rec BY DEF Idle
  <2>3. Running' = {} /\ Waiting' = {}
    <3>1. Members(jobs)' = Members(jobs) /\ Members(jobs) \subseteq Jobs BY <2>1 DEF Members, QueueTypeOK
    <3> QED BY <1>3, <2>1, <3>1 DEF Running, Waiting, RUNNING_STATUSES, WorkStatuses
  <2>4. status' \in [Jobs -> JobStatus] /\ cancelJobOnly' \in BOOLEAN /\ cancel' \in BOOLEAN
    BY <2>1 DEF QueueTypeOK, JobStatus
  <2> QED
    BY <1>2, <1>3, <2>1, <2>2, <2>3, <2>4, IdleShape, ThreadStep DEF Unbound, Stages
<1>7. CASE WorkerPicks(w)
  <2> DEFINE to == [worker[w] EXCEPT !.at = "picked", !.job = NextJob(w)]
  <2>1. /\ UNCHANGED <<jobs, dialog, closed, due, asked, status, cancel, cancelJobOnly>>
        /\ worker' = [worker EXCEPT ![w] = to] /\ ~cancel
    BY <1>3, <1>7 DEF WorkerPicks, user, flags
  <2>2. NextJob(w) \in Waiting BY <1>7, NextJobWaits DEF WorkerPicks
  <2>3. NextJob(w) \in Members(jobs) /\ NextJob(w) \in Jobs /\ status[NextJob(w)] = "waiting"
    BY <2>2 DEF Waiting, Members, QueueTypeOK
  <2>4. to \in Rec /\ to.at = "picked" /\ to.job = NextJob(w) BY <1>2, <2>3 DEF Between
  <2>5. NextJob(w) \notin asked BY <2>2 DEF WaitingIsFresh
  <2>6. Running' = {} /\ Waiting' = Waiting BY <1>3, <2>1 DEF Running, Waiting, Members
  <2>7. status' \in [Jobs -> JobStatus] /\ cancelJobOnly' \in BOOLEAN /\ cancel' \in BOOLEAN
    BY <2>1 DEF QueueTypeOK
  <2>8. NextJob(w) # NoJob BY <2>3, QueueAssumption
  <2> HIDE DEF to
  <2> QED
    BY <1>2, <1>3, <2>1, <2>3, <2>4, <2>5, <2>6, <2>7, <2>8, ThreadStep DEF Unbound, Stages
<1> QED BY <1>4, <1>5, <1>6, <1>7

\* A thread with its job: every step that shows the job at work, or leaves what
\* is shown, and goes on with it.
LEMMA WorkStep ==
  ASSUME QueueInvariant, dialog = NoDialog, NEW w \in Workers, worker[w].at \in Stages \cup {"picked"},
         NEW at \in Stages \cup {"finishing"}, NEW s \in WorkStatuses,
         WorkerGoes(w, at), UNCHANGED <<flags, asked>>,
         Shows(w, s) \/ (worker[w].at \in Stages /\ UNCHANGED status)
  PROVE  QueueInvariant'
<1> USE DEF QueueInvariant
<1> DEFINE j == worker[w].job
           to == [worker[w] EXCEPT !.at = at]
           Rec == [at : {"idle"} \cup Stages \cup Between, job : Jobs \cup {NoJob}, first : Nat,
                   raised : {"nothing", "cancellation", "error"}]
<1>1. /\ UNCHANGED <<jobs, dialog, closed, due, asked, cancel, cancelJobOnly>>
      /\ worker' = [worker EXCEPT ![w] = to]
  BY DEF WorkerGoes, user, flags
<1>2. worker[w] \in Rec /\ worker[w].at # "idle" /\ worker[w].at \notin Unbound
  BY DEF QueueTypeOK, Stages, Unbound
<1>3. j \in Members(jobs) /\ j \in Jobs /\ j # NoJob
  <2>1. j \in Members(jobs) BY DEF OwnJob, Processing, Running, PickedJob
  <2> QED BY <2>1, QueueAssumption DEF Members, QueueTypeOK
<1>4. j \in asked <=> cancel BY DEF OwnJob, Processing, PickedJob
<1>5. to \in Rec /\ to.at = at /\ to.job = j BY <1>2 DEF Between
<1>6. \A k \in Running : k = j BY <1>2, OnlyOwnJob
<1>7. Members(jobs)' = Members(jobs) /\ Members(jobs) \subseteq Jobs BY <1>1 DEF Members, QueueTypeOK
<1>8. status' \in [Jobs -> JobStatus] /\ Running' = {j} /\ Waiting' \subseteq Waiting
  <2>1. CASE Shows(w, s)
    <3>1. /\ status' \in [Jobs -> JobStatus] /\ status'[j] = s
          /\ \A k \in Jobs : k # j => status'[k] = status[k]
      BY <1>3, <2>1 DEF Shows, QueueTypeOK, JobStatus, RUNNING_STATUSES
    <3>2. s \in RUNNING_STATUSES /\ s # "waiting" BY DEF RUNNING_STATUSES, WorkStatuses
    <3> QED BY <1>3, <1>6, <1>7, <3>1, <3>2 DEF Running, Waiting
  <2>2. CASE worker[w].at \in Stages /\ UNCHANGED status
    <3>1. j \in Running BY <2>2 DEF OwnJob, Processing
    <3> QED BY <1>6, <1>7, <2>2, <3>1 DEF Running, Waiting, QueueTypeOK
  <2> QED BY <2>1, <2>2
<1>10. cancel' \in BOOLEAN /\ cancelJobOnly' \in BOOLEAN BY <1>1 DEF QueueTypeOK
<1>11. at # "idle" /\ at \notin Unbound \cup {"picked"} /\ at # "resetting"
  BY DEF Stages, Unbound
<1> HIDE DEF to, QueueInvariant
<1> QED
  BY <1>1, <1>2, <1>3, <1>4, <1>5, <1>8, <1>10, <1>11, ThreadStep

LEMMA WorkSteps ==
  ASSUME QueueInvariant, dialog = NoDialog, NEW w \in Workers,
         \/ WorkerBegins(w) \/ Identifies(w) \/ Transcribes(w) \/ EngineReports(w)
         \/ ChecksVoices(w) \/ Completes(w)
  PROVE  QueueInvariant'
<1>1. CASE WorkerBegins(w) \/ Identifies(w) \/ Transcribes(w) \/ EngineReports(w)
  <2>1. \E s \in WorkStatuses : \E at \in Stages :
          /\ WorkerGoes(w, at) /\ UNCHANGED <<flags, asked>>
          /\ Shows(w, s) \/ (worker[w].at \in Stages /\ UNCHANGED status)
          /\ worker[w].at \in Stages \cup {"picked"}
    BY <1>1 DEF WorkerBegins, Identifies, Transcribes, EngineReports, WorkStatuses, Stages
  <2> QED BY <2>1, WorkStep
<1>2. CASE ChecksVoices(w) \/ Completes(w)
  <2>1. /\ \E at \in Stages \cup {"finishing"} : WorkerGoes(w, at)
        /\ UNCHANGED <<status, flags, asked>> /\ worker[w].at \in Stages
    BY <1>2 DEF ChecksVoices, Completes, Stages
  <2>2. "transcription" \in WorkStatuses BY DEF WorkStatuses
  <2> QED BY <2>1, <2>2, WorkStep
<1> QED BY <1>1, <1>2

\* The end of a job, which may be an exception on its way.
LEMMA EndSteps ==
  ASSUME QueueInvariant, dialog = NoDialog, NEW w \in Workers,
         Raises(w) \/ Fails(w) \/ Finishes(w)
  PROVE  QueueInvariant'
<1> USE DEF QueueInvariant
<1> DEFINE j == worker[w].job
           to == worker'[w]
           Rec == [at : {"idle"} \cup Stages \cup Between, job : Jobs \cup {NoJob}, first : Nat,
                   raised : {"nothing", "cancellation", "error"}]
<1>1. /\ UNCHANGED <<jobs, dialog, closed, due, cancel, cancelJobOnly>> /\ asked' \subseteq asked
      /\ worker[w].at \in Stages \cup {"failing", "finishing"}
  BY DEF Raises, Fails, Finishes, WorkerGoes, user, flags, Stages
<1>2. worker[w] \in Rec /\ worker[w].at # "idle" /\ worker[w].at \notin Unbound
  BY <1>1 DEF QueueTypeOK, Stages, Unbound
<1>3. j \in Jobs /\ j # NoJob BY <1>2 DEF ThreadShape
<1>4. /\ worker' = [worker EXCEPT ![w] = to] /\ to \in Rec /\ to.job = j
      /\ to.at \in {"failing", "resetting"}
  <2>1. CASE Raises(w)
    <3>1. PICK how \in {"cancellation", "error"} :
            worker' = [worker EXCEPT ![w].at = "failing", ![w].raised = how]
      BY <2>1 DEF Raises
    <3> QED BY <1>2, <3>1 DEF QueueTypeOK, Between
  <2>2. CASE Fails(w)
    <3>1. worker' = [worker EXCEPT ![w].at = "resetting", ![w].raised = "nothing"]
      BY <2>2 DEF Fails
    <3> QED BY <1>2, <3>1 DEF QueueTypeOK, Between
  <2>3. CASE Finishes(w)
    <3>1. worker' = [worker EXCEPT ![w].at = "resetting"]
      BY <2>3 DEF Finishes, WorkerGoes
    <3> QED BY <1>2, <3>1 DEF QueueTypeOK, Between
  <2> QED BY <2>1, <2>2, <2>3
<1>5. /\ status' \in [Jobs -> JobStatus] /\ \A k \in Jobs : k # j => status'[k] = status[k]
      /\ status'[j] \in {"canceled", "error", "finished"} \/ UNCHANGED status
      /\ to.at = "resetting" => status'[j] \in {"canceled", "error", "finished"}
  <2>1. CASE UNCHANGED status /\ Raises(w)
    <3>1. to.at = "failing" BY <2>1, <1>2 DEF Raises, QueueTypeOK
    <3> QED BY <2>1, <3>1 DEF QueueTypeOK
  <2>2. CASE \E s \in {"canceled", "error", "finished"} : Shows(w, s)
    BY <1>3, <2>2 DEF Shows, QueueTypeOK, JobStatus
  <2>3. Raises(w) => UNCHANGED status \/ Shows(w, IF cancel THEN "canceled" ELSE "error")
    BY DEF Raises
  <2>4. Fails(w) => Shows(w, IF worker[w].raised = "cancellation" \/ cancel THEN "canceled" ELSE "error")
    BY DEF Fails
  <2>5. Finishes(w) => Shows(w, "finished") BY DEF Finishes
  <2> QED BY <2>1, <2>2, <2>3, <2>4, <2>5
<1>6. \A k \in Running : k = j BY <1>2, OnlyOwnJob
<1>7. Members(jobs)' = Members(jobs) /\ Members(jobs) \subseteq Jobs BY <1>1 DEF Members, QueueTypeOK
<1>8. (\A k \in Running' : to.job = k) /\ Waiting' \subseteq Waiting
  BY <1>3, <1>4, <1>5, <1>6, <1>7 DEF Running, Waiting
<1>9. to.at = "resetting" => status'[to.job] \notin RUNNING_STATUSES
  BY <1>4, <1>5 DEF RUNNING_STATUSES, WorkStatuses
<1>10. cancel' \in BOOLEAN /\ cancelJobOnly' \in BOOLEAN BY <1>1 DEF QueueTypeOK
<1>11. to.at \notin Stages \cup Unbound \cup {"picked", "idle"} BY <1>4 DEF Stages, Unbound
<1>12. to.job # NoJob /\ to.at # "idle" /\ to.at # "picked" /\ to.at \notin Unbound /\ to.at \notin Stages
  BY <1>3, <1>4, <1>11
<1> HIDE DEF to, QueueInvariant
<1> QED
  BY <1>1, <1>2, <1>4, <1>5, <1>8, <1>9, <1>10, <1>12, ThreadStep

\* After it the thread has no job, and no job's cancellation is left over.
LEMMA ResetsStep ==
  ASSUME QueueInvariant, dialog = NoDialog, NEW w \in Workers, Resets(w)
  PROVE  QueueInvariant'
<1> USE DEF QueueInvariant
<1> DEFINE to == [worker[w] EXCEPT !.at = "looping", !.job = NoJob]
           Rec == [at : {"idle"} \cup Stages \cup Between, job : Jobs \cup {NoJob}, first : Nat,
                   raised : {"nothing", "cancellation", "error"}]
<1>1. /\ UNCHANGED <<jobs, dialog, closed, due, asked, status>>
      /\ worker' = [worker EXCEPT ![w] = to] /\ ~cancelJobOnly' /\ cancel' = (cancel /\ ~cancelJobOnly)
      /\ worker[w].at = "resetting"
  BY DEF Resets, user
<1>2. worker[w] \in Rec /\ worker[w].at # "idle" BY <1>1 DEF QueueTypeOK
<1>3. to \in Rec /\ to.at = "looping" /\ to.job = NoJob BY <1>2 DEF Between
<1>4. Running = {}
  <2>1. \A k \in Running : worker[w].job = k /\ status[k] \in RUNNING_STATUSES
    BY <1>2, OnlyOwnJob DEF Running
  <2>2. status[worker[w].job] \notin RUNNING_STATUSES BY <1>1 DEF LeftJob
  <2> QED BY <2>1, <2>2
<1>5. Running' = {} /\ Waiting' = Waiting BY <1>1, <1>4 DEF Running, Waiting, Members
<1>6. status' \in [Jobs -> JobStatus] /\ cancel' \in BOOLEAN /\ cancelJobOnly' \in BOOLEAN
  BY <1>1 DEF QueueTypeOK, Resets
<1>7. "looping" \in Unbound /\ "looping" \notin Stages BY DEF Unbound, Stages
<1> HIDE DEF to, QueueInvariant
<1> QED BY <1>1, <1>2, <1>3, <1>5, <1>6, <1>7, ThreadStep

-----------------------------------------------------------------------------
(* The theorems.                                                           *)

LEMMA QueueInvariantInit ==
  ASSUME QueueInit
  PROVE  QueueInvariant
<1>1. /\ jobs \in Seq(Jobs) /\ Members(jobs) = {} BY DEF QueueInit, Members
<1>2. worker \in [Workers -> [at : {"idle"} \cup Stages \cup Between, job : Jobs \cup {NoJob},
                              first : Nat, raised : {"nothing", "cancellation", "error"}]]
  BY DEF QueueInit, Idle
<1>3. dialog \in [asks : {"none", "remove", "cancel"}, job : Jobs \cup {NoJob}]
  BY DEF QueueInit, NoDialog
<1>4. QueueTypeOK BY <1>1, <1>2, <1>3 DEF QueueInit, QueueTypeOK, JobStatus
<1>5. Running = {} /\ Waiting = {} BY <1>1 DEF Running, Waiting
<1>6. \A w \in Workers : worker[w] = Idle BY DEF QueueInit
<1>7. ThreadShape /\ OneThread /\ RunningHasThread
  BY <1>5, <1>6, IdleShape DEF ThreadShape, OneThread, RunningHasThread, Unbound
<1>8. OwnJob /\ PickedJob /\ LeftJob
  BY <1>6, IdleShape DEF OwnJob, PickedJob, LeftJob, Processing, Stages
<1>9. WaitingIsFresh /\ SingleHasJob /\ QuestionHolds
  BY <1>5 DEF QueueInit, WaitingIsFresh, SingleHasJob, QuestionHolds, NoDialog
<1> QED BY <1>4, <1>7, <1>8, <1>9 DEF QueueInvariant

LEMMA QueueInvariantNext ==
  ASSUME Liberties = {}, QueueInvariant, [QueueNext]_vars
  PROVE  QueueInvariant'
<1>1. CASE UNCHANGED vars BY <1>1, RowDismissStep
<1>2. ASSUME NEW j \in Jobs,
             (\E enqueue \in BOOLEAN : CreateJob(j, enqueue)) \/ RowAsk(j) \/ RowRepeat(j)
      PROVE  QueueInvariant'
  BY <1>2, CreateJobStep, RowAskStep, RowRepeatStep
<1>3. CASE Run \/ Stop \/ Close \/ Clear
  BY <1>3, RunStep, StopStep, ClearStep
<1>4. CASE Answer
  BY <1>4, RowDismissStep, RowRemoveStep, RowCancelStep DEF Answer
<1>5. ASSUME NEW w \in Workers, Undisturbed, WorkerSteps(w) \/ EngineReports(w)
      PROVE  QueueInvariant'
  <2>1. dialog = NoDialog BY <1>5 DEF Undisturbed
  <2> QED BY <1>5, <2>1, EarlySteps, WorkSteps, EndSteps, ResetsStep DEF WorkerSteps
<1> QED BY <1>1, <1>2, <1>3, <1>4, <1>5 DEF QueueNext

\* A prudent user: every reachable state satisfies the invariant.
LEMMA QueueInvariantHolds ==
  ASSUME Liberties = {}
  PROVE  QueueSpec => []QueueInvariant
<1>1. QueueInit => QueueInvariant BY QueueInvariantInit
<1>2. QueueInvariant /\ [QueueNext]_vars => QueueInvariant' BY QueueInvariantNext
<1> QED BY <1>1, <1>2, PTL DEF QueueSpec

\* One thread at a time works through the queue and whatever the list shows at
\* work has it, although only the shown states keep the buttons of main.py from
\* starting a second one: for any number of jobs and threads.
THEOREM DesktopOneThread ==
  ASSUME Liberties = {}
  PROVE  QueueSpec => []OneThreadAtWork
<1>1. QueueInvariant => OneThreadAtWork BY DEF QueueInvariant, OneThreadAtWork
<1> QED BY <1>1, QueueInvariantHolds, PTL

\* The thread of a job that the user has cancelled finds `cancel` set until the
\* job ends: neither the start of a thread nor the end of another job, which
\* both reset it, takes the cancellation back.
THEOREM DesktopCancellationIsNotLost ==
  ASSUME Liberties = {}
  PROVE  QueueSpec => []CancellationIsNotLost
<1>1. QueueInvariant => CancellationIsNotLost
  BY DEF QueueInvariant, OwnJob, CancellationIsNotLost
<1> QED BY <1>1, QueueInvariantHolds, PTL

\* The flag is never set while a job runs that nobody asked to cancel: a
\* cancellation does not reach the next job.
THEOREM DesktopCancellationIsOwn ==
  ASSUME Liberties = {}
  PROVE  QueueSpec => []CancellationIsOwn
<1>1. QueueInvariant => CancellationIsOwn
  BY DEF QueueInvariant, OwnJob, CancellationIsOwn
<1> QED BY <1>1, QueueInvariantHolds, PTL

-----------------------------------------------------------------------------
(* The table.                                                              *)

ListTyped == jobs \in Seq(Jobs)

\* What a press and a thread do to the queue is a step of the queue.
LEMMA TableStep ==
  ASSUME ListTyped, [TableNext]_<<vars, tableVars>>
  PROVE  [QueueNext]_vars
<1>1. CASE UNCHANGED <<vars, tableVars>> BY <1>1
<1>2. CASE Presses
  <2>1. ASSUME NEW j \in DOMAIN rows, RowAsk(j) \/ RowRepeat(j) PROVE QueueNext
    <3>1. j \in Members(jobs) BY <2>1 DEF RowAsk, RowRepeat
    <3>2. j \in Jobs BY <3>1 DEF ListTyped, Members
    <3> QED BY <2>1, <3>2 DEF QueueNext
  <2>2. ASSUME NEW j \in Jobs, NEW enqueue \in BOOLEAN, CreateJob(j, enqueue) PROVE QueueNext
    BY <2>2 DEF QueueNext
  <2>3. Run \/ Stop \/ Close \/ Clear \/ RowDismiss \/ RowRemove \/ RowCancel => QueueNext
    BY DEF QueueNext, Answer
  <2> QED BY <1>2, <2>1, <2>2, <2>3 DEF Presses
<1>3. CASE Drains BY <1>3 DEF Drains
<1>4. ASSUME NEW w \in Workers, Works(w) PROVE QueueNext
  BY <1>4 DEF Works, Announced, Silent, QueueNext, WorkerSteps
<1> QED BY <1>1, <1>2, <1>3, <1>4 DEF TableNext

\* The list has jobs in it.
LEMMA ListTypedNext ==
  ASSUME ListTyped, [QueueNext]_vars
  PROVE  ListTyped'
<1>1. CASE UNCHANGED jobs BY <1>1 DEF ListTyped
<1>2. ASSUME NEW j \in Jobs, NEW enqueue \in BOOLEAN, CreateJob(j, enqueue) PROVE ListTyped'
  BY <1>2 DEF CreateJob, ListTyped
<1>3. CASE Clear BY <1>3, WithoutMembers DEF Clear, ListTyped
<1>4. CASE RowRemove BY <1>4, WithoutMembers DEF RowRemove, ListTyped
<1>5. ASSUME NEW j \in Jobs, RowAsk(j) \/ RowRepeat(j) PROVE UNCHANGED jobs
  BY <1>5 DEF RowAsk, RowRepeat
<1>6. Run \/ Stop \/ Close \/ RowDismiss \/ RowCancel \/ UNCHANGED vars => UNCHANGED jobs
  BY DEF Run, Stop, Close, StopAll, RowDismiss, RowCancel, vars
<1>7. ASSUME NEW w \in Workers, WorkerSteps(w) \/ EngineReports(w) PROVE UNCHANGED jobs
  BY <1>7 DEF WorkerSteps, EngineReports, WorkerStarts, WorkerEnds, WorkerStops, WorkerPicks,
              WorkerBegins, Identifies, Transcribes, ChecksVoices, Completes, Raises, Fails,
              Finishes, Resets, WorkerGoes
<1> QED BY <1>1, <1>2, <1>3, <1>4, <1>5, <1>6, <1>7 DEF QueueNext, Answer

\* A user who can only press what is drawn, in a table that is drawn late, does
\* with the queue nothing that the queue's own specification does not allow: what
\* is proved of every sequence of clicks holds of the clicks on the table.
THEOREM TableImplementsQueue == TableSpec => QueueSpec
<1>1. QueueInit => ListTyped BY DEF QueueInit, ListTyped
<1>2. ListTyped /\ [TableNext]_<<vars, tableVars>> => [QueueNext]_vars BY TableStep
<1>3. ListTyped /\ [QueueNext]_vars => ListTyped' BY ListTypedNext
<1> QED BY <1>1, <1>2, <1>3, PTL DEF TableSpec, TableInit, QueueSpec

\* update_queue_table: whatever is pressed and whatever the threads do, the table
\* shows the queue once the tasks left for the GUI thread have been done, and a
\* waiting job can be run or stopped.
THEOREM TableIsTrue == TableSpec => []TableShowsQueue
<1> DEFINE Drawn == rows = [j \in Members(jobs) |-> status[j]] /\ controls = Enabled(jobs, status)
           TableInv == ~redraw /\ ~closed => Drawn
<1>1. Drawn => TableShowsQueue
  <2> SUFFICES ASSUME Drawn, Waiting # {} PROVE controls \cap {"run", "stop"} # {}
    BY DEF TableShowsQueue
  <2>1. PICK j \in Members(jobs) : status[j] = "waiting" BY DEF Waiting
  <2>2. "stop" \in Enabled(jobs, status) BY <2>1 DEF Enabled
  <2> QED BY <2>2
<1>2. TableInv => TableShowsQueue BY <1>1 DEF TableShowsQueue
<1>3. TableInit => TableInv
  <2> SUFFICES ASSUME TableInit PROVE Drawn OBVIOUS
  <2>1. Members(jobs) = {} BY DEF TableInit, QueueInit, Members
  <2>2. controls = Enabled(jobs, status) BY <2>1 DEF TableInit, Enabled
  <2>3. rows = [j \in Members(jobs) |-> status[j]] BY <2>1 DEF TableInit
  <2> QED BY <2>2, <2>3
<1>4. Draws => Drawn' BY DEF Draws, DrawsControls, ShownAs
<1>5. TableInv /\ [TableNext]_<<vars, tableVars>> => TableInv'
  <2> SUFFICES ASSUME TableInv, [TableNext]_<<vars, tableVars>>, ~redraw', ~closed' PROVE Drawn'
    OBVIOUS
  <2> DEFINE Same == UNCHANGED <<jobs, status, redraw, closed, rows>>
  <2>1. Same /\ (UNCHANGED controls \/ DrawsControls) => Drawn'
    BY DEF DrawsControls, Members
  <2>2. CASE UNCHANGED <<vars, tableVars>> BY <2>1, <2>2 DEF vars, tableVars
  <2>3. CASE Presses
    <3>1. ASSUME NEW j, RowAsk(j), UNCHANGED <<rows, controls, redraw>> PROVE Drawn'
      BY <2>1, <3>1 DEF RowAsk
    <3>2. ASSUME Run, DrawsControls, UNCHANGED <<rows, redraw>> PROVE Drawn'
      BY <2>1, <3>2 DEF Run, user
    <3>3. ASSUME RowDismiss, UNCHANGED <<rows, controls, redraw>> PROVE Drawn'
      BY <2>1, <3>3 DEF RowDismiss
    <3> HIDE DEF Drawn
    <3> QED BY <1>4, <2>3, <3>1, <3>2, <3>3 DEF Presses
  <2>4. CASE Drains BY <1>4, <2>4 DEF Drains
  <2>5. ASSUME NEW w \in Workers, Works(w) PROVE Drawn'
    <3>1. UNCHANGED closed
      BY <2>5 DEF Works, Announced, Silent, WorkerStarts, WorkerEnds, WorkerStops, WorkerPicks,
                  WorkerBegins, Identifies, Transcribes, EngineReports, ChecksVoices, Completes,
                  Raises, Fails, Finishes, Resets, WorkerGoes, user
    <3>2. ASSUME Silent(w), UNCHANGED tableVars PROVE Drawn'
      BY <2>1, <3>1, <3>2
      DEF tableVars, Silent, WorkerStarts, WorkerPicks, ChecksVoices, Completes, Resets, WorkerGoes
    <3>3. ASSUME WorkerEnds(w), DrawsControls, UNCHANGED <<rows, redraw>> PROVE Drawn'
      BY <2>1, <3>1, <3>3 DEF WorkerEnds
    <3> HIDE DEF Drawn
    <3> QED BY <2>5, <3>1, <3>2, <3>3 DEF Works
  <2> QED BY <2>2, <2>3, <2>4, <2>5 DEF TableNext
<1> HIDE DEF TableInv
<1> QED BY <1>2, <1>3, <1>5, PTL DEF TableSpec


-----------------------------------------------------------------------------
(* The worker process of a job (LocalWorker).                              *)
Calls == [at : Places, task : Nat, retry : BOOLEAN, outcome : Outcomes,
          device : {"auto", "cuda", "cpu"}, seen : Devices]

FlagsTyped ==
  /\ flag \in BOOLEAN /\ active \in BOOLEAN /\ event \in BOOLEAN /\ process \in BOOLEAN
  /\ canceller \in {"idle", "looking", "signalling", "reading", "killing", "closed"}
  /\ tried \in Devices

ChildTyped ==
  child \in [is : {"none", "working", "finished", "dead"}, device : Devices, done : Nat]

QueuesTyped == buffer \in Seq(Messages) /\ pipe \in Seq(Messages)

Typed == call \in Calls /\ FlagsTyped /\ ChildTyped /\ QueuesTyped

\* Who cancels has set the flag of the job, which cannot end before; an event
\* that is set was set for it, once a worker has been started.
FlagIsOwn ==
  /\ canceller # "idle" => flag
  /\ event /\ call.at \in {"registering", "polling", "getting", "checking", "cleaning"} => flag
  /\ CancelledWasAsked

\* A message says of the device what the worker in question has found, and a
\* result is its last word.
IsOf(message, proc) ==
  /\ message.type = "state" => message.device = proc.device
  /\ message.type = "result" =>
       /\ message.outcome = "gpu" => proc.device # "cpu"
       /\ proc.is # "working"

AllOf(q, proc) == \A i \in 1 .. Len(q) : IsOf(q[i], proc)

MessagesAreOwn == AllOf(buffer, child) /\ AllOf(pipe, child)

\* While the device is open, nothing has been said that depends on it.
DeviceOpen ==
  child.is = "working" /\ child.device = "unknown" => buffer = << >> /\ pipe = << >>

\* What is believed of the device, while the worker is there and afterwards.
BeliefIsOwn ==
  /\ call.at \in {"registering", "polling", "getting", "checking", "cleaning"} =>
       /\ call.seen = "cuda" => child.device = "cuda"
       /\ call.at = "cleaning" /\ call.outcome = "gpu" =>
            child.device # "cpu" /\ child.is # "working"
  /\ call.at \in {"leaving", "judging"} /\ ~call.retry =>
       /\ call.seen = "cuda" => tried = "cuda"
       /\ call.outcome = "gpu" => tried # "cpu"
  /\ RetryLeavesCuda

WorkerInvariant ==
  Typed /\ NothingIsLeftBehind /\ FlagIsOwn /\ MessagesAreOwn /\ DeviceOpen /\ BeliefIsOwn

-----------------------------------------------------------------------------
(* What a message is.                                                      *)

LEMMA MessageParts ==
  ASSUME NEW message \in Messages
  PROVE  /\ message.type = "state" => message.device \in Devices
         /\ message.type = "result" => message.outcome \in {"ok", "gpu", "other"}
BY DEF Messages

LEMMA MessageMade ==
  /\ \A d \in Devices : [type |-> "state", device |-> d] \in Messages
  /\ \A n \in 1 .. Items : [type |-> "item", number |-> n] \in Messages
  /\ \A o \in {"ok", "gpu", "other"} : [type |-> "result", outcome |-> o] \in Messages
  /\ [type |-> "half"] \in Messages
BY DEF Messages

\* The first message of a queue is a message, and the rest is a queue.
LEMMA HeadIsMessage ==
  ASSUME NEW q \in Seq(Messages), q # << >>
  PROVE  Head(q) \in Messages /\ Tail(q) \in Seq(Messages)
OBVIOUS

-----------------------------------------------------------------------------
(* Who changes what.                                                       *)

\* Only its own thread changes the call.
LEMMA CallKept ==
  ASSUME CancelBegins \/ Canceller \/ WorkerProcess \/ UNCHANGED workerVars
  PROVE  UNCHANGED call
BY DEF CancelBegins, Canceller, CancelLooks, CancelSignals, CancelReads, CancelKills,
       CancellerOnly, WorkerProcess, SelectsDevice, PutsItem, PutsResult, FeederWrites,
       ChildExits, ChildCrashes, ChildActs, workerVars

\* The worker and its queue change by what the worker does, by being started,
\* read, killed and cleaned up.
LEMMA WorkerKept ==
  ASSUME [WorkerNext]_workerVars
  PROVE  \/ StartsWorker \/ Reads \/ CleansUp \/ Dies
         \/ SelectsDevice \/ PutsItem \/ PutsResult \/ FeederWrites \/ ChildExits
         \/ UNCHANGED <<child, buffer, pipe>>
<1>1. CASE Polls \/ CancelKills \/ ChildCrashes
  BY <1>1 DEF Polls, CancelKills, ChildCrashes, Terminate
<1>2. CASE JobBegins \/ Prepares \/ LooksAtTask \/ RegistersProcess \/ TimesOut
           \/ ChecksWorker \/ TaskSucceeds \/ TaskIsRetried \/ TaskFails
  BY <1>2 DEF JobBegins, Prepares, LooksAtTask, RegistersProcess, TimesOut,
              ChecksWorker, TaskSucceeds, TaskIsRetried, TaskFails, CallerOnly
<1>3. CASE EntersRegistry \/ LeavesRegistry \/ JobEnds
  BY <1>3 DEF EntersRegistry, LeavesRegistry, JobEnds
<1>4. CASE CancelBegins \/ CancelLooks \/ CancelSignals \/ CancelReads
  BY <1>4 DEF CancelBegins, CancelLooks, CancelSignals, CancelReads
<1>5. CASE UNCHANGED workerVars BY <1>5 DEF workerVars
<1> QED
  BY <1>1, <1>2, <1>3, <1>4, <1>5 DEF WorkerNext, Caller, Canceller, WorkerProcess

-----------------------------------------------------------------------------
(* Types.                                                                  *)

\* The death of a worker leaves queues of messages.
LEMMA DiesKeepsQueues ==
  ASSUME QueuesTyped, Dies
  PROVE  QueuesTyped'
<1>1. CASE UNCHANGED pipe BY <1>1 DEF QueuesTyped, Dies
<1>2. CASE pipe' = Append(pipe, [type |-> "half"])
  BY <1>2, MessageMade DEF QueuesTyped, Dies
<1> QED BY <1>1, <1>2 DEF Dies

\* The call keeps its type.
LEMMA CallStep ==
  ASSUME Typed, [WorkerNext]_workerVars
  PROVE  (call \in Calls)'
<1> USE DEF Typed, Calls, Places, Outcomes, Devices
<1>1. CASE JobBegins
  <2>1. PICK d \in {"auto", "cuda", "cpu"} :
          call' = [at |-> "preparing", task |-> 1, retry |-> FALSE, outcome |-> "none",
                   device |-> d, seen |-> "unknown"]
    BY <1>1 DEF JobBegins, NoCall
  <2> QED BY <2>1 DEF Calls, Places, Outcomes, Devices
<1>2. CASE JobEnds
  BY <1>2 DEF JobEnds, NoCall
<1>3. CASE Prepares \/ LooksAtTask \/ EntersRegistry \/ RegistersProcess \/
           TimesOut \/ LeavesRegistry \/ TaskFails
  BY <1>3
  DEF Prepares, LooksAtTask, EntersRegistry, RegistersProcess, TimesOut,
      LeavesRegistry, TaskFails, Goes
<1>4. CASE StartsWorker
  BY <1>4 DEF StartsWorker, Presumed
<1>5. CASE Polls \/ ChecksWorker \/ CleansUp
  BY <1>5 DEF Polls, ChecksWorker, CleansUp, Goes, Ends
<1>6. CASE Reads
  BY <1>6, HeadIsMessage, MessageParts, ZenonT(60) DEF QueuesTyped, Reads, Goes, Ends
<1>7. CASE TaskSucceeds
  <2>1. PICK p \in {"over", "looking"} :
          call' = [call EXCEPT !.at = p, !.task = call.task + 1]
    BY <1>7 DEF TaskSucceeds
  <2>2. call.task + 1 \in Nat BY DEF Typed, Calls
  <2> QED BY <2>1, <2>2 DEF Typed, Calls, Places
<1>8. CASE TaskIsRetried
  BY <1>8 DEF TaskIsRetried
<1> QED
  BY <1>1, <1>2, <1>3, <1>4, <1>5, <1>6, <1>7, <1>8, CallKept
  DEF WorkerNext, Caller

\* So do the flags,
LEMMA FlagsStep ==
  ASSUME Typed, [WorkerNext]_workerVars
  PROVE  FlagsTyped'
<1> USE DEF Typed, FlagsTyped
<1>1. CASE JobBegins \/ Prepares \/ LooksAtTask \/ RegistersProcess \/
           TimesOut \/ ChecksWorker \/ TaskSucceeds \/
           TaskIsRetried \/ TaskFails
  BY <1>1
  DEF JobBegins, Prepares, LooksAtTask, RegistersProcess, TimesOut,
      ChecksWorker, TaskSucceeds, TaskIsRetried, TaskFails, CallerOnly
<1>2. CASE EntersRegistry \/ StartsWorker \/ Polls \/ Reads \/ LeavesRegistry
  BY <1>2 DEF EntersRegistry, StartsWorker, Polls, Reads, LeavesRegistry
<1>3. CASE CleansUp \/ JobEnds
  BY <1>3 DEF CleansUp, JobEnds, ChildTyped, Devices
<1>4. CASE CancelBegins \/ Canceller
  BY <1>4
  DEF CancelBegins, Canceller, CancelLooks, CancelSignals, CancelReads,
      CancelKills, CancellerOnly
<1>5. CASE WorkerProcess
  BY <1>5
  DEF WorkerProcess, SelectsDevice, PutsItem, PutsResult, FeederWrites,
      ChildExits, ChildCrashes, ChildActs
<1>6. CASE UNCHANGED workerVars
  BY <1>6 DEF workerVars
<1> QED
  BY <1>1, <1>2, <1>3, <1>4, <1>5, <1>6
  DEF WorkerNext, Caller

\* the worker process,
LEMMA ChildStep ==
  ASSUME Typed, [WorkerNext]_workerVars
  PROVE  ChildTyped'
<1> USE DEF Typed, ChildTyped, Devices
<1>1. CASE StartsWorker
  BY <1>1 DEF StartsWorker, NoChild, Presumed
<1>2. CASE CleansUp
  BY <1>2 DEF CleansUp, NoChild
<1>3. CASE Reads \/ FeederWrites
  BY <1>3 DEF Reads, FeederWrites
<1>4. CASE Dies
  BY <1>4 DEF Dies
<1>5. CASE SelectsDevice
  BY <1>5 DEF SelectsDevice, Requested, Calls
<1>6. CASE PutsItem
  BY <1>6, WorkerAssumption DEF PutsItem
<1>7. CASE PutsResult \/ ChildExits
  BY <1>7 DEF PutsResult, ChildExits
<1>8. CASE UNCHANGED <<child, buffer, pipe>>
  BY <1>8
<1> QED
  BY <1>1, <1>2, <1>3, <1>4, <1>5, <1>6, <1>7, <1>8, WorkerKept

\* and the queue.
LEMMA QueuesStep ==
  ASSUME Typed, [WorkerNext]_workerVars
  PROVE  QueuesTyped'
<1> USE DEF Typed, QueuesTyped
<1>1. CASE StartsWorker
  BY <1>1 DEF StartsWorker
<1>2. CASE CleansUp
  BY <1>2 DEF CleansUp
<1>3. CASE Reads
  BY <1>3, HeadIsMessage DEF Reads
<1>4. CASE Dies
  BY <1>4, DiesKeepsQueues
<1>5. CASE SelectsDevice
  BY <1>5, MessageMade DEF SelectsDevice, Puts, Requested, Calls, Devices
<1>6. CASE PutsItem
  <2>1. child.done + 1 \in 1 .. Items
    BY <1>6, WorkerAssumption DEF PutsItem, Typed, ChildTyped
  <2>2. [type |-> "item", number |-> child.done + 1] \in Messages
    BY <2>1, MessageMade
  <2>3. buffer' = Append(buffer, [type |-> "item", number |-> child.done + 1]) /\ pipe' = pipe
    BY <1>6 DEF PutsItem, Puts
  <2> QED BY <2>2, <2>3 DEF Typed, QueuesTyped
<1>7. CASE PutsResult
  BY <1>7, MessageMade DEF PutsResult, Puts
<1>8. CASE FeederWrites
  BY <1>8, HeadIsMessage DEF FeederWrites
<1>9. CASE ChildExits
  BY <1>9 DEF ChildExits, queueVars
<1>10. CASE UNCHANGED <<child, buffer, pipe>>
  BY <1>10
<1> QED
  BY <1>1, <1>2, <1>3, <1>4, <1>5, <1>6, <1>7, <1>8, <1>9, <1>10, WorkerKept

LEMMA TypedStep == Typed /\ [WorkerNext]_workerVars => Typed'
<1> SUFFICES ASSUME Typed, [WorkerNext]_workerVars PROVE Typed' OBVIOUS
<1>1. (call \in Calls)' BY CallStep
<1>2. FlagsTyped' BY FlagsStep
<1>3. ChildTyped' BY ChildStep
<1>4. QueuesTyped' BY QueuesStep
<1> QED BY <1>1, <1>2, <1>3, <1>4 DEF Typed

-----------------------------------------------------------------------------
(* Calls and cancellations.                                                *)

\* What a call has started ends with it.
LEMMA LeftStep ==
  ASSUME Typed, NothingIsLeftBehind, [WorkerNext]_workerVars
  PROVE  NothingIsLeftBehind'
<1> USE DEF NothingIsLeftBehind, Typed, Calls
<1>1. CASE JobBegins \/ JobEnds
  BY <1>1 DEF JobBegins, JobEnds, NoCall, CallerOnly
<1>2. CASE Prepares \/ LooksAtTask \/ EntersRegistry \/ RegistersProcess \/
           TimesOut \/ LeavesRegistry \/ TaskFails
  BY <1>2
  DEF Prepares, LooksAtTask, EntersRegistry, RegistersProcess, TimesOut,
      LeavesRegistry, TaskFails, Goes, CallerOnly
<1>3. CASE StartsWorker
  BY <1>3 DEF StartsWorker
<1>4. CASE CleansUp
  BY <1>4 DEF CleansUp, NoChild, Goes
<1>5. CASE Polls \/ Reads \/ ChecksWorker
  BY <1>5 DEF Polls, Reads, ChecksWorker, Goes, Ends, CallerOnly
<1>6. CASE TaskSucceeds \/ TaskIsRetried
  BY <1>6 DEF TaskSucceeds, TaskIsRetried, CallerOnly
<1>7. CASE CancelBegins \/ CancelLooks \/ CancelSignals \/ CancelReads
  BY <1>7 DEF CancelBegins, CancelLooks, CancelSignals, CancelReads, CancellerOnly
<1>8. CASE CancelKills
  BY <1>8 DEF CancelKills, Terminate, IsAlive, CancellerOnly
<1>9. CASE WorkerProcess
  BY <1>9
  DEF WorkerProcess, SelectsDevice, PutsItem, PutsResult, FeederWrites,
      ChildExits, ChildCrashes, IsAlive, ChildActs, ChildTyped
<1>10. CASE UNCHANGED workerVars
  BY <1>10 DEF workerVars
<1> QED
  BY <1>1, <1>2, <1>3, <1>4, <1>5, <1>6, <1>7, <1>8, <1>9, <1>10
  DEF WorkerNext, Caller, Canceller

\* Whoever cancels, cancels this job.
LEMMA CancellationStep ==
  ASSUME Typed, FlagIsOwn, [WorkerNext]_workerVars
  PROVE  FlagIsOwn'
<1> USE DEF FlagIsOwn, CancelledWasAsked, Typed, Calls
<1>1. CASE JobBegins
  BY <1>1 DEF JobBegins, NoCall, CallerOnly
<1>2. CASE JobEnds
  BY <1>2 DEF JobEnds, NoCall
<1>3. CASE Prepares \/ LooksAtTask \/ TaskFails
  BY <1>3 DEF Prepares, LooksAtTask, TaskFails, Goes, CallerOnly
<1>4. CASE EntersRegistry \/ LeavesRegistry
  BY <1>4 DEF EntersRegistry, LeavesRegistry, Goes
<1>5. CASE RegistersProcess \/ TimesOut
  BY <1>5 DEF RegistersProcess, TimesOut, Goes, CallerOnly
<1>6. CASE StartsWorker
  BY <1>6 DEF StartsWorker
<1>7. CASE CleansUp
  BY <1>7 DEF CleansUp, NoChild, Goes
<1>8. CASE Polls
  BY <1>8 DEF Polls, Goes, Ends
<1>9. CASE ChecksWorker
  BY <1>9 DEF ChecksWorker, Goes, Ends, CallerOnly
<1>10. CASE Reads
  BY <1>10, HeadIsMessage, MessageParts DEF QueuesTyped, Reads, Goes, Ends
<1>11. CASE TaskSucceeds \/ TaskIsRetried
  BY <1>11 DEF TaskSucceeds, TaskIsRetried, CallerOnly
<1>12. CASE CancelBegins \/ Canceller
  BY <1>12
  DEF CancelBegins, Canceller, CancelLooks, CancelSignals, CancelReads,
      CancelKills, CancellerOnly
<1>13. CASE WorkerProcess
  BY <1>13
  DEF WorkerProcess, SelectsDevice, PutsItem, PutsResult, FeederWrites,
      ChildExits, ChildCrashes, ChildActs
<1>14. CASE UNCHANGED workerVars
  BY <1>14 DEF workerVars
<1> QED
  BY <1>1, <1>2, <1>3, <1>4, <1>5, <1>6, <1>7, <1>8, <1>9, <1>10, <1>11, <1>12,
     <1>13, <1>14
  DEF WorkerNext, Caller

-----------------------------------------------------------------------------
(* What the messages say.                                                  *)

LEMMA AppendIsOf ==
  ASSUME NEW q \in Seq(Messages), NEW message \in Messages, NEW proc,
         AllOf(q, proc), IsOf(message, proc)
  PROVE  AllOf(Append(q, message), proc)
<1> SUFFICES ASSUME NEW i \in 1 .. Len(Append(q, message))
             PROVE  IsOf(Append(q, message)[i], proc)
  BY DEF AllOf
<1>1. CASE i = Len(q) + 1 BY <1>1
<1>2. CASE i # Len(q) + 1
  <2>1. i \in 1 .. Len(q) /\ Append(q, message)[i] = q[i] BY <1>2
  <2> QED BY <2>1 DEF AllOf
<1> QED BY <1>1, <1>2

LEMMA HeadIsOf ==
  ASSUME NEW q \in Seq(Messages), NEW proc, AllOf(q, proc), q # << >>
  PROVE  IsOf(Head(q), proc) /\ AllOf(Tail(q), proc)
<1>1. IsOf(Head(q), proc) BY DEF AllOf
<1> SUFFICES ASSUME NEW i \in 1 .. Len(Tail(q)) PROVE IsOf(Tail(q)[i], proc)
  BY <1>1 DEF AllOf
<1>2. i + 1 \in 1 .. Len(q) /\ Tail(q)[i] = q[i + 1] OBVIOUS
<1> QED BY <1>2 DEF AllOf

\* What has been said stays true of a worker that goes on.
LEMMA GoesOnIsOf ==
  ASSUME NEW q, NEW proc, NEW later, AllOf(q, proc),
         later.device = proc.device, proc.is # "working" => later.is # "working"
  PROVE  AllOf(q, later)
BY DEF AllOf, IsOf

LEMMA NothingIsOf == ASSUME NEW proc PROVE AllOf(<< >>, proc)
BY DEF AllOf

LEMMA DiesIsOf ==
  ASSUME Typed, MessagesAreOwn, Dies
  PROVE  MessagesAreOwn'
<1>1. child'.device = child.device /\ child'.is = "dead"
  BY DEF Dies, Typed, ChildTyped
<1>2. AllOf(pipe, child') BY <1>1, GoesOnIsOf DEF MessagesAreOwn
<1>3. IsOf([type |-> "half"], child') BY DEF IsOf
<1>4. AllOf(Append(pipe, [type |-> "half"]), child')
  BY <1>2, <1>3, AppendIsOf, MessageMade DEF Typed, QueuesTyped
<1>5. AllOf(buffer', child') BY NothingIsOf DEF Dies
<1> QED BY <1>2, <1>4, <1>5 DEF MessagesAreOwn, Dies

\* Messages are of the worker that is there.
LEMMA MessagesStep ==
  ASSUME Typed, NothingIsLeftBehind, DeviceOpen, MessagesAreOwn, [WorkerNext]_workerVars
  PROVE  MessagesAreOwn'
<1>1. CASE StartsWorker
  <2>1. buffer = << >> /\ pipe = << >> /\ buffer' = << >> /\ pipe' = << >>
    BY <1>1 DEF StartsWorker, NothingIsLeftBehind
  <2> QED BY <2>1, NothingIsOf DEF MessagesAreOwn
<1>2. CASE Reads
  <2>1. /\ pipe # << >> /\ pipe' = Tail(pipe)
        /\ buffer' = buffer /\ child' = child
    BY <1>2 DEF Reads
  <2> QED BY <2>1, HeadIsOf DEF MessagesAreOwn, Typed, QueuesTyped
<1>3. CASE CleansUp
  <2>1. buffer' = << >> /\ pipe' = << >> BY <1>3 DEF CleansUp
  <2> QED BY <2>1, NothingIsOf DEF MessagesAreOwn
<1>4. CASE Dies
  BY <1>4, DiesIsOf
<1>5. CASE SelectsDevice
  <2>1. PICK d \in Devices :
          /\ child' = [child EXCEPT !.device = d]
          /\ buffer' = Append(buffer, [type |-> "state", device |-> d])
          /\ pipe' = pipe
    BY <1>5 DEF SelectsDevice, Puts, Requested, Devices, Typed, Calls
  <2>2. buffer = << >> /\ pipe = << >>
    BY <1>5 DEF SelectsDevice, DeviceOpen
  <2>3. IsOf([type |-> "state", device |-> d], child')
    BY <2>1 DEF IsOf, Typed, ChildTyped
  <2>4. AllOf(buffer', child')
    BY <2>1, <2>2, <2>3, AppendIsOf, NothingIsOf, MessageMade DEF Typed, QueuesTyped
  <2> QED BY <2>1, <2>2, <2>4, NothingIsOf DEF MessagesAreOwn
<1>6. CASE PutsItem
  <2> DEFINE message == [type |-> "item", number |-> child.done + 1]
  <2>1. message \in Messages
    BY <1>6, MessageMade, WorkerAssumption DEF Typed, ChildTyped, Puts, PutsItem
  <2>2. /\ child'.device = child.device /\ child'.is = child.is
        /\ buffer' = Append(buffer, message) /\ pipe' = pipe
    BY <1>6 DEF Typed, ChildTyped, Puts, PutsItem
  <2>3. IsOf(message, child') BY <2>2 DEF IsOf
  <2> HIDE DEF message
  <2>4. AllOf(buffer, child') /\ AllOf(pipe, child')
    BY <2>2, GoesOnIsOf DEF MessagesAreOwn
  <2>5. AllOf(buffer', child')
    BY <2>1, <2>2, <2>3, <2>4, AppendIsOf DEF Typed, QueuesTyped
  <2> QED BY <2>2, <2>4, <2>5 DEF MessagesAreOwn
<1>7. CASE PutsResult
  <2>1. PICK o \in {"ok", "gpu", "other"} :
          /\ o = "gpu" => child.device # "cpu"
          /\ buffer' = Append(buffer, [type |-> "result", outcome |-> o])
          /\ pipe' = pipe /\ child' = [child EXCEPT !.is = "finished"]
    BY <1>7 DEF PutsResult, Puts
  <2>2. child'.device = child.device /\ child'.is = "finished"
    BY <2>1 DEF Typed, ChildTyped
  <2>3. IsOf([type |-> "result", outcome |-> o], child') BY <2>1, <2>2 DEF IsOf
  <2>4. AllOf(buffer, child') /\ AllOf(pipe, child')
    BY <2>2, GoesOnIsOf DEF MessagesAreOwn
  <2>5. AllOf(buffer', child')
    BY <2>1, <2>3, <2>4, AppendIsOf, MessageMade DEF Typed, QueuesTyped
  <2> QED BY <2>1, <2>4, <2>5 DEF MessagesAreOwn
<1>8. CASE FeederWrites
  <2>1. /\ buffer # << >> /\ child' = child
        /\ pipe' = Append(pipe, Head(buffer)) /\ buffer' = Tail(buffer)
    BY <1>8 DEF FeederWrites
  <2>2. Head(buffer) \in Messages /\ IsOf(Head(buffer), child) /\ AllOf(Tail(buffer), child)
    BY <2>1, HeadIsMessage, HeadIsOf DEF Typed, QueuesTyped, MessagesAreOwn
  <2>3. AllOf(Append(pipe, Head(buffer)), child)
    BY <2>2, AppendIsOf DEF Typed, QueuesTyped, MessagesAreOwn
  <2> QED BY <2>1, <2>2, <2>3 DEF MessagesAreOwn
<1>9. CASE ChildExits
  <2>1. /\ child'.device = child.device /\ child'.is = "dead"
        /\ buffer' = buffer /\ pipe' = pipe
    BY <1>9 DEF ChildExits, queueVars, Typed, ChildTyped
  <2> QED BY <2>1, GoesOnIsOf DEF MessagesAreOwn
<1>10. CASE UNCHANGED <<child, buffer, pipe>>
  BY <1>10 DEF MessagesAreOwn
<1> QED
  BY <1>1, <1>2, <1>3, <1>4, <1>5, <1>6, <1>7, <1>8, <1>9, <1>10, WorkerKept

\* The device is reported before anything depends on it.
LEMMA DeviceStep ==
  ASSUME Typed, NothingIsLeftBehind, DeviceOpen, [WorkerNext]_workerVars
  PROVE  DeviceOpen'
<1> USE DEF DeviceOpen, Typed, ChildTyped
<1>1. CASE StartsWorker
  BY <1>1 DEF StartsWorker, NothingIsLeftBehind
<1>2. CASE CleansUp
  BY <1>2 DEF CleansUp
<1>3. CASE Reads \/ FeederWrites
  BY <1>3 DEF Reads, FeederWrites
<1>4. CASE Dies
  BY <1>4 DEF Dies
<1>5. CASE SelectsDevice
  <2>1. PICK d \in {"cuda", "cpu"} : child' = [child EXCEPT !.device = d]
    BY <1>5 DEF SelectsDevice, Requested, Typed, Calls
  <2> QED BY <2>1 DEF DeviceOpen, Typed, ChildTyped
<1>6. CASE PutsItem \/ PutsResult \/ ChildExits
  BY <1>6 DEF PutsItem, PutsResult, ChildExits
<1>7. CASE UNCHANGED <<child, buffer, pipe>>
  BY <1>7
<1> QED
  BY <1>1, <1>2, <1>3, <1>4, <1>5, <1>6, <1>7, WorkerKept

\* What is believed of the device is of the worker that is there, or was.
LEMMA BeliefStep ==
  ASSUME Typed, MessagesAreOwn, BeliefIsOwn, [WorkerNext]_workerVars
  PROVE  BeliefIsOwn'
<1> USE DEF BeliefIsOwn, RetryLeavesCuda, Typed, Calls, ChildTyped
<1>1. CASE JobBegins
  BY <1>1 DEF JobBegins, NoCall, CallerOnly
<1>2. CASE JobEnds
  BY <1>2 DEF JobEnds, NoCall
<1>3. CASE Prepares \/ LooksAtTask \/ EntersRegistry \/ RegistersProcess \/
           TimesOut \/ LeavesRegistry \/ TaskFails
  BY <1>3, ZenonT(60)
  DEF Prepares, LooksAtTask, EntersRegistry, RegistersProcess, TimesOut,
      LeavesRegistry, TaskFails, Goes, CallerOnly
<1>4. CASE StartsWorker
  BY <1>4 DEF StartsWorker, Presumed
<1>5. CASE CleansUp
  BY <1>5 DEF CleansUp, Goes
<1>6. CASE Polls
  BY <1>6 DEF Polls, Terminate, Dies, Goes, Ends
<1>7. CASE ChecksWorker
  BY <1>7 DEF ChecksWorker, Goes, Ends, CallerOnly
<1>8. CASE Reads
  <2> DEFINE message == Head(pipe)
  <2>1. IsOf(message, child) /\ message \in Messages
    BY <1>8, HeadIsOf, HeadIsMessage DEF Reads, MessagesAreOwn, Typed, QueuesTyped
  <2>2. /\ call.at = "getting" /\ child' = child /\ tried' = tried
        /\ \/ message.type = "state" /\ call' = [call EXCEPT !.at = "polling", !.seen = message.device]
           \/ call' = [call EXCEPT !.at = "polling"]
           \/ /\ message.type = "result"
              /\ call' = [call EXCEPT !.at = "cleaning", !.outcome = message.outcome]
    BY <1>8 DEF Reads, Goes, Ends
  <2> HIDE DEF message
  <2> QED BY <2>1, <2>2 DEF BeliefIsOwn, RetryLeavesCuda, Typed, Calls, IsOf
<1>9. CASE TaskSucceeds
  BY <1>9 DEF TaskSucceeds, CallerOnly
<1>10. CASE TaskIsRetried
  BY <1>10 DEF TaskIsRetried, MayRetry, AllowsRetry, CallerOnly
<1>11. CASE CancelBegins \/ CancelLooks \/ CancelSignals \/ CancelReads
  BY <1>11 DEF CancelBegins, CancelLooks, CancelSignals, CancelReads, CancellerOnly
<1>12. CASE CancelKills
  BY <1>12 DEF CancelKills, Terminate, Dies, CancellerOnly
<1>13. CASE WorkerProcess
  BY <1>13
  DEF WorkerProcess, SelectsDevice, PutsItem, PutsResult, FeederWrites,
      ChildExits, ChildCrashes, Dies, ChildActs
<1>14. CASE UNCHANGED workerVars
  BY <1>14 DEF workerVars
<1> QED
  BY <1>1, <1>2, <1>3, <1>4, <1>5, <1>6, <1>7, <1>8, <1>9, <1>10, <1>11, <1>12,
     <1>13, <1>14
  DEF WorkerNext, Caller, Canceller

-----------------------------------------------------------------------------

\* The inductive invariant.
THEOREM WorkerInvariance == WorkerSpec => []WorkerInvariant
<1>1. WorkerInit => WorkerInvariant
  <2> SUFFICES ASSUME WorkerInit PROVE WorkerInvariant OBVIOUS
  <2>1. Typed
    <3>1. call \in Calls
      BY DEF WorkerInit, NoCall, Calls, Places, Outcomes, Devices
    <3>2. FlagsTyped /\ ChildTyped
      BY DEF WorkerInit, NoChild, FlagsTyped, ChildTyped, Devices
    <3>3. QueuesTyped BY DEF WorkerInit, QueuesTyped
    <3> QED BY <3>1, <3>2, <3>3 DEF Typed
  <2>2. NothingIsLeftBehind /\ FlagIsOwn /\ DeviceOpen /\ BeliefIsOwn
    BY DEF WorkerInit, NoCall, NoChild, NothingIsLeftBehind, FlagIsOwn,
           CancelledWasAsked, DeviceOpen, BeliefIsOwn, RetryLeavesCuda
  <2>3. MessagesAreOwn BY NothingIsOf DEF WorkerInit, MessagesAreOwn
  <2> QED BY <2>1, <2>2, <2>3 DEF WorkerInvariant
<1>2. WorkerInvariant /\ [WorkerNext]_workerVars => WorkerInvariant'
  BY TypedStep, LeftStep, CancellationStep, MessagesStep, DeviceStep, BeliefStep
  DEF WorkerInvariant
<1> QED BY <1>1, <1>2, PTL DEF WorkerSpec

\* No worker process, and no message, outlives the call that started it.
THEOREM WorkerNothingIsLeft == WorkerSpec => []NothingIsLeftBehind
<1>1. WorkerInvariant => NothingIsLeftBehind BY DEF WorkerInvariant
<1> QED BY <1>1, WorkerInvariance, PTL

\* A cancellation that is raised was asked for by the job that it ends.
THEOREM WorkerCancelledWasAsked == WorkerSpec => []CancelledWasAsked
<1>1. WorkerInvariant => CancelledWasAsked BY DEF WorkerInvariant, FlagIsOwn
<1> QED BY <1>1, WorkerInvariance, PTL

\* A worker that ran on the CPU is not followed by a retry on the CPU, with any
\* number of messages under way or lost.
THEOREM WorkerRetryLeavesCuda == WorkerSpec => []RetryLeavesCuda
<1>1. WorkerInvariant => RetryLeavesCuda BY DEF WorkerInvariant, BeliefIsOwn
<1> QED BY <1>1, WorkerInvariance, PTL

\* What is concluded of a worker that has ended is true of it and of its job.
THEOREM WorkerConclusionsAreOwn == WorkerSpec => []ConclusionsAreOwn
<1> QED BY WorkerCancelledWasAsked, WorkerRetryLeavesCuda, PTL DEF ConclusionsAreOwn

-----------------------------------------------------------------------------
(* What is read is a task stream.  The messages that are under way take    *)
(* whoever reads them from the items told to those that the worker has put.*)

\* A message takes its reader from a items to b.
Takes(message, a, b) ==
  /\ message.type = "item" => message.number = a + 1 /\ b = a + 1
  /\ message.type # "item" => b = a
  /\ message.type = "result" => (message.outcome = "ok" => a = Items)

Carries(q, a, b) ==
  \E n \in [0 .. Len(q) -> Nat] :
    /\ n[0] = a /\ n[Len(q)] = b
    /\ \A i \in 1 .. Len(q) : Takes(q[i], n[i - 1], n[i])

CallPlaces == {"registering", "polling", "getting", "checking", "cleaning"}

UnderWay ==
  \E mid \in Nat : /\ Carries(pipe, Len(told), mid)
                   /\ IsAlive => Carries(buffer, mid, child.done)

\* The items told, those under way, and the result that has been read.
ItemsInOrder ==
  /\ told \in Seq(1 .. Items)
  /\ call.at = "between" => call = NoCall
  /\ call.at \in {"between", "preparing", "calling", "starting"} => told = << >>
  /\ call.at \in CallPlaces => UnderWay
  /\ call.at \in {"cleaning", "leaving", "judging"} /\ call.outcome = "ok" =>
       Len(told) = Items

LEMMA NothingCarries ==
  ASSUME NEW a \in Nat
  PROVE  Carries(<< >>, a, a)
<1> DEFINE n == [i \in 0 .. 0 |-> a]
<1>1. /\ n \in [0 .. 0 -> Nat] /\ n[0] = a
      /\ Len(<< >>) = 0 /\ 1 .. 0 = {}
  OBVIOUS
<1> HIDE DEF n
<1> QED BY <1>1 DEF Carries

LEMMA OneMoreCarries ==
  ASSUME NEW q \in Seq(Messages), NEW message \in Messages,
         NEW a \in Nat, NEW b \in Nat, NEW c \in Nat,
         Carries(q, a, b), Takes(message, b, c)
  PROVE  Carries(Append(q, message), a, c)
<1> DEFINE k == Len(q)
           r == Append(q, message)
<1>1. /\ k \in Nat /\ Len(r) = k + 1 /\ r[k + 1] = message
      /\ \A i \in 1 .. k : r[i] = q[i]
  OBVIOUS
<1>2. PICK n \in [0 .. k -> Nat] :
        /\ n[0] = a /\ n[k] = b
        /\ \A i \in 1 .. k : Takes(q[i], n[i - 1], n[i])
  BY DEF Carries
<1> DEFINE longer == [i \in 0 .. k + 1 |-> IF i = k + 1 THEN c ELSE n[i]]
<1> HIDE DEF k, r
<1>3. longer \in [0 .. Len(r) -> Nat] /\ longer[0] = a /\ longer[Len(r)] = c
  BY <1>1, <1>2
<1>4. ASSUME NEW i \in 1 .. Len(r)
      PROVE  Takes(r[i], longer[i - 1], longer[i])
  <2>1. CASE i = k + 1
    <3>1. longer[i] = c /\ longer[i - 1] = b /\ r[i] = message BY <1>1, <1>2, <2>1
    <3> QED BY <3>1
  <2>2. CASE i # k + 1
    <3>1. i \in 1 .. k /\ i - 1 \in 0 .. k BY <1>1, <2>2
    <3>2. longer[i] = n[i] /\ longer[i - 1] = n[i - 1] /\ r[i] = q[i]
      BY <1>1, <3>1
    <3> QED BY <1>2, <3>1, <3>2
  <2> QED BY <2>1, <2>2
<1> HIDE DEF longer
<1>5. Carries(r, a, c) BY <1>3, <1>4 DEF Carries
<1> QED BY <1>5 DEF r

LEMMA OneLessCarries ==
  ASSUME NEW q \in Seq(Messages), q # << >>,
         NEW a \in Nat, NEW b \in Nat, Carries(q, a, b)
  PROVE  \E c \in Nat : Takes(Head(q), a, c) /\ Carries(Tail(q), c, b)
<1> DEFINE k == Len(q)
           r == Tail(q)
<1>1. /\ k \in Nat /\ k > 0 /\ Len(r) = k - 1 /\ Head(q) = q[1]
      /\ \A i \in 1 .. k - 1 : r[i] = q[i + 1]
  OBVIOUS
<1>2. PICK n \in [0 .. k -> Nat] :
        /\ n[0] = a /\ n[k] = b
        /\ \A i \in 1 .. k : Takes(q[i], n[i - 1], n[i])
  BY DEF Carries
<1> DEFINE shorter == [i \in 0 .. k - 1 |-> n[i + 1]]
<1> HIDE DEF k, r
<1>3. n[1] \in Nat /\ Takes(Head(q), a, n[1])
  <2>1. Takes(q[1], n[1 - 1], n[1]) BY <1>1, <1>2
  <2>2. 1 - 1 = 0 OBVIOUS
  <2> QED BY <2>1, <2>2, <1>1, <1>2
<1>4. shorter \in [0 .. Len(r) -> Nat] /\ shorter[0] = n[1] /\ shorter[Len(r)] = b
  BY <1>1, <1>2
<1>5. ASSUME NEW i \in 1 .. Len(r)
      PROVE  Takes(r[i], shorter[i - 1], shorter[i])
  <2>1. i + 1 \in 1 .. k /\ i \in 0 .. k - 1 /\ i - 1 \in 0 .. k - 1 /\ i \in 1 .. k - 1
    BY <1>1
  <2>2. shorter[i] = n[i + 1] /\ shorter[i - 1] = n[(i + 1) - 1]
    BY <2>1
  <2>3. r[i] = q[i + 1] BY <1>1, <2>1
  <2>4. Takes(q[i + 1], n[(i + 1) - 1], n[i + 1]) BY <1>2, <2>1
  <2> QED BY <2>2, <2>3, <2>4
<1> HIDE DEF shorter
<1>6. Carries(r, n[1], b) BY <1>4, <1>5 DEF Carries
<1> QED BY <1>3, <1>6 DEF r

\* What the worker does, and its death, leave the messages in order.
LEMMA WorkerKeepsOrder ==
  ASSUME Typed, UnderWay, Len(told) \in Nat, told' = told,
         \/ Dies
         \/ SelectsDevice \/ PutsItem \/ PutsResult \/ FeederWrites \/ ChildExits
         \/ UNCHANGED <<child, buffer, pipe>>
  PROVE  UnderWay'
<1>1. PICK mid \in Nat : /\ Carries(pipe, Len(told), mid)
                         /\ IsAlive => Carries(buffer, mid, child.done)
  BY DEF UnderWay
<1>2. /\ buffer \in Seq(Messages) /\ pipe \in Seq(Messages)
      /\ child.done \in Nat /\ child \in [is : {"none", "working", "finished", "dead"},
                                          device : Devices, done : Nat]
  BY DEF Typed, QueuesTyped, ChildTyped
<1>3. CASE Dies
  <2>1. ~IsAlive' BY <1>2, <1>3 DEF Dies, IsAlive
  <2>2. CASE pipe' = pipe
    BY <1>1, <2>1, <2>2 DEF UnderWay
  <2>3. CASE pipe' = Append(pipe, [type |-> "half"])
    <3>1. Takes([type |-> "half"], mid, mid) BY DEF Takes
    <3>2. Carries(pipe', Len(told), mid)
      BY <1>1, <1>2, <2>3, <3>1, MessageMade, OneMoreCarries
    <3> QED BY <2>1, <3>2 DEF UnderWay
  <2> QED BY <1>3, <2>2, <2>3 DEF Dies
<1>4. CASE SelectsDevice
  <2>1. PICK d \in Devices :
          /\ child' = [child EXCEPT !.device = d] /\ pipe' = pipe
          /\ buffer' = Append(buffer, [type |-> "state", device |-> d])
    BY <1>4 DEF SelectsDevice, Puts, Requested, Devices, Typed, Calls
  <2>2. IsAlive /\ child'.done = child.done BY <1>2, <1>4, <2>1 DEF SelectsDevice, IsAlive
  <2>3. Takes([type |-> "state", device |-> d], child.done, child.done) BY DEF Takes
  <2>4. Carries(buffer', mid, child'.done)
    BY <1>1, <1>2, <2>1, <2>2, <2>3, MessageMade, OneMoreCarries
  <2> QED BY <1>1, <2>1, <2>4 DEF UnderWay
<1>5. CASE PutsItem
  <2> DEFINE message == [type |-> "item", number |-> child.done + 1]
  <2>1. /\ buffer' = Append(buffer, message) /\ pipe' = pipe
        /\ child' = [child EXCEPT !.done = @ + 1] /\ IsAlive
    BY <1>5 DEF PutsItem, Puts, IsAlive
  <2>2. child.done + 1 \in 1 .. Items /\ child'.done = child.done + 1
    BY <1>2, <1>5, <2>1, WorkerAssumption DEF PutsItem
  <2>3. message \in Messages BY <2>2, MessageMade
  <2>4. Takes(message, child.done, child.done + 1) BY DEF Takes
  <2> HIDE DEF message
  <2>5. Carries(buffer', mid, child'.done)
    BY <1>1, <1>2, <2>1, <2>2, <2>3, <2>4, OneMoreCarries
  <2> QED BY <1>1, <2>1, <2>5 DEF UnderWay
<1>6. CASE PutsResult
  <2>1. PICK o \in {"ok", "gpu", "other"} :
          /\ o = "ok" => child.done = Items
          /\ buffer' = Append(buffer, [type |-> "result", outcome |-> o])
          /\ pipe' = pipe /\ child' = [child EXCEPT !.is = "finished"] /\ IsAlive
    BY <1>6 DEF PutsResult, Puts, IsAlive
  <2>2. child'.done = child.done BY <1>2, <2>1
  <2>3. Takes([type |-> "result", outcome |-> o], child.done, child.done)
    BY <2>1 DEF Takes
  <2>4. Carries(buffer', mid, child'.done)
    BY <1>1, <1>2, <2>1, <2>2, <2>3, MessageMade, OneMoreCarries
  <2> QED BY <1>1, <2>1, <2>4 DEF UnderWay
<1>7. CASE FeederWrites
  <2>1. /\ buffer # << >> /\ child' = child /\ IsAlive
        /\ pipe' = Append(pipe, Head(buffer)) /\ buffer' = Tail(buffer)
    BY <1>7 DEF FeederWrites, IsAlive
  <2>2. PICK c \in Nat : Takes(Head(buffer), mid, c) /\ Carries(Tail(buffer), c, child.done)
    BY <1>1, <1>2, <2>1, OneLessCarries
  <2>3. Carries(pipe', Len(told), c)
    BY <1>1, <1>2, <2>1, <2>2, HeadIsMessage, OneMoreCarries
  <2> QED BY <2>1, <2>2, <2>3 DEF UnderWay
<1>8. CASE ChildExits
  <2>1. ~IsAlive' /\ pipe' = pipe BY <1>2, <1>8 DEF ChildExits, queueVars, IsAlive
  <2> QED BY <1>1, <2>1 DEF UnderWay
<1>9. CASE UNCHANGED <<child, buffer, pipe>>
  BY <1>1, <1>9 DEF UnderWay, IsAlive
<1> QED BY <1>3, <1>4, <1>5, <1>6, <1>7, <1>8, <1>9

\* What an item or a result that is read says of those before.
LEMMA ReadInOrder ==
  ASSUME Typed, ItemsInOrder, Reads
  PROVE  /\ UnderWay' /\ Head(pipe) \in Messages
         /\ Head(pipe).type = "item" =>
              /\ told' = Append(told, Len(told) + 1) /\ Len(told) < Items
              /\ told' \in Seq(1 .. Items)
         /\ Head(pipe).type = "result" /\ Head(pipe).outcome = "ok" => Len(told) = Items
<1>1. /\ call.at = "getting" /\ pipe # << >> /\ pipe' = Tail(pipe)
      /\ UNCHANGED <<child, buffer>> /\ pipe \in Seq(Messages)
      /\ told \in Seq(1 .. Items) /\ UnderWay
  BY DEF Reads, ItemsInOrder, CallPlaces, Typed, QueuesTyped
<1>2. Head(pipe) \in Messages /\ Len(told) \in Nat BY <1>1, HeadIsMessage
<1>3. PICK mid \in Nat : /\ Carries(pipe, Len(told), mid)
                         /\ IsAlive => Carries(buffer, mid, child.done)
  BY <1>1 DEF UnderWay
<1>4. PICK c \in Nat : Takes(Head(pipe), Len(told), c) /\ Carries(Tail(pipe), c, mid)
  BY <1>1, <1>2, <1>3, OneLessCarries
<1>5. CASE Head(pipe).type = "item"
  <2>1. /\ told' = Append(told, Head(pipe).number) /\ Head(pipe).number \in 1 .. Items
        /\ Head(pipe).number = Len(told) + 1 /\ c = Len(told) + 1
    BY <1>2, <1>4, <1>5 DEF Reads, Messages, Takes
  <2>2. Len(told') = c /\ told' \in Seq(1 .. Items) BY <1>1, <2>1
  <2>3. Len(told) < Items BY <1>2, <2>1, WorkerAssumption
  <2>4. UnderWay' BY <1>1, <1>3, <1>4, <2>2 DEF UnderWay, IsAlive
  <2> QED BY <1>2, <1>5, <2>1, <2>2, <2>3, <2>4
<1>6. CASE Head(pipe).type # "item"
  <2>1. told' = told BY <1>6 DEF Reads
  <2>2. c = Len(told) BY <1>4, <1>6 DEF Takes
  <2>3. UnderWay' BY <1>1, <1>3, <1>4, <2>1, <2>2 DEF UnderWay, IsAlive
  <2>4. Head(pipe).type = "result" /\ Head(pipe).outcome = "ok" => Len(told) = Items
    BY <1>4 DEF Takes
  <2> QED BY <1>2, <1>6, <2>3, <2>4
<1> QED BY <1>5, <1>6

LEMMA ItemsStep ==
  ASSUME Typed, NothingIsLeftBehind, ItemsInOrder, [WorkerNext]_workerVars
  PROVE  ItemsInOrder'
<1> USE DEF ItemsInOrder, Typed, Calls, CallPlaces
<1>0. << >> \in Seq(1 .. Items) /\ Len(told) \in Nat OBVIOUS
<1>1. CASE JobBegins
  BY <1>1 DEF JobBegins, NoCall, CallerOnly
<1>2. CASE JobEnds
  BY <1>0, <1>2 DEF JobEnds, NoCall
<1>3. CASE LooksAtTask
  BY <1>0, <1>3 DEF LooksAtTask, Goes, CallerOnly
<1>4. CASE Prepares \/ EntersRegistry \/ LeavesRegistry \/ TaskFails
  BY <1>4 DEF Prepares, EntersRegistry, LeavesRegistry, TaskFails, Goes, CallerOnly
<1>5. CASE TaskSucceeds \/ TaskIsRetried
  BY <1>0, <1>5 DEF TaskSucceeds, TaskIsRetried, CallerOnly
<1>6. CASE StartsWorker
  <2>1. /\ told = << >> /\ told' = told /\ buffer' = << >> /\ pipe' = << >>
        /\ child'.done = 0 /\ call'.at = "registering"
    BY <1>6 DEF StartsWorker, NothingIsLeftBehind, NoChild
  <2>2. Carries(<< >>, 0, 0) BY NothingCarries
  <2>3. UnderWay' BY <2>1, <2>2 DEF UnderWay
  <2> QED BY <2>1, <2>3
<1>7. CASE Reads
  <2>1. /\ UnderWay' /\ told' \in Seq(1 .. Items) /\ call'.at \in {"polling", "cleaning"}
        /\ call'.at = "cleaning" /\ call'.outcome = "ok" => Len(told') = Items
    BY <1>7, ReadInOrder DEF Reads, Goes, Ends
  <2> QED BY <2>1
<1>8. CASE RegistersProcess \/ TimesOut \/ ChecksWorker
  <2>1. UnderWay'
    BY <1>0, <1>8, WorkerKeepsOrder DEF RegistersProcess, TimesOut, ChecksWorker, CallerOnly
  <2> QED BY <1>8, <2>1
          DEF RegistersProcess, TimesOut, ChecksWorker, CallerOnly, Goes, Ends
<1>9. CASE Polls
  <2>1. UnderWay'
    BY <1>0, <1>9, WorkerKeepsOrder DEF Polls, Terminate
  <2> QED BY <1>9, <2>1 DEF Polls, Goes, Ends
<1>10. CASE CleansUp
  BY <1>10 DEF CleansUp, Goes
<1>11. CASE CancelBegins \/ Canceller \/ WorkerProcess \/ UNCHANGED workerVars
  <2>1. call' = call /\ told' = told
    BY <1>11, CallKept
       DEF CancelBegins, Canceller, CancelLooks, CancelSignals, CancelReads, CancelKills,
           CancellerOnly, WorkerProcess, SelectsDevice, PutsItem, PutsResult,
           FeederWrites, ChildExits, ChildCrashes, ChildActs, workerVars
  <2>2. \/ Dies
        \/ SelectsDevice \/ PutsItem \/ PutsResult \/ FeederWrites \/ ChildExits
        \/ UNCHANGED <<child, buffer, pipe>>
    BY <1>11 DEF CancelBegins, Canceller, CancelLooks, CancelSignals, CancelReads,
           CancelKills, Terminate, WorkerProcess, ChildCrashes, workerVars
  <2>3. call.at \in CallPlaces => UnderWay'
    BY <1>0, <2>1, <2>2, WorkerKeepsOrder
  <2> QED BY <2>1, <2>3
<1> QED
  BY <1>1, <1>2, <1>3, <1>4, <1>5, <1>6, <1>7, <1>8, <1>9, <1>10, <1>11
  DEF WorkerNext, Caller

\* What TaskStream sees of a job.
Phase == CASE call.at = "between" -> "idle"
           [] call.at \in {"preparing", "looking"} -> "ready"
           [] call.at = "over" -> "over"
           [] OTHER -> "trying"

Tries == IF call.retry THEN 2 ELSE 1

\* Only these steps of the thread show; each is the step of that name.
LEMMA ShownStep ==
  ASSUME Typed, ItemsInOrder, [WorkerNext]_workerVars
  PROVE  Stream!StreamNext \/ UNCHANGED Stream!streamVars
<1> USE DEF Phase, Tries
<1>1. call \in Calls /\ told \in Seq(1 .. Items) /\ call.task \in Nat
  BY DEF Typed, ItemsInOrder, Calls
<1>2. CASE JobBegins
  <2>1. /\ call = NoCall /\ told = << >> /\ told' = << >>
        /\ \E d \in {"auto", "cuda", "cpu"} :
             call' = [NoCall EXCEPT !.at = "preparing", !.device = d]
    BY <1>2 DEF JobBegins, CallerOnly, ItemsInOrder
  <2>2. /\ Phase = "idle" /\ Phase' = "ready" /\ call'.task = call.task /\ Tries' = Tries
    BY <2>1 DEF NoCall
  <2> QED BY <2>1, <2>2 DEF Stream!StreamNext, Stream!Begin
<1>3. CASE LooksAtTask \/ Prepares
  <2>1. /\ Phase = "ready" /\ call'.task = call.task
        /\ \/ Phase' = "over" /\ Tries' = Tries /\ told' = told
           \/ Phase' = "trying" /\ Tries' = 1 /\ told' = << >>
           \/ Phase' = "ready" /\ Tries' = Tries /\ told' = told
    BY <1>1, <1>3 DEF LooksAtTask, Prepares, Goes, CallerOnly, Calls
  <2> QED BY <2>1 DEF Stream!StreamNext, Stream!GiveUp, Stream!Try, Stream!streamVars
<1>4. CASE Reads
  <2>1. /\ Phase = "trying" /\ Phase' = "trying" /\ call'.task = call.task
        /\ Tries' = Tries
    BY <1>1, <1>4 DEF Reads, Goes, Ends, Calls
  <2>2. told' = told \/ (told' = Append(told, Len(told) + 1) /\ Len(told) < Items)
    BY <1>4, ReadInOrder DEF Reads
  <2> QED BY <2>1, <2>2 DEF Stream!StreamNext, Stream!Tell, Stream!streamVars
<1>5. CASE TaskSucceeds
  <2>1. /\ Phase = "trying" /\ Len(told) = Items /\ told' = told /\ Tries' = Tries
        /\ call'.task = call.task + 1
        /\ Phase' = IF call.task = Tasks THEN "over" ELSE "ready"
    BY <1>1, <1>5 DEF TaskSucceeds, CallerOnly, ItemsInOrder, Calls
  <2>2. call'.task - 1 = (call.task - 1) + 1 /\ (call'.task - 1 = Tasks <=> call.task = Tasks)
    BY <1>1, <2>1, WorkerAssumption
  <2> QED BY <2>1, <2>2 DEF Stream!StreamNext, Stream!Complete
<1>6. CASE TaskIsRetried
  <2>1. /\ Phase = "trying" /\ Phase' = "trying" /\ call'.task = call.task
        /\ Tries = 1 /\ Tries' = 2 /\ told' = << >>
    BY <1>1, <1>6 DEF TaskIsRetried, MayRetry, CallerOnly, Calls
  <2> QED BY <2>1 DEF Stream!StreamNext, Stream!TryAgain
<1>7. CASE TaskFails
  <2>1. /\ Phase = "trying" /\ Phase' = "over" /\ call'.task = call.task
        /\ Tries' = Tries /\ told' = told
    BY <1>1, <1>7 DEF TaskFails, Goes, CallerOnly, Calls
  <2> QED BY <2>1 DEF Stream!StreamNext, Stream!GiveUp
<1>8. CASE JobEnds
  <2>1. /\ Phase = "over" /\ Phase' = "idle" /\ call'.task = 1
        /\ Tries' = 1 /\ told' = << >>
    BY <1>8 DEF JobEnds, NoCall
  <2> QED BY <2>1 DEF Stream!StreamNext, Stream!Close
<1>9. CASE \/ EntersRegistry \/ StartsWorker \/ RegistersProcess \/ Polls \/ TimesOut
           \/ ChecksWorker \/ CleansUp \/ LeavesRegistry
  <2>1. /\ Phase = "trying" /\ Phase' = "trying" /\ call'.task = call.task
        /\ Tries' = Tries /\ told' = told
    BY <1>1, <1>9 DEF EntersRegistry, StartsWorker, RegistersProcess, Polls, TimesOut,
         ChecksWorker, CleansUp, LeavesRegistry, Goes, Ends, CallerOnly, Calls
  <2> QED BY <2>1 DEF Stream!streamVars
<1>10. CASE CancelBegins \/ Canceller \/ WorkerProcess \/ UNCHANGED workerVars
  <2>1. call' = call /\ told' = told
    BY <1>10, CallKept
       DEF CancelBegins, Canceller, CancelLooks, CancelSignals, CancelReads, CancelKills,
           CancellerOnly, WorkerProcess, SelectsDevice, PutsItem, PutsResult,
           FeederWrites, ChildExits, ChildCrashes, ChildActs, workerVars
  <2> QED BY <2>1 DEF Stream!streamVars
<1> QED
  BY <1>2, <1>3, <1>4, <1>5, <1>6, <1>7, <1>8, <1>9, <1>10 DEF WorkerNext, Caller

\* Whoever reads the events of a job sees whole tasks, each from one try, at
\* most two tries of a task, and no result before the last item: for any number
\* of tasks and items, and whenever a worker dies or is cancelled.
THEOREM WorkerImplementsTaskStream == WorkerSpec => ImplementsTaskStream
<1>1. WorkerInit => Stream!StreamInit /\ ItemsInOrder
  <2> SUFFICES ASSUME WorkerInit PROVE Stream!StreamInit /\ ItemsInOrder
    OBVIOUS
  <2>1. /\ call = NoCall /\ told = << >>
        /\ NoCall.at = "between" /\ NoCall.task = 1 /\ ~NoCall.retry
    BY DEF WorkerInit, NoCall
  <2> QED BY <2>1 DEF Stream!StreamInit, ItemsInOrder, CallPlaces
<1>2. WorkerInvariant /\ ItemsInOrder /\ [WorkerNext]_workerVars
        => ItemsInOrder' /\ [Stream!StreamNext]_(Stream!streamVars)
  BY ItemsStep, ShownStep DEF WorkerInvariant
<1> QED BY <1>1, <1>2, WorkerInvariance, PTL
        DEF WorkerSpec, ImplementsTaskStream, Stream!StreamSpec

=============================================================================
