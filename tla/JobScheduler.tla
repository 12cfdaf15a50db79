---------------------------- MODULE JobScheduler ----------------------------
(***************************************************************************)
(* The reservations of the inference server: JobScheduler of               *)
(* noScribe/server/jobs.py.  Every public method runs under one lock, so   *)
(* each is one action, made of the helpers that the method calls in the    *)
(* order in which it calls them.                                           *)
(*                                                                         *)
(* The four attributes of the scheduler are one record, `sched`:           *)
(*   state    _Job.state of every id; "unknown" when _jobs has no such key *)
(*   left     the time that remains before the deadline which the job's    *)
(*            state gives it (expires_at of a queued job, upload_before of *)
(*            a ready one, terminal_at + terminal_ttl of a finished one);  *)
(*            0 once it has passed, and in a state that has no deadline    *)
(*   waiting  _waiting                                                     *)
(*   active   _active_id                                                   *)
(* The clock is abstracted to the passing of that time (Tick), and a       *)
(* method sees one instant.  A capability token is abstracted to the id it *)
(* was issued with: a wrong token is answered like an unknown id.  An id   *)
(* that has been purged may be issued again, which is sound because here   *)
(* nobody remembers ids.                                                   *)
(***************************************************************************)
EXTENDS Line, FiniteSets

CONSTANTS
  Jobs,            \* the job ids
  NoJob,           \* None, as a value of _active_id
  MaxQueued,       \* max_queued
  ReservationTTL,  \* reservation_ttl, in ticks
  UploadReadyTTL,  \* upload_ready_ttl, in ticks
  TerminalTTL      \* terminal_ttl, in ticks

\* The ValueErrors of JobScheduler.__init__, and None is not an id.
ASSUME SchedulerAssumption ==
  /\ NoJob \notin Jobs
  /\ MaxQueued \in Nat
  /\ ReservationTTL \in Nat \ {0}
  /\ UploadReadyTTL \in Nat \ {0}
  /\ TerminalTTL \in Nat \ {0}

VARIABLE sched

TerminalStates == {"completed", "failed", "cancelled", "expired"}

\* The states in which somebody outside the scheduler works on the job.
OwnedStates == {"uploading", "running", "cancelling"}

\* The states of the job that has the execution slot.
SlotStates == {"ready_for_upload"} \cup OwnedStates

JobState == {"unknown", "queued"} \cup SlotStates \cup TerminalStates

Ticks == 0 .. (ReservationTTL + UploadReadyTTL + TerminalTTL)

SchedulerType ==
  [state : [Jobs -> JobState], left : [Jobs -> Ticks],
   waiting : Seq(Jobs), active : Jobs \cup {NoJob}]

NewScheduler ==
  [state |-> [j \in Jobs |-> "unknown"], left |-> [j \in Jobs |-> 0],
   waiting |-> << >>, active |-> NoJob]

-----------------------------------------------------------------------------
(* The helpers of the class, from a scheduler state to the next.           *)

\* Job j enters the state `to`, whose deadline is `ttl` away.
Enter(s, j, to, ttl) ==
  [s EXCEPT !.state[j] = to, !.left[j] = ttl]

\* Fault: the job that joined last is served first.
PromoteLast(s) ==
  IF s.active # NoJob \/ s.waiting = << >> THEN s
  ELSE LET last == s.waiting[Len(s.waiting)]
       IN  [Enter(s, last, "ready_for_upload", UploadReadyTTL)
              EXCEPT !.waiting = Without(@, {last}), !.active = last]

\* _promote_locked: the first queued job of the line gets the free slot; the
\* ids popped before it are dropped.
Promote(s) ==
  LET queued == {i \in 1 .. Len(s.waiting) : s.state[s.waiting[i]] = "queued"}
      first  == CHOOSE i \in queued : \A k \in queued : i <= k
      heir   == s.waiting[first]
  IN  IF s.active # NoJob THEN s
      ELSE IF queued = {} THEN [s EXCEPT !.waiting = << >>]
      ELSE [Enter(s, heir, "ready_for_upload", UploadReadyTTL)
              EXCEPT !.waiting = SubSeq(@, first + 1, Len(@)),
                     !.active = heir]

\* Fault: who leaves the line is still called.
ReleaseSlotOnly(s, j) ==
  Promote(IF s.active = j THEN [s EXCEPT !.active = NoJob] ELSE s)

\* _release_locked: job j gives the slot back, or leaves the line.
Release(s, j) ==
  Promote(IF s.active = j THEN [s EXCEPT !.active = NoJob]
                          ELSE [s EXCEPT !.waiting = Without(@, {j})])

\* Job j ends in the terminal state `to`, and releases what it had.
End(s, j, to) == Release(Enter(s, j, to, TerminalTTL), j)

\* Fault: a deadline passes a tick early.
LapsedEarly(s, states) == {j \in Jobs : s.state[j] \in states /\ s.left[j] <= 1}

\* Fault: the upload window never closes.
LapsedNotReady(s, states) ==
  {j \in Jobs : s.state[j] \in states \ {"ready_for_upload"} /\ s.left[j] = 0}

\* The jobs whose deadline has passed in one of these states.
Lapsed(s, states) == {j \in Jobs : s.state[j] \in states /\ s.left[j] = 0}

\* _reap_expired_locked.  A ready job whose upload window is over expires, and
\* its slot goes to the first waiting job even if that reservation has lapsed:
\* its turn comes before the loop visits it, and a ready job has a new
\* deadline.  The other lapsed reservations expire; finished jobs whose
\* retention is over are forgotten.  (JobSchedulerLoop has the loop itself.)
Reap(s) ==
  LET freed   == Lapsed(s, {"ready_for_upload"})
      heir    == IF freed # {} /\ s.waiting # << >> THEN {Head(s.waiting)}
                                                    ELSE {}
      expired == freed \cup (Lapsed(s, {"queued"}) \ heir)
      purged  == Lapsed(s, TerminalStates)
      removed == expired \cup heir
  IN  [state   |-> [j \in Jobs |->
                     IF j \in purged THEN "unknown"
                     ELSE IF j \in expired THEN "expired"
                     ELSE IF j \in heir THEN "ready_for_upload"
                     ELSE s.state[j]],
       left    |-> [j \in Jobs |->
                     IF j \in expired THEN TerminalTTL
                     ELSE IF j \in heir THEN UploadReadyTTL
                     ELSE s.left[j]],
       waiting |-> Without(s.waiting, removed),
       active  |-> IF freed = {} THEN s.active
                   ELSE IF heir = {} THEN NoJob
                   ELSE Head(s.waiting)]

-----------------------------------------------------------------------------
(* The methods.                                                            *)

SchedulerInit == sched = NewScheduler

\* submit, which refuses (QueueFull) while the slot is taken and the caller
\* will not queue, or the line is full.
Refuses(s, allowQueue) ==
  s.active # NoJob /\ (~allowQueue \/ Len(s.waiting) >= MaxQueued)

Submitted(s, j, allowQueue) ==
  IF Refuses(s, allowQueue) THEN s
  ELSE Promote([Enter(s, j, "queued", ReservationTTL)
                  EXCEPT !.waiting = Append(@, j)])

Submit(j, allowQueue) ==
  /\ sched.state[j] = "unknown"
  /\ sched' = Submitted(Reap(sched), j, allowQueue)

\* get, with the renewal that the status endpoint asks for.
Got(s, j, renew) ==
  IF renew /\ s.state[j] = "queued" THEN [s EXCEPT !.left[j] = ReservationTTL]
                                    ELSE s

Get(j, renew) == sched' = Got(Reap(sched), j, renew)

\* begin_upload.
UploadBegun(s, j) ==
  IF s.state[j] = "ready_for_upload" THEN Enter(s, j, "uploading", 0) ELSE s

\* Fault: the deadline is not looked at before the upload begins.
BeginUploadUnreaped(j) == sched' = UploadBegun(sched, j)

BeginUpload(j) == sched' = UploadBegun(Reap(sched), j)

\* begin_processing, complete and fail do not reap, and raise
\* InvalidJobState in every other state.
BeginProcessing(j) ==
  /\ sched.state[j] = "uploading"
  /\ sched' = Enter(sched, j, "running", 0)

Finish(j, to) ==
  /\ sched.state[j] = "running"
  /\ sched' = End(sched, j, to)

Complete(j) == Finish(j, "completed")

Fail(j) == Finish(j, "failed")

\* cancel: the owner of an owned job has to clean up first.
Cancelled(s, j) ==
  IF s.state[j] \in OwnedStates THEN Enter(s, j, "cancelling", 0)
  ELSE IF s.state[j] \in {"queued", "ready_for_upload"}
    THEN End(s, j, "cancelled")
  ELSE s

Cancel(j) == sched' = Cancelled(Reap(sched), j)

\* finish_cancel; a cancelled job stays as it is.
CancelFinished(s, j) ==
  IF s.state[j] = "cancelling" THEN End(s, j, "cancelled") ELSE s

FinishCancel(j) ==
  /\ sched.state[j] \in {"cancelling", "cancelled"}
  /\ sched' = CancelFinished(sched, j)

\* reap_expired; also all that wait_for_change, and a call with an unknown id
\* or token, leave behind.
ReapExpired == sched' = Reap(sched)

\* A tick of the clock.
Elapsed(s) ==
  [s EXCEPT !.left = [j \in Jobs |-> IF s.left[j] = 0 THEN 0
                                     ELSE s.left[j] - 1]]

Tick ==
  /\ \E j \in Jobs : sched.left[j] > 0
  /\ sched' = Elapsed(sched)

Owner(j) == BeginProcessing(j) \/ Complete(j) \/ Fail(j) \/ FinishCancel(j)

SchedulerNext ==
  \/ \E j \in Jobs :
       \/ \E allowQueue \in BOOLEAN : Submit(j, allowQueue)
       \/ \E renew \in BOOLEAN : Get(j, renew)
       \/ BeginUpload(j)
       \/ Owner(j)
       \/ Cancel(j)
  \/ ReapExpired
  \/ Tick

SchedulerSpec == SchedulerInit /\ [][SchedulerNext]_sched

-----------------------------------------------------------------------------
(* Properties.                                                             *)

\* Every attribute has its type.
TypeOK == sched \in SchedulerType

HoldsSlot(s) == \A j \in Jobs : s.state[j] \in SlotStates <=> s.active = j

\* One execution slot: a job is ready, uploading, running or cancelling exactly
\* when it is the active one, so never two at once, and never none while
\* _active_id names a job.
OneSlot == HoldsSlot(sched)

LineIsQueue(s) ==
  /\ Distinct(s.waiting)
  /\ \A j \in Jobs : j \in Members(s.waiting) <=> s.state[j] = "queued"

\* _waiting holds every queued job once and no other: no path through
\* cancellation, expiry or promotion leaves an id behind or loses one.
LineHoldsQueued == LineIsQueue(sched)

SlotIsUsed(s) == s.active = NoJob => s.waiting = << >>

\* The slot is not idle while a reservation waits, whatever freed it.
NoIdleSlot == SlotIsUsed(sched)

\* At most max_queued reservations wait.
LineBounded == Len(sched.waiting) <= MaxQueued

\* The slot and the line are in order, whichever call came last and whatever
\* deadlines it found passed: one job in the slot, every queued job once in the
\* line, no more of them than may wait, and the slot not idle beside them.
SlotAndLine == OneSlot /\ LineHoldsQueued /\ LineBounded /\ NoIdleSlot

\* A finished job keeps its verdict until it is forgotten: no late call of a
\* client, a timer or an owner turns it into another.
VerdictKept ==
  [][\A j \in Jobs : sched.state[j] \in TerminalStates =>
       sched'.state[j] \in {sched.state[j], "unknown"}]_sched

\* The slot of a job that is being worked on is freed by its owner only: by the
\* result of a running job, or when the clean-up of a cancelled one is done;
\* not by a deadline and not by a client's cancellation.
SlotKeptUntilCleanup ==
  [][\A j \in Jobs :
       sched.state[j] \in OwnedStates /\ sched'.active # j =>
         \/ sched.state[j] = "running" /\ sched'.state[j] \in {"completed", "failed"}
         \/ sched.state[j] = "cancelling" /\ sched'.state[j] = "cancelled"]_sched

\* A client that is late for its upload window never starts to upload, even
\* when its call is the first that the server sees after the deadline.
NoLateUpload ==
  [][\A j \in Jobs :
       sched.state[j] = "ready_for_upload" /\ sched.left[j] = 0 =>
         sched'.state[j] # "uploading"]_sched

\* Calls that come late, of a client, a timer or an owner, change no verdict,
\* take the slot from nobody who is still at work, and start no upload.
LateCallsChangeNothing == VerdictKept /\ SlotKeptUntilCleanup /\ NoLateUpload

\* The scheduler implements the FIFO slot: nobody overtakes, the slot is handed
\* to the first of the line, also by the calls that reap several jobs and
\* then admit or cancel one.
Slot == INSTANCE FifoSlot
          WITH Clients <- Jobs, Nobody <- NoJob,
               holder <- sched.active, line <- sched.waiting

ImplementsFifoSlot == Slot!SlotSpec

-----------------------------------------------------------------------------
(* Liveness, with the clock running, the owner of the slot finishing its   *)
(* work (the server's upload and job timeouts see to that) and clients     *)
(* that go on polling while they are queued.                               *)

OwnersFinish == \A j \in Jobs : WF_sched(Owner(j))

SchedulerFairness ==
  /\ WF_sched(Tick)
  /\ OwnersFinish
  /\ \A j \in Jobs : WF_sched(sched.state[j] = "queued" /\ Get(j, TRUE))

SchedulerFairSpec == SchedulerSpec /\ SchedulerFairness

\* A reservation does not wait for ever behind others that never upload, are
\* cancelled or expire.
QueuedIsServed ==
  \A j \in Jobs : sched.state[j] = "queued" ~> sched.state[j] # "queued"

=============================================================================
