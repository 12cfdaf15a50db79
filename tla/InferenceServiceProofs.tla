----------------------- MODULE InferenceServiceProofs -----------------------
(***************************************************************************)
(* The safety of InferenceService for any number of jobs, any size of the  *)
(* event queues, any deadlines and any set of files that cannot be         *)
(* deleted.  The inductive invariant says of every job where its handler,  *)
(* its thread, its file, its flags and its events stand when the scheduler *)
(* has it in a state; a step of one job is nothing to the others but what  *)
(* the scheduler's reaping and promotion do to them (Drifts).              *)
(***************************************************************************)
EXTENDS InferenceService, JobSchedulerProofs

\* The states of a job that nobody has begun to receive.
FreeStates == {"unknown", "queued", "ready_for_upload", "cancelled", "expired"}

Over == TerminalStates \cup {"unknown"}

\* What of the service has a type, besides the scheduler.
ServiceTypes ==
  /\ handler \in [Jobs -> Handlers]
  /\ audio \in [Jobs -> BOOLEAN]
  /\ worker \in [Jobs -> Workers]
  /\ timer \in [Jobs -> Timers]
  /\ failed \in [Jobs -> BOOLEAN]
  /\ event \in [Jobs -> BOOLEAN]
  /\ events \in [Jobs -> Seq(Events)]
  /\ \A j \in Jobs : Len(events[j]) <= QueueSize
  /\ stream \in [Jobs -> Streams]
  /\ lock \in [by : Cancellers, job : Jobs] \cup {NoCancellation}
  /\ stopped \subseteq Jobs

\* The handler and the state.
Received(j) ==
  /\ handler[j] = "none" => sched.state[j] \in FreeStates /\ ~audio[j] /\ ~event[j] /\ events[j] = << >>
  /\ handler[j] \in {"begun", "receiving", "discarding", "withdrawing", "received"} =>
       sched.state[j] \in {"uploading", "cancelling"}
  /\ handler[j] = "withdrawn" => sched.state[j] = "cancelling"
  /\ handler[j] = "raised" /\ j \notin StuckFiles => sched.state[j] \in Over

\* The thread and the state.
WorkedOn(j) ==
  /\ handler[j] = "streaming" <=> worker[j] # "none"
  /\ worker[j] = "starting" => sched.state[j] \in {"uploading", "cancelling"}
  /\ worker[j] \in {"processing", "emitting", "cleaning", "settling"} =>
       sched.state[j] \in {"running", "cancelling"}
  /\ worker[j] \in {"reporting", "ending", "done"} => sched.state[j] \in Over

\* The file is there only between the two ends of its use.
Kept(j) ==
  audio[j] /\ j \notin StuckFiles =>
    \/ handler[j] \in {"receiving", "discarding", "received"}
    \/ worker[j] \in {"starting", "processing", "emitting", "cleaning"}

\* The event and the state, but for the moment between the two steps of a
\* cancellation; and whom the processor has been told to stop.
Flagged(j) ==
  /\ Registered(j) /\ sched.state[j] = "cancelling" => event[j] \/ lock.job = j
  /\ j \in stopped => InProcessor(j) /\ event[j]

\* The verdict, the flags it was made of and what the stream is told.
Told(j) ==
  /\ worker[j] = "reporting" =>
       sched.state[j] \in {"unknown"} \cup (IF event[j] \/ failed[j] THEN {"failed", "cancelled"}
                                                                    ELSE {"completed"})
  /\ "ok" \in Members(events[j]) =>
       worker[j] \in {"ending", "done"} /\ sched.state[j] \in {"completed", "unknown"}
  /\ "error" \in Members(events[j]) =>
       worker[j] \in {"ending", "done"} /\ sched.state[j] \in {"failed", "cancelled", "unknown"}

JobInOrder(j) == Received(j) /\ WorkedOn(j) /\ Kept(j) /\ Flagged(j) /\ Told(j)

\* The inductive invariant.
ServiceInvariant ==
  Consistent(sched) /\ ServiceTypes /\ \A j \in Jobs : JobInOrder(j)

-----------------------------------------------------------------------------
(* What a call of one job does to the state of another.                    *)

\* From the state a to the state b without a call of the job's own.
Drifts(a, b) ==
  /\ a \in OwnedStates \cup {"unknown"} => b = a
  /\ a \in TerminalStates => b \in {a, "unknown"}
  /\ a \in {"queued", "ready_for_upload"} => b \in {"queued", "ready_for_upload", "expired", "unknown"}

LEMMA DriftsOn ==
  ASSUME NEW a \in JobState, NEW b \in JobState, NEW c, Drifts(a, b), Drifts(b, c)
  PROVE  Drifts(a, c)
BY DEF Drifts, JobState, SlotStates, OwnedStates, TerminalStates

LEMMA StaysIsDrift ==
  ASSUME NEW a \in JobState
  PROVE  Drifts(a, a)
BY DEF Drifts

\* The states of a consistent scheduler.
LEMMA StatesTyped ==
  ASSUME NEW s, Consistent(s)
  PROVE  /\ s \in SchedulerType
         /\ s.state \in [Jobs -> JobState]
         /\ \A k \in Jobs : s.state[k] \in JobState
BY Fields DEF Consistent, Sane

LEMMA ReapDrifts ==
  ASSUME NEW s, Consistent(s), NEW k \in Jobs
  PROVE  Drifts(s.state[k], Reap(s).state[k])
<1>1. /\ s.state[k] \in TerminalStates => Reap(s).state[k] \in {s.state[k], "unknown"}
      /\ s.state[k] \in OwnedStates \cup {"unknown"} => Reap(s).state[k] = s.state[k]
  BY ReapMoves
<1>2. s.state[k] \in {"queued", "ready_for_upload"} =>
        Reap(s).state[k] \in {s.state[k], "expired", "ready_for_upload"}
  <2>1. s.state[k] \in {"queued", "ready_for_upload"} => k \notin Lapsed(s, TerminalStates)
    BY DEF Lapsed, TerminalStates
  <2> QED BY <2>1 DEF Reap
<1> QED BY <1>1, <1>2 DEF Drifts

LEMMA PromoteDrifts ==
  ASSUME NEW s, Sane(s), NEW k \in Jobs
  PROVE  Drifts(s.state[k], Promote(s).state[k])
<1>1. s.state[k] \in JobState BY Fields DEF Sane
<1> QED
  BY <1>1, PromoteMoves DEF Drifts, OwnedStates, TerminalStates

LEMMA EndDrifts ==
  ASSUME NEW s, Consistent(s), NEW j \in Jobs, NEW to \in TerminalStates,
         s.state[j] \in SlotStates \cup {"queued"}
  PROVE  /\ End(s, j, to).state[j] = to
         /\ \A k \in Jobs \ {j} : Drifts(s.state[k], End(s, j, to).state[k])
<1> DEFINE e == Enter(s, j, to, TerminalTTL)
           r == IF e.active = j THEN [e EXCEPT !.active = NoJob]
                                ELSE [e EXCEPT !.waiting = Without(@, {j})]
<1>1. Sane(s) /\ s \in SchedulerType BY DEF Consistent, Sane
<1>2. Sane(r) BY <1>1, ReleasedIsSane
<1>3. /\ e \in SchedulerType /\ e.state = [s.state EXCEPT ![j] = to]
  <2>1. to \in JobState /\ TerminalTTL \in Ticks BY StatesDisjoint, Durations
  <2> QED BY <1>1, <2>1 DEF Enter, SchedulerType
<1>4. r.state = e.state BY <1>3 DEF SchedulerType
<1>5. End(s, j, to) = Promote(r) BY DEF End, Release
<1> HIDE DEF r, e
<1>6. \A k \in Jobs \ {j} : Drifts(s.state[k], Promote(r).state[k])
  BY <1>1, <1>2, <1>3, <1>4, PromoteDrifts, Fields
<1> QED BY <1>5, <1>6, EndMoves

\* Two of them.
LEMMA ReapThenDrifts ==
  ASSUME NEW s, Consistent(s), NEW t, Consistent(t), NEW k \in Jobs,
         Drifts(Reap(s).state[k], t.state[k])
  PROVE  Drifts(s.state[k], t.state[k])
BY ReapDrifts, ReapIsConsistent, StatesTyped, DriftsOn

-----------------------------------------------------------------------------
(* What each method of the scheduler does to the states.                   *)

\* Nobody but j notices the call.
OthersDrift(j) == \A k \in Jobs \ {j} : Drifts(sched.state[k], sched'.state[k])

LEMMA SubmitStates ==
  ASSUME Consistent(sched), NEW j \in Jobs, NEW allowQueue \in BOOLEAN,
         Submit(j, allowQueue)
  PROVE  /\ Consistent(sched') /\ OthersDrift(j)
         /\ sched'.state[j] \in {"unknown", "queued", "ready_for_upload"}
<1> DEFINE r == Reap(sched)
           e == Enter(r, j, "queued", ReservationTTL)
           a == [e EXCEPT !.waiting = Append(@, j)]
<1>1. Consistent(sched') BY NextIsConsistent DEF SchedulerNext
<1>2. sched' = Submitted(r, j, allowQueue) /\ sched.state[j] = "unknown"
  BY DEF Submit
<1>3. Consistent(r) BY ReapIsConsistent
<1>4. r.state[j] = "unknown" BY <1>2, ReapMoves
<1>5. r \in SchedulerType /\ r.state \in [Jobs -> JobState] BY <1>3, StatesTyped
<1>6. (\A k \in Jobs \ {j} : Drifts(r.state[k], sched'.state[k])) => OthersDrift(j)
  BY <1>1, ReapThenDrifts DEF OthersDrift
<1> HIDE DEF r
<1>7. CASE Refuses(r, allowQueue)
  <2>1. sched' = r BY <1>2, <1>7 DEF Submitted
  <2> QED BY <2>1, <1>1, <1>3, <1>4, <1>5, <1>6, StaysIsDrift
<1>8. CASE ~Refuses(r, allowQueue)
  <2>1. sched' = Promote(a) BY <1>2, <1>8 DEF Submitted
  <2>2. Sane(a) BY <1>3, <1>4, AdmittedIsSane DEF Consistent
  <2>3. a.state = [r.state EXCEPT ![j] = "queued"]
    BY <1>5 DEF Enter, SchedulerType
  <2> HIDE DEF a
  <2>4. \A k \in Jobs : Drifts(a.state[k], Promote(a).state[k])
    BY <2>2, PromoteDrifts
  <2>5. Promote(a).state[j] \in {"queued", "ready_for_upload"}
    BY <2>2, <2>3, <1>5, PromoteMoves
  <2> QED BY <2>1, <2>3, <2>4, <2>5, <1>1, <1>5, <1>6
<1> QED BY <1>7, <1>8

LEMMA GetStates ==
  ASSUME Consistent(sched), NEW j \in Jobs, NEW renew \in BOOLEAN, Get(j, renew)
  PROVE  /\ Consistent(sched')
         /\ \A k \in Jobs : Drifts(sched.state[k], sched'.state[k])
<1>1. Consistent(sched') BY NextIsConsistent DEF SchedulerNext
<1>2. Reap(sched) \in SchedulerType BY ReapIsConsistent, StatesTyped
<1>3. sched'.state = Reap(sched).state
  BY <1>2 DEF Get, Got, SchedulerType
<1> QED BY <1>1, <1>3, ReapDrifts

LEMMA BeginUploadStates ==
  ASSUME Consistent(sched), NEW j \in Jobs, BeginUpload(j)
  PROVE  /\ Consistent(sched') /\ OthersDrift(j)
         /\ \/ sched'.state[j] = "uploading"
            \/ Drifts(sched.state[j], sched'.state[j])
<1> DEFINE r == Reap(sched)
<1>1. Consistent(sched') BY NextIsConsistent DEF SchedulerNext
<1>2. Consistent(r) /\ r \in SchedulerType /\ r.state \in [Jobs -> JobState]
  BY ReapIsConsistent, StatesTyped
<1>3. \A k \in Jobs : Drifts(sched.state[k], r.state[k]) BY ReapDrifts
<1>4. sched' = UploadBegun(r, j) BY DEF BeginUpload
<1> HIDE DEF r
<1>5. \/ sched'.state = r.state
      \/ sched'.state = [r.state EXCEPT ![j] = "uploading"]
  BY <1>2, <1>4 DEF UploadBegun, Enter, SchedulerType
<1> QED BY <1>1, <1>2, <1>3, <1>5 DEF OthersDrift

\* What a cancellation makes of the state a of its own job.
CancelsTo(a, b) ==
  /\ a \in OwnedStates => b = "cancelling"
  /\ a \in {"queued", "ready_for_upload"} => b \in {"cancelled", "expired"}
  /\ a \in TerminalStates => b \in {a, "unknown"}
  /\ a = "unknown" => b = a

LEMMA CancelStates ==
  ASSUME Consistent(sched), NEW j \in Jobs, Cancel(j)
  PROVE  /\ Consistent(sched') /\ OthersDrift(j)
         /\ CancelsTo(sched.state[j], sched'.state[j])
<1> DEFINE r == Reap(sched)
<1>1. Consistent(sched') BY NextIsConsistent DEF SchedulerNext
<1>2. Consistent(r) /\ r \in SchedulerType /\ r.state \in [Jobs -> JobState]
  BY ReapIsConsistent, StatesTyped
<1>3. (\A k \in Jobs \ {j} : Drifts(r.state[k], sched'.state[k])) => OthersDrift(j)
  BY <1>1, <1>2, ReapThenDrifts DEF OthersDrift
<1>4. /\ Drifts(sched.state[j], r.state[j])
      /\ sched.state[j] \in {"queued", "ready_for_upload"} => r.state[j] # "unknown"
  BY ReapDrifts, ReapMoves DEF TerminalStates
<1>5. sched.state[j] \in JobState BY StatesTyped
<1>6. sched' = Cancelled(r, j) BY DEF Cancel
<1> HIDE DEF r
<1>7. CASE r.state[j] \in OwnedStates
  <2>1. sched'.state = [r.state EXCEPT ![j] = "cancelling"]
    BY <1>2, <1>6, <1>7 DEF Cancelled, Enter, SchedulerType
  <2>2. \A k \in Jobs \ {j} : Drifts(r.state[k], sched'.state[k])
    BY <2>1, <1>2, StaysIsDrift
  <2>3. sched.state[j] \in OwnedStates
    BY <1>4, <1>5, <1>7
       DEF Drifts, JobState, SlotStates, OwnedStates, TerminalStates
  <2> QED BY <2>1, <2>2, <2>3, <1>1, <1>2, <1>3
          DEF CancelsTo, OwnedStates, TerminalStates
<1>8. CASE r.state[j] \in {"queued", "ready_for_upload"}
  <2>1. sched' = End(r, j, "cancelled")
    BY <1>6, <1>8 DEF Cancelled, OwnedStates
  <2>2. /\ "cancelled" \in TerminalStates
        /\ r.state[j] \in SlotStates \cup {"queued"}
    BY <1>8 DEF TerminalStates, SlotStates
  <2>3. /\ sched'.state[j] = "cancelled"
        /\ \A k \in Jobs \ {j} : Drifts(r.state[k], sched'.state[k])
    BY <2>1, <2>2, <1>2, EndDrifts
  <2>4. sched.state[j] \in {"queued", "ready_for_upload"}
    BY <1>4, <1>5, <1>8
       DEF Drifts, JobState, SlotStates, OwnedStates, TerminalStates
  <2> QED BY <2>3, <2>4, <1>1, <1>3 DEF CancelsTo, OwnedStates, TerminalStates
<1>9. CASE r.state[j] \notin OwnedStates \cup {"queued", "ready_for_upload"}
  <2>1. sched' = r BY <1>6, <1>9 DEF Cancelled
  <2>2. \A k \in Jobs \ {j} : Drifts(r.state[k], sched'.state[k])
    BY <2>1, <1>2, StaysIsDrift
  <2> QED BY <2>1, <2>2, <1>1, <1>3, <1>4, <1>9
          DEF CancelsTo, Drifts, OwnedStates, TerminalStates
<1> QED BY <1>7, <1>8, <1>9

LEMMA BeginProcessingStates ==
  ASSUME Consistent(sched), NEW j \in Jobs, BeginProcessing(j)
  PROVE  /\ Consistent(sched') /\ OthersDrift(j)
         /\ sched'.state[j] = "running"
<1>1. Consistent(sched') BY NextIsConsistent DEF SchedulerNext, Owner
<1>2. sched \in SchedulerType /\ sched.state \in [Jobs -> JobState]
  BY StatesTyped
<1>3. sched'.state = [sched.state EXCEPT ![j] = "running"]
  BY <1>2 DEF BeginProcessing, Enter, SchedulerType
<1> QED BY <1>1, <1>2, <1>3, StaysIsDrift DEF OthersDrift

\* complete and fail.
LEMMA FinishStates ==
  ASSUME Consistent(sched), NEW j \in Jobs, NEW to \in {"completed", "failed"},
         Finish(j, to)
  PROVE  /\ Consistent(sched') /\ OthersDrift(j)
         /\ sched'.state[j] = to
<1>1. /\ to \in TerminalStates
      /\ sched.state[j] \in SlotStates \cup {"queued"}
  BY DEF TerminalStates, SlotStates, OwnedStates, Finish
<1> QED BY <1>1, EndDrifts, EndIsConsistent DEF Finish, OthersDrift

LEMMA FinishCancelStates ==
  ASSUME Consistent(sched), NEW j \in Jobs, sched.state[j] = "cancelling",
         FinishCancel(j)
  PROVE  /\ Consistent(sched') /\ OthersDrift(j)
         /\ sched'.state[j] = "cancelled"
<1>1. /\ "cancelled" \in TerminalStates
      /\ sched.state[j] \in SlotStates \cup {"queued"}
  BY DEF TerminalStates, SlotStates, OwnedStates
<1>2. sched' = End(sched, j, "cancelled")
  BY DEF FinishCancel, CancelFinished
<1> QED BY <1>1, <1>2, EndDrifts, EndIsConsistent DEF OthersDrift

\* The verdict of a thread whose event is set: cancel, then finish_cancel.
LEMMA SettleCancelStates ==
  ASSUME Consistent(sched), NEW j \in Jobs, sched.state[j] \in OwnedStates,
         sched' = CancelFinished(Cancelled(Reap(sched), j), j)
  PROVE  /\ Consistent(sched') /\ OthersDrift(j)
         /\ sched'.state[j] = "cancelled"
<1> DEFINE r == Reap(sched)
           c == Enter(r, j, "cancelling", 0)
<1>1. Consistent(r) /\ r \in SchedulerType /\ r.state \in [Jobs -> JobState]
  BY ReapIsConsistent, StatesTyped
<1>2. r.state[j] \in OwnedStates /\ r.state[j] = sched.state[j] BY ReapMoves
<1>3. \A k \in Jobs : Drifts(sched.state[k], r.state[k]) BY ReapDrifts
<1>4. sched' = CancelFinished(c, j) BY <1>2 DEF Cancelled
<1> HIDE DEF r
<1>5. Consistent(c)
  <2>1. "cancelling" \in OwnedStates /\ r.state[j] \in SlotStates
    BY <1>2 DEF OwnedStates, SlotStates
  <2> QED BY <2>1, <1>1, OwnedIsConsistent
<1>6. c.state = [r.state EXCEPT ![j] = "cancelling"]
  BY <1>1 DEF Enter, SchedulerType
<1> HIDE DEF c
<1>7. c.state[j] = "cancelling" BY <1>1, <1>6
<1>8. sched' = End(c, j, "cancelled") BY <1>4, <1>7 DEF CancelFinished
<1>9. /\ "cancelled" \in TerminalStates
      /\ c.state[j] \in SlotStates \cup {"queued"}
  BY <1>7 DEF TerminalStates, SlotStates, OwnedStates
<1>10. /\ Consistent(sched') /\ sched'.state[j] = "cancelled"
       /\ \A k \in Jobs \ {j} : Drifts(c.state[k], sched'.state[k])
  BY <1>5, <1>8, <1>9, EndDrifts, EndIsConsistent
<1>11. \A k \in Jobs \ {j} : Drifts(r.state[k], sched'.state[k])
  BY <1>1, <1>6, <1>10
<1> QED BY <1>10, <1>11, ReapThenDrifts DEF OthersDrift, r

LEMMA TickStates ==
  ASSUME Consistent(sched), Tick
  PROVE  /\ Consistent(sched')
         /\ \A k \in Jobs : Drifts(sched.state[k], sched'.state[k])
<1>1. Consistent(sched') BY NextIsConsistent DEF SchedulerNext
<1>2. sched \in SchedulerType /\ sched.state \in [Jobs -> JobState]
  BY StatesTyped
<1>3. sched'.state = sched.state BY <1>2 DEF Tick, Elapsed, SchedulerType
<1> QED BY <1>1, <1>2, <1>3, StaysIsDrift

-----------------------------------------------------------------------------
(* The jobs that a step is not about.                                      *)

\* Nothing of job k changes but the scheduler, except that its stream may read
\* an event and that its processor may stop for good.
Undisturbed(k) ==
  /\ handler'[k] = handler[k] /\ audio'[k] = audio[k] /\ worker'[k] = worker[k]
  /\ failed'[k] = failed[k] /\ event'[k] = event[k]
  /\ Members(events'[k]) \subseteq Members(events[k])
  /\ events[k] = << >> => events'[k] = << >>
  /\ k \in stopped' => k \in stopped
  /\ lock.job = k => lock'.job = k

LEMMA BystanderInOrder ==
  ASSUME NEW k \in Jobs, JobInOrder(k), Undisturbed(k),
         sched.state[k] \in JobState, sched'.state[k] \in JobState,
         Drifts(sched.state[k], sched'.state[k])
  PROVE  JobInOrder(k)'
<1> USE DEF JobInOrder, Undisturbed
<1>1. Received(k)'
  BY DEF Received, Drifts, FreeStates, Over, OwnedStates, TerminalStates
<1>2. WorkedOn(k)'
  BY DEF WorkedOn, Drifts, Over, OwnedStates, TerminalStates
<1>3. Kept(k)'
  BY DEF Kept
<1>4. Flagged(k)'
  BY DEF Flagged, Registered, InProcessor, Drifts, JobState, SlotStates,
         OwnedStates, TerminalStates
<1>5. Told(k)'
  BY DEF Told, Drifts, OwnedStates, TerminalStates
<1> QED BY <1>1, <1>2, <1>3, <1>4, <1>5

\* A step of one job.
LEMMA OneJobsStep ==
  ASSUME ServiceInvariant, Consistent(sched)', ServiceTypes', NEW j \in Jobs,
         OthersDrift(j), \A k \in Jobs \ {j} : Undisturbed(k),
         JobInOrder(j)'
  PROVE  ServiceInvariant'
<1>1. ASSUME NEW k \in Jobs \ {j}
      PROVE  JobInOrder(k)'
  <2>1. sched.state[k] \in JobState /\ sched'.state[k] \in JobState
    BY StatesTyped DEF ServiceInvariant
  <2>2. JobInOrder(k) BY DEF ServiceInvariant
  <2> QED BY <2>1, <2>2, BystanderInOrder DEF OthersDrift
<1> QED BY <1>1 DEF ServiceInvariant

\* A step that leaves the scheduler alone.
LEMMA StillStates ==
  ASSUME ServiceInvariant, UNCHANGED sched
  PROVE  /\ Consistent(sched)'
         /\ \A k \in Jobs : Drifts(sched.state[k], sched'.state[k])
         /\ \A j \in Jobs : OthersDrift(j)
BY StatesTyped, StaysIsDrift DEF ServiceInvariant, OthersDrift

\* A step of the scheduler only, in which the states of all jobs drift.
LEMMA DriftingStep ==
  ASSUME ServiceInvariant, Consistent(sched)',
         \A k \in Jobs : Drifts(sched.state[k], sched'.state[k]),
         \A k \in Jobs : Undisturbed(k), ServiceTypes'
  PROVE  ServiceInvariant'
<1>1. ASSUME NEW k \in Jobs
      PROVE  JobInOrder(k)'
  <2>1. sched.state[k] \in JobState /\ sched'.state[k] \in JobState
    BY StatesTyped DEF ServiceInvariant
  <2> QED BY <2>1, BystanderInOrder DEF ServiceInvariant
<1> QED BY <1>1 DEF ServiceInvariant

\* Reading from a queue, and putting something in, as far as its members go.
LEMMA QueueMembers ==
  ASSUME NEW q \in Seq(Events), NEW x \in Events
  PROVE  /\ Append(q, x) \in Seq(Events) /\ Len(Append(q, x)) = Len(q) + 1
         /\ Members(Append(q, x)) = Members(q) \cup {x}
         /\ q # << >> => /\ Tail(q) \in Seq(Events) /\ Len(Tail(q)) = Len(q) - 1
                         /\ Members(Tail(q)) \subseteq Members(q)
<1>1. q # << >> => /\ Tail(q) \in Seq(Events) /\ Len(Tail(q)) = Len(q) - 1
                   /\ \A i \in 1 .. Len(Tail(q)) : Tail(q)[i] = q[i + 1]
  OBVIOUS
<1>2. q # << >> => Members(Tail(q)) \subseteq Members(q)
  BY <1>1 DEF Members
<1>3. Members(Append(q, x)) = Members(q) \cup {x} BY AppendMembers
<1> QED BY <1>1, <1>2, <1>3

LEMMA ServiceStarts == ServiceInit => ServiceInvariant
<1> SUFFICES ASSUME ServiceInit PROVE ServiceInvariant
  OBVIOUS
<1>1. Consistent(sched) BY NewIsConsistent DEF ServiceInit, SchedulerInit
<1>2. sched.state = [j \in Jobs |-> "unknown"]
  BY DEF ServiceInit, SchedulerInit, NewScheduler
<1>3. ServiceTypes
  BY ServiceAssumption
     DEF ServiceInit, ServiceTypes, Handlers, Workers, Timers, Streams
<1>4. ASSUME NEW j \in Jobs
      PROVE  JobInOrder(j)
  <2>1. Members(events[j]) = {} BY DEF ServiceInit, Members
  <2> QED BY <1>2, <2>1
          DEF ServiceInit, JobInOrder, Received, WorkedOn, Kept, Flagged, Told,
              Registered, InProcessor, FreeStates
<1> QED BY <1>1, <1>3, <1>4 DEF ServiceInvariant

-----------------------------------------------------------------------------
(* Requests that need the scheduler only, and receive_audio.               *)

LEMMA RequestsKeep ==
  ASSUME ServiceInvariant,
         \/ TimePasses
         \/ \E j \in Jobs : \E renew \in BOOLEAN : Status(j, renew)
  PROVE  ServiceInvariant'
<1>1. UNCHANGED <<perJob, lock, stopped>> BY DEF TimePasses, Status
<1>2. ServiceTypes' BY <1>1 DEF perJob, ServiceInvariant, ServiceTypes
<1>3. \A k \in Jobs : Undisturbed(k) BY <1>1 DEF perJob, Undisturbed
<1>4. /\ Consistent(sched)'
      /\ \A k \in Jobs : Drifts(sched.state[k], sched'.state[k])
  BY GetStates, TickStates DEF TimePasses, Status, ServiceInvariant
<1> QED BY <1>2, <1>3, <1>4, DriftingStep

LEMMA ReserveKeeps ==
  ASSUME ServiceInvariant, NEW j \in Jobs, NEW allowQueue \in BOOLEAN,
         Reserve(j, allowQueue)
  PROVE  ServiceInvariant'
<1>1. UNCHANGED <<perJob, lock, stopped>> /\ handler[j] = "none"
      /\ Submit(j, allowQueue)
  BY DEF Reserve
<1>2. ServiceTypes' BY <1>1 DEF perJob, ServiceInvariant, ServiceTypes
<1>3. \A k \in Jobs : Undisturbed(k) BY <1>1 DEF perJob, Undisturbed
<1>4. /\ Consistent(sched)' /\ OthersDrift(j)
      /\ sched'.state[j] \in {"unknown", "queued", "ready_for_upload"}
  BY <1>1, SubmitStates DEF ServiceInvariant
<1>5. JobInOrder(j)'
  <2>1. JobInOrder(j) /\ Members(events[j]) = {}
    BY <1>1 DEF ServiceInvariant, JobInOrder, Received, Members
  <2> QED BY <1>1, <1>4, <2>1
          DEF perJob, JobInOrder, Received, WorkedOn, Kept, Flagged, Told,
              Registered, InProcessor, FreeStates
<1> QED BY <1>2, <1>3, <1>4, <1>5, OneJobsStep

\* The handler of job j goes to the state `to`, the file is there or not, and
\* the thread has not been started.
LEMMA HandlerKeeps ==
  ASSUME ServiceInvariant, Consistent(sched)', NEW j \in Jobs, OthersDrift(j),
         NEW to \in Handlers \ {"streaming"}, NEW there \in BOOLEAN,
         handler[j] # "streaming",
         handler' = [handler EXCEPT ![j] = to],
         audio' = [audio EXCEPT ![j] = there],
         UNCHANGED <<worker, timer, failed, event, events, stream, lock, stopped>>,
         Received(j)',
         there /\ j \notin StuckFiles => to \in {"receiving", "discarding", "received"}
  PROVE  ServiceInvariant'
<1>1. ServiceTypes' BY DEF ServiceInvariant, ServiceTypes
<1>2. \A k \in Jobs \ {j} : Undisturbed(k)
  BY DEF Undisturbed, ServiceInvariant, ServiceTypes
<1>3. JobInOrder(j)'
  <2>1. JobInOrder(j) /\ worker[j] = "none" /\ handler'[j] = to /\ audio'[j] = there
    BY DEF ServiceInvariant, ServiceTypes, JobInOrder, WorkedOn
  <2> QED BY <2>1
          DEF JobInOrder, WorkedOn, Kept, Flagged, Told, Registered, InProcessor
<1> QED BY <1>1, <1>2, <1>3, OneJobsStep

LEMMA UploadKeeps ==
  ASSUME ServiceInvariant, NEW j \in Jobs,
         \/ UploadStarts(j)
         \/ StorageOpens(j) \/ StorageFails(j)
         \/ ReceiveChunk(j) \/ UploadFails(j) \/ UploadEnds(j)
         \/ Discard(j) \/ DiscardFails(j) \/ Withdraw(j) \/ WithdrawEnds(j)
  PROVE  ServiceInvariant'
<1>1. /\ Consistent(sched) /\ Received(j) /\ JobInOrder(j)
      /\ handler \in [Jobs -> Handlers] /\ audio \in [Jobs -> BOOLEAN]
      /\ sched.state[j] \in JobState
  BY StatesTyped DEF ServiceInvariant, ServiceTypes, JobInOrder
<1>2. ASSUME NEW to \in Handlers, HandlerGoes(j, to)
      PROVE  /\ handler' = [handler EXCEPT ![j] = to] /\ handler'[j] = to
             /\ audio' = [audio EXCEPT ![j] = audio[j]] /\ audio'[j] = audio[j]
             /\ event'[j] = event[j] /\ events'[j] = events[j]
             /\ UNCHANGED <<worker, timer, failed, event, events, stream, lock, stopped>>
  BY <1>1, <1>2 DEF HandlerGoes
<1>3. CASE UploadStarts(j)
  <2> DEFINE to == IF sched'.state[j] = "uploading" THEN "begun" ELSE "none"
  <2>1. handler[j] = "none" /\ BeginUpload(j) /\ HandlerGoes(j, to)
    BY <1>3 DEF UploadStarts
  <2>2. to \in Handlers \ {"streaming"} BY DEF Handlers
  <2>3. /\ Consistent(sched') /\ OthersDrift(j)
        /\ \/ sched'.state[j] = "uploading"
           \/ Drifts(sched.state[j], sched'.state[j])
    BY <1>1, <2>1, BeginUploadStates
  <2>4. ~audio[j] /\ sched.state[j] \in FreeStates BY <1>1, <2>1 DEF Received
  <2>5. Received(j)'
    <3>1. sched'.state[j] # "uploading" => sched'.state[j] \in FreeStates
      BY <2>3, <2>4 DEF Drifts, FreeStates, OwnedStates, TerminalStates
    <3> QED BY <1>1, <1>2, <2>1, <2>2, <2>4, <3>1 DEF Received
  <2> HIDE DEF to
  <2> QED BY <1>1, <1>2, <2>1, <2>2, <2>3, <2>4, <2>5, HandlerKeeps
<1>4. CASE StorageOpens(j)
  <2>1. Received(j)' /\ "receiving" \in Handlers \ {"streaming"}
    BY <1>1, <1>4 DEF StorageOpens, Received, Handlers
  <2> QED BY <1>4, <2>1, StillStates, HandlerKeeps DEF StorageOpens
<1>5. CASE Discard(j)
  <2>1. Received(j)' /\ "withdrawing" \in Handlers \ {"streaming"}
    BY <1>1, <1>5 DEF Discard, Received, Handlers
  <2> QED BY <1>5, <2>1, StillStates, HandlerKeeps DEF Discard
<1>6. CASE StorageFails(j) \/ UploadFails(j) \/ UploadEnds(j) \/ DiscardFails(j)
  <2>1. PICK to \in {"withdrawing", "discarding", "received", "raised"} :
          /\ HandlerGoes(j, to) /\ UNCHANGED sched
          /\ handler[j] \in {"begun", "receiving", "discarding"}
          /\ to = "withdrawing" => handler[j] = "begun"
          /\ to = "raised" => j \in StuckFiles
    BY <1>6 DEF StorageFails, UploadFails, UploadEnds, DiscardFails
  <2>2. to \in Handlers \ {"streaming"} BY DEF Handlers
  <2>3. Received(j)' BY <1>1, <1>2, <2>1, <2>2 DEF Received
  <2>4. audio[j] /\ j \notin StuckFiles => to \in {"receiving", "discarding", "received"}
    BY <1>1, <2>1 DEF JobInOrder, Kept, WorkedOn
  <2> QED BY <1>1, <1>2, <2>1, <2>2, <2>3, <2>4, StillStates, HandlerKeeps
<1>7. CASE ReceiveChunk(j)
  <2> DEFINE to == IF sched'.state[j] = "cancelling" THEN "discarding" ELSE "receiving"
  <2>1. handler[j] = "receiving" /\ Get(j, FALSE) /\ HandlerGoes(j, to)
    BY <1>7 DEF ReceiveChunk
  <2>2. to \in {"discarding", "receiving"} /\ to \in Handlers \ {"streaming"}
    BY DEF Handlers
  <2>3. /\ Consistent(sched') /\ OthersDrift(j)
        /\ Drifts(sched.state[j], sched'.state[j])
    BY <1>1, <2>1, GetStates DEF OthersDrift
  <2>4. sched'.state[j] \in {"uploading", "cancelling"}
    BY <1>1, <2>1, <2>3 DEF Received, Drifts, OwnedStates
  <2> HIDE DEF to
  <2>5. Received(j)' BY <1>2, <2>1, <2>2, <2>4 DEF Received
  <2> QED BY <1>1, <1>2, <2>1, <2>2, <2>3, <2>5, HandlerKeeps
<1>8. CASE Withdraw(j)
  <2>1. /\ handler[j] = "withdrawing" /\ Cancel(j) /\ HandlerGoes(j, "withdrawn")
        /\ "withdrawn" \in Handlers \ {"streaming"}
    BY <1>8 DEF Withdraw, Handlers
  <2>2. /\ Consistent(sched') /\ OthersDrift(j)
        /\ CancelsTo(sched.state[j], sched'.state[j])
    BY <1>1, <2>1, CancelStates
  <2>3. sched'.state[j] = "cancelling"
    BY <1>1, <2>1, <2>2 DEF Received, CancelsTo, OwnedStates
  <2>4. Received(j)' BY <1>2, <2>1, <2>3 DEF Received
  <2>5. ~audio[j] \/ j \in StuckFiles BY <1>1, <2>1 DEF JobInOrder, Kept, WorkedOn
  <2> QED BY <1>1, <1>2, <2>1, <2>2, <2>4, <2>5, HandlerKeeps
<1>9. CASE WithdrawEnds(j)
  <2>1. /\ handler[j] = "withdrawn" /\ FinishCancel(j) /\ HandlerGoes(j, "raised")
        /\ "raised" \in Handlers \ {"streaming"}
    BY <1>9 DEF WithdrawEnds, Handlers
  <2>2. sched.state[j] = "cancelling" BY <1>1, <2>1 DEF Received
  <2>3. /\ Consistent(sched') /\ OthersDrift(j) /\ sched'.state[j] = "cancelled"
    BY <1>1, <2>1, <2>2, FinishCancelStates
  <2>4. Received(j)'
    BY <1>2, <2>1, <2>3 DEF Received, Over, TerminalStates
  <2>5. ~audio[j] \/ j \in StuckFiles BY <1>1, <2>1 DEF JobInOrder, Kept, WorkedOn
  <2> QED BY <1>1, <1>2, <2>1, <2>3, <2>4, <2>5, HandlerKeeps
<1> QED BY <1>3, <1>4, <1>5, <1>6, <1>7, <1>8, <1>9

LEMMA StreamStartKeeps ==
  ASSUME ServiceInvariant, NEW j \in Jobs, StreamStarts(j)
  PROVE  ServiceInvariant'
<1>1. /\ Consistent(sched) /\ JobInOrder(j) /\ ServiceTypes
  BY DEF ServiceInvariant
<1>2. /\ handler[j] = "received" /\ Get(j, FALSE) /\ Unlocked
      /\ event' = [event EXCEPT ![j] = (sched'.state[j] = "cancelling")]
      /\ handler' = [handler EXCEPT ![j] = "streaming"]
      /\ worker' = [worker EXCEPT ![j] = "starting"]
      /\ timer' = [timer EXCEPT ![j] = "armed"]
      /\ stream' = [stream EXCEPT ![j] = "pending"]
      /\ UNCHANGED <<audio, failed, events, lock, stopped>>
  BY DEF StreamStarts
<1>3. Consistent(sched') /\ OthersDrift(j) /\ Drifts(sched.state[j], sched'.state[j])
  BY <1>1, <1>2, GetStates DEF OthersDrift
<1>4. ServiceTypes'
  <2>1. /\ "streaming" \in Handlers /\ "starting" \in Workers /\ "armed" \in Timers
        /\ "pending" \in Streams /\ (sched'.state[j] = "cancelling") \in BOOLEAN
    BY DEF Handlers, Workers, Timers, Streams
  <2> HIDE DEF Handlers, Workers, Timers, Streams
  <2> QED BY <1>1, <1>2, <2>1 DEF ServiceTypes
<1>5. \A k \in Jobs \ {j} : Undisturbed(k)
  BY <1>1, <1>2 DEF Undisturbed, ServiceTypes
<1>6. JobInOrder(j)'
  <2>1. worker[j] = "none" /\ sched'.state[j] \in {"uploading", "cancelling"}
    BY <1>1, <1>2, <1>3 DEF JobInOrder, WorkedOn, Received, Drifts, OwnedStates
  <2>2. /\ handler'[j] = "streaming" /\ worker'[j] = "starting"
        /\ event'[j] = (sched'.state[j] = "cancelling") /\ events'[j] = events[j]
    BY <1>1, <1>2 DEF ServiceTypes
  <2> QED BY <1>1, <1>2, <2>1, <2>2
          DEF JobInOrder, Received, WorkedOn, Kept, Flagged, Told, Registered,
              InProcessor
<1> QED BY <1>3, <1>4, <1>5, <1>6, OneJobsStep

-----------------------------------------------------------------------------
(* run().                                                                  *)

\* The thread of job j goes on to the state `to`, with its flags, its file and
\* its queue as given; it may no longer be the one that is being stopped.
LEMMA WorkerKeeps ==
  ASSUME ServiceInvariant, Consistent(sched)', NEW j \in Jobs, OthersDrift(j),
         NEW to \in Workers \ {"none"}, WorkerGoes(j, to), worker[j] # "none",
         NEW there \in BOOLEAN, audio' = [audio EXCEPT ![j] = there],
         NEW bad \in BOOLEAN, failed' = [failed EXCEPT ![j] = bad],
         NEW set \in BOOLEAN, event' = [event EXCEPT ![j] = set],
         NEW t \in Timers, timer' = [timer EXCEPT ![j] = t],
         NEW q \in Seq(Events), Len(q) <= QueueSize,
         events' = [events EXCEPT ![j] = q],
         stopped' \in SUBSET stopped,
         WorkedOn(j)', Flagged(j)', Told(j)',
         there /\ j \notin StuckFiles => to \in {"starting", "processing", "emitting", "cleaning"}
  PROVE  ServiceInvariant'
<1>1. ServiceTypes' BY DEF ServiceInvariant, ServiceTypes, WorkerGoes
<1>2. \A k \in Jobs \ {j} : Undisturbed(k)
  BY DEF Undisturbed, ServiceInvariant, ServiceTypes, WorkerGoes
<1>3. JobInOrder(j)'
  <2>1. /\ handler[j] = "streaming" /\ handler'[j] = "streaming"
        /\ worker'[j] = to /\ audio'[j] = there
    BY DEF ServiceInvariant, ServiceTypes, JobInOrder, WorkedOn, WorkerGoes
  <2> QED BY <2>1 DEF JobInOrder, Received, Kept
<1> QED BY <1>1, <1>2, <1>3, OneJobsStep

\* What an unchanged entry of a function is, as an EXCEPT.
LEMMA SameEntries ==
  ASSUME ServiceInvariant, NEW j \in Jobs
  PROVE  /\ audio = [audio EXCEPT ![j] = audio[j]] /\ audio[j] \in BOOLEAN
         /\ failed = [failed EXCEPT ![j] = failed[j]] /\ failed[j] \in BOOLEAN
         /\ event = [event EXCEPT ![j] = event[j]] /\ event[j] \in BOOLEAN
         /\ timer = [timer EXCEPT ![j] = timer[j]] /\ timer[j] \in Timers
         /\ events = [events EXCEPT ![j] = events[j]]
         /\ events[j] \in Seq(Events) /\ Len(events[j]) <= QueueSize
         /\ worker[j] \in Workers
BY DEF ServiceInvariant, ServiceTypes

LEMMA ThreadBeginsKeeps ==
  ASSUME ServiceInvariant, NEW j \in Jobs, WorkerBegins(j)
  PROVE  ServiceInvariant'
<1>1. Consistent(sched) /\ JobInOrder(j) /\ ServiceTypes BY DEF ServiceInvariant
<1>2. /\ worker[j] = "starting" /\ UNCHANGED <<audio, timer, events, event, stopped>>
      /\ sched.state[j] \in {"uploading", "cancelling"}
  BY <1>1 DEF WorkerBegins, JobInOrder, WorkedOn
<1>3. {"processing", "cleaning"} \subseteq Workers \ {"none"} BY DEF Workers
<1>4. CASE BeginProcessing(j) /\ WorkerGoes(j, "processing") /\ UNCHANGED failed
  <2>1. Consistent(sched)' /\ OthersDrift(j) /\ sched'.state[j] = "running"
    BY <1>1, <1>4, BeginProcessingStates
  <2>2. worker'[j] = "processing" /\ handler'[j] = "streaming"
    BY <1>1, <1>2, <1>4 DEF WorkerGoes, ServiceTypes, JobInOrder, WorkedOn
  <2>3. WorkedOn(j)' BY <2>1, <2>2 DEF WorkedOn
  <2>4. Flagged(j)' BY <1>1, <1>2, <2>1, <2>2 DEF Flagged, JobInOrder, InProcessor
  <2>5. Told(j)' BY <1>1, <1>2, <2>2 DEF Told, JobInOrder
  <2> QED BY <1>2, <1>3, <1>4, <2>1, <2>3, <2>4, <2>5, SameEntries, WorkerKeeps
<1>5. CASE /\ sched.state[j] # "uploading" /\ WorkerGoes(j, "cleaning")
           /\ failed' = [failed EXCEPT ![j] = TRUE] /\ UNCHANGED sched
  <2>1. Consistent(sched)' /\ OthersDrift(j) /\ sched'.state[j] = "cancelling"
    BY <1>2, <1>5, StillStates
  <2>2. worker'[j] = "cleaning" /\ handler'[j] = "streaming"
    BY <1>1, <1>2, <1>5 DEF WorkerGoes, ServiceTypes, JobInOrder, WorkedOn
  <2>3. WorkedOn(j)' BY <2>1, <2>2 DEF WorkedOn
  <2>4. Flagged(j)'
    BY <1>1, <1>2, <1>5, <2>1, <2>2
       DEF Flagged, JobInOrder, Registered, InProcessor, WorkerGoes
  <2>5. Told(j)' BY <1>1, <1>2, <2>2 DEF Told, JobInOrder
  <2> QED BY <1>2, <1>3, <1>5, <2>1, <2>3, <2>4, <2>5, SameEntries, WorkerKeeps
<1> QED BY <1>4, <1>5 DEF WorkerBegins

\* The steps between the start of the processor and the verdict.
LEMMA ThreadProcessesKeeps ==
  ASSUME ServiceInvariant, NEW j \in Jobs,
         ProcessorEmits(j) \/ EmitReturns(j) \/ ProcessorEnds(j) \/ WorkerCleansUp(j)
  PROVE  ServiceInvariant'
<1>1. JobInOrder(j) /\ ServiceTypes BY DEF ServiceInvariant
<1>2. /\ worker[j] \in {"processing", "emitting", "cleaning"}
      /\ event'[j] = event[j] /\ UNCHANGED <<sched, event>>
  BY DEF ProcessorEmits, EmitReturns, ProcessorEnds, WorkerCleansUp
<1>3. Consistent(sched)' /\ OthersDrift(j) BY <1>2, StillStates
<1>4. ASSUME NEW to \in {"processing", "emitting", "cleaning", "settling"},
             WorkerGoes(j, to), stopped' \in SUBSET stopped,
             j \in stopped' => to \in {"processing", "emitting"},
             NEW q \in Seq(Events), events' = [events EXCEPT ![j] = q],
             Members(q) \subseteq Members(events[j]) \cup {"progress"}
      PROVE  WorkedOn(j)' /\ Flagged(j)' /\ Told(j)' /\ to \in Workers \ {"none"}
  <2>1. worker'[j] = to /\ handler'[j] = "streaming" /\ events'[j] = q
        /\ lock' = lock
    BY <1>1, <1>2, <1>4 DEF WorkerGoes, ServiceTypes, JobInOrder, WorkedOn
  <2>2. WorkedOn(j)' BY <1>1, <1>2, <2>1 DEF WorkedOn, JobInOrder
  <2>3. Flagged(j)'
    BY <1>1, <1>2, <1>4, <2>1 DEF Flagged, JobInOrder, Registered, InProcessor
  <2>4. Told(j)' BY <1>1, <1>2, <1>4, <2>1 DEF Told, JobInOrder
  <2> QED BY <2>2, <2>3, <2>4 DEF Workers
<1>5. j \in stopped => worker[j] \in {"processing", "emitting"}
  BY <1>1 DEF JobInOrder, Flagged, InProcessor
<1>6. CASE ProcessorEmits(j)
  <2>1. /\ worker[j] = "processing" /\ WorkerGoes(j, "emitting")
        /\ UNCHANGED <<audio, timer, failed, events, event, stopped>>
    BY <1>6 DEF ProcessorEmits
  <2>2. /\ WorkedOn(j)' /\ Flagged(j)' /\ Told(j)'
        /\ "emitting" \in Workers \ {"none"}
    BY <1>4, <2>1, SameEntries
  <2> QED BY <1>3, <2>1, <2>2, SameEntries, WorkerKeeps
<1>7. CASE EmitReturns(j)
  <2>1. PICK q \in Seq(Events) :
          /\ events' = [events EXCEPT ![j] = q] /\ Len(q) <= QueueSize
          /\ Members(q) \subseteq Members(events[j]) \cup {"progress"}
    <3>1. "progress" \in Events BY DEF Events
    <3>2. CASE event[j] /\ UNCHANGED events
      BY <3>2, SameEntries
    <3>3. CASE HasRoom(j) /\ events' = [events EXCEPT ![j] = Append(@, "progress")]
      <4>1. /\ Append(events[j], "progress") \in Seq(Events)
            /\ Len(Append(events[j], "progress")) = Len(events[j]) + 1
            /\ Members(Append(events[j], "progress")) = Members(events[j]) \cup {"progress"}
        BY <3>1, SameEntries, QueueMembers
      <4>2. Len(events[j]) + 1 <= QueueSize
        BY <3>3, SameEntries, ServiceAssumption DEF HasRoom
      <4> QED BY <3>3, <4>1, <4>2
    <3> QED BY <1>7, <3>2, <3>3 DEF EmitReturns
  <2>2. /\ worker[j] = "emitting" /\ WorkerGoes(j, "processing")
        /\ UNCHANGED <<audio, timer, failed, event, stopped>>
    BY <1>7 DEF EmitReturns
  <2>3. /\ WorkedOn(j)' /\ Flagged(j)' /\ Told(j)'
        /\ "processing" \in Workers \ {"none"}
    BY <1>4, <2>1, <2>2
  <2> QED BY <1>3, <2>1, <2>2, <2>3, SameEntries, WorkerKeeps
<1>8. CASE ProcessorEnds(j)
  <2>1. PICK raised \in BOOLEAN : failed' = [failed EXCEPT ![j] = raised]
    BY <1>8 DEF ProcessorEnds
  <2>2. /\ worker[j] = "processing" /\ WorkerGoes(j, "cleaning")
        /\ UNCHANGED <<audio, timer, events, event>>
        /\ stopped' = stopped \ {j}
    BY <1>8 DEF ProcessorEnds
  <2>3. /\ WorkedOn(j)' /\ Flagged(j)' /\ Told(j)'
        /\ "cleaning" \in Workers \ {"none"}
    BY <1>4, <2>2, SameEntries
  <2> QED BY <1>3, <2>1, <2>2, <2>3, SameEntries, WorkerKeeps
<1>9. CASE WorkerCleansUp(j)
  <2>1. /\ worker[j] = "cleaning" /\ WorkerGoes(j, "settling")
        /\ timer' = [timer EXCEPT ![j] = "off"]
        /\ UNCHANGED <<events, event, stopped>>
    BY <1>9 DEF WorkerCleansUp
  <2>2. PICK there, bad \in BOOLEAN :
          /\ audio' = [audio EXCEPT ![j] = there]
          /\ failed' = [failed EXCEPT ![j] = bad]
          /\ there => j \in StuckFiles
    BY <1>9, SameEntries DEF WorkerCleansUp
  <2>3. /\ WorkedOn(j)' /\ Flagged(j)' /\ Told(j)'
        /\ "settling" \in Workers \ {"none"} /\ "off" \in Timers
    BY <1>4, <1>5, <2>1, SameEntries DEF Timers
  <2> QED BY <1>3, <2>1, <2>2, <2>3, SameEntries, WorkerKeeps
<1> QED BY <1>6, <1>7, <1>8, <1>9

LEMMA ThreadSettlesKeeps ==
  ASSUME ServiceInvariant, NEW j \in Jobs, WorkerSettles(j)
  PROVE  ServiceInvariant'
<1>1. Consistent(sched) /\ JobInOrder(j) /\ ServiceTypes BY DEF ServiceInvariant
<1>2. /\ worker[j] = "settling" /\ Unlocked /\ WorkerGoes(j, "reporting")
      /\ UNCHANGED <<audio, timer, failed, events, event, stopped>>
      /\ sched.state[j] \in {"running", "cancelling"}
  BY <1>1 DEF WorkerSettles, JobInOrder, WorkedOn
<1>3. lock.job # j
  BY <1>2, SchedulerAssumption DEF Unlocked, NoCancellation
<1>4. worker'[j] = "reporting" /\ handler'[j] = "streaming"
  BY <1>1, <1>2 DEF WorkerGoes, ServiceTypes, JobInOrder, WorkedOn
<1>5. /\ Consistent(sched') /\ OthersDrift(j)
      /\ event[j] => sched'.state[j] = "cancelled"
      /\ ~event[j] /\ failed[j] => sched'.state[j] = "failed"
      /\ ~event[j] /\ ~failed[j] => sched'.state[j] = "completed"
  <2>1. CASE event[j] /\ sched' = CancelFinished(Cancelled(Reap(sched), j), j)
    <3>1. sched.state[j] \in OwnedStates BY <1>2 DEF OwnedStates
    <3> QED BY <2>1, <3>1, <1>1, SettleCancelStates
  <2>2. CASE ~event[j] /\ failed[j] /\ Fail(j)
    BY <2>2, <1>1, FinishStates DEF Fail
  <2>3. CASE ~event[j] /\ ~failed[j] /\ Complete(j)
    BY <2>3, <1>1, FinishStates DEF Complete
  <2> QED BY <2>1, <2>2, <2>3 DEF WorkerSettles, Settles
<1>6. WorkedOn(j)' BY <1>4, <1>5 DEF WorkedOn, Over, TerminalStates
<1>7. Flagged(j)'
  BY <1>1, <1>2, <1>4 DEF Flagged, JobInOrder, Registered, InProcessor
<1>8. Told(j)' BY <1>1, <1>2, <1>4, <1>5 DEF Told, JobInOrder
<1>9. "reporting" \in Workers \ {"none"} BY DEF Workers
<1>10. audio[j] /\ j \notin StuckFiles => FALSE
  BY <1>1, <1>2 DEF JobInOrder, Kept, WorkedOn
<1> QED BY <1>2, <1>5, <1>6, <1>7, <1>8, <1>9, <1>10, SameEntries, WorkerKeeps

LEMMA ThreadReportsKeeps ==
  ASSUME ServiceInvariant, NEW j \in Jobs, WorkerReports(j)
  PROVE  ServiceInvariant'
<1>1. JobInOrder(j) /\ ServiceTypes BY DEF ServiceInvariant
<1>2. /\ worker[j] = "reporting" /\ WorkerGoes(j, "ending")
      /\ event' = [event EXCEPT ![j] = FALSE]
      /\ failed' = [failed EXCEPT ![j] = FALSE]
      /\ UNCHANGED <<sched, audio, timer, stopped>>
  BY DEF WorkerReports
<1>3. /\ sched.state[j] \in Over
      /\ sched.state[j] \in {"unknown"} \cup
           (IF event[j] \/ failed[j] THEN {"failed", "cancelled"} ELSE {"completed"})
      /\ "ok" \notin Members(events[j]) /\ "error" \notin Members(events[j])
      /\ j \notin stopped
  BY <1>1, <1>2 DEF JobInOrder, WorkedOn, Told, Flagged, InProcessor
<1>4. Consistent(sched)' /\ OthersDrift(j) BY <1>2, StillStates
<1>5. PICK q \in Seq(Events) :
        /\ events' = [events EXCEPT ![j] = q] /\ Len(q) <= QueueSize
        /\ Members(q) \subseteq Members(events[j]) \cup {Result(j)}
  <2>1. Result(j) \in Events BY DEF Events, Result
  <2>2. CASE UNCHANGED events
    BY <2>2, SameEntries
  <2>3. CASE HasRoom(j) /\ events' = [events EXCEPT ![j] = Append(@, Result(j))]
    <3>1. /\ Append(events[j], Result(j)) \in Seq(Events)
          /\ Len(Append(events[j], Result(j))) = Len(events[j]) + 1
          /\ Members(Append(events[j], Result(j))) = Members(events[j]) \cup {Result(j)}
      BY <2>1, SameEntries, QueueMembers
    <3>2. Len(events[j]) + 1 <= QueueSize
      BY <2>3, SameEntries, ServiceAssumption DEF HasRoom
    <3> QED BY <2>3, <3>1, <3>2
  <2> QED BY <2>2, <2>3 DEF WorkerReports
<1>6. /\ worker'[j] = "ending" /\ handler'[j] = "streaming" /\ events'[j] = q
      /\ sched'.state[j] = sched.state[j]
  BY <1>1, <1>2, <1>5 DEF WorkerGoes, ServiceTypes, JobInOrder, WorkedOn
<1>7. WorkedOn(j)' BY <1>3, <1>6 DEF WorkedOn
<1>8. Flagged(j)' BY <1>2, <1>3, <1>6 DEF Flagged, Registered, InProcessor
<1>9. Told(j)'
  BY <1>3, <1>5, <1>6 DEF Told, Result
<1>10. "ending" \in Workers \ {"none"} BY DEF Workers
<1>11. audio[j] /\ j \notin StuckFiles => FALSE
  BY <1>1, <1>2 DEF JobInOrder, Kept, WorkedOn
<1> QED BY <1>2, <1>4, <1>5, <1>7, <1>8, <1>9, <1>10, <1>11, SameEntries, WorkerKeeps

LEMMA ThreadEndsKeeps ==
  ASSUME ServiceInvariant, NEW j \in Jobs, WorkerEnds(j)
  PROVE  ServiceInvariant'
<1>1. JobInOrder(j) /\ ServiceTypes BY DEF ServiceInvariant
<1>2. /\ worker[j] = "ending" /\ WorkerGoes(j, "done")
      /\ UNCHANGED <<sched, audio, timer, failed, event, stopped>>
  BY DEF WorkerEnds
<1>3. Consistent(sched)' /\ OthersDrift(j) BY <1>2, StillStates
<1>4. PICK q \in Seq(Events) :
        /\ events' = [events EXCEPT ![j] = q] /\ Len(q) <= QueueSize
        /\ Members(q) \subseteq Members(events[j]) \cup {"END"}
  <2>1. "END" \in Events BY DEF Events
  <2>2. CASE UNCHANGED events
    BY <2>2, SameEntries
  <2>3. CASE HasRoom(j) /\ events' = [events EXCEPT ![j] = Append(@, "END")]
    <3>1. /\ Append(events[j], "END") \in Seq(Events)
          /\ Len(Append(events[j], "END")) = Len(events[j]) + 1
          /\ Members(Append(events[j], "END")) = Members(events[j]) \cup {"END"}
      BY <2>1, SameEntries, QueueMembers
    <3>2. Len(events[j]) + 1 <= QueueSize
      BY <2>3, SameEntries, ServiceAssumption DEF HasRoom
    <3> QED BY <2>3, <3>1, <3>2
  <2> QED BY <2>2, <2>3 DEF WorkerEnds
<1>5. /\ worker'[j] = "done" /\ handler'[j] = "streaming" /\ events'[j] = q
  BY <1>1, <1>2, <1>4 DEF WorkerGoes, ServiceTypes, JobInOrder, WorkedOn
<1>6. WorkedOn(j)' BY <1>1, <1>2, <1>5 DEF WorkedOn, JobInOrder
<1>7. Flagged(j)'
  BY <1>1, <1>2, <1>5 DEF Flagged, JobInOrder, Registered, InProcessor
<1>8. Told(j)' BY <1>1, <1>2, <1>4, <1>5 DEF Told, JobInOrder
<1>9. "done" \in Workers \ {"none"} BY DEF Workers
<1>10. audio[j] /\ j \notin StuckFiles => FALSE
  BY <1>1, <1>2 DEF JobInOrder, Kept, WorkedOn
<1> QED BY <1>2, <1>3, <1>4, <1>6, <1>7, <1>8, <1>9, <1>10, SameEntries, WorkerKeeps

-----------------------------------------------------------------------------
(* The timer, the cancellations and the stream.                            *)

LEMMA TimerKeeps ==
  ASSUME ServiceInvariant, NEW j \in Jobs, TimerFires(j)
  PROVE  ServiceInvariant'
<1>1. ServiceTypes'
  BY DEF TimerFires, ServiceInvariant, ServiceTypes, Timers
<1>2. \A k \in Jobs : Undisturbed(k) BY DEF TimerFires, Undisturbed
<1>3. UNCHANGED sched BY DEF TimerFires
<1> QED BY <1>1, <1>2, <1>3, StillStates, DriftingStep

\* The caller of a cancellation, whoever it is.
LEMMA CallerTypes ==
  ASSUME ServiceTypes, NEW by \in Cancellers, NEW j \in Jobs,
         NEW to \in {"cancelling", After(by)}, Caller(by, j, to)
  PROVE  /\ timer' \in [Jobs -> Timers] /\ stream' \in [Jobs -> Streams]
         /\ UNCHANGED <<handler, audio, worker, failed, events>>
<1>1. by = "timer" => to \in Timers BY DEF After, Timers
<1>2. by = "stream" => to \in Streams BY DEF After, Streams
<1> QED BY <1>1, <1>2 DEF Caller, ServiceTypes

LEMMA CancelBeginKeeps ==
  ASSUME ServiceInvariant, NEW by \in Cancellers, NEW j \in Jobs, CancelBegins(by, j)
  PROVE  ServiceInvariant'
<1>1. Consistent(sched) /\ JobInOrder(j) /\ ServiceTypes BY DEF ServiceInvariant
<1>2. Unlocked /\ Cancel(j) /\ UNCHANGED <<event, stopped>> BY DEF CancelBegins
<1>3. /\ Consistent(sched') /\ OthersDrift(j)
      /\ CancelsTo(sched.state[j], sched'.state[j])
  BY <1>1, <1>2, CancelStates
<1>4. PICK to \in {"cancelling", After(by)} : Caller(by, j, to)
  BY DEF CancelBegins
<1>5. /\ timer' \in [Jobs -> Timers] /\ stream' \in [Jobs -> Streams]
      /\ UNCHANGED <<handler, audio, worker, failed, events>>
  BY <1>1, <1>4, CallerTypes
<1>6. lock' \in [by : Cancellers, job : Jobs] \cup {NoCancellation}
  BY <1>1 DEF CancelBegins, ServiceTypes
<1>7. ServiceTypes' BY <1>1, <1>2, <1>5, <1>6 DEF ServiceTypes
<1>8. \A k \in Jobs \ {j} : Undisturbed(k)
  BY <1>2, <1>5, SchedulerAssumption DEF Undisturbed, Unlocked, NoCancellation
<1>9. JobInOrder(j)'
  <2>1. sched'.state[j] # "unknown" => lock'.job = j
    BY DEF CancelBegins
  <2>2. Received(j)'
    BY <1>1, <1>3, <1>2, <1>5
       DEF JobInOrder, Received, CancelsTo, FreeStates, Over, OwnedStates, TerminalStates
  <2>3. WorkedOn(j)'
    BY <1>1, <1>3, <1>5
       DEF JobInOrder, WorkedOn, CancelsTo, Over, OwnedStates, TerminalStates
  <2>4. Kept(j)' BY <1>1, <1>5 DEF JobInOrder, Kept
  <2>5. Flagged(j)'
    BY <1>1, <1>2, <1>5, <2>1 DEF JobInOrder, Flagged, Registered, InProcessor
  <2>6. Told(j)'
    BY <1>1, <1>2, <1>3, <1>5 DEF JobInOrder, Told, CancelsTo, TerminalStates
  <2> QED BY <2>2, <2>3, <2>4, <2>5, <2>6 DEF JobInOrder
<1> QED BY <1>3, <1>7, <1>8, <1>9, OneJobsStep

\* A job whose thread is at work has the slot.
LEMMA WorkerHasSlot ==
  ASSUME ServiceInvariant, NEW j \in Jobs, Registered(j)
  PROVE  sched.active = j
<1>1. sched.state[j] \in SlotStates
  BY DEF ServiceInvariant, JobInOrder, WorkedOn, Registered, SlotStates, OwnedStates
<1> QED BY <1>1 DEF ServiceInvariant, Consistent, Sane, HoldsSlot

LEMMA CancelEndKeeps ==
  ASSUME ServiceInvariant, CancelEnds
  PROVE  ServiceInvariant'
<1>1. Consistent(sched) /\ ServiceTypes BY DEF ServiceInvariant
<1>2. PICK by \in Cancellers, j \in Jobs : lock = [by |-> by, job |-> j]
  BY <1>1 DEF CancelEnds, Unlocked, ServiceTypes
<1>3. /\ Caller(by, j, After(by)) /\ lock' = NoCancellation /\ UNCHANGED sched
      /\ IF Registered(j)
           THEN /\ event' = [event EXCEPT ![j] = TRUE]
                /\ stopped' = stopped \cup {k \in Jobs : InProcessor(k)}
           ELSE UNCHANGED <<event, stopped>>
  BY <1>2 DEF CancelEnds
<1>4. /\ timer' \in [Jobs -> Timers] /\ stream' \in [Jobs -> Streams]
      /\ UNCHANGED <<handler, audio, worker, failed, events>>
  BY <1>1, <1>3, CallerTypes
<1>5. ServiceTypes' BY <1>1, <1>3, <1>4 DEF ServiceTypes
\* Nobody else is in the processor, so nobody else is stopped.
<1>6. ASSUME NEW k \in Jobs \ {j}
      PROVE  Undisturbed(k)
  <2>1. Registered(j) => ~InProcessor(k)
    BY WorkerHasSlot DEF Registered, InProcessor
  <2>2. event'[k] = event[k] BY <1>1, <1>3 DEF ServiceTypes
  <2>3. k \in stopped' => k \in stopped BY <1>3, <2>1
  <2>4. lock.job # k BY <1>2
  <2> QED BY <1>4, <2>2, <2>3, <2>4 DEF Undisturbed
<1>7. JobInOrder(j)'
  <2>1. JobInOrder(j) BY DEF ServiceInvariant
  <2>2. Registered(j) => event'[j] = TRUE BY <1>1, <1>3 DEF ServiceTypes
  <2>3. ~Registered(j) => event'[j] = event[j] /\ stopped' = stopped BY <1>3
  <2>4. Received(j)'
    BY <1>3, <1>4, <2>1, <2>2, <2>3 DEF JobInOrder, Received, WorkedOn, Registered
  <2>5. WorkedOn(j)' BY <1>3, <1>4, <2>1 DEF JobInOrder, WorkedOn
  <2>6. Kept(j)' BY <1>4, <2>1 DEF JobInOrder, Kept
  <2>7. Flagged(j)'
    BY <1>3, <1>4, <2>1, <2>2, <2>3
       DEF JobInOrder, Flagged, Registered, InProcessor
  <2>8. Told(j)'
    BY <1>3, <1>4, <2>1, <2>3 DEF JobInOrder, Told, Registered
  <2> QED BY <2>4, <2>5, <2>6, <2>7, <2>8 DEF JobInOrder
<1>8. OthersDrift(j) /\ Consistent(sched)' BY <1>3, StillStates
<1> QED BY <1>5, <1>6, <1>7, <1>8, OneJobsStep

LEMMA StreamKeeps ==
  ASSUME ServiceInvariant, NEW j \in Jobs, Generate(j)
  PROVE  ServiceInvariant'
<1>1. ServiceTypes BY DEF ServiceInvariant
<1>2. PICK to \in Streams : StreamGoes(j, to)
  BY DEF Generate, StreamOpens, StreamReads, StreamRunsDry, StreamResumes,
         StreamCloses, Streams
<1>3. /\ UNCHANGED <<sched, handler, audio, worker, timer, failed, event, lock, stopped>>
      /\ stream' = [stream EXCEPT ![j] = to]
  BY <1>2 DEF StreamGoes
<1>4. PICK q \in Seq(Events) :
        /\ events' = [events EXCEPT ![j] = q]
        /\ Len(q) <= QueueSize /\ Members(q) \subseteq Members(events[j])
        /\ events[j] = << >> => q = << >>
  <2>1. CASE UNCHANGED events
    BY <2>1, SameEntries
  <2>2. CASE events[j] # << >> /\ events' = [events EXCEPT ![j] = Tail(@)]
    <3>1. /\ Tail(events[j]) \in Seq(Events)
          /\ Len(Tail(events[j])) = Len(events[j]) - 1
          /\ Members(Tail(events[j])) \subseteq Members(events[j])
      <4>1. "END" \in Events BY DEF Events
      <4> QED BY <2>2, <4>1, SameEntries, QueueMembers
    <3>2. Len(events[j]) - 1 <= QueueSize
      BY SameEntries, ServiceAssumption
    <3> QED BY <2>2, <3>1, <3>2
  <2> QED BY <2>1, <2>2
          DEF Generate, StreamOpens, StreamReads, StreamRunsDry, StreamResumes,
              StreamCloses
<1>5. ServiceTypes' BY <1>1, <1>3, <1>4 DEF ServiceTypes
<1>6. \A k \in Jobs : Undisturbed(k)
  BY <1>1, <1>3, <1>4 DEF Undisturbed, ServiceTypes
<1> QED BY <1>3, <1>5, <1>6, StillStates, DriftingStep

-----------------------------------------------------------------------------
\* Every step keeps the invariant.
LEMMA ServiceKeeps ==
  ASSUME ServiceInvariant, [ServiceNext]_serviceVars
  PROVE  ServiceInvariant'
<1>1. CASE UNCHANGED serviceVars
  <2>1. ServiceTypes' /\ \A k \in Jobs : Undisturbed(k)
    BY <1>1 DEF serviceVars, perJob, ServiceInvariant, ServiceTypes, Undisturbed
  <2> QED BY <1>1, <2>1, StillStates, DriftingStep DEF serviceVars
<1>2. CASE CancelEnds \/ TimePasses
  BY <1>2, CancelEndKeeps, RequestsKeep
<1>3. ASSUME NEW j \in Jobs,
             \/ \E allowQueue \in BOOLEAN : Reserve(j, allowQueue)
             \/ \E renew \in BOOLEAN : Status(j, renew)
             \/ TimerFires(j)
             \/ \E by \in Cancellers : CancelBegins(by, j)
             \/ Generate(j)
      PROVE  ServiceInvariant'
  BY <1>3, ReserveKeeps, RequestsKeep, TimerKeeps, CancelBeginKeeps, StreamKeeps
<1>4. ASSUME NEW j \in Jobs, UploadStarts(j) \/ Receive(j)
      PROVE  ServiceInvariant'
  BY <1>4, UploadKeeps, StreamStartKeeps DEF Receive
<1>5. ASSUME NEW j \in Jobs, Work(j)
      PROVE  ServiceInvariant'
  BY <1>5, ThreadBeginsKeeps, ThreadProcessesKeeps, ThreadSettlesKeeps,
     ThreadReportsKeeps, ThreadEndsKeeps
     DEF Work, WorkerSteps
<1> QED BY <1>1, <1>2, <1>3, <1>4, <1>5 DEF ServiceNext

\* The scheduler is consistent, and every job is in order, in every state that
\* the service can reach.
THEOREM ServiceInvariance == ServiceSpec => []ServiceInvariant
<1>1. ServiceInvariant /\ [ServiceNext]_serviceVars => ServiceInvariant'
  BY ServiceKeeps
<1> QED BY <1>1, ServiceStarts, PTL DEF ServiceSpec

\* Type correctness of the service.
THEOREM ServiceTypeCorrect == ServiceSpec => []ServiceTypeOK
<1>1. ServiceInvariant => ServiceTypeOK
  BY DEF ServiceInvariant, ServiceTypes, ServiceTypeOK, TypeOK, Consistent, Sane
<1> QED BY <1>1, ServiceInvariance, PTL

\* With any number of requests, uploads, threads, timers and streams the slot
\* and the line of the scheduler stay in order.
THEOREM ServiceSlotAndLine == ServiceSpec => []SlotAndLine
<1>1. ServiceInvariant => SlotAndLine
  BY DEF ServiceInvariant, SlotAndLine, OneSlot, LineHoldsQueued, LineBounded,
         NoIdleSlot, Consistent, Sane
<1> QED BY <1>1, ServiceInvariance, PTL

\* The processor works for the job that has the slot, and a job that owns the
\* slot has a coroutine or a thread that will give it back.
THEOREM ServiceSlotIsWorkedFor == ServiceSpec => []SlotIsWorkedFor
<1>1. ASSUME ServiceInvariant
      PROVE  OneWorkflow
  BY <1>1, WorkerHasSlot
     DEF OneWorkflow, ServiceInvariant, JobInOrder, WorkedOn, InProcessor, Registered
<1>2. ASSUME ServiceInvariant, NEW j \in Jobs \ StuckFiles,
             sched.state[j] \in OwnedStates
      PROVE  HasOwner(j)
  <2>1. JobInOrder(j) /\ handler[j] \in Handlers /\ worker[j] \in Workers
    BY <1>2 DEF ServiceInvariant, ServiceTypes
  <2>2. handler[j] # "none" /\ handler[j] # "raised"
    BY <1>2, <2>1
       DEF JobInOrder, Received, FreeStates, Over, OwnedStates, TerminalStates
  <2>3. handler[j] = "streaming" => Registered(j)
    BY <1>2, <2>1
       DEF JobInOrder, WorkedOn, Workers, Registered, Over, OwnedStates, TerminalStates
  <2> QED BY <2>2, <2>3 DEF HasOwner
<1>3. ServiceInvariant => SlotIsWorkedFor
  BY <1>1, <1>2 DEF SlotIsWorkedFor, SlotHasOwner
<1> QED BY <1>3, ServiceInvariance, PTL

\* A cancellation reaches the thread of the job it was asked for, whenever it
\* comes, and stops no other.
THEOREM ServiceCancellationArrives == ServiceSpec => []CancellationArrives
<1>1. ASSUME ServiceInvariant
      PROVE  OwnCancellation
  BY <1>1 DEF OwnCancellation, ServiceInvariant, ServiceTypes, JobInOrder, Flagged
<1>2. ASSUME ServiceInvariant
      PROVE  CancellationReachesThread
  BY <1>2, SchedulerAssumption
     DEF CancellationReachesThread, ServiceInvariant, JobInOrder, Flagged,
         Unlocked, NoCancellation
<1>3. ServiceInvariant => CancellationArrives
  BY <1>1, <1>2 DEF CancellationArrives
<1> QED BY <1>3, ServiceInvariance, PTL

\* The scheduler takes the verdict that the thread gives in its finally clause,
\* and the stream is told the same.
THEOREM ServiceVerdictIsTold == ServiceSpec => []VerdictIsTold
<1>1. ASSUME ServiceInvariant, NEW j \in Jobs,
             worker[j] = "settling", Unlocked, ~event[j]
      PROVE  sched.state[j] = "running"
  <2>1. JobInOrder(j) /\ Registered(j) /\ lock.job # j
    BY <1>1, SchedulerAssumption
       DEF ServiceInvariant, Registered, Unlocked, NoCancellation
  <2> QED BY <1>1, <2>1 DEF JobInOrder, WorkedOn, Flagged
<1>2. ServiceInvariant => StreamTellsVerdict
  BY DEF StreamTellsVerdict, ServiceInvariant, JobInOrder, Told
<1>3. ServiceInvariant => VerdictIsTold
  BY <1>1, <1>2 DEF VerdictIsTold, VerdictIsAccepted
<1> QED BY <1>3, ServiceInvariance, PTL

\* Zero retention: no path of an upload, a cancellation or a failure leaves the
\* file of a job behind that has lost the slot.
THEOREM ServiceUploadIsDeleted == ServiceSpec => []UploadIsDeleted
<1>1. ASSUME ServiceInvariant, NEW j \in Jobs \ StuckFiles, audio[j]
      PROVE  sched.active = j /\ sched.state[j] \in OwnedStates
  <2>1. JobInOrder(j) BY <1>1 DEF ServiceInvariant
  <2>2. sched.state[j] \in OwnedStates
    BY <1>1, <2>1 DEF JobInOrder, Kept, Received, WorkedOn, OwnedStates
  <2> QED BY <1>1, <2>2
          DEF ServiceInvariant, Consistent, Sane, HoldsSlot, SlotStates
<1>2. ServiceInvariant => UploadIsDeleted
  BY <1>1 DEF UploadIsDeleted
<1> QED BY <1>2, ServiceInvariance, PTL

-----------------------------------------------------------------------------
(* Every request of the service is one turn of the FIFO slot.              *)

\* The verdict of a thread whose event is set ends two calls of the scheduler,
\* which are one turn.
LEMMA SettleCancelIsTurn ==
  ASSUME Consistent(sched), NEW j \in Jobs, sched.state[j] \in OwnedStates,
         sched' = CancelFinished(Cancelled(Reap(sched), j), j)
  PROVE  \E leavers \in SUBSET PresentIn(sched) : TurnsTo(sched, sched', leavers, << >>)
<1> DEFINE r == Reap(sched)
           c == Enter(r, j, "cancelling", 0)
           E == Expiring(sched)
<1>1. Consistent(r) /\ r \in SchedulerType /\ r.state \in [Jobs -> JobState]
  BY ReapIsConsistent, StatesTyped
<1>2. r.state[j] \in OwnedStates BY ReapMoves
<1>3. TurnsTo(sched, r, E, << >>) /\ E \subseteq PresentIn(sched) BY ReapIsTurn
<1>4. PresentIn(r) \subseteq PresentIn(sched) BY ReapKeepsPresent
<1>5. sched' = CancelFinished(c, j) BY <1>2 DEF Cancelled
<1>6. sched.waiting \in Seq(Jobs) /\ r.waiting \in Seq(Jobs) /\ << >> \in Seq(Jobs)
  BY <1>1, Fields DEF Consistent, Sane
<1> HIDE DEF r, E
<1>7. Consistent(c)
  <2>1. "cancelling" \in OwnedStates /\ r.state[j] \in SlotStates
    BY <1>2 DEF OwnedStates, SlotStates
  <2> QED BY <2>1, <1>1, OwnedIsConsistent
<1>8. /\ c.state[j] = "cancelling"
      /\ c.active = r.active /\ c.waiting = r.waiting
  BY <1>1 DEF Enter, SchedulerType
<1> HIDE DEF c
<1>9. sched' = End(c, j, "cancelled") BY <1>5, <1>8 DEF CancelFinished
<1>10. /\ "cancelled" \in TerminalStates
       /\ c.state[j] \in SlotStates \cup {"queued"}
  BY <1>8 DEF TerminalStates, SlotStates, OwnedStates
<1>11. TurnsTo(c, sched', {j}, << >>) /\ j \in PresentIn(c)
  BY <1>7, <1>9, <1>10, EndIsTurn
<1>12. TurnsTo(r, sched', {j}, << >>) /\ j \in PresentIn(r)
  BY <1>8, <1>11 DEF TurnsTo, PresentIn
<1>13. TurnsTo(sched, sched', E \cup {j}, << >>)
  BY <1>3, <1>6, <1>12, TurnsCompose
<1> QED BY <1>3, <1>4, <1>12, <1>13

\* The service uses the scheduler as a FIFO slot: with any number of requests,
\* threads and cancellations at once nobody overtakes in the line.
THEOREM ServiceImplementsFifoSlot == ServiceSpec => ImplementsFifoSlot
<1>1. ServiceInit => Slot!SlotInit
  BY DEF ServiceInit, SchedulerInit, NewScheduler, Slot!SlotInit
<1>2. ServiceInvariant /\ [ServiceNext]_serviceVars => [Slot!SlotNext]_(Slot!slotVars)
  <2> SUFFICES ASSUME ServiceInvariant, [ServiceNext]_serviceVars
               PROVE  [Slot!SlotNext]_(Slot!slotVars)
    OBVIOUS
  <2>1. CASE UNCHANGED sched
    BY <2>1 DEF Slot!slotVars
  <2>2. CASE SchedulerNext
    BY <2>2, NextIsTurn, TurnIsSlotStep DEF ServiceInvariant
  <2>3. ASSUME NEW j \in Jobs, WorkerSettles(j)
        PROVE  Slot!SlotNext
    <3>1. CASE event[j] /\ sched' = CancelFinished(Cancelled(Reap(sched), j), j)
      <4>1. sched.state[j] \in OwnedStates
        BY <2>3 DEF WorkerSettles, ServiceInvariant, JobInOrder, WorkedOn, OwnedStates
      <4>2. PICK leavers \in SUBSET PresentIn(sched) :
              TurnsTo(sched, sched', leavers, << >>)
        BY <3>1, <4>1, SettleCancelIsTurn DEF ServiceInvariant
      <4> QED BY <4>2, TurnIsSlotStep
    <3>2. CASE Fail(j) \/ Complete(j)
      <4>1. SchedulerNext BY <3>2 DEF SchedulerNext, Owner
      <4> QED BY <4>1, NextIsTurn, TurnIsSlotStep DEF ServiceInvariant
    <3> QED BY <2>3, <3>1, <3>2 DEF WorkerSettles, Settles
  <2>4. ASSUME NEW j \in Jobs, NEW allowQueue \in BOOLEAN, Reserve(j, allowQueue)
        PROVE  SchedulerNext
    BY <2>4 DEF Reserve, SchedulerNext
  <2>5. ASSUME NEW j \in Jobs, NEW renew \in BOOLEAN, Status(j, renew)
        PROVE  SchedulerNext
    BY <2>5 DEF Status, SchedulerNext
  <2>6. ASSUME NEW j \in Jobs,
               \/ UploadStarts(j) \/ Withdraw(j)
               \/ \E by \in Cancellers : CancelBegins(by, j)
        PROVE  SchedulerNext
    BY <2>6 DEF UploadStarts, Withdraw, CancelBegins, SchedulerNext
  <2>7. ASSUME NEW j \in Jobs, WithdrawEnds(j)
        PROVE  SchedulerNext
    BY <2>7 DEF WithdrawEnds, SchedulerNext, Owner
  <2>8. ASSUME NEW j \in Jobs, ReceiveChunk(j) \/ StreamStarts(j)
        PROVE  SchedulerNext
    BY <2>8 DEF ReceiveChunk, StreamStarts, SchedulerNext
  <2>9. ASSUME NEW j \in Jobs, WorkerBegins(j)
        PROVE  SchedulerNext \/ UNCHANGED sched
    BY <2>9 DEF WorkerBegins, SchedulerNext, Owner
  <2>10. ASSUME NEW j \in Jobs,
                \/ StorageOpens(j) \/ StorageFails(j) \/ UploadFails(j)
                \/ UploadEnds(j) \/ Discard(j) \/ DiscardFails(j)
                \/ TimerFires(j) \/ Generate(j)
         PROVE  UNCHANGED sched
    BY <2>10
       DEF StorageOpens, StorageFails, UploadFails, UploadEnds, Discard,
           DiscardFails, TimerFires, Generate, StreamOpens, StreamReads,
           StreamRunsDry, StreamResumes, StreamCloses, StreamGoes
  <2>11. ASSUME NEW j \in Jobs,
                \/ ProcessorEmits(j) \/ EmitReturns(j) \/ ProcessorEnds(j)
                \/ WorkerCleansUp(j) \/ WorkerReports(j) \/ WorkerEnds(j)
         PROVE  UNCHANGED sched
    BY <2>11
       DEF ProcessorEmits, EmitReturns, ProcessorEnds, WorkerCleansUp,
           WorkerReports, WorkerEnds
  <2>12. CancelEnds => UNCHANGED sched BY DEF CancelEnds
  <2>13. TimePasses => SchedulerNext BY DEF TimePasses, SchedulerNext
  <2>14. UNCHANGED serviceVars => UNCHANGED sched BY DEF serviceVars
  <2> QED
    BY <2>1, <2>2, <2>3, <2>4, <2>5, <2>6, <2>7, <2>8, <2>9, <2>10, <2>11,
       <2>12, <2>13, <2>14
       DEF ServiceNext, Receive, Work, WorkerSteps
<1> QED BY <1>1, <1>2, ServiceInvariance, PTL
        DEF ServiceSpec, ImplementsFifoSlot, Slot!SlotSpec

=============================================================================
