------------------------- MODULE JobSchedulerProofs -------------------------
(***************************************************************************)
(* The safety of JobScheduler for every set of jobs, every bound of the    *)
(* line and every deadline.  The inductive invariant is Consistent(sched); *)
(* each helper of the module is shown to keep it, or to restore it, and    *)
(* then each method.  On that invariant rests what a step may do: the      *)
(* scheduler implements FifoSlot, keeps verdicts, and leaves the slot to   *)
(* its owner.  The last part is about the reaping loop: job by job, in the *)
(* order of the dict, it does what Reap says at once.                      *)
(***************************************************************************)
EXTENDS JobSchedulerLoop, LineProofs

\* What holds between any two helpers of a method: the fields have their
\* types, the slot's states are the active job's, the line is the queue.
Sane(s) == s \in SchedulerType /\ HoldsSlot(s) /\ LineIsQueue(s)

\* What holds between any two methods: moreover the slot is not idle while
\* somebody waits, and the line is not too long.
Consistent(s) ==
  Sane(s) /\ SlotIsUsed(s) /\ Len(s.waiting) <= MaxQueued

\* The inductive invariant.
SchedulerInvariant == Consistent(sched)

-----------------------------------------------------------------------------
\* The deadlines are times, and the states are what their names say.
LEMMA Durations ==
  /\ 0 \in Ticks /\ ReservationTTL \in Ticks
  /\ UploadReadyTTL \in Ticks /\ TerminalTTL \in Ticks
BY SchedulerAssumption DEF Ticks

LEMMA StatesDisjoint ==
  /\ SlotStates \subseteq JobState /\ TerminalStates \subseteq JobState
  /\ OwnedStates \subseteq SlotStates
  /\ "unknown" \in JobState /\ "queued" \in JobState
  /\ \A t \in TerminalStates : t \notin SlotStates /\ t # "queued" /\ t # "unknown"
  /\ \A t \in SlotStates : t # "queued" /\ t # "unknown"
BY DEF SlotStates, TerminalStates, OwnedStates, JobState

\* The fields of a scheduler state, and of one that Enter has changed.
LEMMA Fields ==
  ASSUME NEW s \in SchedulerType
  PROVE  /\ s.state \in [Jobs -> JobState]
         /\ s.left \in [Jobs -> Ticks]
         /\ s.waiting \in Seq(Jobs)
         /\ s.active \in Jobs \cup {NoJob}
BY DEF SchedulerType

LEMMA EnterFields ==
  ASSUME NEW s \in SchedulerType, NEW j \in Jobs,
         NEW to \in JobState, NEW ttl \in Ticks
  PROVE  /\ Enter(s, j, to, ttl) \in SchedulerType
         /\ Enter(s, j, to, ttl).state = [s.state EXCEPT ![j] = to]
         /\ Enter(s, j, to, ttl).left = [s.left EXCEPT ![j] = ttl]
         /\ Enter(s, j, to, ttl).waiting = s.waiting
         /\ Enter(s, j, to, ttl).active = s.active
BY DEF SchedulerType, Enter

\* The first scheduler state is consistent.
LEMMA NewIsConsistent == Consistent(NewScheduler)
<1>1. NewScheduler \in SchedulerType
  BY Durations, StatesDisjoint DEF NewScheduler, SchedulerType
<1>2. HoldsSlot(NewScheduler)
  BY StatesDisjoint, SchedulerAssumption DEF NewScheduler, HoldsSlot
<1>3. LineIsQueue(NewScheduler)
  BY DEF NewScheduler, LineIsQueue, Distinct, Members
<1>4. SlotIsUsed(NewScheduler) /\ Len(NewScheduler.waiting) <= MaxQueued
  BY SchedulerAssumption DEF NewScheduler, SlotIsUsed
<1> QED BY <1>1, <1>2, <1>3, <1>4 DEF Consistent, Sane

\* What promotion does to a sane state: nothing, or it calls the first of the
\* line into the free slot.
LEMMA PromoteCalls ==
  ASSUME NEW s, Sane(s)
  PROVE  /\ s.active # NoJob \/ s.waiting = << >> => Promote(s) = s
         /\ s.active = NoJob /\ s.waiting # << >> =>
              /\ Head(s.waiting) \in Jobs /\ s.state[Head(s.waiting)] = "queued"
              /\ Promote(s) \in SchedulerType
              /\ Promote(s).state
                   = [s.state EXCEPT ![Head(s.waiting)] = "ready_for_upload"]
              /\ Promote(s).left
                   = [s.left EXCEPT ![Head(s.waiting)] = UploadReadyTTL]
              /\ Promote(s).waiting = SubSeq(s.waiting, 2, Len(s.waiting))
              /\ Promote(s).active = Head(s.waiting)
<1> DEFINE queued == {i \in 1 .. Len(s.waiting) : s.state[s.waiting[i]] = "queued"}
           first  == CHOOSE i \in queued : \A k \in queued : i <= k
           heir   == s.waiting[first]
<1>1. s \in SchedulerType /\ HoldsSlot(s) /\ LineIsQueue(s) BY DEF Sane
<1>2. /\ s.state \in [Jobs -> JobState] /\ s.left \in [Jobs -> Ticks]
      /\ s.waiting \in Seq(Jobs) /\ s.active \in Jobs \cup {NoJob}
  BY <1>1, Fields
<1>3. Len(s.waiting) \in Nat /\ \A i \in 1 .. Len(s.waiting) : s.waiting[i] \in Jobs
  BY <1>2
<1>4. queued = 1 .. Len(s.waiting)
  BY <1>1, <1>3 DEF LineIsQueue, Members
<1>5. CASE s.active # NoJob
  BY <1>5 DEF Promote
<1>6. CASE s.active = NoJob /\ s.waiting = << >>
  <2>1. queued = {} BY <1>4, <1>6
  <2>2. Promote(s) = [s EXCEPT !.waiting = << >>]
    BY <2>1, <1>6 DEF Promote
  <2>3. Promote(s) = s BY <2>2, <1>6, <1>1 DEF SchedulerType
  <2> QED BY <2>3, <1>6
<1>7. CASE s.active = NoJob /\ s.waiting # << >>
  <2>1. 1 \in queued BY <1>4, <1>2, <1>7
  <2>2. first = 1
    <3>1. \A k \in queued : 1 <= k BY <1>4, <1>3
    <3>2. \A i \in queued : i <= 1 => i = 1 BY <1>4, <1>3
    <3>3. first \in queued /\ \A k \in queued : first <= k BY <2>1, <3>1
    <3> HIDE DEF queued, first
    <3> QED BY <2>1, <3>2, <3>3
  <2> DEFINE e == Enter(s, heir, "ready_for_upload", UploadReadyTTL)
             t == [e EXCEPT !.waiting = SubSeq(@, first + 1, Len(@)),
                            !.active = heir]
  <2>3. Promote(s) = t BY <2>1, <1>7 DEF Promote
  <2>4. /\ heir = s.waiting[1] /\ heir \in Jobs /\ s.state[heir] = "queued"
        /\ heir = Head(s.waiting)
    <3>1. heir = s.waiting[1] BY <2>2
    <3>2. 1 \in 1 .. Len(s.waiting) /\ s.state[s.waiting[1]] = "queued"
      BY <2>1
    <3> HIDE DEF heir, queued, first
    <3> QED BY <3>1, <3>2, <1>2, <1>3, <1>7
  <2>5. "ready_for_upload" \in JobState
    BY DEF JobState, SlotStates
  <2> HIDE DEF heir, first, queued
  <2>6. /\ e \in SchedulerType
        /\ e.state = [s.state EXCEPT ![heir] = "ready_for_upload"]
        /\ e.left = [s.left EXCEPT ![heir] = UploadReadyTTL]
        /\ e.waiting = s.waiting
    BY <2>4, <2>5, <1>1, Durations, EnterFields
  <2> HIDE DEF e
  <2>7. SubSeq(s.waiting, 2, Len(s.waiting)) \in Seq(Jobs)
    BY <1>2, <1>3
  <2>8. SubSeq(e.waiting, first + 1, Len(e.waiting))
          = SubSeq(s.waiting, 2, Len(s.waiting))
    BY <2>2, <2>6, 1 + 1 = 2
  <2>9. t = [e EXCEPT !.waiting = SubSeq(s.waiting, 2, Len(s.waiting)),
                      !.active = heir]
    BY <2>8
  <2> HIDE DEF t
  <2>10. t = [state |-> e.state, left |-> e.left,
              waiting |-> SubSeq(s.waiting, 2, Len(s.waiting)), active |-> heir]
    BY <2>9, <2>6 DEF SchedulerType
  <2>11. e.left \in [Jobs -> Ticks] /\ e.state \in [Jobs -> JobState]
    BY <2>6, Fields
  <2>12. t \in SchedulerType BY <2>10, <2>11, <2>4, <2>7 DEF SchedulerType
  <2> QED BY <1>7, <2>3, <2>4, <2>6, <2>10, <2>12
<1> QED BY <1>2, <1>5, <1>6, <1>7

\* Promotion makes a sane state one whose slot is used.
LEMMA PromoteIsSane ==
  ASSUME NEW s, Sane(s)
  PROVE  /\ Sane(Promote(s))
         /\ SlotIsUsed(Promote(s))
         /\ Len(Promote(s).waiting) <= Len(s.waiting)
         /\ s.active = NoJob /\ s.waiting # << >> =>
              Len(Promote(s).waiting) = Len(s.waiting) - 1
<1> DEFINE heir == Head(s.waiting)
           t    == Promote(s)
<1>1. s \in SchedulerType /\ HoldsSlot(s) /\ LineIsQueue(s) BY DEF Sane
<1>2. /\ s.state \in [Jobs -> JobState]
      /\ s.waiting \in Seq(Jobs) /\ s.active \in Jobs \cup {NoJob}
  BY <1>1, Fields
<1>3. Len(s.waiting) \in Nat /\ \A i \in 1 .. Len(s.waiting) : s.waiting[i] \in Jobs
  BY <1>2
<1>4. CASE s.active # NoJob \/ s.waiting = << >>
  <2>1. Promote(s) = s BY <1>4, PromoteCalls
  <2> QED BY <2>1, <1>3, <1>4 DEF SlotIsUsed
<1>5. CASE s.active = NoJob /\ s.waiting # << >>
  <2>1. /\ heir \in Jobs /\ t \in SchedulerType
        /\ t.state = [s.state EXCEPT ![heir] = "ready_for_upload"]
        /\ t.waiting = SubSeq(s.waiting, 2, Len(s.waiting))
        /\ t.active = heir
    BY <1>5, PromoteCalls
  <2>2. heir = s.waiting[1] /\ 1 \in 1 .. Len(s.waiting) BY <1>2, <1>5
  <2> HIDE DEF heir, t
  <2>3. /\ Members(SubSeq(s.waiting, 2, Len(s.waiting)))
             = {s.waiting[i] : i \in 2 .. Len(s.waiting)}
        /\ Distinct(s.waiting) => Distinct(SubSeq(s.waiting, 2, Len(s.waiting)))
        /\ Len(SubSeq(s.waiting, 2, Len(s.waiting))) = Len(s.waiting) - 1
    BY <2>2, <1>2, SuffixMembers, 1 + 1 = 2
  <2>4. "ready_for_upload" \in SlotStates BY DEF SlotStates
  <2>5. HoldsSlot(t)
    BY <2>1, <2>4, <1>1, <1>2, <1>5, SchedulerAssumption DEF HoldsSlot
  <2>6. LineIsQueue(t)
    <3>1. Distinct(t.waiting) BY <2>1, <2>3, <1>1 DEF LineIsQueue
    <3>2. Members(t.waiting) = Members(s.waiting) \ {heir}
      <4>1. \A i \in 2 .. Len(s.waiting) :
              i \in 1 .. Len(s.waiting) /\ s.waiting[i] # s.waiting[1]
        BY <1>1, <1>3, <2>2 DEF LineIsQueue, Distinct
      <4>2. 1 .. Len(s.waiting) = {1} \cup 2 .. Len(s.waiting) BY <2>2, <1>3
      <4>3. Members(s.waiting) = {s.waiting[i] : i \in {1} \cup 2 .. Len(s.waiting)}
        BY <4>2 DEF Members
      <4> QED BY <4>1, <4>3, <2>1, <2>2, <2>3
    <3>3. ASSUME NEW j \in Jobs
          PROVE  j \in Members(t.waiting) <=> t.state[j] = "queued"
      BY <3>2, <2>1, <1>1, <1>2 DEF LineIsQueue
    <3> QED BY <3>1, <3>3 DEF LineIsQueue
  <2>7. SlotIsUsed(t) BY <2>1, SchedulerAssumption DEF SlotIsUsed
  <2>8. Len(t.waiting) = Len(s.waiting) - 1 BY <2>1, <2>3
  <2> QED BY <2>1, <2>5, <2>6, <2>7, <2>8, <1>3 DEF Sane, t
<1> QED BY <1>2, <1>4, <1>5

\* A job that ends gives back the slot or its place in the line.
LEMMA ReleasedIsSane ==
  ASSUME NEW s, Sane(s), NEW j \in Jobs, NEW to \in TerminalStates,
         s.state[j] \in SlotStates \cup {"queued"}
  PROVE  LET e == Enter(s, j, to, TerminalTTL)
             r == IF e.active = j THEN [e EXCEPT !.active = NoJob]
                                  ELSE [e EXCEPT !.waiting = Without(@, {j})]
         IN  Sane(r) /\ Len(r.waiting) <= Len(s.waiting)
<1> DEFINE e == Enter(s, j, to, TerminalTTL)
           r == IF e.active = j THEN [e EXCEPT !.active = NoJob]
                                ELSE [e EXCEPT !.waiting = Without(@, {j})]
<1>1. s \in SchedulerType /\ HoldsSlot(s) /\ LineIsQueue(s) BY DEF Sane
<1>2. /\ s.state \in [Jobs -> JobState] /\ s.left \in [Jobs -> Ticks]
      /\ s.waiting \in Seq(Jobs) /\ s.active \in Jobs \cup {NoJob}
  BY <1>1, Fields
<1>3. to \in JobState /\ to \notin SlotStates /\ to # "queued"
  BY StatesDisjoint
<1>4. /\ e \in SchedulerType
      /\ e.state = [s.state EXCEPT ![j] = to]
      /\ e.waiting = s.waiting /\ e.active = s.active
  <2>1. TerminalTTL \in Ticks BY Durations
  <2> QED BY <1>1, <1>3, <2>1 DEF Enter, SchedulerType
<1>5. e.left \in [Jobs -> Ticks] /\ e.state \in [Jobs -> JobState] BY <1>4, Fields
<1> HIDE DEF e
<1>6. CASE s.active = j
  <2>1. r = [e EXCEPT !.active = NoJob] BY <1>4, <1>6
  <2> HIDE DEF r
  <2>2. r = [state |-> e.state, left |-> e.left, waiting |-> e.waiting,
             active |-> NoJob]
    BY <2>1, <1>4 DEF SchedulerType
  <2>3. r \in SchedulerType BY <2>2, <1>4, <1>5, <1>2 DEF SchedulerType
  <2>4. HoldsSlot(r)
    BY <2>2, <1>1, <1>2, <1>3, <1>4, <1>6, SchedulerAssumption DEF HoldsSlot
  <2>5. s.state[j] # "queued" BY <1>1, <1>6, StatesDisjoint DEF HoldsSlot
  <2>6. LineIsQueue(r)
    BY <2>2, <2>5, <1>1, <1>2, <1>3, <1>4 DEF LineIsQueue
  <2>7. r.waiting = s.waiting /\ Len(s.waiting) \in Nat BY <2>2, <1>2, <1>4
  <2> QED BY <2>3, <2>4, <2>6, <2>7 DEF Sane, r, e
<1>7. CASE s.active # j
  <2>1. r = [e EXCEPT !.waiting = Without(@, {j})] BY <1>4, <1>7
  <2> HIDE DEF r
  <2>2. r = [state |-> e.state, left |-> e.left,
             waiting |-> Without(s.waiting, {j}), active |-> s.active]
    BY <2>1, <1>4 DEF SchedulerType
  <2>3. /\ Without(s.waiting, {j}) \in Seq(Jobs)
        /\ Members(Without(s.waiting, {j})) = Members(s.waiting) \ {j}
        /\ Distinct(s.waiting) => Distinct(Without(s.waiting, {j}))
        /\ Len(Without(s.waiting, {j})) <= Len(s.waiting)
    BY <1>2, WithoutMembers
  <2>4. r \in SchedulerType BY <2>2, <2>3, <1>2, <1>5 DEF SchedulerType
  <2>5. HoldsSlot(r)
    BY <2>2, <1>1, <1>2, <1>3, <1>4, <1>7 DEF HoldsSlot
  <2>6. LineIsQueue(r)
    BY <2>2, <2>3, <1>1, <1>2, <1>3, <1>4 DEF LineIsQueue
  <2> QED BY <2>2, <2>3, <2>4, <2>5, <2>6 DEF Sane, r, e
<1> QED BY <1>6, <1>7

\* A job that has the slot or waits can end: moreover the slot is handed on.
LEMMA EndIsSane ==
  ASSUME NEW s, Sane(s), NEW j \in Jobs, NEW to \in TerminalStates,
         s.state[j] \in SlotStates \cup {"queued"}
  PROVE  /\ Sane(End(s, j, to))
         /\ SlotIsUsed(End(s, j, to))
         /\ Len(End(s, j, to).waiting) <= Len(s.waiting)
<1> DEFINE e == Enter(s, j, to, TerminalTTL)
           r == IF e.active = j THEN [e EXCEPT !.active = NoJob]
                                ELSE [e EXCEPT !.waiting = Without(@, {j})]
<1>1. Sane(r) /\ Len(r.waiting) <= Len(s.waiting) BY ReleasedIsSane
<1>2. End(s, j, to) = Promote(r) BY DEF End, Release
<1> HIDE DEF r
<1>3. /\ Sane(Promote(r)) /\ SlotIsUsed(Promote(r))
      /\ Len(Promote(r).waiting) <= Len(r.waiting)
  BY <1>1, PromoteIsSane
<1>4. /\ Promote(r).waiting \in Seq(Jobs) /\ r.waiting \in Seq(Jobs)
      /\ s.waiting \in Seq(Jobs)
  BY <1>1, <1>3, Fields DEF Sane
<1>5. Len(Promote(r).waiting) <= Len(s.waiting) BY <1>1, <1>3, <1>4
<1> QED BY <1>2, <1>3, <1>5

\* The same, of the whole invariant.
LEMMA EndIsConsistent ==
  ASSUME NEW s, Consistent(s), NEW j \in Jobs, NEW to \in TerminalStates,
         s.state[j] \in SlotStates \cup {"queued"}
  PROVE  Consistent(End(s, j, to))
<1>1. /\ Sane(End(s, j, to)) /\ SlotIsUsed(End(s, j, to))
      /\ Len(End(s, j, to).waiting) <= Len(s.waiting)
  BY EndIsSane DEF Consistent
<1>2. s.waiting \in Seq(Jobs) /\ End(s, j, to).waiting \in Seq(Jobs)
  BY <1>1, Fields DEF Consistent, Sane
<1>3. Len(End(s, j, to).waiting) <= MaxQueued
  BY <1>1, <1>2, SchedulerAssumption DEF Consistent
<1> QED BY <1>1, <1>3 DEF Consistent

\* Reaping keeps the invariant, whichever deadlines have passed.
LEMMA ReapIsConsistent ==
  ASSUME NEW s, Consistent(s)
  PROVE  Consistent(Reap(s))
<1> DEFINE freed   == Lapsed(s, {"ready_for_upload"})
           heir    == IF freed # {} /\ s.waiting # << >>
                        THEN {Head(s.waiting)} ELSE {}
           expired == freed \cup (Lapsed(s, {"queued"}) \ heir)
           purged  == Lapsed(s, TerminalStates)
           removed == expired \cup heir
           r       == Reap(s)
<1>1. s \in SchedulerType /\ HoldsSlot(s) /\ LineIsQueue(s) BY DEF Consistent, Sane
<1>2. /\ s.state \in [Jobs -> JobState] /\ s.left \in [Jobs -> Ticks]
      /\ s.waiting \in Seq(Jobs) /\ s.active \in Jobs \cup {NoJob}
  BY <1>1, Fields
<1>3. /\ \A j \in freed : j \in Jobs /\ s.state[j] = "ready_for_upload" /\ s.active = j
      /\ \A j \in purged : j \in Jobs /\ s.state[j] \in TerminalStates
      /\ \A j \in Lapsed(s, {"queued"}) : j \in Jobs /\ s.state[j] = "queued"
  BY <1>1 DEF Lapsed, HoldsSlot, SlotStates
<1>4. \A j \in heir : /\ j \in Jobs /\ s.state[j] = "queued" /\ freed # {}
                      /\ j = Head(s.waiting)
  <2>1. s.waiting # << >> => Head(s.waiting) \in Jobs /\ Head(s.waiting) \in Members(s.waiting)
    BY <1>2 DEF Members
  <2> QED BY <2>1, <1>1 DEF LineIsQueue
<1>5. \A j \in expired : /\ j \in Jobs
                         /\ s.state[j] \in {"ready_for_upload", "queued"}
                         /\ j \notin heir /\ j \notin purged
                         /\ s.state[j] = "queued" \/ j \in freed
  BY <1>3, <1>4 DEF TerminalStates
<1>6. /\ r.state = [j \in Jobs |-> IF j \in purged THEN "unknown"
                                  ELSE IF j \in expired THEN "expired"
                                  ELSE IF j \in heir THEN "ready_for_upload"
                                  ELSE s.state[j]]
      /\ r.left = [j \in Jobs |-> IF j \in expired THEN TerminalTTL
                                 ELSE IF j \in heir THEN UploadReadyTTL
                                 ELSE s.left[j]]
      /\ r.waiting = Without(s.waiting, removed)
      /\ r.active = IF freed = {} THEN s.active
                    ELSE IF heir = {} THEN NoJob ELSE Head(s.waiting)
      /\ r = [state |-> r.state, left |-> r.left, waiting |-> r.waiting,
              active |-> r.active]
  BY DEF Reap
<1>7. /\ Without(s.waiting, removed) \in Seq(Jobs)
      /\ Members(Without(s.waiting, removed)) = Members(s.waiting) \ removed
      /\ Distinct(s.waiting) => Distinct(Without(s.waiting, removed))
      /\ Len(Without(s.waiting, removed)) <= Len(s.waiting)
  BY <1>2, WithoutMembers
<1>8. heir # {} => heir = {Head(s.waiting)} /\ Head(s.waiting) \in Jobs
  BY <1>4
<1>9. /\ "unknown" \in JobState /\ "expired" \in JobState
      /\ "ready_for_upload" \in JobState
      /\ "ready_for_upload" \in SlotStates /\ "expired" \notin SlotStates
      /\ "unknown" \notin SlotStates /\ "queued" \notin SlotStates
      /\ \A t \in TerminalStates : t \notin SlotStates /\ t # "queued"
  BY DEF JobState, SlotStates, OwnedStates, TerminalStates
<1>10. freed = {} => heir = {}
  OBVIOUS
<1>11. heir = {} /\ freed # {} => s.waiting = << >>
  OBVIOUS
<1>12. removed = expired \cup heir
  OBVIOUS
<1>13. freed \subseteq expired
  OBVIOUS
<1> HIDE DEF freed, heir, expired, purged, removed, r
<1>14. r \in SchedulerType
  <2>1. r.state \in [Jobs -> JobState] BY <1>2, <1>6, <1>9
  <2>2. r.left \in [Jobs -> Ticks] BY <1>2, <1>6, Durations
  <2>3. r.active \in Jobs \cup {NoJob} BY <1>2, <1>6, <1>8
  <2> QED BY <2>1, <2>2, <2>3, <1>6, <1>7 DEF SchedulerType
<1>15. HoldsSlot(r)
  <2> SUFFICES ASSUME NEW j \in Jobs
               PROVE  r.state[j] \in SlotStates <=> r.active = j
    BY DEF HoldsSlot
  <2>1. s.state[j] \in SlotStates <=> s.active = j BY <1>1 DEF HoldsSlot
  <2>2. CASE freed = {}
    <3>1. r.active = s.active /\ heir = {} BY <2>2, <1>6, <1>10
    <3>2. j \in expired => s.state[j] \notin SlotStates
      BY <2>2, <1>5, <1>9
    <3>3. j \in purged => s.state[j] \notin SlotStates BY <1>3, <1>9
    <3> QED BY <2>1, <3>1, <3>2, <3>3, <1>6, <1>9
  <2>3. CASE freed # {}
    <3>1. s.active \in freed BY <2>3, <1>3
    <3>2. j \in heir <=> r.active = j
      BY <2>3, <1>6, <1>8, SchedulerAssumption
    <3>3. j \in heir => j \notin purged /\ j \notin expired
      BY <1>3, <1>4, <1>5, <1>9
    <3>4. j \notin heir /\ j \notin expired => s.state[j] \notin SlotStates
      BY <2>1, <3>1, <1>13
    <3> QED BY <3>2, <3>3, <3>4, <1>6, <1>9
  <2> QED BY <2>2, <2>3
<1>16. LineIsQueue(r)
  <2>1. Distinct(r.waiting) BY <1>1, <1>6, <1>7 DEF LineIsQueue
  <2>2. ASSUME NEW j \in Jobs
        PROVE  j \in Members(r.waiting) <=> r.state[j] = "queued"
    <3>1. j \in Members(r.waiting) <=> s.state[j] = "queued" /\ j \notin removed
      BY <1>1, <1>6, <1>7 DEF LineIsQueue
    <3>2. j \in purged => s.state[j] # "queued" BY <1>3, <1>9
    <3> QED BY <3>1, <3>2, <1>6, <1>12
  <2> QED BY <2>1, <2>2 DEF LineIsQueue
<1>17. SlotIsUsed(r)
  <2>1. ASSUME r.active = NoJob PROVE s.waiting = << >>
    <3>1. CASE freed = {} BY <2>1, <3>1, <1>6 DEF Consistent, SlotIsUsed
    <3>2. CASE freed # {}
      <4>1. heir = {} BY <2>1, <3>2, <1>6, <1>8, SchedulerAssumption
      <4> QED BY <4>1, <3>2, <1>11
    <3> QED BY <3>1, <3>2
  <2>2. s.waiting = << >> => r.waiting = << >>
    BY <1>6, <1>7
  <2> QED BY <2>1, <2>2 DEF SlotIsUsed
<1>18. Len(r.waiting) <= MaxQueued
  BY <1>2, <1>6, <1>7, SchedulerAssumption DEF Consistent
<1> QED BY <1>14, <1>15, <1>16, <1>17, <1>18 DEF Consistent, Sane, r

-----------------------------------------------------------------------------
\* The job that has the slot may go on to another of the slot's states.
LEMMA OwnedIsConsistent ==
  ASSUME NEW s, Consistent(s), NEW j \in Jobs, NEW to \in OwnedStates,
         s.state[j] \in SlotStates
  PROVE  Consistent(Enter(s, j, to, 0))
<1>1. s \in SchedulerType /\ HoldsSlot(s) /\ LineIsQueue(s) BY DEF Consistent, Sane
<1>2. s.state \in [Jobs -> JobState] BY <1>1, Fields
<1>3. to \in JobState /\ to \in SlotStates /\ to # "queued" /\ s.state[j] # "queued"
  BY StatesDisjoint
<1>4. /\ Enter(s, j, to, 0) \in SchedulerType
      /\ Enter(s, j, to, 0).state = [s.state EXCEPT ![j] = to]
      /\ Enter(s, j, to, 0).waiting = s.waiting
      /\ Enter(s, j, to, 0).active = s.active
  <2>1. 0 \in Ticks BY Durations
  <2> QED BY <1>1, <1>3, <2>1 DEF Enter, SchedulerType
<1>5. HoldsSlot(Enter(s, j, to, 0)) BY <1>1, <1>2, <1>3, <1>4 DEF HoldsSlot
<1>6. LineIsQueue(Enter(s, j, to, 0))
  BY <1>1, <1>2, <1>3, <1>4 DEF LineIsQueue
<1> QED BY <1>4, <1>5, <1>6 DEF Consistent, Sane, SlotIsUsed

\* A new reservation joins the line.
LEMMA AdmittedIsSane ==
  ASSUME NEW s, Sane(s), NEW j \in Jobs, s.state[j] = "unknown"
  PROVE  LET a == [Enter(s, j, "queued", ReservationTTL)
                     EXCEPT !.waiting = Append(@, j)]
         IN  /\ Sane(a) /\ a.active = s.active
             /\ Len(a.waiting) = Len(s.waiting) + 1 /\ a.waiting # << >>
<1> DEFINE e == Enter(s, j, "queued", ReservationTTL)
           a == [e EXCEPT !.waiting = Append(@, j)]
<1>1. s \in SchedulerType /\ HoldsSlot(s) /\ LineIsQueue(s) BY DEF Sane
<1>2. /\ s.state \in [Jobs -> JobState] /\ s.left \in [Jobs -> Ticks]
      /\ s.waiting \in Seq(Jobs) /\ s.active \in Jobs \cup {NoJob}
  BY <1>1, Fields
<1>3. /\ e \in SchedulerType
      /\ e.state = [s.state EXCEPT ![j] = "queued"]
      /\ e.waiting = s.waiting /\ e.active = s.active
  <2>1. ReservationTTL \in Ticks /\ "queued" \in JobState
    BY Durations, StatesDisjoint
  <2> QED BY <1>1, <2>1 DEF Enter, SchedulerType
<1>4. e.left \in [Jobs -> Ticks] /\ e.state \in [Jobs -> JobState] BY <1>3, Fields
<1> HIDE DEF e
<1>5. a = [e EXCEPT !.waiting = Append(s.waiting, j)] BY <1>3
<1> HIDE DEF a
<1>6. a = [state |-> e.state, left |-> e.left,
           waiting |-> Append(s.waiting, j), active |-> s.active]
  BY <1>5, <1>3 DEF SchedulerType
<1>7. j \notin Members(s.waiting) BY <1>1 DEF LineIsQueue
<1>8. /\ Append(s.waiting, j) \in Seq(Jobs)
      /\ Members(Append(s.waiting, j)) = Members(s.waiting) \cup {j}
      /\ Distinct(s.waiting) /\ j \notin Members(s.waiting) =>
           Distinct(Append(s.waiting, j))
  BY <1>2, AppendMembers
<1>9. a \in SchedulerType BY <1>2, <1>4, <1>6, <1>8 DEF SchedulerType
<1>10. HoldsSlot(a)
  BY <1>1, <1>2, <1>3, <1>6, StatesDisjoint DEF HoldsSlot
<1>11. LineIsQueue(a)
  BY <1>1, <1>2, <1>3, <1>6, <1>7, <1>8 DEF LineIsQueue
<1>12. Len(a.waiting) = Len(s.waiting) + 1 /\ a.waiting # << >>
  BY <1>2, <1>6
<1> QED BY <1>6, <1>9, <1>10, <1>11, <1>12 DEF Sane, a, e

\* A reservation that is not refused joins the line, or gets the free slot.
LEMMA SubmittedIsConsistent ==
  ASSUME NEW s, Consistent(s), NEW j \in Jobs, NEW allowQueue \in BOOLEAN,
         s.state[j] = "unknown"
  PROVE  Consistent(Submitted(s, j, allowQueue))
<1>1. CASE Refuses(s, allowQueue)
  BY <1>1 DEF Submitted
<1>2. CASE ~Refuses(s, allowQueue)
  <2> DEFINE a == [Enter(s, j, "queued", ReservationTTL)
                     EXCEPT !.waiting = Append(@, j)]
  <2>1. /\ Sane(a) /\ a.active = s.active
        /\ Len(a.waiting) = Len(s.waiting) + 1 /\ a.waiting # << >>
    BY AdmittedIsSane DEF Consistent
  <2>2. Submitted(s, j, allowQueue) = Promote(a) BY <1>2 DEF Submitted
  <2> HIDE DEF a
  <2>3. /\ Sane(Promote(a)) /\ SlotIsUsed(Promote(a))
        /\ Len(Promote(a).waiting) <= Len(a.waiting)
        /\ a.active = NoJob /\ a.waiting # << >> =>
             Len(Promote(a).waiting) = Len(a.waiting) - 1
    BY <2>1, PromoteIsSane
  <2>4. Promote(a).waiting \in Seq(Jobs) /\ s.waiting \in Seq(Jobs)
    BY <2>3, Fields DEF Consistent, Sane
  <2>5. Len(Promote(a).waiting) <= MaxQueued
    <3>1. CASE s.active = NoJob
      BY <3>1, <2>1, <2>3, <2>4, SchedulerAssumption DEF Consistent
    <3>2. CASE s.active # NoJob
      <4>1. Len(s.waiting) < MaxQueued
        BY <3>2, <1>2, <2>4, SchedulerAssumption DEF Refuses
      <4> QED BY <4>1, <2>1, <2>3, <2>4, SchedulerAssumption
    <3> QED BY <3>1, <3>2
  <2> QED BY <2>2, <2>3, <2>5 DEF Consistent
<1> QED BY <1>1, <1>2

\* Deadlines change neither the slot nor the line.
LEMMA LeftIsConsistent ==
  ASSUME NEW s, Consistent(s), NEW l \in [Jobs -> Ticks]
  PROVE  Consistent([s EXCEPT !.left = l])
<1>1. s \in SchedulerType /\ HoldsSlot(s) /\ LineIsQueue(s) BY DEF Consistent, Sane
<1> DEFINE r == [s EXCEPT !.left = l]
<1>2. /\ r \in SchedulerType
      /\ r.state = s.state /\ r.waiting = s.waiting /\ r.active = s.active
  BY <1>1 DEF SchedulerType
<1> HIDE DEF r
<1>3. Consistent(r)
  BY <1>1, <1>2 DEF Consistent, Sane, HoldsSlot, LineIsQueue, SlotIsUsed
<1> QED BY <1>3 DEF r

LEMMA GotIsConsistent ==
  ASSUME NEW s, Consistent(s), NEW j \in Jobs, NEW renew \in BOOLEAN
  PROVE  Consistent(Got(s, j, renew))
<1>1. s \in SchedulerType BY DEF Consistent, Sane
<1>2. [s.left EXCEPT ![j] = ReservationTTL] \in [Jobs -> Ticks]
  BY <1>1, Fields, Durations
<1>3. Consistent([s EXCEPT !.left = [s.left EXCEPT ![j] = ReservationTTL]])
  BY <1>2, LeftIsConsistent
<1> QED BY <1>3 DEF Got

LEMMA ElapsedIsConsistent ==
  ASSUME NEW s, Consistent(s)
  PROVE  Consistent(Elapsed(s))
<1>1. s \in SchedulerType BY DEF Consistent, Sane
<1> DEFINE l == [j \in Jobs |-> IF s.left[j] = 0 THEN 0 ELSE s.left[j] - 1]
<1>2. s.left \in [Jobs -> Ticks] BY <1>1, Fields
<1>3. \A n \in Ticks : n # 0 => n - 1 \in Ticks
  BY SchedulerAssumption DEF Ticks
<1>4. l \in [Jobs -> Ticks] BY <1>2, <1>3, Durations
<1> HIDE DEF l
<1>5. Consistent([s EXCEPT !.left = l]) BY <1>4, LeftIsConsistent
<1> QED BY <1>5 DEF Elapsed, l

LEMMA CancelledIsConsistent ==
  ASSUME NEW s, Consistent(s), NEW j \in Jobs
  PROVE  Consistent(Cancelled(s, j))
<1>1. CASE s.state[j] \in OwnedStates
  <2>1. s.state[j] \in SlotStates /\ "cancelling" \in OwnedStates
    BY <1>1 DEF OwnedStates, SlotStates
  <2>2. Consistent(Enter(s, j, "cancelling", 0)) BY <2>1, OwnedIsConsistent
  <2> QED BY <1>1, <2>2 DEF Cancelled
<1>2. CASE s.state[j] \notin OwnedStates /\ s.state[j] \in {"queued", "ready_for_upload"}
  <2>1. "cancelled" \in TerminalStates /\ s.state[j] \in SlotStates \cup {"queued"}
    BY <1>2 DEF TerminalStates, SlotStates
  <2>2. Consistent(End(s, j, "cancelled")) BY <2>1, EndIsConsistent
  <2> QED BY <1>2, <2>2 DEF Cancelled
<1>3. CASE s.state[j] \notin OwnedStates /\ s.state[j] \notin {"queued", "ready_for_upload"}
  BY <1>3 DEF Cancelled
<1> QED BY <1>1, <1>2, <1>3

-----------------------------------------------------------------------------
\* Every method keeps the invariant.
LEMMA NextIsConsistent ==
  ASSUME Consistent(sched), [SchedulerNext]_sched
  PROVE  Consistent(sched')
<1> DEFINE r == Reap(sched)
<1>1. Consistent(r) BY ReapIsConsistent
<1>2. ASSUME NEW j \in Jobs, NEW allowQueue \in BOOLEAN, Submit(j, allowQueue)
      PROVE  Consistent(sched')
  <2>1. r.state[j] = "unknown"
    BY <1>2 DEF Submit, Reap, Lapsed, TerminalStates, Consistent, Sane,
                LineIsQueue, Members, SchedulerType
  <2> HIDE DEF r
  <2>2. Consistent(Submitted(r, j, allowQueue)) BY <1>1, <2>1, SubmittedIsConsistent
  <2> QED BY <1>2, <2>2 DEF Submit, r
<1>3. ASSUME NEW j \in Jobs, NEW renew \in BOOLEAN, Get(j, renew)
      PROVE  Consistent(sched')
  <2> HIDE DEF r
  <2>1. Consistent(Got(r, j, renew)) BY <1>1, GotIsConsistent
  <2> QED BY <1>3, <2>1 DEF Get, r
<1>4. ASSUME NEW j \in Jobs, BeginUpload(j)
      PROVE  Consistent(sched')
  <2>1. sched' = UploadBegun(r, j) BY <1>4 DEF BeginUpload
  <2> HIDE DEF r
  <2>2. CASE r.state[j] = "ready_for_upload"
    <3>1. r.state[j] \in SlotStates /\ "uploading" \in OwnedStates
      BY <2>2 DEF SlotStates, OwnedStates
    <3>2. Consistent(Enter(r, j, "uploading", 0)) BY <1>1, <3>1, OwnedIsConsistent
    <3> QED BY <2>1, <2>2, <3>2 DEF UploadBegun
  <2>3. CASE r.state[j] # "ready_for_upload"
    BY <1>1, <2>1, <2>3 DEF UploadBegun
  <2> QED BY <2>2, <2>3
<1>5. ASSUME NEW j \in Jobs, BeginProcessing(j)
      PROVE  Consistent(sched')
  <2>1. sched.state[j] \in SlotStates /\ "running" \in OwnedStates
    BY <1>5 DEF BeginProcessing, SlotStates, OwnedStates
  <2>2. Consistent(Enter(sched, j, "running", 0)) BY <2>1, OwnedIsConsistent
  <2> QED BY <1>5, <2>2 DEF BeginProcessing
<1>6. ASSUME NEW j \in Jobs, NEW to \in TerminalStates, Finish(j, to)
      PROVE  Consistent(sched')
  <2>1. sched.state[j] \in SlotStates BY <1>6 DEF Finish, SlotStates, OwnedStates
  <2>2. Consistent(End(sched, j, to)) BY <2>1, EndIsConsistent
  <2> QED BY <1>6, <2>2 DEF Finish
<1>7. ASSUME NEW j \in Jobs, FinishCancel(j)
      PROVE  Consistent(sched')
  <2>1. sched' = CancelFinished(sched, j) BY <1>7 DEF FinishCancel
  <2>2. CASE sched.state[j] = "cancelling"
    <3>1. sched.state[j] \in SlotStates /\ "cancelled" \in TerminalStates
      BY <2>2 DEF SlotStates, OwnedStates, TerminalStates
    <3>2. Consistent(End(sched, j, "cancelled")) BY <3>1, EndIsConsistent
    <3> QED BY <2>1, <2>2, <3>2 DEF CancelFinished
  <2>3. CASE sched.state[j] # "cancelling"
    BY <2>1, <2>3 DEF CancelFinished
  <2> QED BY <2>2, <2>3
<1>8. ASSUME NEW j \in Jobs, Cancel(j)
      PROVE  Consistent(sched')
  <2> HIDE DEF r
  <2>1. Consistent(Cancelled(r, j)) BY <1>1, CancelledIsConsistent
  <2> QED BY <1>8, <2>1 DEF Cancel, r
<1>9. CASE ReapExpired
  BY <1>1, <1>9 DEF ReapExpired
<1>10. CASE Tick
  BY <1>10, ElapsedIsConsistent DEF Tick
<1>11. CASE UNCHANGED sched
  BY <1>11
<1>12. ASSUME NEW j \in Jobs, Owner(j)
       PROVE  Consistent(sched')
  <2>1. "completed" \in TerminalStates /\ "failed" \in TerminalStates
    BY DEF TerminalStates
  <2> QED BY <2>1, <1>5, <1>6, <1>7, <1>12 DEF Owner, Complete, Fail
<1> QED BY <1>2, <1>3, <1>4, <1>8, <1>9, <1>10, <1>11, <1>12 DEF SchedulerNext

\* The scheduler is consistent in every state that it can reach.
THEOREM SchedulerInvariance == SchedulerSpec => []SchedulerInvariant
<1>1. SchedulerInit => SchedulerInvariant
  BY NewIsConsistent DEF SchedulerInit, SchedulerInvariant
<1>2. SchedulerInvariant /\ [SchedulerNext]_sched => SchedulerInvariant'
  BY NextIsConsistent DEF SchedulerInvariant
<1> QED BY <1>1, <1>2, PTL DEF SchedulerSpec

\* Type correctness.
THEOREM SchedulerTypeCorrect == SchedulerSpec => []TypeOK
<1>1. SchedulerInvariant => TypeOK
  BY DEF SchedulerInvariant, Consistent, Sane, TypeOK
<1> QED BY <1>1, SchedulerInvariance, PTL

\* One execution slot, however many jobs there are: no two jobs are ready,
\* uploading, running or cancelling at once, and the active job is one.
THEOREM SchedulerOneSlot == SchedulerSpec => []OneSlot
<1>1. SchedulerInvariant => OneSlot
  BY DEF SchedulerInvariant, Consistent, Sane, OneSlot
<1> QED BY <1>1, SchedulerInvariance, PTL

\* The line holds the queued jobs, each once.
THEOREM SchedulerLineHoldsQueued == SchedulerSpec => []LineHoldsQueued
<1>1. SchedulerInvariant => LineHoldsQueued
  BY DEF SchedulerInvariant, Consistent, Sane, LineHoldsQueued
<1> QED BY <1>1, SchedulerInvariance, PTL

\* The slot is never idle while a reservation waits.
THEOREM SchedulerNoIdleSlot == SchedulerSpec => []NoIdleSlot
<1>1. SchedulerInvariant => NoIdleSlot
  BY DEF SchedulerInvariant, Consistent, NoIdleSlot
<1> QED BY <1>1, SchedulerInvariance, PTL

\* No more than max_queued reservations wait.
THEOREM SchedulerLineBounded == SchedulerSpec => []LineBounded
<1>1. SchedulerInvariant => LineBounded
  BY DEF SchedulerInvariant, Consistent, LineBounded
<1> QED BY <1>1, SchedulerInvariance, PTL

\* The slot and the line are in order, with any number of jobs.
THEOREM SchedulerSlotAndLine == SchedulerSpec => []SlotAndLine
<1> QED
  BY SchedulerOneSlot, SchedulerLineHoldsQueued, SchedulerLineBounded, SchedulerNoIdleSlot, PTL
  DEF SlotAndLine

-----------------------------------------------------------------------------
(* The slot and the line.                                                  *)

\* FifoSlot's Turn, from one scheduler state to another.
TurnsTo(s, t, leavers, joiners) ==
  LET rest == Without(s.waiting, leavers) \o joiners
  IN  IF s.active \notin leavers \cup {NoJob}
        THEN t.active = s.active /\ t.waiting = rest
      ELSE IF rest = << >>
        THEN t.active = NoJob /\ t.waiting = << >>
        ELSE t.active = Head(rest) /\ t.waiting = Tail(rest)

\* Who has the slot or waits.
PresentIn(s) == Members(s.waiting) \cup ({s.active} \ {NoJob})

\* A first turn in which some leave, and a second one in which others leave
\* and one may join, are one turn.
LEMMA TurnsCompose ==
  ASSUME NEW s, NEW r, NEW t, NEW A, NEW B, NEW J \in Seq(Jobs),
         s.waiting \in Seq(Jobs), r.waiting \in Seq(Jobs),
         TurnsTo(s, r, A, << >>), TurnsTo(r, t, B, J)
  PROVE  TurnsTo(s, t, A \cup B, J)
<1> DEFINE q    == s.waiting
           left == Without(q, A)
           both == Without(q, A \cup B)
<1>1. left \in Seq(Jobs) /\ both \in Seq(Jobs) /\ both = Without(left, B)
  BY WithoutMembers, WithoutTwice
<1>2. left \o << >> = left BY <1>1, ConcatEmptySeq
<1>3. Without(r.waiting, B) \in Seq(Jobs) BY WithoutMembers
<1> HIDE DEF left, both
<1>4. CASE s.active \notin A \cup {NoJob}
  <2>1. r.active = s.active /\ r.waiting = left
    BY <1>2, <1>4 DEF TurnsTo, left
  <2>2. Without(r.waiting, B) = both BY <2>1, <1>1
  <2> QED BY <2>1, <2>2, <1>4 DEF TurnsTo, both
<1>5. CASE s.active \in A \cup {NoJob} /\ left = << >>
  <2>1. r.active = NoJob /\ r.waiting = << >>
    BY <1>2, <1>5 DEF TurnsTo, left
  <2>2. Without(r.waiting, B) = both BY <2>1, <1>1, <1>5
  <2> QED BY <2>1, <2>2, <1>5 DEF TurnsTo, both
<1>6. CASE s.active \in A \cup {NoJob} /\ left # << >>
  <2>1. r.active = Head(left) /\ r.waiting = Tail(left)
    BY <1>2, <1>6 DEF TurnsTo, left
  <2>2. r.active # NoJob
    BY <2>1, <1>1, <1>6, HeadTailProperties, SchedulerAssumption
  <2>3. CASE r.active \in B
    <3>1. both = Without(r.waiting, B) BY <2>1, <2>3, <1>1, <1>6, WithoutHead
    <3> QED BY <3>1, <2>3, <1>6 DEF TurnsTo, both
  <2>4. CASE r.active \notin B
    <3> DEFINE rest == Without(r.waiting, B)
               x    == r.active
    <3>1. both = <<x>> \o rest BY <2>1, <2>4, <1>1, <1>6, WithoutHead
    <3>2. t.active = x /\ t.waiting = rest \o J
      BY <2>2, <2>4 DEF TurnsTo
    <3>3. x \in Jobs BY <2>1, <1>1, <1>6, HeadTailProperties
    <3>4. rest \in Seq(Jobs) BY <1>3
    <3> HIDE DEF rest, x
    <3>5. both \o J = <<x>> \o (rest \o J)
      <4> DEFINE y == <<x>>
      <4>1. y \in Seq(Jobs) BY <3>3
      <4> HIDE DEF y
      <4>2. (y \o rest) \o J = y \o (rest \o J)
        BY <4>1, <3>4, ConcatAssociative
      <4> QED BY <4>2, <3>1 DEF y
    <3>6. rest \o J \in Seq(Jobs) BY <3>4
    <3>7. /\ both \o J # << >>
          /\ Head(both \o J) = x /\ Tail(both \o J) = rest \o J
      BY <3>3, <3>5, <3>6
    <3> QED BY <3>2, <3>7, <1>6 DEF TurnsTo, both
  <2> QED BY <2>3, <2>4
<1> QED BY <1>4, <1>5, <1>6

\* A method that touches neither the slot nor the line.
LEMMA StayIsTurn ==
  ASSUME NEW s, Consistent(s), NEW t, t.active = s.active, t.waiting = s.waiting
  PROVE  TurnsTo(s, t, {}, << >>)
<1>1. s.waiting \in Seq(Jobs) BY Fields DEF Consistent, Sane
<1>2. Without(s.waiting, {}) = s.waiting BY <1>1, WithoutNobody
<1>3. s.waiting \o << >> = s.waiting BY <1>1, ConcatEmptySeq
<1>4. s.active = NoJob => s.waiting = << >> BY DEF Consistent, SlotIsUsed
<1> QED BY <1>2, <1>3, <1>4 DEF TurnsTo

\* Those whose deadline has passed when the scheduler reaps, but for the one
\* who is given the slot of another.
Expiring(s) ==
  LET freed == Lapsed(s, {"ready_for_upload"})
      heir  == IF freed # {} /\ s.waiting # << >> THEN {Head(s.waiting)} ELSE {}
  IN  freed \cup (Lapsed(s, {"queued"}) \ heir)

\* Reaping is a turn in which they leave.
LEMMA ReapIsTurn ==
  ASSUME NEW s, Consistent(s)
  PROVE  TurnsTo(s, Reap(s), Expiring(s), << >>) /\ Expiring(s) \subseteq PresentIn(s)
<1> DEFINE q       == s.waiting
           freed   == Lapsed(s, {"ready_for_upload"})
           heir    == IF freed # {} /\ q # << >> THEN {Head(q)} ELSE {}
           expired == freed \cup (Lapsed(s, {"queued"}) \ heir)
           r       == Reap(s)
<1>1. s \in SchedulerType /\ HoldsSlot(s) /\ LineIsQueue(s) /\ SlotIsUsed(s)
  BY DEF Consistent, Sane
<1>2. q \in Seq(Jobs) /\ s.active \in Jobs \cup {NoJob} BY <1>1, Fields
<1>3. /\ r.waiting = Without(q, expired \cup heir)
      /\ r.active = IF freed = {} THEN s.active
                    ELSE IF heir = {} THEN NoJob ELSE Head(q)
      /\ Expiring(s) = expired
  BY DEF Reap, Expiring
<1>4. /\ \A j \in freed : j \in Jobs /\ s.active = j /\ s.state[j] # "queued"
      /\ \A j \in Lapsed(s, {"queued"}) : j \in Jobs /\ s.state[j] = "queued"
  BY <1>1 DEF Lapsed, HoldsSlot, SlotStates
<1>5. Without(q, expired) \in Seq(Jobs) BY <1>2, WithoutMembers
<1>6. Without(q, expired) \o << >> = Without(q, expired)
  BY <1>5, ConcatEmptySeq
<1>7. expired \subseteq PresentIn(s)
  BY <1>1, <1>4, SchedulerAssumption DEF PresentIn, LineIsQueue
<1>8. TurnsTo(s, r, expired, << >>)
  <2>1. CASE freed = {}
    <3>1. heir = {} /\ r.waiting = Without(q, expired) /\ r.active = s.active
      BY <2>1, <1>3
    <3>2. s.active \notin expired
      BY <2>1, <1>1, <1>4, StatesDisjoint DEF HoldsSlot
    <3>3. s.active = NoJob => q = << >> BY <1>1 DEF SlotIsUsed
    <3>4. q = << >> => Without(q, expired) = << >>
      <4>1. q = << >> => \A x \in Members(q) : FALSE BY DEF Members
      <4> QED BY <4>1, <1>2, WithoutNobody
    <3> HIDE DEF expired, heir, freed, r
    <3> QED BY <3>1, <3>2, <3>3, <3>4, <1>6 DEF TurnsTo
  <2>2. CASE freed # {} /\ q = << >>
    <3>1. heir = {} /\ r.active = NoJob BY <2>2, <1>3
    <3>2. s.active \in expired BY <2>2, <1>4
    <3>3. \A x \in Members(q) : FALSE BY <2>2 DEF Members
    <3>4. Without(q, expired) = << >> /\ r.waiting = << >>
      BY <3>3, <2>2, <1>2, <1>3, WithoutNobody
    <3> HIDE DEF expired, heir, freed, r
    <3> QED BY <3>1, <3>2, <3>4, <1>6 DEF TurnsTo
  <2>3. CASE freed # {} /\ q # << >>
    <3> DEFINE x == Head(q)
               t == Tail(q)
    <3>1. heir = {x} /\ r.active = x BY <2>3, <1>3
    <3>2. s.active \in expired BY <2>3, <1>4
    <3>3. /\ x \in Jobs /\ t \in Seq(Jobs) /\ x \in Members(q)
          /\ x \notin Members(t)
      <4>1. x \in Jobs /\ t \in Seq(Jobs) BY <2>3, <1>2, HeadTailProperties
      <4>2. Len(q) \in Nat /\ Len(q) > 0 /\ x = q[1] BY <2>3, <1>2
      <4>3. Len(t) = Len(q) - 1 /\ \A i \in 1 .. Len(t) : t[i] = q[i + 1]
        BY <2>3, <1>2
      <4>4. x \in Members(q) BY <4>2 DEF Members
      <4>5. ASSUME NEW i \in 1 .. Len(t) PROVE t[i] # x
        <5>1. 1 \in 1 .. Len(q) /\ i + 1 \in 1 .. Len(q) /\ i + 1 # 1
          BY <4>2, <4>3
        <5> QED BY <5>1, <4>2, <4>3, <1>1 DEF LineIsQueue, Distinct
      <4> QED BY <4>1, <4>4, <4>5 DEF Members
    <3>4. x \notin expired
      BY <3>1, <3>3, <1>1, <1>4 DEF LineIsQueue
    <3>5. Without(q, expired) = <<x>> \o Without(t, expired)
      BY <2>3, <3>4, <1>2, WithoutHead
    <3>6. r.waiting = Without(t, expired)
      <4>1. r.waiting = Without(t, expired \cup heir)
        <5>1. x \in expired \cup heir BY <3>1
        <5> QED BY <5>1, <2>3, <1>2, <1>3, WithoutHead
      <4>2. \A y \in Members(t) : y \in expired \cup heir <=> y \in expired
        BY <3>1, <3>3
      <4> QED BY <4>1, <4>2, <3>3, WithoutSame
    <3>7. Without(t, expired) \in Seq(Jobs) BY <3>3, WithoutMembers
    <3> HIDE DEF expired, heir, freed, r, x, t
    <3>8. /\ Without(q, expired) # << >>
          /\ Head(Without(q, expired)) = x
          /\ Tail(Without(q, expired)) = Without(t, expired)
      BY <3>3, <3>5, <3>7
    <3> QED BY <3>1, <3>2, <3>6, <3>8, <1>6 DEF TurnsTo
  <2> QED BY <2>1, <2>2, <2>3
<1> QED BY <1>3, <1>7, <1>8

\* Nobody comes with the reaping.
LEMMA ReapKeepsPresent ==
  ASSUME NEW s, Consistent(s)
  PROVE  PresentIn(Reap(s)) \subseteq PresentIn(s)
<1>1. s.waiting \in Seq(Jobs) /\ s.active \in Jobs \cup {NoJob}
  BY Fields DEF Consistent, Sane
<1>2. \E S : Reap(s).waiting = Without(s.waiting, S)
  BY DEF Reap
<1>3. Members(Reap(s).waiting) \subseteq Members(s.waiting)
  BY <1>1, <1>2, WithoutMembers
<1>4. \/ Reap(s).active \in {s.active, NoJob}
      \/ s.waiting # << >> /\ Reap(s).active = Head(s.waiting)
  BY DEF Reap
<1>5. s.waiting # << >> => Head(s.waiting) \in Members(s.waiting)
  BY <1>1 DEF Members
<1> QED BY <1>3, <1>4, <1>5 DEF PresentIn

\* A job that ends leaves, and whoever is first then gets the free slot.
LEMMA EndIsTurn ==
  ASSUME NEW s, Consistent(s), NEW j \in Jobs, NEW to \in TerminalStates,
         s.state[j] \in SlotStates \cup {"queued"}
  PROVE  TurnsTo(s, End(s, j, to), {j}, << >>) /\ j \in PresentIn(s)
<1> DEFINE q == s.waiting
           e == Enter(s, j, to, TerminalTTL)
           r == IF e.active = j THEN [e EXCEPT !.active = NoJob]
                                ELSE [e EXCEPT !.waiting = Without(@, {j})]
           p == Promote(r)
<1>1. /\ s \in SchedulerType /\ HoldsSlot(s) /\ LineIsQueue(s)
      /\ SlotIsUsed(s)
  BY DEF Consistent, Sane
<1>2. /\ s.state \in [Jobs -> JobState] /\ q \in Seq(Jobs)
      /\ s.active \in Jobs \cup {NoJob}
  BY <1>1, Fields
<1>3. /\ e \in SchedulerType /\ e.state = [s.state EXCEPT ![j] = to]
      /\ e.waiting = q /\ e.active = s.active
  <2>1. to \in JobState /\ TerminalTTL \in Ticks BY StatesDisjoint, Durations
  <2> QED BY <1>1, <2>1 DEF Enter, SchedulerType
<1>4. End(s, j, to) = p BY DEF End, Release
<1>5. Sane(r) BY ReleasedIsSane DEF Consistent
<1>6. /\ r.active # NoJob \/ r.waiting = << >> =>
           p.active = r.active /\ p.waiting = r.waiting
      /\ r.active = NoJob /\ r.waiting # << >> =>
           /\ p.active = Head(r.waiting)
           /\ p.waiting = SubSeq(r.waiting, 2, Len(r.waiting))
  BY <1>5, PromoteCalls
<1>7. r.waiting \in Seq(Jobs) BY <1>5, Fields DEF Sane
<1>8. r.waiting # << >> => SubSeq(r.waiting, 2, Len(r.waiting)) = Tail(r.waiting)
  BY <1>7, TailIsSubSeq
<1>9. /\ Without(q, {j}) \in Seq(Jobs)
      /\ Without(q, {j}) \o << >> = Without(q, {j})
  BY <1>2, WithoutMembers, ConcatEmptySeq
<1>10. r.waiting = Without(q, {j})
  <2>1. CASE s.active = j
    <3>1. r.waiting = q BY <2>1, <1>3 DEF SchedulerType
    <3>2. s.state[j] # "queued" BY <2>1, <1>1, StatesDisjoint DEF HoldsSlot
    <3>3. j \notin Members(q) BY <3>2, <1>1 DEF LineIsQueue
    <3> QED BY <3>1, <3>3, <1>2, WithoutNobody
  <2>2. CASE s.active # j
    BY <2>2, <1>3 DEF SchedulerType
  <2> QED BY <2>1, <2>2
<1>11. r.active = IF s.active = j THEN NoJob ELSE s.active
  BY <1>3 DEF SchedulerType
<1>12. j \in PresentIn(s)
  BY <1>1, SchedulerAssumption DEF PresentIn, LineIsQueue, HoldsSlot
<1>13. s.active = NoJob => Without(q, {j}) = << >>
  <2>1. s.active = NoJob => \A x \in Members(q) : FALSE
    BY <1>1 DEF SlotIsUsed, Members
  <2>2. s.active = NoJob => Without(q, {j}) = q BY <2>1, <1>2, WithoutNobody
  <2> QED BY <2>2, <1>1 DEF SlotIsUsed
<1> HIDE DEF p, r, e
<1>14. TurnsTo(s, p, {j}, << >>)
  <2>1. CASE s.active \notin {j, NoJob}
    BY <2>1, <1>6, <1>9, <1>10, <1>11 DEF TurnsTo
  <2>2. CASE s.active \in {j, NoJob}
    BY <2>2, <1>6, <1>8, <1>9, <1>10, <1>11, <1>13 DEF TurnsTo
  <2> QED BY <2>1, <2>2
<1> QED BY <1>4, <1>12, <1>14

\* Who is admitted joins the end of the line, or takes a free slot.
LEMMA SubmittedIsTurn ==
  ASSUME NEW s, Consistent(s), NEW j \in Jobs, NEW allowQueue \in BOOLEAN,
         s.state[j] = "unknown", ~Refuses(s, allowQueue)
  PROVE  TurnsTo(s, Submitted(s, j, allowQueue), {}, <<j>>)
<1> DEFINE q == s.waiting
           a == [Enter(s, j, "queued", ReservationTTL) EXCEPT !.waiting = Append(@, j)]
           p == Promote(a)
<1>1. s \in SchedulerType /\ SlotIsUsed(s) BY DEF Consistent, Sane
<1>2. q \in Seq(Jobs) /\ s.active \in Jobs \cup {NoJob} BY <1>1, Fields
<1>3. Submitted(s, j, allowQueue) = p BY DEF Submitted
<1>4. Sane(a) BY AdmittedIsSane DEF Consistent
<1>5. a.waiting = Append(q, j) /\ a.active = s.active
  BY <1>1 DEF Enter, SchedulerType
<1>6. Without(q, {}) \o <<j>> = Append(q, j)
  BY <1>2, WithoutNobody, AppendIsConcat
<1>7. /\ a.active # NoJob => p = a
      /\ a.active = NoJob /\ a.waiting # << >> =>
           /\ p.active = Head(a.waiting)
           /\ p.waiting = SubSeq(a.waiting, 2, Len(a.waiting))
  BY <1>4, PromoteCalls
<1>8. Append(q, j) \in Seq(Jobs) /\ Append(q, j) # << >>
  BY <1>2, AppendProperties
<1>9. SubSeq(Append(q, j), 2, Len(Append(q, j))) = Tail(Append(q, j))
  BY <1>8, TailIsSubSeq
<1> HIDE DEF a, p
<1>10. TurnsTo(s, p, {}, <<j>>)
  BY <1>5, <1>6, <1>7, <1>8, <1>9 DEF TurnsTo
<1> QED BY <1>3, <1>10

\* Every method is one turn: those whose deadline has passed leave, the job
\* that ends or is cancelled leaves, the one that is admitted joins.
LEMMA NextIsTurn ==
  ASSUME Consistent(sched), SchedulerNext
  PROVE  \E leavers \in SUBSET PresentIn(sched) :
           \E joiners \in {<< >>} \cup {<<c>> : c \in Jobs \ PresentIn(sched)} :
             TurnsTo(sched, sched', leavers, joiners)
<1> DEFINE r == Reap(sched)
           E == Expiring(sched)
           P == PresentIn(sched)
           Later == \E B \in SUBSET PresentIn(r) : TurnsTo(r, sched', B, << >>)
           Leave == \E B \in SUBSET P : TurnsTo(sched, sched', B, << >>)
           Turns == \E leavers \in SUBSET P :
                      \E joiners \in {<< >>} \cup {<<c>> : c \in Jobs \ P} :
                        TurnsTo(sched, sched', leavers, joiners)
<1>1. Consistent(r) BY ReapIsConsistent
<1>2. TurnsTo(sched, r, E, << >>) /\ E \subseteq P BY ReapIsTurn
<1>3. /\ sched.waiting \in Seq(Jobs) /\ r.waiting \in Seq(Jobs)
      /\ << >> \in Seq(Jobs)
  BY <1>1, Fields DEF Consistent, Sane
<1>4. PresentIn(r) \subseteq P
  BY ReapKeepsPresent
<1>5. ASSUME NEW t, NEW B \in SUBSET PresentIn(r), TurnsTo(r, t, B, << >>)
      PROVE  E \cup B \in SUBSET P /\ TurnsTo(sched, t, E \cup B, << >>)
  <2> HIDE DEF r, E, P
  <2> QED BY <1>2, <1>3, <1>4, <1>5, TurnsCompose
<1>6. ASSUME NEW j \in Jobs, NEW allowQueue \in BOOLEAN, Submit(j, allowQueue)
      PROVE  Turns
  <2>1. sched' = Submitted(r, j, allowQueue) BY <1>6 DEF Submit
  <2>2. sched.state[j] = "unknown" BY <1>6 DEF Submit
  <2>3. r.state[j] = "unknown"
    BY <2>2 DEF Reap, Lapsed, TerminalStates, Consistent, Sane,
                LineIsQueue, Members, SchedulerType
  <2>4. j \notin P
    BY <2>2, StatesDisjoint DEF PresentIn, Consistent, Sane, LineIsQueue, HoldsSlot
  <2> HIDE DEF r, E, P
  <2>5. CASE Refuses(r, allowQueue)
    <3>1. sched' = r BY <2>1, <2>5 DEF Submitted
    <3> QED BY <3>1, <1>2
  <2>6. CASE ~Refuses(r, allowQueue)
    <3>1. TurnsTo(r, sched', {}, <<j>>)
      BY <2>1, <2>3, <2>6, <1>1, SubmittedIsTurn
    <3>2. <<j>> \in Seq(Jobs)
      OBVIOUS
    <3>3. TurnsTo(sched, sched', E \cup {}, <<j>>)
      BY <3>1, <3>2, <1>2, <1>3, TurnsCompose
    <3> QED BY <3>3, <2>4, <1>2
  <2> QED BY <2>5, <2>6
<1>7. ASSUME NEW j \in Jobs, NEW renew \in BOOLEAN, Get(j, renew)
      PROVE  Later
  <2>1. sched' = Got(r, j, renew) BY <1>7 DEF Get
  <2>2. r \in SchedulerType BY <1>1 DEF Consistent, Sane
  <2> HIDE DEF r
  <2>3. sched'.active = r.active /\ sched'.waiting = r.waiting
    BY <2>1, <2>2 DEF Got, SchedulerType
  <2> QED BY <2>3, <1>1, StayIsTurn
<1>8. ASSUME NEW j \in Jobs, BeginUpload(j)
      PROVE  Later
  <2>1. sched' = UploadBegun(r, j) BY <1>8 DEF BeginUpload
  <2>2. r \in SchedulerType BY <1>1 DEF Consistent, Sane
  <2> HIDE DEF r
  <2>3. sched'.active = r.active /\ sched'.waiting = r.waiting
    BY <2>1, <2>2 DEF UploadBegun, Enter, SchedulerType
  <2> QED BY <2>3, <1>1, StayIsTurn
<1>9. ASSUME NEW j \in Jobs, Cancel(j)
      PROVE  Later
  <2>1. sched' = Cancelled(r, j) BY <1>9 DEF Cancel
  <2>2. r \in SchedulerType BY <1>1 DEF Consistent, Sane
  <2> HIDE DEF r
  <2>3. CASE r.state[j] \in {"queued", "ready_for_upload"}
    <3>1. sched' = End(r, j, "cancelled")
      BY <2>1, <2>3 DEF Cancelled, OwnedStates
    <3>2. "cancelled" \in TerminalStates /\ r.state[j] \in SlotStates \cup {"queued"}
      BY <2>3 DEF TerminalStates, SlotStates
    <3> QED BY <3>1, <3>2, <1>1, EndIsTurn
  <2>4. CASE r.state[j] \notin {"queued", "ready_for_upload"}
    <3>1. sched'.active = r.active /\ sched'.waiting = r.waiting
      BY <2>1, <2>2, <2>4 DEF Cancelled, Enter, SchedulerType
    <3> QED BY <3>1, <1>1, StayIsTurn
  <2> QED BY <2>3, <2>4
<1>10. ASSUME ReapExpired
       PROVE  Leave
  BY <1>2, <1>10 DEF ReapExpired
<1>11. ASSUME \/ Tick \/ \E j \in Jobs : Owner(j)
       PROVE  Leave
  <2> HIDE DEF P
  <2>1. sched \in SchedulerType BY DEF Consistent, Sane
  <2>2. CASE Tick
    <3>1. sched'.active = sched.active /\ sched'.waiting = sched.waiting
      BY <2>1, <2>2 DEF Tick, Elapsed, SchedulerType
    <3> QED BY <3>1, StayIsTurn
  <2>3. ASSUME NEW j \in Jobs, BeginProcessing(j)
        PROVE  Leave
    <3>1. sched'.active = sched.active /\ sched'.waiting = sched.waiting
      BY <2>1, <2>3 DEF BeginProcessing, Enter, SchedulerType
    <3> QED BY <3>1, StayIsTurn
  <2>4. ASSUME NEW j \in Jobs, NEW to \in TerminalStates,
               sched.state[j] \in SlotStates, sched' = End(sched, j, to)
        PROVE  Leave
    <3>1. TurnsTo(sched, sched', {j}, << >>) /\ j \in P
      BY <2>4, EndIsTurn DEF P
    <3> QED BY <3>1
  <2>5. ASSUME NEW j \in Jobs, NEW to \in TerminalStates, Finish(j, to)
        PROVE  Leave
    BY <2>4, <2>5 DEF Finish, SlotStates, OwnedStates
  <2>6. ASSUME NEW j \in Jobs, FinishCancel(j)
        PROVE  Leave
    <3>1. CASE sched.state[j] = "cancelling"
      <4>1. sched' = End(sched, j, "cancelled")
        BY <3>1, <2>6 DEF FinishCancel, CancelFinished
      <4>2. "cancelled" \in TerminalStates /\ sched.state[j] \in SlotStates
        BY <3>1 DEF TerminalStates, SlotStates, OwnedStates
      <4> QED BY <4>1, <4>2, <2>4
    <3>2. CASE sched.state[j] # "cancelling"
      <4>1. sched' = sched BY <3>2, <2>6 DEF FinishCancel, CancelFinished
      <4> QED BY <4>1, StayIsTurn
    <3> QED BY <3>1, <3>2
  <2>7. "completed" \in TerminalStates /\ "failed" \in TerminalStates
    BY DEF TerminalStates
  <2> QED BY <1>11, <2>2, <2>3, <2>5, <2>6, <2>7 DEF Owner, Complete, Fail
<1>12. Later => Leave
  <2> HIDE DEF r, E, P
  <2> QED BY <1>5
<1>13. Leave => Turns
  <2> HIDE DEF P
  <2> QED OBVIOUS
<1>14. Turns
  <2> HIDE DEF Later, Leave, Turns
  <2> QED BY <1>6, <1>7, <1>8, <1>9, <1>10, <1>11, <1>12, <1>13 DEF SchedulerNext
<1> QED BY <1>14

\* A turn of the scheduler is a step of FifoSlot.
LEMMA TurnIsSlotStep ==
  ASSUME NEW leavers \in SUBSET PresentIn(sched),
         NEW joiners \in {<< >>} \cup {<<c>> : c \in Jobs \ PresentIn(sched)},
         TurnsTo(sched, sched', leavers, joiners)
  PROVE  Slot!SlotNext
<1>1. PresentIn(sched) = Slot!Present
  BY DEF PresentIn, Slot!Present, Slot!Members, Members
<1>2. Slot!Without(sched.waiting, leavers) = Without(sched.waiting, leavers)
  BY DEF Slot!Without, Without
<1>3. Slot!Turn(leavers, joiners)
  BY <1>2 DEF TurnsTo, Slot!Turn
<1> QED BY <1>1, <1>3 DEF Slot!SlotNext

\* The scheduler implements the FIFO slot: with any number of jobs nobody is
\* overtaken, whichever deadlines a call finds passed.
THEOREM SchedulerImplementsFifoSlot == SchedulerSpec => ImplementsFifoSlot
<1>1. SchedulerInit => Slot!SlotInit
  BY DEF SchedulerInit, NewScheduler, Slot!SlotInit
<1>2. SchedulerInvariant /\ [SchedulerNext]_sched => [Slot!SlotNext]_(Slot!slotVars)
  <2> SUFFICES ASSUME Consistent(sched), [SchedulerNext]_sched
               PROVE  [Slot!SlotNext]_(Slot!slotVars)
    BY DEF SchedulerInvariant
  <2>1. CASE SchedulerNext
    BY <2>1, NextIsTurn, TurnIsSlotStep
  <2>2. CASE UNCHANGED sched
    BY <2>2 DEF Slot!slotVars
  <2> QED BY <2>1, <2>2
<1> QED BY <1>1, <1>2, SchedulerInvariance, PTL
        DEF SchedulerSpec, ImplementsFifoSlot, Slot!SlotSpec

-----------------------------------------------------------------------------
(* The states of the jobs.                                                 *)

\* What a method does to the state of a job, once it has reaped.
Moves(a, b) ==
  \/ a = b
  \/ a = "queued" /\ b \in {"ready_for_upload", "cancelled"}
  \/ a = "ready_for_upload" /\ b \in {"uploading", "cancelled"}
  \/ a = "uploading" /\ b \in {"running", "cancelling"}
  \/ a = "running" /\ b \in {"completed", "failed", "cancelling"}
  \/ a = "cancelling" /\ b = "cancelled"

\* Promotion changes the state of a waiting job only.
LEMMA PromoteMoves ==
  ASSUME NEW s, Sane(s), NEW k \in Jobs
  PROVE  \/ Promote(s).state[k] = s.state[k]
         \/ s.state[k] = "queued" /\ Promote(s).state[k] = "ready_for_upload"
<1>1. s.state \in [Jobs -> JobState] BY Fields DEF Sane
<1>2. CASE s.active # NoJob \/ s.waiting = << >>
  BY <1>2, PromoteCalls
<1>3. CASE s.active = NoJob /\ s.waiting # << >>
  BY <1>1, <1>3, PromoteCalls
<1> QED BY <1>2, <1>3

\* The job that ends has its verdict, and another one moves only to the slot.
LEMMA EndMoves ==
  ASSUME NEW s, Consistent(s), NEW j \in Jobs, NEW to \in TerminalStates,
         s.state[j] \in SlotStates \cup {"queued"}
  PROVE  /\ End(s, j, to).state[j] = to
         /\ \A k \in Jobs \ {j} : Moves(s.state[k], End(s, j, to).state[k])
<1> DEFINE e == Enter(s, j, to, TerminalTTL)
           r == IF e.active = j THEN [e EXCEPT !.active = NoJob]
                                ELSE [e EXCEPT !.waiting = Without(@, {j})]
<1>1. s \in SchedulerType /\ Sane(s) BY DEF Consistent, Sane
<1>2. s.state \in [Jobs -> JobState] BY <1>1, Fields
<1>3. e \in SchedulerType /\ e.state = [s.state EXCEPT ![j] = to]
  <2>1. to \in JobState /\ TerminalTTL \in Ticks BY StatesDisjoint, Durations
  <2> QED BY <1>1, <2>1 DEF Enter, SchedulerType
<1>4. Sane(r) BY <1>1, ReleasedIsSane
<1>5. End(s, j, to) = Promote(r) BY DEF End, Release
<1> HIDE DEF e
<1>6. r.state = e.state BY <1>3 DEF SchedulerType
<1> HIDE DEF r
<1>7. to # "queued" BY StatesDisjoint
<1>8. ASSUME NEW k \in Jobs
      PROVE  \/ Promote(r).state[k] = r.state[k]
             \/ r.state[k] = "queued" /\ Promote(r).state[k] = "ready_for_upload"
  BY <1>4, PromoteMoves
<1> QED BY <1>2, <1>3, <1>5, <1>6, <1>7, <1>8 DEF Moves

\* A job changes to another state of the slot's, and no other job moves.
LEMMA EnterMoves ==
  ASSUME NEW s, Consistent(s), NEW j \in Jobs, NEW to \in JobState,
         Moves(s.state[j], to)
  PROVE  \A k \in Jobs : Moves(s.state[k], Enter(s, j, to, 0).state[k])
<1>1. s \in SchedulerType /\ 0 \in Ticks BY Durations DEF Consistent, Sane
<1>2. /\ Enter(s, j, to, 0).state = [s.state EXCEPT ![j] = to]
      /\ s.state \in [Jobs -> JobState]
  BY <1>1 DEF Enter, SchedulerType
<1> QED BY <1>2 DEF Moves

\* What reaping does to the state of a job.
LEMMA ReapMoves ==
  ASSUME NEW s, Consistent(s), NEW k \in Jobs
  PROVE  /\ s.state[k] \in TerminalStates =>
              Reap(s).state[k] \in {s.state[k], "unknown"}
         /\ s.state[k] \in OwnedStates \cup {"unknown"} =>
              Reap(s).state[k] = s.state[k]
         /\ s.state[k] = "ready_for_upload" /\ s.left[k] = 0 =>
              Reap(s).state[k] = "expired"
         /\ Reap(s).state[k] = "unknown" =>
              s.state[k] \in TerminalStates \cup {"unknown"}
<1>1. /\ s.waiting # << >> => Head(s.waiting) \in Members(s.waiting)
                             /\ Head(s.waiting) \in Jobs
  BY Fields DEF Consistent, Sane, Members
<1>2. s.waiting # << >> => s.state[Head(s.waiting)] = "queued"
  BY <1>1 DEF Consistent, Sane, LineIsQueue
<1>3. Reap(s).state[k] =
        IF k \in Lapsed(s, TerminalStates) THEN "unknown"
        ELSE IF \/ k \in Lapsed(s, {"ready_for_upload"})
                \/ /\ k \in Lapsed(s, {"queued"})
                   /\ \/ Lapsed(s, {"ready_for_upload"}) = {}
                      \/ s.waiting = << >>
                      \/ k # Head(s.waiting)
          THEN "expired"
        ELSE IF /\ Lapsed(s, {"ready_for_upload"}) # {}
                /\ s.waiting # << >> /\ k = Head(s.waiting)
          THEN "ready_for_upload"
        ELSE s.state[k]
  BY DEF Reap
<1> QED BY <1>2, <1>3 DEF Lapsed, TerminalStates, OwnedStates

\* A step is such a move of every job, from the state s, or admits it.
MovesFrom(s) ==
  \A k \in Jobs : \/ Moves(s.state[k], sched'.state[k])
                  \/ /\ sched.state[k] = "unknown"
                     /\ sched'.state[k] \in {"queued", "ready_for_upload"}

\* No upload begins in a step.
NoUploadBegins == \A k \in Jobs : sched.state[k] = "ready_for_upload" =>
                                    sched'.state[k] # "uploading"

\* Every step is such a move, after a reaping if an upload begins.
LEMMA NextMoves ==
  ASSUME Consistent(sched), [SchedulerNext]_sched
  PROVE  MovesFrom(Reap(sched)) \/ (MovesFrom(sched) /\ NoUploadBegins)
<1> DEFINE r == Reap(sched)
<1>1. Consistent(r) BY ReapIsConsistent
<1>2. /\ sched \in SchedulerType /\ r \in SchedulerType
      /\ sched.state \in [Jobs -> JobState] /\ r.state \in [Jobs -> JobState]
  BY <1>1, Fields DEF Consistent, Sane
<1>3. {"completed", "failed", "cancelled"} \subseteq TerminalStates
  BY DEF TerminalStates
<1>4. {"uploading", "running", "cancelling"} \subseteq JobState
  BY DEF JobState, SlotStates, OwnedStates
<1>5. ASSUME NEW j \in Jobs, NEW allowQueue \in BOOLEAN, Submit(j, allowQueue)
      PROVE  MovesFrom(r)
  <2>1. sched' = Submitted(r, j, allowQueue) /\ sched.state[j] = "unknown"
    BY <1>5 DEF Submit
  <2>2. r.state[j] = "unknown" BY <2>1, ReapMoves
  <2> HIDE DEF r
  <2>3. CASE Refuses(r, allowQueue)
    BY <2>1, <2>3 DEF Submitted, Moves, MovesFrom
  <2>4. CASE ~Refuses(r, allowQueue)
    <3> DEFINE e == Enter(r, j, "queued", ReservationTTL)
               a == [e EXCEPT !.waiting = Append(@, j)]
    <3>1. sched' = Promote(a) BY <2>1, <2>4 DEF Submitted
    <3>2. Sane(a) BY <2>2, <1>1, AdmittedIsSane DEF Consistent
    <3>3. a.state = [r.state EXCEPT ![j] = "queued"]
      BY <1>2 DEF Enter, SchedulerType
    <3> HIDE DEF a
    <3>4. ASSUME NEW k \in Jobs
          PROVE  \/ Promote(a).state[k] = a.state[k]
                 \/ a.state[k] = "queued" /\ Promote(a).state[k] = "ready_for_upload"
      BY <3>2, PromoteMoves
    <3> QED BY <3>1, <3>3, <3>4, <2>1, <1>2 DEF Moves, MovesFrom
  <2> QED BY <2>3, <2>4
<1>6. ASSUME NEW j \in Jobs, NEW renew \in BOOLEAN, Get(j, renew)
      PROVE  MovesFrom(r)
  <2>1. sched' = Got(r, j, renew) BY <1>6 DEF Get
  <2> HIDE DEF r
  <2>2. sched'.state = r.state BY <2>1, <1>2 DEF Got, SchedulerType
  <2> QED BY <2>2 DEF Moves, MovesFrom
<1>7. ASSUME NEW j \in Jobs, BeginUpload(j)
      PROVE  MovesFrom(r)
  <2>1. sched' = UploadBegun(r, j) BY <1>7 DEF BeginUpload
  <2> HIDE DEF r
  <2>2. CASE r.state[j] = "ready_for_upload"
    <3>1. Moves(r.state[j], "uploading") BY <2>2 DEF Moves
    <3>2. sched' = Enter(r, j, "uploading", 0) BY <2>1, <2>2 DEF UploadBegun
    <3> QED BY <3>1, <3>2, <1>1, <1>4, EnterMoves DEF MovesFrom
  <2>3. CASE r.state[j] # "ready_for_upload"
    BY <2>1, <2>3 DEF UploadBegun, Moves, MovesFrom
  <2> QED BY <2>2, <2>3
<1>8. ASSUME NEW j \in Jobs, Cancel(j)
      PROVE  MovesFrom(r)
  <2>1. sched' = Cancelled(r, j) BY <1>8 DEF Cancel
  <2> HIDE DEF r
  <2>2. CASE r.state[j] \in OwnedStates
    <3>1. Moves(r.state[j], "cancelling") BY <2>2 DEF Moves, OwnedStates
    <3>2. sched' = Enter(r, j, "cancelling", 0) BY <2>1, <2>2 DEF Cancelled
    <3> QED BY <3>1, <3>2, <1>1, <1>4, EnterMoves DEF MovesFrom
  <2>3. CASE r.state[j] \in {"queued", "ready_for_upload"}
    <3>1. sched' = End(r, j, "cancelled")
      BY <2>1, <2>3 DEF Cancelled, OwnedStates
    <3>2. /\ End(r, j, "cancelled").state[j] = "cancelled"
          /\ \A k \in Jobs \ {j} :
               Moves(r.state[k], End(r, j, "cancelled").state[k])
      BY <2>3, <1>1, <1>3, EndMoves DEF SlotStates
    <3>3. Moves(r.state[j], "cancelled") BY <2>3 DEF Moves
    <3> QED BY <3>1, <3>2, <3>3 DEF MovesFrom
  <2>4. CASE r.state[j] \notin OwnedStates \cup {"queued", "ready_for_upload"}
    BY <2>1, <2>4 DEF Cancelled, Moves, MovesFrom
  <2> QED BY <2>2, <2>3, <2>4
<1>9. ASSUME ReapExpired
      PROVE  MovesFrom(r)
  BY <1>9 DEF ReapExpired, Moves, MovesFrom
<1>10. ASSUME NEW j \in Jobs, NEW to \in TerminalStates,
              sched.state[j] \in SlotStates, Moves(sched.state[j], to),
              sched' = End(sched, j, to)
       PROVE  MovesFrom(sched) /\ NoUploadBegins
  <2>1. /\ sched'.state[j] = to
        /\ \A k \in Jobs \ {j} : Moves(sched.state[k], sched'.state[k])
    BY <1>10, EndMoves
  <2>2. to # "uploading" BY StatesDisjoint DEF SlotStates, OwnedStates
  <2>3. ASSUME NEW k \in Jobs, sched.state[k] = "ready_for_upload"
        PROVE  sched'.state[k] # "uploading"
    <3>1. k = j
      BY <1>10, <2>3 DEF Consistent, Sane, HoldsSlot, SlotStates
    <3> QED BY <3>1, <2>1, <2>2
  <2> QED BY <2>1, <2>3, <1>10 DEF MovesFrom, NoUploadBegins
<1>11. ASSUME NEW j \in Jobs, Owner(j)
       PROVE  MovesFrom(sched) /\ NoUploadBegins
  <2>1. CASE BeginProcessing(j)
    <3>1. sched.state[j] = "uploading" /\ sched' = Enter(sched, j, "running", 0)
      BY <2>1 DEF BeginProcessing
    <3>2. MovesFrom(sched) BY <3>1, <1>4, EnterMoves DEF Moves, MovesFrom
    <3>3. sched'.state = [sched.state EXCEPT ![j] = "running"]
      BY <3>1, <1>2 DEF Enter, SchedulerType
    <3>4. NoUploadBegins BY <3>3, <1>2 DEF NoUploadBegins
    <3> QED BY <3>2, <3>4
  <2>2. ASSUME NEW to \in {"completed", "failed"}, Finish(j, to)
        PROVE  MovesFrom(sched) /\ NoUploadBegins
    <3>1. sched.state[j] = "running" /\ sched' = End(sched, j, to)
      BY <2>2 DEF Finish
    <3>2. sched.state[j] \in SlotStates /\ Moves(sched.state[j], to)
      BY <3>1 DEF Moves, SlotStates, OwnedStates
    <3> QED BY <3>1, <3>2, <1>3, <1>10
  <2>3. CASE FinishCancel(j) /\ sched.state[j] = "cancelling"
    <3>1. sched' = End(sched, j, "cancelled")
      BY <2>3 DEF FinishCancel, CancelFinished
    <3>2. sched.state[j] \in SlotStates /\ Moves(sched.state[j], "cancelled")
      BY <2>3 DEF Moves, SlotStates, OwnedStates
    <3> QED BY <3>1, <3>2, <1>3, <1>10
  <2>4. CASE FinishCancel(j) /\ sched.state[j] # "cancelling"
    <3>1. sched' = sched BY <2>4 DEF FinishCancel, CancelFinished
    <3> QED BY <3>1 DEF Moves, MovesFrom, NoUploadBegins
  <2> QED BY <1>11, <2>1, <2>2, <2>3, <2>4 DEF Owner, Complete, Fail
<1>12. ASSUME Tick \/ UNCHANGED sched
       PROVE  MovesFrom(sched) /\ NoUploadBegins
  <2>1. sched'.state = sched.state
    BY <1>2, <1>12 DEF Tick, Elapsed, SchedulerType
  <2> QED BY <2>1 DEF Moves, MovesFrom, NoUploadBegins
<1> HIDE DEF r
<1> QED BY <1>5, <1>6, <1>7, <1>8, <1>9, <1>11, <1>12 DEF SchedulerNext, r

\* A verdict is final: whoever is late, it stays until the job is forgotten.
THEOREM SchedulerVerdictKept == SchedulerSpec => VerdictKept
<1>1. ASSUME Consistent(sched), [SchedulerNext]_sched, NEW j \in Jobs,
             sched.state[j] \in TerminalStates
      PROVE  sched'.state[j] \in {sched.state[j], "unknown"}
  <2>1. sched.state[j] # "unknown" BY <1>1, StatesDisjoint
  <2>2. \E s \in {sched, Reap(sched)} : Moves(s.state[j], sched'.state[j])
    BY <1>1, <2>1, NextMoves DEF MovesFrom
  <2>3. Reap(sched).state[j] \in {sched.state[j], "unknown"}
    BY <1>1, ReapMoves
  <2> QED BY <1>1, <2>2, <2>3 DEF Moves, TerminalStates
<1>2. SchedulerInvariant /\ [SchedulerNext]_sched =>
        [\A j \in Jobs : sched.state[j] \in TerminalStates =>
           sched'.state[j] \in {sched.state[j], "unknown"}]_sched
  BY <1>1 DEF SchedulerInvariant
<1> QED BY <1>2, SchedulerInvariance, PTL DEF SchedulerSpec, VerdictKept

\* Only its owner frees the slot of a job that is being worked on.
THEOREM SchedulerSlotKept == SchedulerSpec => SlotKeptUntilCleanup
<1>1. ASSUME Consistent(sched), [SchedulerNext]_sched, NEW j \in Jobs,
             sched.state[j] \in OwnedStates, sched'.active # j
      PROVE  \/ sched.state[j] = "running" /\ sched'.state[j] \in {"completed", "failed"}
             \/ sched.state[j] = "cancelling" /\ sched'.state[j] = "cancelled"
  <2>1. Consistent(sched') BY <1>1, NextIsConsistent
  <2>2. sched'.state[j] \notin SlotStates
    BY <1>1, <2>1 DEF Consistent, Sane, HoldsSlot
  <2>3. Reap(sched).state[j] = sched.state[j] BY <1>1, ReapMoves
  <2>4. sched.state[j] # "unknown" BY <1>1 DEF OwnedStates
  <2>5. Moves(sched.state[j], sched'.state[j])
    BY <1>1, <2>3, <2>4, NextMoves DEF MovesFrom
  <2> QED BY <1>1, <2>2, <2>5 DEF Moves, OwnedStates, SlotStates
<1>2. SchedulerInvariant /\ [SchedulerNext]_sched =>
        [\A j \in Jobs :
           sched.state[j] \in OwnedStates /\ sched'.active # j =>
             \/ sched.state[j] = "running" /\ sched'.state[j] \in {"completed", "failed"}
             \/ sched.state[j] = "cancelling" /\ sched'.state[j] = "cancelled"]_sched
  BY <1>1 DEF SchedulerInvariant
<1> QED BY <1>2, SchedulerInvariance, PTL DEF SchedulerSpec, SlotKeptUntilCleanup

\* Who is late for the upload window does not upload.
THEOREM SchedulerNoLateUpload == SchedulerSpec => NoLateUpload
<1>1. ASSUME Consistent(sched), [SchedulerNext]_sched, NEW j \in Jobs,
             sched.state[j] = "ready_for_upload", sched.left[j] = 0
      PROVE  sched'.state[j] # "uploading"
  <2>1. Reap(sched).state[j] = "expired" BY <1>1, ReapMoves
  <2>2. CASE MovesFrom(Reap(sched))
    <3>1. Moves("expired", sched'.state[j]) BY <1>1, <2>1, <2>2 DEF MovesFrom
    <3> QED BY <3>1 DEF Moves
  <2>3. CASE NoUploadBegins
    BY <1>1, <2>3 DEF NoUploadBegins
  <2> QED BY <1>1, <2>2, <2>3, NextMoves
<1>2. SchedulerInvariant /\ [SchedulerNext]_sched =>
        [\A j \in Jobs :
           sched.state[j] = "ready_for_upload" /\ sched.left[j] = 0 =>
             sched'.state[j] # "uploading"]_sched
  BY <1>1 DEF SchedulerInvariant
<1> QED BY <1>2, SchedulerInvariance, PTL DEF SchedulerSpec, NoLateUpload

\* Whoever is late changes no verdict, takes no slot away and starts no upload.
THEOREM SchedulerLateCalls == SchedulerSpec => LateCallsChangeNothing
<1> QED BY SchedulerVerdictKept, SchedulerSlotKept, SchedulerNoLateUpload DEF LateCallsChangeNothing

-----------------------------------------------------------------------------
(* The reaping loop, which goes through the jobs in the order of their     *)
(* admission.  The slot and the line are that order, without the jobs that *)
(* are not there; so a ready job comes before all who wait.                *)

\* The slot and the line, in a row.
Whole(s) == IF s.active = NoJob THEN s.waiting ELSE <<s.active>> \o s.waiting

LEMMA WholeMembers ==
  ASSUME NEW s, s.waiting \in Seq(Jobs), s.active \in Jobs \cup {NoJob}
  PROVE  Whole(s) \in Seq(Jobs) /\ Members(Whole(s)) = PresentIn(s)
<1>1. CASE s.active = NoJob
  BY <1>1 DEF Whole, PresentIn
<1>2. CASE s.active # NoJob
  <2> DEFINE x == s.active
             q == s.waiting
             w == <<x>> \o q
  <2>1. x \in Jobs /\ q \in Seq(Jobs) /\ Len(q) \in Nat BY <1>2
  <2> HIDE DEF x, q
  <2>2. /\ w \in Seq(Jobs) /\ Len(w) = Len(q) + 1 /\ w[1] = x
        /\ \A i \in 1 .. Len(q) : w[i + 1] = q[i]
    BY <2>1
  <2> HIDE DEF w
  <2>3. Members(w) = {x} \cup Members(q)
    <3>1. ASSUME NEW i \in 1 .. Len(w) PROVE w[i] \in {x} \cup Members(q)
      <4>1. CASE i = 1 BY <2>2, <4>1
      <4>2. CASE i # 1
        <5>1. i - 1 \in 1 .. Len(q) /\ (i - 1) + 1 = i BY <2>1, <2>2, <4>2
        <5>2. w[i] = q[i - 1] BY <2>2, <5>1
        <5> QED BY <5>1, <5>2 DEF Members
      <4> QED BY <4>1, <4>2
    <3>2. x \in Members(w)
      <4>1. 1 \in 1 .. Len(w) BY <2>1, <2>2
      <4> QED BY <2>2, <4>1 DEF Members
    <3>3. ASSUME NEW i \in 1 .. Len(q) PROVE q[i] \in Members(w)
      <4>1. i + 1 \in 1 .. Len(w) BY <2>1, <2>2
      <4> QED BY <2>2, <4>1 DEF Members
    <3> QED BY <3>1, <3>2, <3>3 DEF Members
  <2>4. Whole(s) = w BY <1>2 DEF Whole, w, x, q
  <2> QED BY <1>2, <2>2, <2>3, <2>4 DEF PresentIn, x, q
<1> QED BY <1>1, <1>2

\* In a turn some leave the row, and some join its end.
LEMMA TurnOfWhole ==
  ASSUME NEW s, s.waiting \in Seq(Jobs), s.active \in Jobs \cup {NoJob},
         SlotIsUsed(s), NEW t, NEW A \in SUBSET Jobs, NEW J \in Seq(Jobs),
         TurnsTo(s, t, A, J)
  PROVE  Whole(t) = Without(Whole(s), A) \o J
<1> DEFINE q    == s.waiting
           rest == Without(q, A) \o J
<1>1. Without(q, A) \in Seq(Jobs) BY WithoutMembers
<1>2. rest \in Seq(Jobs) BY <1>1
<1>3. CASE s.active \notin A \cup {NoJob}
  <2> DEFINE x == s.active
             w == <<x>> \o q
  <2>1. x \in Jobs /\ q \in Seq(Jobs) BY <1>3
  <2>2. Whole(s) = w /\ Whole(t) = <<x>> \o rest
    BY <1>3 DEF Whole, TurnsTo
  <2>3. Without(w, A) = <<x>> \o Without(q, A)
    <3> HIDE DEF x, q
    <3>1. w \in Seq(Jobs) /\ w # << >> /\ Head(w) = x /\ Tail(w) = q BY <2>1
    <3>2. x \notin A BY <1>3 DEF x
    <3> HIDE DEF w
    <3> QED BY <3>1, <3>2, WithoutHead
  <2>4. (<<x>> \o Without(q, A)) \o J = <<x>> \o rest
    <3> HIDE DEF x, q
    <3> QED BY <2>1, <1>1, FirstInARow
  <2> QED BY <2>2, <2>3, <2>4
<1>4. CASE s.active \in A \cup {NoJob}
  <2>1. Without(Whole(s), A) = Without(q, A)
    <3>1. CASE s.active = NoJob BY <3>1 DEF Whole
    <3>2. CASE s.active # NoJob
      <4> DEFINE x == s.active
                 w == <<x>> \o q
      <4>1. x \in Jobs /\ q \in Seq(Jobs) /\ x \in A BY <1>4, <3>2
      <4>2. Whole(s) = w BY <3>2 DEF Whole
      <4> HIDE DEF x, q
      <4>3. w \in Seq(Jobs) /\ w # << >> /\ Head(w) = x /\ Tail(w) = q BY <4>1
      <4> HIDE DEF w
      <4>4. Without(w, A) = Without(q, A) BY <4>1, <4>3, WithoutHead
      <4> QED BY <4>2, <4>4
    <3> QED BY <3>1, <3>2
  <2>2. CASE rest = << >>
    BY <1>4, <2>1, <2>2 DEF Whole, TurnsTo
  <2>3. CASE rest # << >>
    <3>1. t.active = Head(rest) /\ t.waiting = Tail(rest)
      BY <1>4, <2>3 DEF TurnsTo
    <3> HIDE DEF rest
    <3>2. Head(rest) \in Jobs /\ rest = <<Head(rest)>> \o Tail(rest)
      BY <1>2, <2>3
    <3>3. Head(rest) # NoJob BY <3>2, SchedulerAssumption
    <3> QED BY <2>1, <3>1, <3>2, <3>3 DEF Whole, rest
  <2> QED BY <2>2, <2>3
<1> QED BY <1>3, <1>4

-----------------------------------------------------------------------------
\* The loop when it has visited the jobs of V: who has given the slot back, who
\* got it, and who has expired.
Freed(s, V) == Lapsed(s, {"ready_for_upload"}) \cap V

Heir(s, V) ==
  IF Freed(s, V) # {} /\ s.waiting # << >> THEN {Head(s.waiting)} ELSE {}

Expired(s, V) ==
  Freed(s, V) \cup ((Lapsed(s, {"queued"}) \cap V) \ Heir(s, V))

HalfReaped(s, V) ==
  [state   |-> [j \in Jobs |-> IF j \in Expired(s, V) THEN "expired"
                               ELSE IF j \in Heir(s, V) THEN "ready_for_upload"
                               ELSE s.state[j]],
   left    |-> [j \in Jobs |-> IF j \in Expired(s, V) THEN TerminalTTL
                               ELSE IF j \in Heir(s, V) THEN UploadReadyTTL
                               ELSE s.left[j]],
   waiting |-> Without(s.waiting, Expired(s, V) \cup Heir(s, V)),
   active  |-> IF Freed(s, V) = {} THEN s.active
               ELSE IF Heir(s, V) = {} THEN NoJob
               ELSE Head(s.waiting)]

\* The states of the jobs it concerns.
LEMMA HalfReapedJobs ==
  ASSUME NEW s, Consistent(s), NEW V
  PROVE  /\ \A k \in Freed(s, V) : /\ k \in Jobs /\ s.active = k
                                   /\ s.state[k] = "ready_for_upload"
                                   /\ k \notin Members(s.waiting)
         /\ \A k \in Heir(s, V) : /\ k \in Jobs /\ s.state[k] = "queued"
                                  /\ k = Head(s.waiting) /\ k \in Members(s.waiting)
         /\ \A k \in Expired(s, V) : k \in V /\ k \notin Heir(s, V)
<1>1. /\ s.state \in [Jobs -> JobState]
      /\ s.waiting \in Seq(Jobs) /\ s.active \in Jobs \cup {NoJob}
      /\ HoldsSlot(s) /\ LineIsQueue(s)
  BY Fields DEF Consistent, Sane
<1>2. \A k \in Freed(s, V) : k \in Jobs /\ s.state[k] = "ready_for_upload" /\ k \in V
  BY DEF Freed, Lapsed
<1>3. \A k \in Freed(s, V) : s.active = k /\ k \notin Members(s.waiting)
  BY <1>1, <1>2 DEF HoldsSlot, LineIsQueue, SlotStates
<1>4. s.waiting # << >> => /\ Head(s.waiting) \in Members(s.waiting)
                           /\ Head(s.waiting) \in Jobs
  BY <1>1 DEF Members
<1>5. s.waiting # << >> => s.state[Head(s.waiting)] = "queued"
  BY <1>1, <1>4 DEF LineIsQueue
<1>6. \A k \in Heir(s, V) : k = Head(s.waiting) /\ s.waiting # << >>
  BY DEF Heir
<1>7. \A k \in Expired(s, V) : k \in V /\ k \notin Heir(s, V)
  BY <1>2, <1>5, <1>6 DEF Expired, Freed
<1> QED BY <1>2, <1>3, <1>4, <1>5, <1>6, <1>7

\* It is a scheduler state.
LEMMA HalfReapedType ==
  ASSUME NEW s, Consistent(s), NEW V
  PROVE  HalfReaped(s, V) \in SchedulerType
<1>1. /\ s.state \in [Jobs -> JobState] /\ s.left \in [Jobs -> Ticks]
      /\ s.waiting \in Seq(Jobs) /\ s.active \in Jobs \cup {NoJob}
  BY Fields DEF Consistent, Sane
<1>2. "expired" \in JobState /\ "ready_for_upload" \in JobState
  BY DEF JobState, TerminalStates, SlotStates
<1>3. TerminalTTL \in Ticks /\ UploadReadyTTL \in Ticks BY Durations
<1>4. Without(s.waiting, Expired(s, V) \cup Heir(s, V)) \in Seq(Jobs)
  BY <1>1, WithoutMembers
<1>5. Heir(s, V) # {} => Head(s.waiting) \in Jobs BY HalfReapedJobs
<1> QED BY <1>1, <1>2, <1>3, <1>4, <1>5 DEF HalfReaped, SchedulerType

\* What Enter makes, as a record.
LEMMA EnterRecord ==
  ASSUME NEW s \in SchedulerType, NEW j \in Jobs,
         NEW to \in JobState, NEW ttl \in Ticks
  PROVE  Enter(s, j, to, ttl) =
           [state   |-> [s.state EXCEPT ![j] = to],
            left    |-> [s.left EXCEPT ![j] = ttl],
            waiting |-> s.waiting, active |-> s.active]
<1> DEFINE e == Enter(s, j, to, ttl)
<1>1. /\ e \in SchedulerType
      /\ e.state = [s.state EXCEPT ![j] = to]
      /\ e.left = [s.left EXCEPT ![j] = ttl]
      /\ e.waiting = s.waiting /\ e.active = s.active
  BY EnterFields
<1> HIDE DEF e
<1>2. e = [state |-> e.state, left |-> e.left,
           waiting |-> e.waiting, active |-> e.active]
  BY <1>1 DEF SchedulerType
<1>3. e = [state   |-> [s.state EXCEPT ![j] = to],
           left    |-> [s.left EXCEPT ![j] = ttl],
           waiting |-> s.waiting, active |-> s.active]
  BY <1>1, <1>2
<1> QED BY <1>3 DEF e

\* A visit that changes nothing, because the job has not lapsed, or was called
\* to the slot a moment ago.
LEMMA VisitPasses ==
  ASSUME NEW s, Consistent(s), NEW V, NEW j \in Jobs, j \notin V,
         j \in Lapsed(s, {"queued", "ready_for_upload"}) => j \in Heir(s, V)
  PROVE  Visit(HalfReaped(s, V), j) = HalfReaped(s, V \cup {j})
<1> DEFINE p == HalfReaped(s, V)
<1>1. /\ \A k \in Heir(s, V) : s.state[k] = "queued"
      /\ j \notin Expired(s, V)
  BY HalfReapedJobs
<1>2. j \notin Lapsed(s, {"ready_for_upload"}) BY <1>1 DEF Lapsed
<1>3. Freed(s, V \cup {j}) = Freed(s, V) BY <1>2 DEF Freed
<1>4. Heir(s, V \cup {j}) = Heir(s, V) BY <1>3 DEF Heir
<1>5. j \in Lapsed(s, {"queued"}) => j \in Heir(s, V) BY DEF Lapsed
<1>6. Expired(s, V \cup {j}) = Expired(s, V) BY <1>3, <1>4, <1>5 DEF Expired
<1>7. HalfReaped(s, V \cup {j}) = p BY <1>3, <1>4, <1>6 DEF HalfReaped
<1>8. Visit(p, j) = p
  <2>1. CASE j \in Heir(s, V)
    <3>1. p.left[j] = UploadReadyTTL BY <2>1, <1>1 DEF HalfReaped
    <3> HIDE DEF p
    <3> QED BY <3>1, SchedulerAssumption DEF Visit
  <2>2. CASE j \notin Heir(s, V)
    <3>1. p.left[j] = s.left[j] /\ p.state[j] = s.state[j]
      BY <2>2, <1>1 DEF HalfReaped
    <3>2. ~ (s.state[j] \in {"queued", "ready_for_upload"} /\ s.left[j] = 0)
      BY <2>2 DEF Lapsed
    <3> HIDE DEF p
    <3> QED BY <3>1, <3>2 DEF Visit
  <2> QED BY <2>1, <2>2
<1> QED BY <1>7, <1>8

\* A reservation that has lapsed leaves the line.
LEMMA VisitQueued ==
  ASSUME NEW s, Consistent(s), NEW V, NEW j \in Jobs, j \notin V,
         j \in Lapsed(s, {"queued"}), j \notin Heir(s, V)
  PROVE  Visit(HalfReaped(s, V), j) = HalfReaped(s, V \cup {j})
<1> DEFINE p == HalfReaped(s, V)
           W == V \cup {j}
           e == Enter(p, j, "expired", TerminalTTL)
           gone == Expired(s, V) \cup Heir(s, V)
<1>1. /\ s.state \in [Jobs -> JobState] /\ s.left \in [Jobs -> Ticks]
      /\ s.waiting \in Seq(Jobs) /\ s.active \in Jobs \cup {NoJob}
      /\ HoldsSlot(s) /\ LineIsQueue(s) /\ SlotIsUsed(s)
  BY Fields DEF Consistent, Sane
<1>2. s.state[j] = "queued" /\ s.left[j] = 0 /\ j \in Members(s.waiting)
  BY <1>1 DEF Lapsed, LineIsQueue
<1>3. s.waiting # << >> /\ s.active # NoJob /\ s.active # j
  <2>1. s.waiting # << >> BY <1>2 DEF Members
  <2>2. s.active # j BY <1>1, <1>2, StatesDisjoint DEF HoldsSlot
  <2> QED BY <2>1, <2>2, <1>1 DEF SlotIsUsed
<1>4. Freed(s, W) = Freed(s, V) BY <1>2 DEF Freed, Lapsed
<1>5. Heir(s, W) = Heir(s, V) BY <1>4 DEF Heir
<1>6. Expired(s, W) = Expired(s, V) \cup {j} BY <1>4, <1>5 DEF Expired
<1>7. j \notin Expired(s, V) BY HalfReapedJobs
<1>8. p.state[j] = "queued" /\ p.left[j] = 0 BY <1>2, <1>7 DEF HalfReaped
<1>9. Visit(p, j) = Release(e, j)
  <2> HIDE DEF p
  <2> QED BY <1>8 DEF Visit, End
<1>10. p.active # NoJob /\ p.active # j
  <2>1. CASE Freed(s, V) = {} BY <2>1, <1>3 DEF HalfReaped
  <2>2. CASE Freed(s, V) # {}
    <3>1. Heir(s, V) = {Head(s.waiting)} BY <2>2, <1>3 DEF Heir
    <3>2. Head(s.waiting) \in Jobs BY <3>1, HalfReapedJobs
    <3>3. p.active = Head(s.waiting) BY <2>2, <3>1 DEF HalfReaped
    <3> QED BY <3>1, <3>2, <3>3, SchedulerAssumption
  <2> QED BY <2>1, <2>2
<1>11. e = [state   |-> [p.state EXCEPT ![j] = "expired"],
            left    |-> [p.left EXCEPT ![j] = TerminalTTL],
            waiting |-> p.waiting, active |-> p.active]
  <2>1. p \in SchedulerType BY HalfReapedType
  <2>2. "expired" \in JobState /\ TerminalTTL \in Ticks
    BY Durations DEF JobState, TerminalStates
  <2> HIDE DEF p
  <2> QED BY <2>1, <2>2, EnterRecord
<1>12. Release(e, j) = [state   |-> [p.state EXCEPT ![j] = "expired"],
                        left    |-> [p.left EXCEPT ![j] = TerminalTTL],
                        waiting |-> Without(p.waiting, {j}), active |-> p.active]
  <2> HIDE DEF p, e
  <2>1. e.active = p.active /\ e.waiting = p.waiting BY <1>11
  <2> DEFINE r == [e EXCEPT !.waiting = Without(@, {j})]
  <2>2. Release(e, j) = Promote(r) BY <1>10, <2>1 DEF Release
  <2>3. r = [state   |-> [p.state EXCEPT ![j] = "expired"],
             left    |-> [p.left EXCEPT ![j] = TerminalTTL],
             waiting |-> Without(p.waiting, {j}), active |-> p.active]
    BY <1>11
  <2>4. r.active # NoJob BY <2>3, <1>10
  <2> HIDE DEF r
  <2> QED BY <2>2, <2>3, <2>4 DEF Promote
<1>13. Without(p.waiting, {j}) = Without(s.waiting, Expired(s, W) \cup Heir(s, W))
  <2>1. p.waiting = Without(s.waiting, gone) BY DEF HalfReaped
  <2>2. Without(Without(s.waiting, gone), {j}) = Without(s.waiting, gone \cup {j})
    BY <1>1, WithoutTwice
  <2>3. gone \cup {j} = Expired(s, W) \cup Heir(s, W) BY <1>5, <1>6
  <2> QED BY <2>1, <2>2, <2>3
<1>14. [p.state EXCEPT ![j] = "expired"] = HalfReaped(s, W).state
  BY <1>5, <1>6 DEF HalfReaped
<1>15. [p.left EXCEPT ![j] = TerminalTTL] = HalfReaped(s, W).left
  BY <1>5, <1>6 DEF HalfReaped
<1>16. p.active = HalfReaped(s, W).active
  BY <1>4, <1>5 DEF HalfReaped
<1>17. HalfReaped(s, W) = [state |-> HalfReaped(s, W).state,
                           left |-> HalfReaped(s, W).left,
                           waiting |-> Without(s.waiting, Expired(s, W) \cup Heir(s, W)),
                           active |-> HalfReaped(s, W).active]
  BY DEF HalfReaped
<1> HIDE DEF p, e, W, gone
<1>18. Visit(p, j) = HalfReaped(s, W)
  BY <1>9, <1>12, <1>13, <1>14, <1>15, <1>16, <1>17
<1> QED BY <1>18 DEF p, W

\* A ready job whose window is over gives the slot to the first of the line.
LEMMA VisitReady ==
  ASSUME NEW s, Consistent(s), NEW V, NEW j \in Jobs, j \notin V,
         j \in Lapsed(s, {"ready_for_upload"}), V \cap Members(s.waiting) = {}
  PROVE  Visit(HalfReaped(s, V), j) = HalfReaped(s, V \cup {j})
<1> DEFINE q == s.waiting
           W == V \cup {j}
           e == Enter(s, j, "expired", TerminalTTL)
           r == [state   |-> [s.state EXCEPT ![j] = "expired"],
                 left    |-> [s.left EXCEPT ![j] = TerminalTTL],
                 waiting |-> q, active |-> NoJob]
<1>1. /\ s.state \in [Jobs -> JobState] /\ s.left \in [Jobs -> Ticks]
      /\ q \in Seq(Jobs) /\ s.active \in Jobs \cup {NoJob}
      /\ HoldsSlot(s) /\ LineIsQueue(s) /\ SlotIsUsed(s) /\ s \in SchedulerType
      /\ Sane(s)
  BY Fields DEF Consistent, Sane
<1>2. s.state[j] = "ready_for_upload" /\ s.left[j] = 0 /\ s.active = j
  BY <1>1 DEF Lapsed, HoldsSlot, SlotStates
<1>3. j \notin Members(q) BY <1>1, <1>2 DEF LineIsQueue
<1>4. Freed(s, V) = {}
  <2>1. \A k \in Freed(s, V) : s.active = k /\ k \in V
    BY HalfReapedJobs DEF Freed
  <2> QED BY <2>1, <1>2
<1>5. Heir(s, V) = {} BY <1>4 DEF Heir
<1>6. Expired(s, V) = {} /\ Lapsed(s, {"queued"}) \cap V = {}
  <2>1. \A k \in Lapsed(s, {"queued"}) : k \in Members(q)
    BY <1>1 DEF Lapsed, LineIsQueue
  <2> QED BY <2>1, <1>4 DEF Expired
<1>7. HalfReaped(s, V) = s
  <2>1. Without(q, {} \cup {}) = q BY <1>1, WithoutNobody
  <2>2. HalfReaped(s, V) = [state |-> [k \in Jobs |-> s.state[k]],
                            left |-> [k \in Jobs |-> s.left[k]],
                            waiting |-> q, active |-> s.active]
    BY <2>1, <1>4, <1>5, <1>6 DEF HalfReaped
  <2> QED BY <2>2, <1>1 DEF SchedulerType
<1>8. Freed(s, W) = {j}
  <2>1. \A k \in Freed(s, W) : s.active = k BY HalfReapedJobs
  <2> QED BY <2>1, <1>2 DEF Freed
<1>9. Expired(s, W) = {j}
  <2>1. j \notin Lapsed(s, {"queued"}) BY <1>2 DEF Lapsed
  <2> QED BY <2>1, <1>6, <1>8 DEF Expired
<1>10. Visit(s, j) = Release(e, j) BY <1>2 DEF Visit, End
<1>11. e = [state   |-> [s.state EXCEPT ![j] = "expired"],
            left    |-> [s.left EXCEPT ![j] = TerminalTTL],
            waiting |-> q, active |-> s.active]
  <2>1. "expired" \in JobState /\ TerminalTTL \in Ticks
    BY Durations DEF JobState, TerminalStates
  <2> QED BY <2>1, <1>1, EnterRecord
<1>12. e.active = j /\ [e EXCEPT !.active = NoJob] = r BY <1>2, <1>11
<1>13. Release(e, j) = Promote(r) BY <1>12 DEF Release
<1>14. Sane(r)
  <2>1. "expired" \in TerminalStates /\ s.state[j] \in SlotStates
    BY <1>2 DEF TerminalStates, SlotStates
  <2>2. Sane(IF e.active = j THEN [e EXCEPT !.active = NoJob]
                             ELSE [e EXCEPT !.waiting = Without(@, {j})])
    BY <2>1, <1>1, ReleasedIsSane
  <2> HIDE DEF e, r
  <2> QED BY <2>2, <1>12
<1>15. Promote(r) = HalfReaped(s, W)
  <2>1. CASE q = << >>
    <3>1. Heir(s, W) = {} BY <2>1 DEF Heir
    <3>2. Promote(r) = r
      <4>1. r.waiting = << >> BY <2>1
      <4> HIDE DEF r
      <4> QED BY <4>1, <1>14, PromoteCalls
    <3>3. Without(q, {j} \cup {}) = q BY <1>1, <1>3, WithoutNobody
    <3>4. HalfReaped(s, W) =
            [state |-> [k \in Jobs |-> IF k = j THEN "expired" ELSE s.state[k]],
             left |-> [k \in Jobs |-> IF k = j THEN TerminalTTL ELSE s.left[k]],
             waiting |-> q, active |-> NoJob]
      BY <3>1, <3>3, <1>8, <1>9 DEF HalfReaped
    <3>5. /\ [s.state EXCEPT ![j] = "expired"]
               = [k \in Jobs |-> IF k = j THEN "expired" ELSE s.state[k]]
          /\ [s.left EXCEPT ![j] = TerminalTTL]
               = [k \in Jobs |-> IF k = j THEN TerminalTTL ELSE s.left[k]]
      BY <1>1
    <3> QED BY <3>2, <3>4, <3>5
  <2>2. CASE q # << >>
    <3> DEFINE h == Head(q)
    <3>1. Heir(s, W) = {h} BY <2>2, <1>8 DEF Heir
    <3>2. h \in Jobs /\ h \in Members(q) /\ h # j
      BY <3>1, <1>3, HalfReapedJobs
    <3>3. /\ Promote(r) \in SchedulerType
          /\ Promote(r).state = [r.state EXCEPT ![h] = "ready_for_upload"]
          /\ Promote(r).left = [r.left EXCEPT ![h] = UploadReadyTTL]
          /\ Promote(r).waiting = SubSeq(q, 2, Len(q))
          /\ Promote(r).active = h
      <4>1. r.active = NoJob /\ r.waiting = q OBVIOUS
      <4> HIDE DEF r, q
      <4> QED BY <4>1, <2>2, <1>14, PromoteCalls
    <3>4. Without(q, {j} \cup {h}) = SubSeq(q, 2, Len(q))
      <4>1. Tail(q) = SubSeq(q, 2, Len(q)) BY <1>1
      <4>2. Distinct(q) BY <1>1 DEF LineIsQueue
      <4>3. \A x \in Members(Tail(q)) : x \notin {j} \cup {h}
        <5>1. /\ Len(Tail(q)) = Len(q) - 1 /\ Len(q) \in Nat
              /\ \A i \in 1 .. Len(Tail(q)) : Tail(q)[i] = q[i + 1]
              /\ h = q[1] /\ 1 \in 1 .. Len(q)
          BY <1>1, <2>2
        <5> HIDE DEF h, q
        <5>2. ASSUME NEW i \in 1 .. Len(Tail(q)) PROVE Tail(q)[i] \notin {j} \cup {h}
          <6>1. i + 1 \in 1 .. Len(q) /\ i + 1 # 1 BY <5>1
          <6>2. q[i + 1] # q[1] BY <6>1, <5>1, <4>2 DEF Distinct
          <6>3. q[i + 1] \in Members(q) BY <6>1 DEF Members
          <6> QED BY <6>2, <6>3, <5>1, <1>3
        <5> QED BY <5>2 DEF Members
      <4>4. Tail(q) \in Seq(Jobs) BY <1>1, <2>2
      <4>5. Without(q, {j} \cup {h}) = Without(Tail(q), {j} \cup {h})
        BY <1>1, <2>2, WithoutHead
      <4>6. Without(Tail(q), {j} \cup {h}) = Tail(q) BY <4>3, <4>4, WithoutNobody
      <4> QED BY <4>1, <4>5, <4>6
    <3>5. HalfReaped(s, W) =
            [state |-> [k \in Jobs |-> IF k = j THEN "expired"
                                       ELSE IF k = h THEN "ready_for_upload"
                                       ELSE s.state[k]],
             left |-> [k \in Jobs |-> IF k = j THEN TerminalTTL
                                      ELSE IF k = h THEN UploadReadyTTL
                                      ELSE s.left[k]],
             waiting |-> SubSeq(q, 2, Len(q)), active |-> h]
      BY <3>1, <3>4, <1>8, <1>9 DEF HalfReaped
    <3> HIDE DEF h
    <3>6. Promote(r).state = [k \in Jobs |-> IF k = j THEN "expired"
                                             ELSE IF k = h THEN "ready_for_upload"
                                             ELSE s.state[k]]
      BY <3>2, <3>3, <1>1
    <3>7. Promote(r).left = [k \in Jobs |-> IF k = j THEN TerminalTTL
                                            ELSE IF k = h THEN UploadReadyTTL
                                            ELSE s.left[k]]
      BY <3>2, <3>3, <1>1
    <3> DEFINE t == Promote(r)
    <3>8. t = [state |-> t.state, left |-> t.left, waiting |-> t.waiting,
               active |-> t.active]
      <4> HIDE DEF r
      <4>1. t \in SchedulerType BY <3>3
      <4> HIDE DEF t
      <4> QED BY <4>1 DEF SchedulerType
    <3> HIDE DEF t, r, q
    <3>9. t = HalfReaped(s, W) BY <3>3, <3>5, <3>6, <3>7, <3>8 DEF t
    <3> QED BY <3>9 DEF t
  <2> QED BY <2>1, <2>2
<1> HIDE DEF r, e
<1> QED BY <1>7, <1>10, <1>13, <1>15

\* Before the first visit nothing has changed.
LEMMA NothingReaped ==
  ASSUME NEW s, Consistent(s)
  PROVE  HalfReaped(s, {}) = s
<1>1. /\ s.state \in [Jobs -> JobState] /\ s.left \in [Jobs -> Ticks]
      /\ s.waiting \in Seq(Jobs) /\ s \in SchedulerType
  BY Fields DEF Consistent, Sane
<1>2. Freed(s, {}) = {} /\ Heir(s, {}) = {} /\ Expired(s, {}) = {}
  BY DEF Freed, Heir, Expired
<1>3. Without(s.waiting, {} \cup {}) = s.waiting BY <1>1, WithoutNobody
<1>4. HalfReaped(s, {}) = [state |-> [k \in Jobs |-> s.state[k]],
                           left |-> [k \in Jobs |-> s.left[k]],
                           waiting |-> s.waiting, active |-> s.active]
  BY <1>2, <1>3 DEF HalfReaped
<1> QED BY <1>1, <1>4 DEF SchedulerType

\* After the last visit only the purge is left to do.
LEMMA ThenPurged ==
  ASSUME NEW s, Consistent(s), NEW V,
         Lapsed(s, {"queued", "ready_for_upload"}) \subseteq V
  PROVE  LET last   == HalfReaped(s, V)
             purged == {j \in Jobs : s.state[j] \in TerminalStates /\ s.left[j] = 0}
         IN  Reap(s) = [last EXCEPT !.state =
                          [j \in Jobs |-> IF j \in purged THEN "unknown"
                                          ELSE last.state[j]]]
<1> DEFINE last   == HalfReaped(s, V)
           purged == {j \in Jobs : s.state[j] \in TerminalStates /\ s.left[j] = 0}
<1>1. /\ Lapsed(s, {"ready_for_upload"}) \cap V = Lapsed(s, {"ready_for_upload"})
      /\ Lapsed(s, {"queued"}) \cap V = Lapsed(s, {"queued"})
      /\ Lapsed(s, TerminalStates) = purged
  BY DEF Lapsed
<1>2. /\ Freed(s, V) = Lapsed(s, {"ready_for_upload"})
      /\ Expired(s, V) = Freed(s, V) \cup (Lapsed(s, {"queued"}) \ Heir(s, V))
  BY <1>1 DEF Freed, Expired
<1> DEFINE F == Freed(s, V)
           H == Heir(s, V)
           X == Expired(s, V)
<1>3. Reap(s) = [state |-> [j \in Jobs |-> IF j \in purged THEN "unknown"
                                           ELSE IF j \in X THEN "expired"
                                           ELSE IF j \in H THEN "ready_for_upload"
                                           ELSE s.state[j]],
                 left |-> last.left, waiting |-> last.waiting,
                 active |-> last.active]
  BY <1>1, <1>2 DEF Reap, HalfReaped, Heir
<1>4. [j \in Jobs |-> IF j \in purged THEN "unknown" ELSE last.state[j]]
        = [j \in Jobs |-> IF j \in purged THEN "unknown"
                          ELSE IF j \in X THEN "expired"
                          ELSE IF j \in H THEN "ready_for_upload"
                          ELSE s.state[j]]
  BY DEF HalfReaped
<1>5. last = [state |-> last.state, left |-> last.left,
              waiting |-> last.waiting, active |-> last.active]
  BY DEF HalfReaped
<1> HIDE DEF last, purged, F, H, X
<1> QED BY <1>3, <1>4, <1>5 DEF last, purged

\* The dict of the jobs: those the server knows, each once; the slot and the
\* line in a row are in the dict's order.
InOrder(s, jobs) ==
  /\ jobs \in Seq(Jobs) /\ Distinct(jobs)
  /\ Members(jobs) = {j \in Jobs : s.state[j] # "unknown"}
  /\ Whole(s) = Without(jobs, Jobs \ PresentIn(s))

\* One turn of the loop.
Turned(s, jobs, f, i) == IF i = 0 THEN s ELSE Visit(f[i - 1], jobs[i])

\* The jobs visited before the turn after i.
Seen(jobs, i) == {jobs[k] : k \in 1 .. i}

LEMMA TurnIsVisit ==
  ASSUME NEW s, Consistent(s), NEW jobs, InOrder(s, jobs), NEW i \in 1 .. Len(jobs)
  PROVE  Visit(HalfReaped(s, Seen(jobs, i - 1)), jobs[i])
           = HalfReaped(s, Seen(jobs, i))
<1> DEFINE j == jobs[i]
           V == Seen(jobs, i - 1)
<1>1. jobs \in Seq(Jobs) /\ Len(jobs) \in Nat /\ Distinct(jobs) /\ j \in Jobs
  BY DEF InOrder
<1>2. Seen(jobs, i) = V \cup {j}
  <2>1. 1 .. i = (1 .. i - 1) \cup {i} BY <1>1
  <2> QED BY <2>1 DEF Seen
<1>3. j \notin V
  <2>1. \A k \in 1 .. i - 1 : k \in 1 .. Len(jobs) /\ k # i BY <1>1
  <2> QED BY <2>1, <1>1 DEF Seen, Distinct
<1>4. CASE j \in Lapsed(s, {"ready_for_upload"})
  <2>1. /\ s.waiting \in Seq(Jobs) /\ s.active \in Jobs \cup {NoJob}
        /\ HoldsSlot(s) /\ s.state[j] = "ready_for_upload"
    BY <1>4, Fields DEF Consistent, Sane, Lapsed
  <2>2. s.active = j /\ j # NoJob
    BY <1>1, <2>1, SchedulerAssumption DEF HoldsSlot, SlotStates
  <2> DEFINE away == Jobs \ PresentIn(s)
             w    == Whole(s)
  <2>3. w # << >> /\ Head(w) = j
    <3>1. w = <<j>> \o s.waiting BY <2>2 DEF Whole
    <3> HIDE DEF w, j
    <3> QED BY <3>1, <2>1, <1>1
  <2>4. w = Without(jobs, away) BY DEF InOrder
  <2> HIDE DEF w, away
  <2>5. PICK k \in 1 .. Len(jobs) :
               jobs[k] = Head(w) /\ \A m \in 1 .. k - 1 : jobs[m] \in away
    BY <1>1, <2>3, <2>4, FirstThatStays
  <2>6. k = i BY <2>3, <2>5, <1>1 DEF Distinct
  <2>7. \A x \in V : x \notin Members(s.waiting)
    BY <2>5, <2>6 DEF Seen, away, PresentIn
  <2> HIDE DEF V, j
  <2>8. V \cap Members(s.waiting) = {} BY <2>7
  <2>9. Visit(HalfReaped(s, V), j) = HalfReaped(s, V \cup {j})
    BY <1>1, <1>3, <1>4, <2>8, VisitReady
  <2> QED BY <2>9, <1>2 DEF V, j
<1>5. CASE j \in Lapsed(s, {"queued"}) /\ j \notin Heir(s, V)
  <2> HIDE DEF V, j
  <2>1. Visit(HalfReaped(s, V), j) = HalfReaped(s, V \cup {j})
    BY <1>1, <1>3, <1>5, VisitQueued
  <2> QED BY <2>1, <1>2 DEF V, j
<1>6. CASE j \in Lapsed(s, {"queued", "ready_for_upload"}) => j \in Heir(s, V)
  <2> HIDE DEF V, j
  <2>1. Visit(HalfReaped(s, V), j) = HalfReaped(s, V \cup {j})
    BY <1>1, <1>3, <1>6, VisitPasses
  <2> QED BY <2>1, <1>2 DEF V, j
<1>7. j \in Lapsed(s, {"queued", "ready_for_upload"}) =>
        j \in Lapsed(s, {"queued"}) \/ j \in Lapsed(s, {"ready_for_upload"})
  BY DEF Lapsed
<1> QED BY <1>4, <1>5, <1>6, <1>7

\* Reaping is that loop.
LEMMA LoopReaps ==
  ASSUME NEW s, Consistent(s), NEW jobs, InOrder(s, jobs)
  PROVE  Reap(s) = LoopReap(s, jobs)
<1> DEFINE g == [i \in 0 .. Len(jobs) |-> HalfReaped(s, Seen(jobs, i))]
           f == CHOOSE f : f = [i \in 0 .. Len(jobs) |-> Turned(s, jobs, f, i)]
           purged == {j \in Jobs : s.state[j] \in TerminalStates /\ s.left[j] = 0}
<1>1. Len(jobs) \in Nat BY DEF InOrder
<1>2. g[0] = s
  <2>1. Seen(jobs, 0) = {} BY DEF Seen
  <2>2. HalfReaped(s, Seen(jobs, 0)) = s BY <2>1, NothingReaped
  <2>3. 0 \in 0 .. Len(jobs) BY <1>1
  <2> QED BY <2>2, <2>3
<1>3. ASSUME NEW i \in 1 .. Len(jobs) PROVE Visit(g[i - 1], jobs[i]) = g[i]
  <2>1. i - 1 \in 0 .. Len(jobs) /\ i \in 0 .. Len(jobs) BY <1>1
  <2>2. g[i - 1] = HalfReaped(s, Seen(jobs, i - 1))
        /\ g[i] = HalfReaped(s, Seen(jobs, i))
    BY <2>1
  <2> HIDE DEF g
  <2> QED BY <2>2, TurnIsVisit
<1>4. g = [i \in 0 .. Len(jobs) |-> Turned(s, jobs, g, i)]
  <2>1. ASSUME NEW i \in 0 .. Len(jobs) PROVE g[i] = Turned(s, jobs, g, i)
    <3>1. CASE i = 0 BY <3>1, <1>2 DEF Turned
    <3>2. CASE i # 0
      <4>1. i \in 1 .. Len(jobs) BY <3>2, <1>1
      <4>2. Visit(g[i - 1], jobs[i]) = g[i] BY <4>1, <1>3
      <4> HIDE DEF g
      <4> QED BY <3>2, <4>2 DEF Turned
    <3> QED BY <3>1, <3>2
  <2>2. g = [i \in 0 .. Len(jobs) |-> g[i]] OBVIOUS
  <2> HIDE DEF g
  <2> QED BY <2>1, <2>2
<1> HIDE DEF g
<1>5. f = [i \in 0 .. Len(jobs) |-> Turned(s, jobs, f, i)] BY <1>4
<1>6. LoopReap(s, jobs) = [f[Len(jobs)] EXCEPT !.state =
                             [j \in Jobs |-> IF j \in purged THEN "unknown"
                                             ELSE f[Len(jobs)].state[j]]]
  BY DEF LoopReap, Turned
<1> HIDE DEF f
<1>7. f[Len(jobs)] = g[Len(jobs)]
  <2> DEFINE G == {i \in 0 .. Len(jobs) : f[i] = g[i]}
  <2>1. 0 \in G
    <3>1. 0 \in 0 .. Len(jobs) BY <1>1
    <3>2. f[0] = s BY <3>1, <1>5 DEF Turned
    <3> QED BY <3>1, <3>2, <1>2
  <2>2. ASSUME NEW i \in 1 .. Len(jobs), i - 1 \in G PROVE i \in G
    <3>1. i \in 0 .. Len(jobs) /\ i # 0 BY <1>1
    <3>2. f[i] = Turned(s, jobs, f, i) /\ g[i] = Turned(s, jobs, g, i)
      BY <3>1, <1>4, <1>5
    <3>3. f[i - 1] = g[i - 1] BY <2>2
    <3>4. f[i] = g[i] BY <3>1, <3>2, <3>3 DEF Turned
    <3> QED BY <3>1, <3>4
  <2>3. G \in SUBSET (0 .. Len(jobs)) OBVIOUS
  <2> HIDE DEF G
  <2>4. G = 0 .. Len(jobs) BY <2>1, <2>2, <2>3, <1>1, UpToInduction
  <2>5. Len(jobs) \in G BY <2>4, <1>1
  <2> QED BY <2>5 DEF G
<1>8. g[Len(jobs)] = HalfReaped(s, Seen(jobs, Len(jobs)))
  <2>1. Len(jobs) \in 0 .. Len(jobs) BY <1>1
  <2> QED BY <2>1 DEF g
<1>9. Lapsed(s, {"queued", "ready_for_upload"}) \subseteq Seen(jobs, Len(jobs))
  <2>1. Seen(jobs, Len(jobs)) = Members(jobs) BY DEF Seen, Members
  <2> QED BY <2>1 DEF Lapsed, InOrder
<1> DEFINE V == Seen(jobs, Len(jobs))
<1> HIDE DEF V
<1>10. LET last == HalfReaped(s, V)
       IN  Reap(s) = [last EXCEPT !.state =
                        [j \in Jobs |-> IF j \in purged THEN "unknown"
                                        ELSE last.state[j]]]
  BY <1>9, ThenPurged DEF V
<1>11. f[Len(jobs)] = HalfReaped(s, V) BY <1>7, <1>8 DEF V
<1> HIDE DEF purged
<1> QED BY <1>6, <1>10, <1>11

\* The slot and the line are the jobs that are queued or hold the slot.
LEMMA PresentStates ==
  ASSUME NEW s, Consistent(s)
  PROVE  PresentIn(s) = {j \in Jobs : s.state[j] \in SlotStates \cup {"queued"}}
<1>1. /\ s.waiting \in Seq(Jobs) /\ s.active \in Jobs \cup {NoJob}
      /\ HoldsSlot(s) /\ LineIsQueue(s)
  BY Fields DEF Consistent, Sane
<1>2. Members(s.waiting) \subseteq Jobs BY <1>1 DEF Members
<1>3. Members(s.waiting) = {j \in Jobs : s.state[j] = "queued"}
  BY <1>1, <1>2 DEF LineIsQueue
<1>4. {s.active} \ {NoJob} = {j \in Jobs : s.state[j] \in SlotStates}
  BY <1>1, SchedulerAssumption DEF HoldsSlot
<1> QED BY <1>3, <1>4 DEF PresentIn

\* The keys of the dict: a step adds the job that joins, and no other.
LEMMA WhoIsAdded ==
  ASSUME Consistent(sched), SchedulerNext, NEW A \in SUBSET PresentIn(sched),
         NEW C \in SUBSET (Jobs \ PresentIn(sched)),
         PresentIn(sched') = (PresentIn(sched) \ A) \cup C
  PROVE  C = {j \in Jobs : sched.state[j] = "unknown" /\ sched'.state[j] # "unknown"}
<1>1. Consistent(sched') BY NextIsConsistent
<1>2. ASSUME NEW c \in C
      PROVE  sched.state[c] = "unknown" /\ sched'.state[c] # "unknown"
  <2>1. sched'.state[c] \in SlotStates \cup {"queued"}
    BY <1>1, PresentStates
  <2>2. sched.state[c] \in TerminalStates \cup {"unknown"}
    <3>1. sched.state[c] \in JobState
      BY Fields DEF Consistent, Sane
    <3>2. sched.state[c] \notin SlotStates \cup {"queued"} BY PresentStates
    <3> QED BY <3>1, <3>2 DEF JobState
  <2>3. SUFFICES ASSUME sched.state[c] # "unknown" PROVE FALSE
    BY <2>1, StatesDisjoint
  <2>4. Reap(sched).state[c] \in {sched.state[c], "unknown"}
    BY <2>2, <2>3, ReapMoves
  <2>5. \E s \in {sched, Reap(sched)} : Moves(s.state[c], sched'.state[c])
    BY <2>3, NextMoves DEF MovesFrom
  <2> QED BY <2>1, <2>2, <2>4, <2>5, StatesDisjoint
          DEF Moves, TerminalStates, SlotStates, OwnedStates
<1>3. ASSUME NEW j \in Jobs, sched.state[j] = "unknown", sched'.state[j] # "unknown"
      PROVE  j \in C
  <2>1. Reap(sched).state[j] = "unknown" BY <1>3, ReapMoves
  <2>2. sched'.state[j] \in {"queued", "ready_for_upload"}
    BY <1>3, <2>1, NextMoves DEF MovesFrom, Moves
  <2>3. j \in PresentIn(sched') BY <2>2, <1>1, PresentStates DEF SlotStates
  <2>4. j \notin PresentIn(sched) BY <1>3, PresentStates, StatesDisjoint
  <2> QED BY <2>3, <2>4
<1> QED BY <1>2, <1>3

\* The dict stays in the order of the slot and the line.
LEMMA NextIsInOrder ==
  ASSUME Consistent(sched), SchedulerNext, InOrder(sched, order), Reorder
  PROVE  InOrder(sched', order')
<1> DEFINE P == PresentIn(sched)
           Q == PresentIn(sched')
           K == {j \in Jobs : sched.state[j] # "unknown"}
           gone == {j \in Jobs : sched'.state[j] = "unknown"}
           new == {j \in Jobs \ gone : sched.state[j] = "unknown"}
           kept == Without(order, gone)
<1>1. Consistent(sched') BY NextIsConsistent
<1>2. PICK A \in SUBSET P, J \in {<< >>} \cup {<<c>> : c \in Jobs \ P} :
        TurnsTo(sched, sched', A, J)
  BY NextIsTurn
<1>3. /\ sched.waiting \in Seq(Jobs) /\ sched.active \in Jobs \cup {NoJob}
      /\ sched'.waiting \in Seq(Jobs) /\ sched'.active \in Jobs \cup {NoJob}
      /\ SlotIsUsed(sched)
  BY <1>1, Fields DEF Consistent, Sane
<1>4. /\ Whole(sched) \in Seq(Jobs) /\ Members(Whole(sched)) = P
      /\ Whole(sched') \in Seq(Jobs) /\ Members(Whole(sched')) = Q
  BY <1>3, WholeMembers
<1>5. P \subseteq K /\ Q \cap gone = {} /\ P \subseteq Jobs /\ Q \subseteq Jobs
  BY <1>1, PresentStates, StatesDisjoint
<1>6. /\ order \in Seq(Jobs) /\ Distinct(order) /\ Members(order) = K
      /\ Whole(sched) = Without(order, Jobs \ P)
  BY DEF InOrder
<1>7. /\ kept \in Seq(Jobs) /\ Distinct(kept) /\ Members(kept) = K \ gone
  BY <1>6, WithoutMembers
<1>8. order' = kept \o (IF new = {} THEN << >> ELSE <<CHOOSE j \in new : TRUE>>)
  BY DEF Reorder
<1> DEFINE w == Without(Whole(sched), A)
<1>9. w \in Seq(Jobs) /\ Members(w) = P \ A
  <2> DEFINE q == Whole(sched)
  <2>1. q \in Seq(Jobs) /\ Members(q) = P BY <1>4
  <2> HIDE DEF P, q
  <2>2. /\ Without(q, A) \in Seq(Jobs)
        /\ Members(Without(q, A)) = Members(q) \ A
    BY <2>1, WithoutMembers
  <2> QED BY <2>1, <2>2 DEF q
<1>10. J \in Seq(Jobs)
  <2>1. << >> \in Seq(Jobs) /\ \A c \in Jobs : <<c>> \in Seq(Jobs)
    OBVIOUS
  <2> HIDE DEF P
  <2> QED BY <1>2, <2>1
<1>11. Whole(sched') = w \o J
  <2>1. A \in SUBSET Jobs BY <1>5
  <2> QED BY <2>1, <1>2, <1>3, <1>10, TurnOfWhole
<1>12. w = Without(order, (Jobs \ P) \cup A)
  BY <1>6, WithoutTwice
<1>13. ASSUME NEW C \in SUBSET (Jobs \ P), Q = (P \ A) \cup C PROVE new = C
  BY <1>13, <1>2, WhoIsAdded
<1> HIDE DEF P, Q, K, gone, new, kept, w
<1>14. ASSUME NEW C \in SUBSET (Jobs \ P), Q = (P \ A) \cup C,
              order' = kept \o J, Members(J) = C, order' \in Seq(Jobs),
              Distinct(order'), Members(order') = Members(kept) \cup C
       PROVE  InOrder(sched', order')
  <2> DEFINE away == Jobs \ Q
  <2>1. new = C BY <1>13, <1>14
  <2>2. Members(order') = {j \in Jobs : sched'.state[j] # "unknown"}
    BY <2>1, <1>7, <1>14 DEF new, K, gone
  <2>3. Without(J, away) = J
    <3>1. \A x \in Members(J) : x \notin away BY <1>14
    <3> HIDE DEF away
    <3> QED BY <3>1, <1>10, WithoutNobody
  <2>4. \A x \in Members(order) :
          x \in (Jobs \ P) \cup A <=> x \in gone \cup away
    BY <2>1, <1>5, <1>6, <1>14 DEF K, gone, new
  <2> HIDE DEF away
  <2>5. Without(order', away) = Without(kept, away) \o J
    <3>1. Without(kept \o J, away) = Without(kept, away) \o Without(J, away)
      BY <1>7, <1>10, WithoutConcat
    <3> QED BY <3>1, <2>3, <1>14
  <2>6. Without(kept, away) = Without(order, gone \cup away)
    BY <1>6, WithoutTwice DEF kept
  <2>7. w = Without(order, gone \cup away)
    BY <2>4, <1>6, <1>12, WithoutSame
  <2>8. Whole(sched') = Without(order', away)
    BY <2>5, <2>6, <2>7, <1>11
  <2> QED BY <2>2, <2>8, <1>14 DEF InOrder, Q, away
<1>15. CASE J = << >>
  <2> DEFINE C == {}
  <2>1. Whole(sched') = w BY <1>9, <1>11, <1>15
  <2>2. Q = (P \ A) \cup C BY <2>1, <1>4, <1>9
  <2>3. C \in SUBSET (Jobs \ P) /\ Members(J) = C
    BY <1>15 DEF Members
  <2>4. new = {} BY <2>2, <2>3, <1>13
  <2>5. order' = kept \o J /\ order' = kept BY <2>4, <1>7, <1>8, <1>15
  <2>6. Members(order') = Members(kept) \cup C BY <2>5
  <2> HIDE DEF C
  <2> QED BY <2>2, <2>3, <2>5, <2>6, <1>7, <1>14
<1>16. ASSUME NEW c \in Jobs \ P, J = <<c>> PROVE InOrder(sched', order')
  <2> DEFINE C == {c}
  <2>1. Whole(sched') = Append(w, c)
    BY <1>9, <1>11, <1>16
  <2>2. Q = (P \ A) \cup C BY <2>1, <1>4, <1>9, AppendMembers
  <2>3. C \in SUBSET (Jobs \ P) /\ Members(J) = C
    BY <1>16 DEF Members
  <2>4. new = {c} BY <2>2, <2>3, <1>13
  <2>5. order' = kept \o J BY <2>4, <1>8, <1>16
  <2>6. order' = Append(kept, c) BY <2>5, <1>7, <1>16
  <2>7. c \notin K BY <2>4 DEF new, K
  <2>8. /\ order' \in Seq(Jobs) /\ Distinct(order')
        /\ Members(order') = Members(kept) \cup C
    BY <2>6, <2>7, <1>7, AppendMembers
  <2> HIDE DEF C
  <2> QED BY <2>2, <2>3, <2>5, <2>8, <1>14
<1> QED BY <1>2, <1>15, <1>16

\* The inductive invariant of the scheduler with the dict's order.
LoopInvariant == SchedulerInvariant /\ InOrder(sched, order)

THEOREM LoopInvariance == LoopSpec => []LoopInvariant
<1>1. LoopInit => LoopInvariant
  <2> SUFFICES ASSUME LoopInit PROVE LoopInvariant
    OBVIOUS
  <2>1. sched = NewScheduler /\ order = << >> BY DEF LoopInit, SchedulerInit
  <2>2. Consistent(sched) BY <2>1, NewIsConsistent
  <2>3. sched.state = [j \in Jobs |-> "unknown"] /\ Whole(sched) = << >>
    BY <2>1 DEF NewScheduler, Whole
  <2>4. order \in Seq(Jobs) /\ Distinct(order) /\ Members(order) = {}
    BY <2>1 DEF Distinct, Members
  <2>5. Without(order, Jobs \ PresentIn(sched)) = order
    BY <2>4, WithoutNobody
  <2> QED BY <2>1, <2>2, <2>3, <2>4, <2>5
          DEF LoopInvariant, SchedulerInvariant, InOrder
<1>2. LoopInvariant /\ [LoopNext]_loopVars => LoopInvariant'
  <2>1. ASSUME LoopInvariant, LoopNext PROVE LoopInvariant'
    BY <2>1, NextIsConsistent, NextIsInOrder
    DEF LoopInvariant, SchedulerInvariant, LoopNext
  <2>2. ASSUME LoopInvariant, UNCHANGED loopVars PROVE LoopInvariant'
    BY <2>2 DEF LoopInvariant, SchedulerInvariant, loopVars
  <2> QED BY <2>1, <2>2
<1> QED BY <1>1, <1>2, PTL DEF LoopSpec

\* The closed form in which the scheduler reaps does what the loop does, job by
\* job, whatever the order in which deadlines have passed.
THEOREM LoopReapIsTheLoop == LoopSpec => []ReapIsTheLoop
<1>1. LoopInvariant => ReapIsTheLoop
  BY LoopReaps DEF LoopInvariant, SchedulerInvariant, ReapIsTheLoop
<1> QED BY <1>1, LoopInvariance, PTL

=============================================================================
