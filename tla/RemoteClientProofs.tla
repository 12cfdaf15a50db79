------------------------- MODULE RemoteClientProofs -------------------------
(***************************************************************************)
(* The safety of RemoteClient for any number of jobs, rivals and segments, *)
(* and any number of events under way.  The inductive invariant says that  *)
(* the events under way lead from what the client has heard of its job to  *)
(* what the server has done for it, so that reading one is a step of       *)
(* TaskStream.  The last part is about the server manager (RemoteCatalog): *)
(* no edit in it is lost.                                                  *)
(***************************************************************************)
EXTENDS RemoteClient, RemoteCatalog, JobSchedulerProofs

\* What the server tells.
Messages ==
  [type : {"task_started"}, retry : BOOLEAN]
    \cup [type : {"segment"}, item : 1 .. Items]
    \cup [type : {"task_result", "result"}, ok : BOOLEAN]

Verdicts == {"none", "ok", "bad"}

\* How far a workflow has come: the try, its segments, the results of the task
\* and of the workflow.
Stages == [try : 0 .. 2, item : 0 .. Items, result : Verdicts, end : Verdicts]

\* The stages of a task that has no result yet.
Trying(try, item) == [try |-> try, item |-> item, result |-> "none", end |-> "none"]

Start == Trying(0, 0)

Verdict(ok) == IF ok THEN "ok" ELSE "bad"

\* The event e leads from the stage a to the stage b.
Leads(a, e, b) ==
  /\ a.end = "none"
  /\ \/ /\ e.type = "task_started" /\ a.result = "none"
        /\ a.try < 2 /\ e.retry = (a.try = 1)
        /\ b = Trying(a.try + 1, 0)
     \/ /\ e.type = "segment" /\ a.result = "none"
        /\ a.try > 0 /\ a.item < Items /\ e.item = a.item + 1
        /\ b = [a EXCEPT !.item = @ + 1]
     \/ /\ e.type = "task_result" /\ a.result = "none" /\ a.try > 0
        /\ e.ok => a.item = Items
        /\ b = [a EXCEPT !.result = Verdict(e.ok)]
     \/ /\ e.type = "result"
        /\ e.ok => a.result = "ok"
        /\ b = [a EXCEPT !.end = Verdict(e.ok)]

\* The events of the queue q lead from the stage a to the stage b.
Path(a, q, b) ==
  \E stage \in [0 .. Len(q) -> Stages] :
    /\ stage[0] = a /\ stage[Len(q)] = b
    /\ \A i \in 1 .. Len(q) : Leads(stage[i - 1], q[i], stage[i])

\* What the client has heard, and what the server has done.
HeardSoFar ==
  [try |-> client.try, item |-> Len(client.segments),
   result |-> IF client.info THEN "ok" ELSE "none",
   end |-> IF client.final THEN "ok" ELSE "none"]

DoneSoFar(j) ==
  [try |-> serve[j].try, item |-> serve[j].item,
   result |-> CASE serve[j].at = "done" -> "ok"
                [] serve[j].at = "broken" -> "bad"
                [] OTHER -> "none",
   end |-> "none"]

-----------------------------------------------------------------------------
(* The inductive invariant.                                                *)

Clients ==
  [at : ClientAt, job : Own \cup {NoJob}, heard : JobState \cup {""},
   segments : Seq(1 .. Items), try : 0 .. 2, info : BOOLEAN, final : BOOLEAN]

Cancellings ==
  [at : {"none", "setting", "looking", "deleting"}, job : Own \cup {NoJob}]

Links == {"closed", "open", "refused", "streaming", "ended"}

Servings ==
  [at : {"none", "receiving", "working", "done", "broken"},
   try : 0 .. 2, item : 0 .. Items]

ServerTyped ==
  link \in [Jobs -> Links] /\ serve \in [Jobs -> Servings]
    /\ pipe \in [Jobs -> Seq(Messages)]

\* The client and the one who cancels its job.
ClientInPlace ==
  /\ client \in Clients /\ canceller \in Cancellings
  /\ client.at = "idle" => client = NewWorkflow
  /\ client.at = "reserving" => client.job = NoJob
  /\ client.at \in {"polling", "uploading", "reading", "cancelling", "returning"} =>
       client.job # NoJob
  /\ canceller.at = "deleting" => canceller.job # NoJob

\* The document, and what the client has heard.
DocumentInPlace ==
  /\ client.at # "idle" => doc = client.segments
  /\ client.at \in {"reserving", "polling", "uploading"} => HeardSoFar = Start
  /\ client.try = 0 => client.segments = << >>
  /\ client.info => Len(client.segments) = Items
  /\ client.final => client.info
  /\ client.at = "returning" => client.final

\* What the server has done for a job.
ServingInPlace ==
  \A j \in Jobs :
    /\ serve[j].at \in {"none", "receiving"} => serve[j].try = 0 /\ serve[j].item = 0
    /\ serve[j].try = 0 => serve[j].item = 0 /\ serve[j].at \notin {"done", "broken"}
    /\ serve[j].at = "done" => serve[j].item = Items

\* Only the client's own job has a connection, and what is under way there has
\* been sent since the client has been told of the job.
EventsInPlace ==
  /\ \A j \in Jobs : j # client.job => link[j] = "closed" /\ pipe[j] = << >>
  /\ client.at = "polling" =>
       /\ link[client.job] = "closed" /\ pipe[client.job] = << >>
       /\ serve[client.job] = NotServing
  /\ client.at = "reading" => link[client.job] \in {"streaming", "ended"}
  /\ client.at = "uploading" => link[client.job] # "closed"
  /\ client.at \in {"uploading", "reading"} =>
       /\ link[client.job] = "open" =>
            pipe[client.job] = << >> /\ serve[client.job].at \in {"none", "receiving"}
       /\ link[client.job] = "streaming" =>
            /\ serve[client.job].at \in {"working", "done", "broken"}
            /\ Path(HeardSoFar, pipe[client.job], DoneSoFar(client.job))
       /\ link[client.job] = "ended" =>
            \E b \in Stages : b.end # "none" /\ Path(HeardSoFar, pipe[client.job], b)

RemoteInvariant ==
  /\ Consistent(sched)
  /\ ServerTyped /\ ClientInPlace /\ DocumentInPlace
  /\ ServingInPlace /\ EventsInPlace

-----------------------------------------------------------------------------
(* Paths.                                                                  *)

LEMMA NothingLeads ==
  ASSUME NEW a \in Stages
  PROVE  Path(a, << >>, a)
<1> DEFINE stage == [i \in 0 .. 0 |-> a]
<1>1. /\ stage \in [0 .. 0 -> Stages] /\ stage[0] = a
      /\ Len(<< >>) = 0 /\ 1 .. 0 = {}
  OBVIOUS
<1> HIDE DEF stage
<1> QED BY <1>1 DEF Path

LEMMA OneMoreLeads ==
  ASSUME NEW q \in Seq(Messages), NEW e \in Messages,
         NEW a \in Stages, NEW b \in Stages, NEW c \in Stages,
         Path(a, q, b), Leads(b, e, c)
  PROVE  Path(a, Append(q, e), c)
<1> DEFINE n == Len(q)
           r == Append(q, e)
<1>1. /\ n \in Nat /\ Len(r) = n + 1 /\ r[n + 1] = e
      /\ \A i \in 1 .. n : r[i] = q[i]
  OBVIOUS
<1>2. PICK stage \in [0 .. n -> Stages] :
        /\ stage[0] = a /\ stage[n] = b
        /\ \A i \in 1 .. n : Leads(stage[i - 1], q[i], stage[i])
  BY DEF Path
<1> DEFINE longer == [i \in 0 .. n + 1 |-> IF i = n + 1 THEN c ELSE stage[i]]
<1> HIDE DEF n, r
<1>3. longer \in [0 .. Len(r) -> Stages] /\ longer[0] = a /\ longer[Len(r)] = c
  BY <1>1, <1>2
<1>4. ASSUME NEW i \in 1 .. Len(r)
      PROVE  Leads(longer[i - 1], r[i], longer[i])
  <2>1. CASE i = n + 1
    <3>1. longer[i] = c /\ longer[i - 1] = b /\ r[i] = e BY <1>1, <1>2, <2>1
    <3> QED BY <3>1
  <2>2. CASE i # n + 1
    <3>1. i \in 1 .. n /\ i - 1 \in 0 .. n BY <1>1, <2>2
    <3>2. longer[i] = stage[i] /\ longer[i - 1] = stage[i - 1] /\ r[i] = q[i]
      BY <1>1, <3>1
    <3> QED BY <1>2, <3>1, <3>2
  <2> QED BY <2>1, <2>2
<1> HIDE DEF longer
<1>5. Path(a, r, c) BY <1>3, <1>4 DEF Path
<1> QED BY <1>5 DEF r

LEMMA OneLessLeads ==
  ASSUME NEW q \in Seq(Messages), q # << >>,
         NEW a \in Stages, NEW b \in Stages, Path(a, q, b)
  PROVE  \E c \in Stages : Leads(a, Head(q), c) /\ Path(c, Tail(q), b)
<1> DEFINE n == Len(q)
           r == Tail(q)
<1>1. /\ n \in Nat /\ n > 0 /\ Len(r) = n - 1 /\ Head(q) = q[1]
      /\ \A i \in 1 .. n - 1 : r[i] = q[i + 1]
  OBVIOUS
<1>2. PICK stage \in [0 .. n -> Stages] :
        /\ stage[0] = a /\ stage[n] = b
        /\ \A i \in 1 .. n : Leads(stage[i - 1], q[i], stage[i])
  BY DEF Path
<1> DEFINE shorter == [i \in 0 .. n - 1 |-> stage[i + 1]]
<1> HIDE DEF n, r
<1>3. stage[1] \in Stages /\ Leads(a, Head(q), stage[1])
  <2>1. Leads(stage[1 - 1], q[1], stage[1]) BY <1>1, <1>2
  <2>2. 1 - 1 = 0 OBVIOUS
  <2> QED BY <2>1, <2>2, <1>1, <1>2
<1>4. /\ shorter \in [0 .. Len(r) -> Stages]
      /\ shorter[0] = stage[1] /\ shorter[Len(r)] = b
  BY <1>1, <1>2
<1>5. ASSUME NEW i \in 1 .. Len(r)
      PROVE  Leads(shorter[i - 1], r[i], shorter[i])
  <2>1. /\ i + 1 \in 1 .. n /\ i \in 0 .. n - 1 /\ i - 1 \in 0 .. n - 1
        /\ i \in 1 .. n - 1
    BY <1>1
  <2>2. shorter[i] = stage[i + 1] /\ shorter[i - 1] = stage[(i + 1) - 1]
    BY <2>1
  <2>3. r[i] = q[i + 1] BY <1>1, <2>1
  <2>4. Leads(stage[(i + 1) - 1], q[i + 1], stage[i + 1]) BY <1>2, <2>1
  <2> QED BY <2>2, <2>3, <2>4
<1> HIDE DEF shorter
<1>6. Path(stage[1], r, b) BY <1>4, <1>5 DEF Path
<1> QED BY <1>3, <1>6 DEF r

\* Where paths start and where they lead.
LEMMA StartIsStage == Start \in Stages
BY ClientAssumption DEF Start, Trying, Stages, Verdicts

LEMMA DoneIsStage ==
  ASSUME ServerTyped, NEW j \in Jobs
  PROVE  DoneSoFar(j) \in Stages
<1> DEFINE result == CASE serve[j].at = "done" -> "ok"
                       [] serve[j].at = "broken" -> "bad"
                       [] OTHER -> "none"
<1>1. serve[j].try \in 0 .. 2 /\ serve[j].item \in 0 .. Items
  BY DEF ServerTyped, Servings
<1>2. result \in Verdicts BY DEF Verdicts
<1> HIDE DEF result
<1>3. [try |-> serve[j].try, item |-> serve[j].item, result |-> result, end |-> "none"]
        \in Stages
  BY <1>1, <1>2 DEF Stages, Verdicts
<1> QED BY <1>3 DEF DoneSoFar, result

\* The stage that a path starts from is one.
LEMMA PathStarts ==
  ASSUME NEW a, NEW q \in Seq(Messages), NEW b, Path(a, q, b)
  PROVE  a \in Stages /\ b \in Stages
<1>1. 0 \in 0 .. Len(q) /\ Len(q) \in 0 .. Len(q)
  OBVIOUS
<1> QED BY <1>1 DEF Path

-----------------------------------------------------------------------------
(* Steps that change neither the connection nor the server's work.         *)

\* What the invariant says of the client beyond the scheduler.
Untouched == UNCHANGED <<link, serve, pipe>>

\* Calls of others, and the passing of time.
LEMMA OthersKeep ==
  ASSUME RemoteInvariant, Consistent(sched)', Untouched,
         UNCHANGED <<client, canceller, doc>>
  PROVE  RemoteInvariant'
BY DEF RemoteInvariant, Untouched, ServerTyped, ClientInPlace, DocumentInPlace,
       ServingInPlace, EventsInPlace, HeardSoFar, DoneSoFar

\* The user's thread.
LEMMA CancellerKeeps ==
  ASSUME RemoteInvariant, Consistent(sched)', Untouched,
         UNCHANGED <<client, doc>>, canceller' \in Cancellings,
         canceller'.at = "deleting" => canceller'.job # NoJob
  PROVE  RemoteInvariant'
BY DEF RemoteInvariant, Untouched, ServerTyped, ClientInPlace, DocumentInPlace,
       ServingInPlace, EventsInPlace, HeardSoFar, DoneSoFar

\* The thread of the workflow goes on without reading.
LEMMA ClientGoesKeeps ==
  ASSUME RemoteInvariant, Consistent(sched)', Untouched,
         NEW to \in ClientAt \ {"idle", "reserving", "polling", "uploading"},
         client.at # "idle", ClientGoes(to),
         to = "returning" => client.final,
         to \in {"reading", "cancelling", "returning"} => client.job # NoJob,
         to = "reading" => /\ link[client.job] = "streaming"
                           /\ client.at = "uploading"
  PROVE  RemoteInvariant'
<1>1. /\ client' = [client EXCEPT !.at = to] /\ client \in Clients
      /\ UNCHANGED <<canceller, doc, link, serve, pipe>>
  BY DEF ClientGoes, Untouched, RemoteInvariant, ClientInPlace
<1>2. /\ client' \in Clients /\ client'.at = to
      /\ client'.job = client.job /\ client'.segments = client.segments
      /\ client'.try = client.try /\ client'.info = client.info
      /\ client'.final = client.final
  BY <1>1 DEF Clients
<1> HIDE DEF Clients
<1>3. HeardSoFar' = HeardSoFar BY <1>2 DEF HeardSoFar
<1>4. ServerTyped' /\ ServingInPlace'
  BY <1>1 DEF RemoteInvariant, ServerTyped, ServingInPlace
<1>5. ClientInPlace' BY <1>1, <1>2 DEF RemoteInvariant, ClientInPlace
<1>6. DocumentInPlace' BY <1>1, <1>2, <1>3 DEF RemoteInvariant, DocumentInPlace
<1>7. EventsInPlace'
  BY <1>1, <1>2, <1>3 DEF RemoteInvariant, EventsInPlace, DoneSoFar
<1> QED BY <1>4, <1>5, <1>6, <1>7 DEF RemoteInvariant

\* A call of the scheduler keeps it consistent, whoever makes it.
LEMMA CallsAreConsistent ==
  ASSUME Consistent(sched), NEW j \in Jobs,
         \/ UNCHANGED sched
         \/ Submit(j, TRUE) \/ Get(j, TRUE) \/ BeginUpload(j) \/ Owner(j) \/ Cancel(j)
         \/ Tick \/ ReapExpired
  PROVE  Consistent(sched)'
<1>1. [SchedulerNext]_sched BY DEF SchedulerNext
<1> QED BY <1>1, NextIsConsistent

\* The jobs of the client are jobs.
LEMMA OwnIsJob == ClientInPlace => /\ client.job # NoJob => client.job \in Jobs
                                   /\ canceller.job # NoJob => canceller.job \in Jobs
BY DEF ClientInPlace, Clients, Cancellings, Own

LEMMA GoingKeeps ==
  ASSUME RemoteInvariant,
         \/ \E j \in Own : ReservationLost(j)
         \/ StopsPolling \/ PollLost \/ FindsJobOver \/ Answered
         \/ StopsReading \/ ReadsEnd \/ ReadBreaks
  PROVE  RemoteInvariant'
<1>1. Consistent(sched) /\ ClientInPlace BY DEF RemoteInvariant
<1>2. Consistent(sched)'
  <2>1. CASE UNCHANGED sched
    BY <2>1, <1>1
  <2>2. ASSUME NEW j \in Own, Submit(j, TRUE) PROVE Consistent(sched)'
    BY <2>2, <1>1, CallsAreConsistent DEF Own
  <2>3. CASE PollLost
    <3>1. client.job \in Jobs BY <2>3, <1>1, OwnIsJob DEF PollLost, ClientInPlace
    <3> QED BY <2>3, <3>1, <1>1, CallsAreConsistent DEF PollLost
  <2> QED BY <2>1, <2>2, <2>3
          DEF ReservationLost, StopsPolling, FindsJobOver, Answered, StopsReading,
              ReadsEnd, ReadBreaks, serverVars
<1>3. Untouched
  BY DEF Untouched, ReservationLost, StopsPolling, PollLost, FindsJobOver,
         Answered, StopsReading, ReadsEnd, ReadBreaks, serverVars
<1>4. PICK to \in {"reading", "cancelling", "failing", "returning"} :
        /\ ClientGoes(to) /\ client.at \in {"reserving", "polling", "uploading", "reading"}
        /\ to = "returning" => client.final
        /\ to # "failing" => client.at \in {"polling", "uploading", "reading"}
        /\ to = "reading" => link[client.job] = "streaming" /\ client.at = "uploading"
  BY DEF ReservationLost, StopsPolling, PollLost, FindsJobOver, Answered,
         StopsReading, ReadsEnd, ReadBreaks
<1>5. to # "failing" => client.job # NoJob BY <1>1, <1>4 DEF ClientInPlace
<1>6. to \in ClientAt \ {"idle", "reserving", "polling", "uploading"}
  BY DEF ClientAt
<1> QED BY <1>2, <1>3, <1>4, <1>5, <1>6, ClientGoesKeeps

\* The steps of the user's thread, of other clients and of the clock.
LEMMA BesidesKeep ==
  ASSUME RemoteInvariant,
         \/ UserCancels \/ CancelSteps
         \/ \E j \in Rivals : RivalSteps(j)
         \/ \E j \in Own : ReaderGone(j)
         \/ TimePasses \/ OtherRequest \/ UNCHANGED clientVars
  PROVE  RemoteInvariant'
<1>1. Consistent(sched) /\ ClientInPlace BY DEF RemoteInvariant
<1>2. CASE \/ \E j \in Rivals : RivalSteps(j)
           \/ \E j \in Own : ReaderGone(j)
  <2>1. PICK j \in Jobs : RivalSteps(j) \/ ReaderGone(j)
    BY <1>2, ClientAssumption DEF Own
  <2>2. Consistent(sched)'
    BY <2>1, <1>1, CallsAreConsistent DEF RivalSteps, ReaderGone
  <2> QED BY <2>1, <2>2, OthersKeep DEF RivalSteps, ReaderGone, Untouched
<1>3. CASE TimePasses \/ OtherRequest \/ UNCHANGED clientVars
  <2>1. [SchedulerNext]_sched
    BY <1>3 DEF TimePasses, OtherRequest, clientVars, SchedulerNext
  <2>2. Consistent(sched)' BY <2>1, <1>1, NextIsConsistent
  <2> QED BY <1>3, <2>2, OthersKeep DEF TimePasses, OtherRequest, clientVars, Untouched
<1>4. CASE UserCancels \/ CancelSets \/ CancelLooks \/ CancelDeletes
  <2>1. Consistent(sched)'
    <3>1. CASE CancelDeletes
      <4>1. canceller.job \in Jobs
        BY <3>1, <1>1, OwnIsJob DEF CancelDeletes, ClientInPlace
      <4> QED BY <3>1, <4>1, <1>1, CallsAreConsistent DEF CancelDeletes
    <3>2. CASE UNCHANGED sched
      BY <3>2, <1>1
    <3> QED BY <1>4, <3>1, <3>2 DEF UserCancels, CancelSets, CancelLooks, serverVars
  <2>2. canceller' \in Cancellings /\ (canceller'.at = "deleting" => canceller'.job # NoJob)
    <3>1. canceller \in Cancellings /\ client.job \in Own \cup {NoJob}
      BY <1>1 DEF ClientInPlace, Clients
    <3>2. CASE UserCancels \/ CancelDeletes
      BY <3>2 DEF UserCancels, CancelDeletes, Cancellings, NotCancelling
    <3>3. CASE CancelSets
      BY <3>1, <3>3 DEF CancelSets, Cancellings
    <3>4. CASE CancelLooks
      BY <3>1, <3>4 DEF CancelLooks, Cancellings, NotCancelling
    <3> QED BY <1>4, <3>2, <3>3, <3>4
  <2>3. Untouched /\ UNCHANGED <<client, doc>>
    BY <1>4 DEF UserCancels, CancelSets, CancelLooks, CancelDeletes, serverVars, Untouched
  <2> QED BY <2>1, <2>2, <2>3, CancellerKeeps
<1> QED BY <1>2, <1>3, <1>4 DEF CancelSteps

-----------------------------------------------------------------------------
(* The workflow's own steps.                                               *)

LEMMA NewIsTyped ==
  /\ NewWorkflow \in Clients
  /\ [NewWorkflow EXCEPT !.at = "reserving"] \in Clients
<1>1. << >> \in Seq(1 .. Items) /\ 0 \in 0 .. 2
  OBVIOUS
<1>2. {"idle", "reserving"} \subseteq ClientAt BY DEF ClientAt
<1> QED BY <1>1, <1>2 DEF NewWorkflow, Clients

LEMMA BeginKeeps ==
  ASSUME RemoteInvariant, Begin
  PROVE  RemoteInvariant'
<1>1. /\ client = NewWorkflow /\ client' = [NewWorkflow EXCEPT !.at = "reserving"]
      /\ doc' = << >> /\ UNCHANGED <<canceller, sched, link, serve, pipe>>
  BY DEF Begin, serverVars, RemoteInvariant, ClientInPlace
<1>2. ServerTyped' /\ ServingInPlace' /\ Consistent(sched)'
  BY <1>1 DEF RemoteInvariant, ServerTyped, ServingInPlace
<1>3. client' \in Clients BY <1>1, NewIsTyped
<1>4. ClientInPlace'
  BY <1>1, <1>3 DEF RemoteInvariant, ClientInPlace, NewWorkflow
<1>5. DocumentInPlace'
  BY <1>1 DEF NewWorkflow, DocumentInPlace, HeardSoFar, Start, Trying
<1>6. EventsInPlace'
  BY <1>1 DEF RemoteInvariant, EventsInPlace, NewWorkflow
<1> QED BY <1>2, <1>4, <1>5, <1>6 DEF RemoteInvariant

LEMMA ReservedKeeps ==
  ASSUME RemoteInvariant, NEW j \in Own, Reserved(j)
  PROVE  RemoteInvariant'
<1>1. /\ client.at = "reserving" /\ serve[j] = NotServing /\ j \in Jobs
      /\ Submit(j, TRUE) /\ client.job = NoJob /\ client \in Clients
      /\ UNCHANGED <<canceller, doc, link, serve, pipe>>
  BY DEF Reserved, Fresh, RemoteInvariant, ClientInPlace, Own
<1>2. Consistent(sched)' BY <1>1, CallsAreConsistent DEF RemoteInvariant
<1>3. CASE sched'.state[j] = "unknown"
  BY <1>1, <1>2, <1>3, ClientGoesKeeps
     DEF Reserved, ClientGoes, Untouched, ClientAt
<1>4. CASE sched'.state[j] # "unknown"
  <2>1. client' = [client EXCEPT !.at = "polling", !.job = j, !.heard = sched'.state[j]]
    BY <1>4 DEF Reserved
  <2>2. sched'.state[j] \in JobState
    <3>1. sched' \in SchedulerType BY <1>2 DEF Consistent, Sane
    <3> QED BY <1>1, <3>1 DEF SchedulerType
  <2>3. /\ client' \in Clients /\ client'.at = "polling" /\ client'.job = j
        /\ client'.segments = client.segments /\ client'.try = client.try
        /\ client'.info = client.info /\ client'.final = client.final
    BY <1>1, <2>1, <2>2 DEF Clients, ClientAt
  <2>4. j # NoJob BY <1>1, SchedulerAssumption
  <2>5. HeardSoFar' = HeardSoFar BY <2>3 DEF HeardSoFar
  <2>6. ServerTyped' /\ ServingInPlace'
    BY <1>1 DEF RemoteInvariant, ServerTyped, ServingInPlace
  <2>7. ClientInPlace' BY <1>1, <2>3, <2>4 DEF RemoteInvariant, ClientInPlace
  <2>8. DocumentInPlace' BY <1>1, <2>3, <2>5 DEF RemoteInvariant, DocumentInPlace
  <2>9. EventsInPlace'
    <3>1. \A k \in Jobs : link[k] = "closed" /\ pipe[k] = << >>
      BY <1>1, SchedulerAssumption DEF RemoteInvariant, EventsInPlace
    <3> QED BY <1>1, <2>3, <3>1 DEF EventsInPlace
  <2> QED BY <1>2, <2>6, <2>7, <2>8, <2>9 DEF RemoteInvariant
<1> QED BY <1>3, <1>4

LEMMA PollsKeep ==
  ASSUME RemoteInvariant, Polls
  PROVE  RemoteInvariant'
<1>1. /\ client.at = "polling" /\ client.job \in Jobs /\ client \in Clients
      /\ Get(client.job, TRUE)
      /\ client' = [client EXCEPT !.heard = sched'.state[client.job]]
      /\ UNCHANGED <<canceller, doc, link, serve, pipe>>
  BY OwnIsJob DEF Polls, RemoteInvariant, ClientInPlace
<1>2. Consistent(sched)' BY <1>1, CallsAreConsistent DEF RemoteInvariant
<1>3. sched'.state[client.job] \in JobState
  <2>1. sched' \in SchedulerType BY <1>2 DEF Consistent, Sane
  <2> QED BY <1>1, <2>1 DEF SchedulerType
<1>4. /\ client' \in Clients /\ client'.at = client.at /\ client'.job = client.job
      /\ client'.segments = client.segments /\ client'.try = client.try
      /\ client'.info = client.info /\ client'.final = client.final
  BY <1>1, <1>3 DEF Clients
<1>5. HeardSoFar' = HeardSoFar BY <1>4 DEF HeardSoFar
<1>6. ServerTyped' /\ ServingInPlace'
  BY <1>1 DEF RemoteInvariant, ServerTyped, ServingInPlace
<1>7. ClientInPlace' BY <1>1, <1>4 DEF RemoteInvariant, ClientInPlace
<1>8. DocumentInPlace' BY <1>1, <1>4, <1>5 DEF RemoteInvariant, DocumentInPlace
<1>9. EventsInPlace' BY <1>1, <1>4 DEF RemoteInvariant, EventsInPlace
<1> QED BY <1>2, <1>6, <1>7, <1>8, <1>9 DEF RemoteInvariant

LEMMA CancelsItselfKeeps ==
  ASSUME RemoteInvariant, CancelsItself
  PROVE  RemoteInvariant'
<1>1. /\ client.at = "cancelling" /\ client.job \in Jobs /\ client \in Clients
      /\ client' = [client EXCEPT !.at = "failing"]
      /\ UNCHANGED <<canceller, doc, link, serve, pipe>>
  BY OwnIsJob DEF CancelsItself, RemoteInvariant, ClientInPlace
<1>2. Consistent(sched)'
  BY <1>1, CallsAreConsistent DEF CancelsItself, RemoteInvariant
<1>3. /\ client' \in Clients /\ client'.at = "failing" /\ client'.job = client.job
      /\ client'.segments = client.segments /\ client'.try = client.try
      /\ client'.info = client.info /\ client'.final = client.final
  BY <1>1 DEF Clients, ClientAt
<1>4. ServerTyped' /\ ServingInPlace'
  BY <1>1 DEF RemoteInvariant, ServerTyped, ServingInPlace
<1>5. ClientInPlace' BY <1>1, <1>3 DEF RemoteInvariant, ClientInPlace
<1>6. DocumentInPlace' BY <1>1, <1>3 DEF RemoteInvariant, DocumentInPlace
<1>7. EventsInPlace' BY <1>1, <1>3 DEF RemoteInvariant, EventsInPlace
<1> QED BY <1>2, <1>4, <1>5, <1>6, <1>7 DEF RemoteInvariant

LEMMA StartsUploadKeeps ==
  ASSUME RemoteInvariant, StartsUpload
  PROVE  RemoteInvariant'
<1> DEFINE j == client.job
<1>1. /\ client.at = "polling" /\ j \in Jobs /\ client \in Clients
      /\ client' = [client EXCEPT !.at = "uploading"]
      /\ link' = [link EXCEPT ![j] = "open"]
      /\ UNCHANGED <<canceller, doc, sched, serve, pipe>>
  BY OwnIsJob DEF StartsUpload, ClientGoes, RemoteInvariant, ClientInPlace
<1>2. /\ client' \in Clients /\ client'.at = "uploading" /\ client'.job = j
      /\ client'.segments = client.segments /\ client'.try = client.try
      /\ client'.info = client.info /\ client'.final = client.final
  BY <1>1 DEF Clients, ClientAt
<1>3. link \in [Jobs -> Links] BY DEF RemoteInvariant, ServerTyped
<1>4. link' \in [Jobs -> Links] /\ link'[j] = "open" /\ \A k \in Jobs : k # j => link'[k] = link[k]
  BY <1>1, <1>3 DEF Links
<1>5. HeardSoFar' = HeardSoFar BY <1>2 DEF HeardSoFar
<1>6. ServerTyped' /\ ServingInPlace' /\ Consistent(sched)'
  BY <1>1, <1>4 DEF RemoteInvariant, ServerTyped, ServingInPlace
<1>7. ClientInPlace' BY <1>1, <1>2 DEF RemoteInvariant, ClientInPlace
<1>8. DocumentInPlace' BY <1>1, <1>2, <1>5 DEF RemoteInvariant, DocumentInPlace
<1>9. EventsInPlace'
  BY <1>1, <1>2, <1>4 DEF RemoteInvariant, EventsInPlace, NotServing
<1> QED BY <1>6, <1>7, <1>8, <1>9 DEF RemoteInvariant

LEMMA UploadBreaksKeeps ==
  ASSUME RemoteInvariant, UploadBreaks
  PROVE  RemoteInvariant'
<1> DEFINE j == client.job
<1>1. /\ client.at = "uploading" /\ j \in Jobs /\ client \in Clients
      /\ client' = [client EXCEPT !.at = "failing"]
      /\ link' = [link EXCEPT ![j] = "closed"]
      /\ UNCHANGED <<canceller, doc, sched, serve, pipe>>
  BY OwnIsJob DEF UploadBreaks, ClientGoes, RemoteInvariant, ClientInPlace
<1>2. /\ client' \in Clients /\ client'.at = "failing" /\ client'.job = j
      /\ client'.segments = client.segments /\ client'.try = client.try
      /\ client'.info = client.info /\ client'.final = client.final
  BY <1>1 DEF Clients, ClientAt
<1>3. link \in [Jobs -> Links] BY DEF RemoteInvariant, ServerTyped
<1>4. link' \in [Jobs -> Links] /\ \A k \in Jobs : k # j => link'[k] = link[k]
  BY <1>1, <1>3 DEF Links
<1>5. ServerTyped' /\ ServingInPlace' /\ Consistent(sched)'
  BY <1>1, <1>4 DEF RemoteInvariant, ServerTyped, ServingInPlace
<1>6. ClientInPlace' BY <1>1, <1>2 DEF RemoteInvariant, ClientInPlace
<1>7. DocumentInPlace' BY <1>1, <1>2 DEF RemoteInvariant, DocumentInPlace
<1>8. EventsInPlace' BY <1>1, <1>2, <1>4 DEF RemoteInvariant, EventsInPlace
<1> QED BY <1>5, <1>6, <1>7, <1>8 DEF RemoteInvariant

LEMMA EndsKeeps ==
  ASSUME RemoteInvariant, Ends
  PROVE  RemoteInvariant'
<1> DEFINE j == client.job
<1>1. /\ client' = NewWorkflow
      /\ link' = [k \in Jobs |-> IF k = j THEN "closed" ELSE link[k]]
      /\ pipe' = [k \in Jobs |-> IF k = j THEN << >> ELSE pipe[k]]
      /\ UNCHANGED <<canceller, doc, sched, serve>>
  BY DEF Ends
<1>2. ServerTyped' /\ ServingInPlace' /\ Consistent(sched)'
  BY <1>1 DEF RemoteInvariant, ServerTyped, ServingInPlace, Links
<1>3. client' \in Clients BY <1>1, NewIsTyped
<1>4. ClientInPlace' BY <1>1, <1>3 DEF RemoteInvariant, ClientInPlace, NewWorkflow
<1>5. DocumentInPlace' BY <1>1 DEF NewWorkflow, DocumentInPlace
<1>6. EventsInPlace' BY <1>1 DEF RemoteInvariant, EventsInPlace, NewWorkflow
<1> QED BY <1>2, <1>4, <1>5, <1>6 DEF RemoteInvariant

-----------------------------------------------------------------------------
(* Reading an event.                                                       *)

LEMMA MessageKinds ==
  ASSUME NEW e \in Messages
  PROVE  /\ e.type \in {"task_started", "segment", "task_result", "result"}
         /\ e.type = "task_started" => e.retry \in BOOLEAN
         /\ e.type = "segment" => e.item \in 1 .. Items
         /\ e.type \in {"task_result", "result"} => e.ok \in BOOLEAN
BY DEF Messages

\* What the client and its document make of each kind of event, when it leads
\* from what has been heard to the stage c.
LEMMA StartIsHeard ==
  ASSUME RemoteInvariant, client.at = "reading", NEW e \in Messages,
         NEW c \in Stages, Leads(HeardSoFar, e, c), e.type = "task_started"
  PROVE  /\ ~client.info /\ ~client.final /\ client.try \in {0, 1}
         /\ e.retry = (client.try = 1)
         /\ Heard(client, e) = [client EXCEPT !.segments = << >>, !.info = FALSE,
                                              !.try = client.try + 1]
         /\ DocAfter(doc, e) = << >>
         /\ c = [try |-> client.try + 1, item |-> 0, result |-> "none", end |-> "none"]
<1>1. client.try \in 0 .. 2 /\ client.info \in BOOLEAN /\ client.final \in BOOLEAN
  BY DEF RemoteInvariant, ClientInPlace, Clients
<1>2. /\ ~client.info /\ ~client.final /\ client.try < 2
      /\ e.retry = (client.try = 1)
      /\ c = Trying(client.try + 1, 0)
  BY <1>1 DEF Leads, HeardSoFar
<1>3. client.try = 0 => doc = << >>
  BY DEF RemoteInvariant, DocumentInPlace
<1>4. Heard(client, e) = [client EXCEPT !.segments = << >>, !.info = FALSE,
                                        !.try = IF e.retry THEN 2 ELSE 1]
  BY DEF Heard
<1>5. c = [try |-> client.try + 1, item |-> 0, result |-> "none", end |-> "none"]
  BY <1>2 DEF Trying
<1>6. CASE client.try = 1
  <2>1. e.retry BY <1>2, <1>6
  <2>2. DocAfter(doc, e) = << >> BY <2>1 DEF DocAfter
  <2>3. (IF e.retry THEN 2 ELSE 1) = client.try + 1 BY <1>6, <2>1
  <2> QED BY <1>1, <1>2, <1>4, <1>5, <1>6, <2>2, <2>3
<1>7. CASE client.try = 0
  <2>1. ~e.retry
    <3>1. ~(client.try = 1) BY <1>7
    <3> QED BY <1>2, <3>1, Zenon
  <2>2. DocAfter(doc, e) = << >> BY <1>3, <1>7, <2>1 DEF DocAfter
  <2>3. (IF e.retry THEN 2 ELSE 1) = client.try + 1 BY <1>7, <2>1
  <2> QED BY <1>1, <1>2, <1>4, <1>5, <1>7, <2>2, <2>3
<1> QED BY <1>1, <1>2, <1>6, <1>7

LEMMA SegmentIsHeard ==
  ASSUME RemoteInvariant, client.at = "reading", NEW e \in Messages,
         NEW c \in Stages, Leads(HeardSoFar, e, c), e.type = "segment"
  PROVE  /\ ~client.info /\ ~client.final /\ client.try \in {1, 2}
         /\ Len(client.segments) < Items
         /\ Heard(client, e) = [client EXCEPT !.segments = Append(client.segments, e.item)]
         /\ DocAfter(doc, e) = Append(doc, e.item)
         /\ e.item = Len(client.segments) + 1 /\ e.item \in 1 .. Items
         /\ c = [try |-> client.try, item |-> Len(client.segments) + 1,
                 result |-> "none", end |-> "none"]
<1>1. /\ client.try \in 0 .. 2 /\ client.info \in BOOLEAN /\ client.final \in BOOLEAN
      /\ Len(client.segments) \in Nat /\ e.item \in 1 .. Items
  <2>1. client \in Clients BY DEF RemoteInvariant, ClientInPlace
  <2>2. client.segments \in Seq(1 .. Items) BY <2>1 DEF Clients
  <2>3. Len(client.segments) \in Nat BY <2>2
  <2>4. e.item \in 1 .. Items BY MessageKinds
  <2> QED BY <2>1, <2>3, <2>4 DEF Clients
<1>2. /\ ~client.info /\ ~client.final /\ client.try > 0
      /\ Len(client.segments) < Items
      /\ e.item = Len(client.segments) + 1
      /\ c = [HeardSoFar EXCEPT !.item = @ + 1]
  BY <1>1 DEF Leads, HeardSoFar
<1>3. Heard(client, e) = [client EXCEPT !.segments = Append(@, e.item)]
  BY DEF Heard
<1>4. DocAfter(doc, e) = Append(doc, e.item)
  BY DEF DocAfter
<1> QED BY <1>1, <1>2, <1>3, <1>4 DEF HeardSoFar

LEMMA TaskResultIsHeard ==
  ASSUME RemoteInvariant, client.at = "reading", NEW e \in Messages,
         NEW c \in Stages, Leads(HeardSoFar, e, c), e.type = "task_result"
  PROVE  /\ ~client.info /\ ~client.final /\ client.try \in {1, 2}
         /\ e.ok => /\ Heard(client, e) = [client EXCEPT !.info = TRUE]
                    /\ Len(client.segments) = Items
                    /\ c = [try |-> client.try, item |-> Len(client.segments),
                            result |-> "ok", end |-> "none"]
         /\ ~e.ok => Heard(client, e) = [client EXCEPT !.at = "failing"]
         /\ DocAfter(doc, e) = doc
<1>1. client.try \in 0 .. 2 /\ client.info \in BOOLEAN /\ client.final \in BOOLEAN
  BY DEF RemoteInvariant, ClientInPlace, Clients
<1>2. /\ ~client.info /\ ~client.final /\ client.try > 0
      /\ e.ok => Len(client.segments) = Items
      /\ c = [HeardSoFar EXCEPT !.result = Verdict(e.ok)]
  BY <1>1 DEF Leads, HeardSoFar
<1>3. Heard(client, e) = IF e.ok THEN [client EXCEPT !.info = TRUE]
                                 ELSE [client EXCEPT !.at = "failing"]
  BY DEF Heard
<1>4. DocAfter(doc, e) = doc
  BY DEF DocAfter
<1> QED BY <1>1, <1>2, <1>3, <1>4 DEF HeardSoFar, Verdict

LEMMA ResultIsHeard ==
  ASSUME RemoteInvariant, client.at = "reading", NEW e \in Messages,
         NEW c \in Stages, Leads(HeardSoFar, e, c), e.type = "result"
  PROVE  /\ ~client.final
         /\ e.ok => /\ Heard(client, e) = [client EXCEPT !.final = TRUE]
                    /\ client.info
                    /\ c = [try |-> client.try, item |-> Len(client.segments),
                            result |-> "ok", end |-> "ok"]
         /\ ~e.ok => Heard(client, e) = [client EXCEPT !.at = "failing"]
         /\ DocAfter(doc, e) = doc
<1>1. client.try \in 0 .. 2 /\ client.info \in BOOLEAN /\ client.final \in BOOLEAN
  BY DEF RemoteInvariant, ClientInPlace, Clients
<1>2. /\ ~client.final
      /\ e.ok => client.info
      /\ c = [HeardSoFar EXCEPT !.end = Verdict(e.ok)]
  BY <1>1 DEF Leads, HeardSoFar
<1>3. Heard(client, e) = IF e.ok THEN [client EXCEPT !.final = TRUE]
                                 ELSE [client EXCEPT !.at = "failing"]
  BY DEF Heard
<1>4. DocAfter(doc, e) = doc
  BY DEF DocAfter
<1> QED BY <1>1, <1>2, <1>3, <1>4 DEF HeardSoFar, Verdict

\* The first event under way leads to a stage from which the others lead on.
LEMMA FirstLeads ==
  ASSUME RemoteInvariant, Reads
  PROVE  LET j == client.job
         IN  /\ j \in Jobs /\ pipe[j] \in Seq(Messages) /\ pipe[j] # << >>
             /\ Head(pipe[j]) \in Messages /\ Tail(pipe[j]) \in Seq(Messages)
             /\ \E c, b \in Stages :
                  /\ Leads(HeardSoFar, Head(pipe[j]), c)
                  /\ Path(c, Tail(pipe[j]), b)
                  /\ link[j] = "streaming" =>
                       b = DoneSoFar(j) /\ serve[j].at \in {"working", "done", "broken"}
                  /\ link[j] = "ended" => b.end # "none"
<1> DEFINE j == client.job
<1>1. j \in Jobs /\ client.at = "reading" /\ pipe[j] # << >> /\ ServerTyped
  BY OwnIsJob DEF Reads, RemoteInvariant, ClientInPlace
<1>2. /\ pipe[j] \in Seq(Messages) /\ Head(pipe[j]) \in Messages
      /\ Tail(pipe[j]) \in Seq(Messages)
  <2>1. pipe[j] \in Seq(Messages) BY <1>1 DEF ServerTyped
  <2> QED BY <1>1, <2>1
<1>3. PICK b : /\ Path(HeardSoFar, pipe[j], b)
               /\ link[j] = "streaming" =>
                    b = DoneSoFar(j) /\ serve[j].at \in {"working", "done", "broken"}
               /\ link[j] = "ended" => b.end # "none"
  BY <1>1 DEF RemoteInvariant, EventsInPlace
<1>4. HeardSoFar \in Stages /\ b \in Stages BY <1>2, <1>3, PathStarts
<1>5. PICK c \in Stages : Leads(HeardSoFar, Head(pipe[j]), c) /\ Path(c, Tail(pipe[j]), b)
  BY <1>1, <1>2, <1>3, <1>4, OneLessLeads
<1> QED BY <1>1, <1>2, <1>3, <1>4, <1>5

LEMMA ReadsKeep ==
  ASSUME RemoteInvariant, Reads
  PROVE  RemoteInvariant'
<1> DEFINE j == client.job
           e == Head(pipe[j])
<1>1. /\ client.at = "reading" /\ client \in Clients /\ j # NoJob
      /\ client' = Heard(client, e) /\ doc' = DocAfter(doc, e)
      /\ pipe' = [pipe EXCEPT ![j] = Tail(@)]
      /\ UNCHANGED <<canceller, sched, link, serve>>
      /\ doc = client.segments /\ client.segments \in Seq(1 .. Items)
      /\ client.try = 0 => client.segments = << >>
      /\ client.info => Len(client.segments) = Items
      /\ client.final => client.info
      /\ client.try \in 0 .. 2
  BY DEF Reads, RemoteInvariant, ClientInPlace, DocumentInPlace, Clients
<1>2. /\ j \in Jobs /\ e \in Messages /\ Tail(pipe[j]) \in Seq(Messages)
  BY FirstLeads
<1>3. PICK c, b \in Stages :
        /\ Leads(HeardSoFar, e, c)
        /\ Path(c, Tail(pipe[j]), b)
        /\ link[j] = "streaming" =>
             b = DoneSoFar(j) /\ serve[j].at \in {"working", "done", "broken"}
        /\ link[j] = "ended" => b.end # "none"
  BY FirstLeads
<1>4. /\ pipe' \in [Jobs -> Seq(Messages)] /\ pipe'[j] = Tail(pipe[j])
      /\ \A k \in Jobs : k # j => pipe'[k] = pipe[k]
  BY <1>1, <1>2 DEF RemoteInvariant, ServerTyped
<1> HIDE DEF e
<1>5. /\ client' \in Clients /\ client'.at \in {"reading", "failing"} /\ client'.job = j
      /\ doc' = client'.segments
      /\ client'.try = 0 => client'.segments = << >>
      /\ client'.info => Len(client'.segments) = Items
      /\ client'.final => client'.info
      /\ client'.at = "reading" => HeardSoFar' = c
  <2>1. CASE e.type = "task_started"
    <3>1. /\ client' = [client EXCEPT !.segments = << >>, !.info = FALSE,
                                      !.try = client.try + 1]
          /\ doc' = << >> /\ ~client.final /\ client.try \in {0, 1}
          /\ c = [try |-> client.try + 1, item |-> 0, result |-> "none", end |-> "none"]
      BY <1>1, <1>2, <1>3, <2>1, StartIsHeard
    <3>2. /\ client' \in Clients /\ client'.at = "reading" /\ client'.job = j
          /\ client'.segments = << >> /\ ~client'.info /\ ~client'.final
          /\ client'.try = client.try + 1 /\ client'.try # 0
      <4>1. << >> \in Seq(1 .. Items) OBVIOUS
      <4>2. client.try + 1 \in 0 .. 2 BY <3>1
      <4>3. client' = [at |-> client.at, job |-> client.job, heard |-> client.heard,
                       segments |-> << >>, try |-> client.try + 1, info |-> FALSE,
                       final |-> client.final]
        BY <1>1, <3>1 DEF Clients
      <4>4. client' \in Clients
        <5>1. /\ client.at \in ClientAt /\ client.job \in Own \cup {NoJob}
              /\ client.heard \in JobState \cup {""} /\ client.final \in BOOLEAN
          BY <1>1 DEF Clients
        <5> HIDE <1>1, <3>1
        <5> QED BY <5>1, <4>1, <4>2, <4>3 DEF Clients
      <4>5. client.try + 1 # 0 BY <3>1
      <4> QED BY <1>1, <3>1, <4>3, <4>4, <4>5
    <3>3. HeardSoFar' = c BY <3>1, <3>2 DEF HeardSoFar
    <3> QED BY <3>1, <3>2, <3>3
  <2>2. CASE e.type = "segment"
    <3>1. /\ client' = [client EXCEPT !.segments = Append(client.segments, e.item)]
          /\ doc' = Append(doc, e.item) /\ ~client.final /\ ~client.info
          /\ client.try # 0 /\ e.item \in 1 .. Items
          /\ c = [try |-> client.try, item |-> Len(client.segments) + 1,
                  result |-> "none", end |-> "none"]
      BY <1>1, <1>2, <1>3, <2>2, SegmentIsHeard
    <3>2. /\ Append(client.segments, e.item) \in Seq(1 .. Items)
          /\ Len(Append(client.segments, e.item)) = Len(client.segments) + 1
      BY <1>1, <3>1
    <3>3. /\ client' \in Clients /\ client'.at = "reading" /\ client'.job = j
          /\ client'.segments = Append(client.segments, e.item)
          /\ ~client'.info /\ ~client'.final /\ client'.try = client.try
      BY <1>1, <3>1, <3>2 DEF Clients
    <3>4. HeardSoFar' = c BY <3>1, <3>2, <3>3 DEF HeardSoFar
    <3> QED BY <1>1, <3>1, <3>3, <3>4
  <2>3. CASE e.type = "task_result" /\ e.ok
    <3>1. /\ client' = [client EXCEPT !.info = TRUE]
          /\ doc' = doc /\ ~client.final /\ Len(client.segments) = Items
          /\ c = [try |-> client.try, item |-> Len(client.segments),
                  result |-> "ok", end |-> "none"]
      BY <1>1, <1>2, <1>3, <2>3, TaskResultIsHeard
    <3>2. /\ client' \in Clients /\ client'.at = "reading" /\ client'.job = j
          /\ client'.segments = client.segments
          /\ client'.info /\ ~client'.final /\ client'.try = client.try
      BY <1>1, <3>1 DEF Clients
    <3>3. HeardSoFar' = c BY <3>1, <3>2 DEF HeardSoFar
    <3> QED BY <1>1, <3>1, <3>2, <3>3
  <2>4. CASE e.type = "result" /\ e.ok
    <3>1. /\ client' = [client EXCEPT !.final = TRUE]
          /\ doc' = doc /\ client.info
          /\ c = [try |-> client.try, item |-> Len(client.segments),
                  result |-> "ok", end |-> "ok"]
      BY <1>1, <1>2, <1>3, <2>4, ResultIsHeard
    <3>2. /\ client' \in Clients /\ client'.at = "reading" /\ client'.job = j
          /\ client'.segments = client.segments
          /\ client'.info /\ client'.final /\ client'.try = client.try
      BY <1>1, <3>1 DEF Clients
    <3>3. HeardSoFar' = c BY <3>1, <3>2 DEF HeardSoFar
    <3> QED BY <1>1, <3>1, <3>2, <3>3
  <2>5. CASE e.type \in {"task_result", "result"} /\ ~e.ok
    <3>1. client' = [client EXCEPT !.at = "failing"] /\ doc' = doc
      BY <1>1, <1>2, <1>3, <2>5, TaskResultIsHeard, ResultIsHeard
    <3>2. /\ client' \in Clients /\ client'.at = "failing" /\ client'.job = j
          /\ client'.segments = client.segments
          /\ client'.info = client.info /\ client'.final = client.final
          /\ client'.try = client.try
      BY <1>1, <3>1 DEF Clients, ClientAt
    <3> QED BY <1>1, <3>1, <3>2
  <2> QED BY <1>2, <2>1, <2>2, <2>3, <2>4, <2>5, MessageKinds
<1>6. ServerTyped' /\ ServingInPlace' /\ Consistent(sched)'
  BY <1>1, <1>4 DEF RemoteInvariant, ServerTyped, ServingInPlace
<1>7. ClientInPlace' BY <1>1, <1>5 DEF RemoteInvariant, ClientInPlace
<1>8. DocumentInPlace' BY <1>5 DEF DocumentInPlace
<1>9. EventsInPlace'
  <2>1. \A k \in Jobs : k # client'.job => link'[k] = "closed" /\ pipe'[k] = << >>
    BY <1>1, <1>4, <1>5 DEF RemoteInvariant, EventsInPlace
  <2>2. link'[client'.job] \in {"streaming", "ended"}
    BY <1>1, <1>5 DEF RemoteInvariant, EventsInPlace
  <2>3. DoneSoFar(j)' = DoneSoFar(j) BY <1>1, <1>5 DEF DoneSoFar
  <2> QED BY <1>1, <1>3, <1>4, <1>5, <2>1, <2>2, <2>3 DEF EventsInPlace, DoneSoFar
<1> QED BY <1>6, <1>7, <1>8, <1>9 DEF RemoteInvariant

-----------------------------------------------------------------------------
(* The server's steps.                                                     *)

\* A step for the job j leaves the other jobs alone.
OnlyOf(j) ==
  \A k \in Jobs : k # j =>
    link'[k] = link[k] /\ serve'[k] = serve[k] /\ pipe'[k] = pipe[k]

\* What is left to show of a step of the server.
LEMMA ServerKeeps ==
  ASSUME RemoteInvariant, NEW j \in Own, UNCHANGED <<client, canceller, doc>>,
         Consistent(sched)', ServerTyped', OnlyOf(j),
         /\ serve'[j].at \in {"none", "receiving"} =>
              serve'[j].try = 0 /\ serve'[j].item = 0
         /\ serve'[j].try = 0 =>
              serve'[j].item = 0 /\ serve'[j].at \notin {"done", "broken"}
         /\ serve'[j].at = "done" => serve'[j].item = Items,
         client.job # j => link'[j] = "closed" /\ pipe'[j] = << >>,
         client.job = j => EventsInPlace'
  PROVE  RemoteInvariant'
<1>1. ClientInPlace' /\ DocumentInPlace'
  BY DEF RemoteInvariant, ClientInPlace, DocumentInPlace, HeardSoFar
<1>2. ServingInPlace'
  BY DEF RemoteInvariant, ServingInPlace, OnlyOf
<1>3. CASE client.job # j
  <2>1. client'.job = client.job /\ client'.at = client.at /\ HeardSoFar' = HeardSoFar
    BY DEF HeardSoFar
  <2>2. \A k \in Jobs : k # client.job => link'[k] = "closed" /\ pipe'[k] = << >>
    BY <1>3 DEF RemoteInvariant, EventsInPlace, OnlyOf
  <2>3. client.job \in Jobs =>
          /\ link'[client.job] = link[client.job] /\ serve'[client.job] = serve[client.job]
          /\ pipe'[client.job] = pipe[client.job]
          /\ DoneSoFar(client.job)' = DoneSoFar(client.job)
    BY <1>3 DEF OnlyOf, DoneSoFar
  <2>4. client.at \in {"polling", "uploading", "reading"} => client.job \in Jobs
    BY OwnIsJob DEF RemoteInvariant, ClientInPlace
  <2>5. EventsInPlace'
    BY <2>1, <2>2, <2>3, <2>4 DEF RemoteInvariant, EventsInPlace
  <2> QED BY <1>1, <1>2, <2>5 DEF RemoteInvariant
<1>4. CASE client.job = j
  BY <1>1, <1>2, <1>4 DEF RemoteInvariant
<1> QED BY <1>3, <1>4

\* What everybody knows of the job of a step.
LEMMA ServedJob ==
  ASSUME RemoteInvariant, NEW j \in Own
  PROVE  /\ j \in Jobs /\ j # NoJob /\ link \in [Jobs -> Links]
         /\ serve \in [Jobs -> Servings] /\ pipe \in [Jobs -> Seq(Messages)]
         /\ serve[j] \in Servings
         /\ serve[j].at \in {"none", "receiving"} =>
              serve[j].try = 0 /\ serve[j].item = 0
         /\ serve[j].try = 0 =>
              serve[j].item = 0 /\ serve[j].at \notin {"done", "broken"}
         /\ serve[j].at = "done" => serve[j].item = Items
         /\ client.job # j => link[j] = "closed" /\ pipe[j] = << >>
<1>1. j \in Jobs /\ j # NoJob BY SchedulerAssumption DEF Own
<1> QED BY <1>1 DEF RemoteInvariant, ServerTyped, ServingInPlace, EventsInPlace

LEMMA UploadArrivesKeeps ==
  ASSUME RemoteInvariant, NEW j \in Own, UploadArrives(j)
  PROVE  RemoteInvariant'
<1>1. /\ j \in Jobs /\ link \in [Jobs -> Links] /\ serve \in [Jobs -> Servings]
      /\ link[j] = "open" /\ serve[j] \in Servings /\ serve[j].at = "none"
      /\ serve[j].try = 0 /\ serve[j].item = 0 /\ client.job = j
  BY ServedJob DEF UploadArrives
<1>2. UNCHANGED <<client, canceller, doc, pipe>> /\ BeginUpload(j)
  BY DEF UploadArrives
<1>3. Consistent(sched)' BY <1>1, <1>2, CallsAreConsistent DEF RemoteInvariant
<1>4. /\ link' \in [Jobs -> Links] /\ serve' \in [Jobs -> Servings] /\ OnlyOf(j)
      /\ link'[j] \in {"open", "refused"}
      /\ serve'[j].at \in {"none", "receiving"}
      /\ serve'[j].try = 0 /\ serve'[j].item = 0
  <2>1. CASE UNCHANGED link /\ serve' = [serve EXCEPT ![j] = [@ EXCEPT !.at = "receiving"]]
    <3>1. [serve[j] EXCEPT !.at = "receiving"] \in Servings BY <1>1 DEF Servings
    <3>2. /\ [serve[j] EXCEPT !.at = "receiving"].at = "receiving"
          /\ [serve[j] EXCEPT !.at = "receiving"].try = 0
          /\ [serve[j] EXCEPT !.at = "receiving"].item = 0
      BY <1>1 DEF Servings
    <3> QED BY <1>1, <1>2, <2>1, <3>1, <3>2 DEF OnlyOf
  <2>2. CASE UNCHANGED serve /\ link' = [link EXCEPT ![j] = "refused"]
    BY <1>1, <1>2, <2>2 DEF OnlyOf, Links
  <2> QED BY <2>1, <2>2 DEF UploadArrives, Serves
<1>5. ServerTyped' BY <1>2, <1>4 DEF RemoteInvariant, ServerTyped
<1>6. EventsInPlace'
  BY <1>1, <1>2, <1>4 DEF RemoteInvariant, EventsInPlace, OnlyOf, NotServing
<1> QED BY <1>1, <1>2, <1>3, <1>4, <1>5, <1>6, ServerKeeps

LEMMA UploadCompleteKeeps ==
  ASSUME RemoteInvariant, NEW j \in Own, UploadComplete(j)
  PROVE  RemoteInvariant'
<1>1. /\ j \in Jobs /\ link \in [Jobs -> Links] /\ serve \in [Jobs -> Servings]
      /\ link[j] = "open" /\ serve[j] \in Servings /\ serve[j].at = "receiving"
      /\ serve[j].try = 0 /\ serve[j].item = 0 /\ client.job = j
  BY ServedJob DEF UploadComplete
<1>2. /\ UNCHANGED <<client, canceller, doc, pipe>> /\ BeginProcessing(j)
      /\ link' = [link EXCEPT ![j] = "streaming"]
      /\ serve' = [serve EXCEPT ![j] = [@ EXCEPT !.at = "working"]]
  BY DEF UploadComplete, Serves
<1>3. Consistent(sched)' BY <1>1, <1>2, CallsAreConsistent DEF RemoteInvariant, Owner
<1>4. /\ link' \in [Jobs -> Links] /\ serve' \in [Jobs -> Servings] /\ OnlyOf(j)
      /\ link'[j] = "streaming" /\ serve'[j].at = "working"
      /\ serve'[j].try = 0 /\ serve'[j].item = 0
  <2>1. [serve[j] EXCEPT !.at = "working"] \in Servings BY <1>1 DEF Servings
  <2>2. /\ [serve[j] EXCEPT !.at = "working"].at = "working"
        /\ [serve[j] EXCEPT !.at = "working"].try = 0
        /\ [serve[j] EXCEPT !.at = "working"].item = 0
    BY <1>1 DEF Servings
  <2> QED BY <1>1, <1>2, <2>1, <2>2 DEF OnlyOf, Links
<1>5. ServerTyped' BY <1>2, <1>4 DEF RemoteInvariant, ServerTyped
<1>6. client.at # "polling" /\ client.at # "reading"
  BY <1>1 DEF RemoteInvariant, EventsInPlace
<1>7. client.at = "uploading" => Path(HeardSoFar, pipe[j], DoneSoFar(j))'
  <2>1. SUFFICES ASSUME client.at = "uploading"
                 PROVE  Path(HeardSoFar, pipe[j], DoneSoFar(j))'
    OBVIOUS
  <2>2. HeardSoFar' = Start
    BY <1>2, <2>1 DEF RemoteInvariant, DocumentInPlace, HeardSoFar
  <2>3. pipe'[j] = << >>
    BY <1>1, <1>2, <2>1 DEF RemoteInvariant, EventsInPlace
  <2>4. DoneSoFar(j)' = Start BY <1>4 DEF DoneSoFar, Start, Trying
  <2> QED BY <2>2, <2>3, <2>4, NothingLeads, StartIsStage
<1>8. EventsInPlace'
  BY <1>1, <1>2, <1>4, <1>6, <1>7 DEF RemoteInvariant, EventsInPlace, OnlyOf
<1> QED BY <1>1, <1>2, <1>3, <1>4, <1>5, <1>8, ServerKeeps

LEMMA UploadWithdrawnKeeps ==
  ASSUME RemoteInvariant, NEW j \in Own, UploadWithdrawn(j)
  PROVE  RemoteInvariant'
<1>1. /\ j \in Jobs /\ link \in [Jobs -> Links] /\ serve \in [Jobs -> Servings]
      /\ serve[j].at = "receiving"
      /\ client.job # j => link[j] = "closed" /\ pipe[j] = << >>
  BY ServedJob DEF UploadWithdrawn
<1>2. /\ UNCHANGED <<client, canceller, doc, pipe>>
      /\ sched' = CancelFinished(Cancelled(Reap(sched), j), j)
      /\ serve' = [serve EXCEPT ![j] = NotServing]
      /\ link' = [link EXCEPT ![j] = IF @ = "open" THEN "refused" ELSE @]
  BY DEF UploadWithdrawn
<1>3. Consistent(sched)'
  <2> DEFINE s == Cancelled(Reap(sched), j)
  <2>1. Consistent(s)
    BY <1>1, ReapIsConsistent, CancelledIsConsistent DEF RemoteInvariant
  <2> HIDE DEF s
  <2>2. CASE s.state[j] = "cancelling"
    <3>1. "cancelled" \in TerminalStates /\ s.state[j] \in SlotStates \cup {"queued"}
      BY <2>2 DEF TerminalStates, SlotStates, OwnedStates
    <3>2. Consistent(End(s, j, "cancelled")) BY <1>1, <2>1, <3>1, EndIsConsistent
    <3>3. sched' = End(s, j, "cancelled") BY <1>2, <2>2 DEF CancelFinished, s
    <3> QED BY <3>2, <3>3
  <2>3. CASE s.state[j] # "cancelling"
    <3>1. sched' = s BY <1>2, <2>3 DEF CancelFinished, s
    <3> QED BY <2>1, <3>1
  <2> QED BY <2>2, <2>3
<1>4. NotServing \in Servings /\ NotServing.at = "none"
      /\ NotServing.try = 0 /\ NotServing.item = 0
  BY ClientAssumption DEF NotServing, Servings
<1>5. /\ link' \in [Jobs -> Links] /\ serve' \in [Jobs -> Servings] /\ OnlyOf(j)
      /\ serve'[j] = NotServing
      /\ link'[j] = IF link[j] = "open" THEN "refused" ELSE link[j]
  BY <1>1, <1>2, <1>4 DEF OnlyOf, Links
<1>6. ServerTyped' BY <1>2, <1>5 DEF RemoteInvariant, ServerTyped
<1>7. client.job = j => EventsInPlace'
  <2>1. SUFFICES ASSUME client.job = j PROVE EventsInPlace'
    OBVIOUS
  <2>2. HeardSoFar' = HeardSoFar BY <1>2 DEF HeardSoFar
  <2>3. client.at \in {"uploading", "reading"} => link[j] # "streaming"
    BY <1>1, <2>1 DEF RemoteInvariant, EventsInPlace
  <2>4. client.at # "polling"
    BY <1>1, <2>1, <1>4 DEF RemoteInvariant, EventsInPlace
  <2> QED BY <1>1, <1>2, <1>5, <2>1, <2>2, <2>3, <2>4
          DEF RemoteInvariant, EventsInPlace, OnlyOf
<1> QED BY <1>1, <1>2, <1>3, <1>4, <1>5, <1>6, <1>7, ServerKeeps

\* An event goes to the end of a connection that streams.
LEMMA SentIsLast ==
  ASSUME RemoteInvariant, NEW j \in Own, NEW e \in Messages, Sends(j, e)
  PROVE  /\ pipe' \in [Jobs -> Seq(Messages)]
         /\ \A k \in Jobs : k # j => pipe'[k] = pipe[k]
         /\ link[j] = "streaming" => pipe'[j] = Append(pipe[j], e)
         /\ link[j] # "streaming" => pipe'[j] = pipe[j]
<1>1. j \in Jobs /\ pipe \in [Jobs -> Seq(Messages)] BY ServedJob
<1>2. Append(pipe[j], e) \in Seq(Messages) BY <1>1
<1> QED BY <1>1, <1>2 DEF Sends

LEMMA TryingLeads ==
  ASSUME NEW try \in 0 .. 2, NEW item \in 0 .. Items, NEW e \in Messages
  PROVE  /\ e.type = "task_started" /\ try < 2 /\ e.retry = (try = 1) =>
              Leads(Trying(try, item), e, Trying(try + 1, 0))
         /\ e.type = "segment" /\ try > 0 /\ item < Items /\ e.item = item + 1 =>
              Leads(Trying(try, item), e, Trying(try, item + 1))
         /\ e.type = "task_result" /\ try > 0 /\ (e.ok => item = Items) =>
              Leads(Trying(try, item), e,
                    [Trying(try, item) EXCEPT !.result = Verdict(e.ok)])
<1> DEFINE a == Trying(try, item)
<1>1. a.try = try /\ a.item = item /\ a.result = "none" /\ a.end = "none"
  BY DEF Trying
<1>2. [a EXCEPT !.item = @ + 1] = Trying(try, item + 1)
  BY DEF Trying
<1> HIDE DEF a
<1>3. e.type = "task_started" /\ try < 2 /\ e.retry = (try = 1) =>
        Leads(a, e, Trying(try + 1, 0))
  <2>1. SUFFICES ASSUME e.type = "task_started", try < 2, e.retry = (try = 1)
                 PROVE  Leads(a, e, Trying(try + 1, 0))
    OBVIOUS
  <2>2. a.try < 2 /\ Trying(a.try + 1, 0) = Trying(try + 1, 0) BY <1>1, <2>1
  <2>3. e.retry = (a.try = 1) BY <1>1, <2>1
  <2> QED BY <1>1, <2>1, <2>2, <2>3, Zenon DEF Leads
<1>4. e.type = "segment" /\ try > 0 /\ item < Items /\ e.item = item + 1 =>
        Leads(a, e, Trying(try, item + 1))
  BY <1>1, <1>2 DEF Leads
<1>5. e.type = "task_result" /\ try > 0 /\ (e.ok => item = Items) =>
        Leads(a, e, [a EXCEPT !.result = Verdict(e.ok)])
  <2>1. SUFFICES ASSUME e.type = "task_result", try > 0, e.ok => item = Items
                 PROVE  Leads(a, e, [a EXCEPT !.result = Verdict(e.ok)])
    OBVIOUS
  <2>2. a.try > 0 /\ (e.ok => a.item = Items) BY <1>1, <2>1, Zenon
  <2> QED BY <1>1, <2>1, <2>2, Zenon DEF Leads
<1> QED BY <1>3, <1>4, <1>5 DEF a

\* Each thing that the job's thread tells leads on from what it has done.
LEMMA WorkLeads ==
  ASSUME RemoteInvariant, NEW j \in Own, Works(j)
  PROVE  /\ serve' \in [Jobs -> Servings]
         /\ \A k \in Jobs : k # j => serve'[k] = serve[k]
         /\ serve'[j].try > 0 /\ serve'[j].at \in {"working", "done", "broken"}
         /\ serve'[j].at = "done" => serve'[j].item = Items
         /\ \E e \in Messages :
              Sends(j, e) /\ Leads(DoneSoFar(j), e, DoneSoFar(j)')
<1>1. /\ j \in Jobs /\ serve \in [Jobs -> Servings] /\ serve[j] \in Servings
      /\ serve[j].at = "working"
      /\ serve[j].try \in 0 .. 2 /\ serve[j].item \in 0 .. Items
  BY ServedJob DEF Works, Servings
<1>2. DoneSoFar(j) = Trying(serve[j].try, serve[j].item)
  BY <1>1 DEF DoneSoFar, Trying
<1>3. Items \in Nat /\ Items > 0 BY ClientAssumption
<1>4. CASE /\ serve[j].try < 2
           /\ serve' = [serve EXCEPT ![j].try = @ + 1, ![j].item = 0]
           /\ Sends(j, [type |-> "task_started", retry |-> serve[j].try = 1])
  <2> DEFINE e == [type |-> "task_started", retry |-> serve[j].try = 1]
             w == [serve[j] EXCEPT !.try = @ + 1, !.item = 0]
  <2>1. /\ w \in Servings /\ w.at = "working" /\ w.try = serve[j].try + 1
        /\ w.item = 0 /\ w.try > 0
    <3>1. serve[j].try + 1 \in 0 .. 2 /\ serve[j].try + 1 > 0 /\ 0 \in 0 .. Items
      BY <1>1, <1>3, <1>4
    <3> QED BY <1>1, <3>1 DEF Servings
  <2>2. serve' = [serve EXCEPT ![j] = w] BY <1>1, <1>4
  <2>3. e \in Messages /\ e.type = "task_started" /\ e.retry = (serve[j].try = 1)
    <3>1. (serve[j].try = 1) \in BOOLEAN OBVIOUS
    <3> QED BY <3>1 DEF Messages
  <2> HIDE DEF w
  <2>4. serve'[j] = w BY <1>1, <2>2
  <2>5. DoneSoFar(j)' = Trying(serve[j].try + 1, 0)
    BY <2>1, <2>4 DEF DoneSoFar, Trying
  <2>6. Leads(DoneSoFar(j), e, DoneSoFar(j)')
    <3> HIDE DEF e
    <3> QED BY <1>1, <1>2, <1>4, <2>3, <2>5, TryingLeads
  <2> QED BY <1>1, <1>4, <2>1, <2>2, <2>3, <2>4, <2>6
<1>5. CASE /\ serve[j].try > 0 /\ serve[j].item < Items
           /\ serve' = [serve EXCEPT ![j].item = @ + 1]
           /\ Sends(j, [type |-> "segment", item |-> serve[j].item + 1])
  <2> DEFINE e == [type |-> "segment", item |-> serve[j].item + 1]
             w == [serve[j] EXCEPT !.item = @ + 1]
  <2>1. /\ w \in Servings /\ w.at = "working" /\ w.try = serve[j].try
        /\ w.item = serve[j].item + 1
    BY <1>1, <1>3, <1>5 DEF Servings
  <2>2. serve' = [serve EXCEPT ![j] = w] BY <1>1, <1>5
  <2>3. e \in Messages /\ e.type = "segment" /\ e.item = serve[j].item + 1
    BY <1>1, <1>3, <1>5 DEF Messages
  <2> HIDE DEF e, w
  <2>4. serve'[j] = w BY <1>1, <2>2
  <2>5. DoneSoFar(j)' = Trying(serve[j].try, serve[j].item + 1)
    BY <2>1, <2>4 DEF DoneSoFar, Trying
  <2>6. Leads(DoneSoFar(j), e, DoneSoFar(j)')
    BY <1>1, <1>2, <1>5, <2>3, <2>5, TryingLeads
  <2> QED BY <1>1, <1>5, <2>1, <2>2, <2>3, <2>4, <2>6 DEF e
<1>6. CASE /\ serve[j].try > 0 /\ serve[j].item = Items
           /\ Serves(j, "done")
           /\ Sends(j, [type |-> "task_result", ok |-> TRUE])
  <2> DEFINE e == [type |-> "task_result", ok |-> TRUE]
             w == [serve[j] EXCEPT !.at = "done"]
  <2>1. /\ w \in Servings /\ w.at = "done" /\ w.try = serve[j].try
        /\ w.item = serve[j].item
    BY <1>1 DEF Servings
  <2>2. serve' = [serve EXCEPT ![j] = w] BY <1>1, <1>6 DEF Serves
  <2>3. e \in Messages /\ e.type = "task_result" /\ e.ok BY DEF Messages
  <2> HIDE DEF e, w
  <2>4. serve'[j] = w BY <1>1, <2>2
  <2>5. DoneSoFar(j)' = [Trying(serve[j].try, serve[j].item) EXCEPT !.result = "ok"]
    BY <2>1, <2>4 DEF DoneSoFar, Trying
  <2>6. Verdict(e.ok) = "ok" BY <2>3 DEF Verdict
  <2>7. Leads(DoneSoFar(j), e, DoneSoFar(j)')
    <3>1. e.ok => serve[j].item = Items BY <1>6
    <3>2. Leads(Trying(serve[j].try, serve[j].item), e,
                [Trying(serve[j].try, serve[j].item) EXCEPT !.result = Verdict(e.ok)])
      BY <1>1, <1>6, <2>3, <3>1, TryingLeads, Zenon
    <3> QED BY <1>2, <2>5, <2>6, <3>2
  <2> QED BY <1>1, <1>6, <2>1, <2>2, <2>3, <2>4, <2>7 DEF e
<1>7. CASE /\ serve[j].try > 0
           /\ Serves(j, "broken")
           /\ Sends(j, [type |-> "task_result", ok |-> FALSE])
  <2> DEFINE e == [type |-> "task_result", ok |-> FALSE]
             w == [serve[j] EXCEPT !.at = "broken"]
  <2>1. /\ w \in Servings /\ w.at = "broken" /\ w.try = serve[j].try
        /\ w.item = serve[j].item
    BY <1>1 DEF Servings
  <2>2. serve' = [serve EXCEPT ![j] = w] BY <1>1, <1>7 DEF Serves
  <2>3. e \in Messages /\ e.type = "task_result" /\ ~e.ok BY DEF Messages
  <2> HIDE DEF e, w
  <2>4. serve'[j] = w BY <1>1, <2>2
  <2>5. DoneSoFar(j)' = [Trying(serve[j].try, serve[j].item) EXCEPT !.result = "bad"]
    BY <2>1, <2>4 DEF DoneSoFar, Trying
  <2>6. Verdict(e.ok) = "bad" BY <2>3 DEF Verdict
  <2>7. Leads(DoneSoFar(j), e, DoneSoFar(j)')
    BY <1>1, <1>2, <1>7, <2>3, <2>5, <2>6, TryingLeads
  <2> QED BY <1>1, <1>7, <2>1, <2>2, <2>3, <2>4, <2>7 DEF e
<1> QED BY <1>4, <1>5, <1>6, <1>7 DEF Works

LEMMA WorksKeeps ==
  ASSUME RemoteInvariant, NEW j \in Own, Works(j)
  PROVE  RemoteInvariant'
<1>1. /\ j \in Jobs /\ link \in [Jobs -> Links] /\ pipe[j] \in Seq(Messages)
      /\ serve[j].at = "working" /\ ServerTyped
      /\ client.job # j => link[j] = "closed" /\ pipe[j] = << >>
      /\ UNCHANGED <<client, canceller, doc, sched, link>>
  BY ServedJob DEF Works, RemoteInvariant
<1>2. /\ serve' \in [Jobs -> Servings]
      /\ \A k \in Jobs : k # j => serve'[k] = serve[k]
      /\ serve'[j].try > 0 /\ serve'[j].at \in {"working", "done", "broken"}
      /\ serve'[j].at = "done" => serve'[j].item = Items
  BY WorkLeads
<1>3. PICK e \in Messages : Sends(j, e) /\ Leads(DoneSoFar(j), e, DoneSoFar(j)')
  BY WorkLeads
<1>4. /\ pipe' \in [Jobs -> Seq(Messages)] /\ \A k \in Jobs : k # j => pipe'[k] = pipe[k]
      /\ link[j] = "streaming" => pipe'[j] = Append(pipe[j], e)
      /\ link[j] # "streaming" => pipe'[j] = pipe[j]
  BY <1>3, SentIsLast
<1>5. ServerTyped' /\ OnlyOf(j) /\ Consistent(sched)'
  BY <1>1, <1>2, <1>4 DEF ServerTyped, OnlyOf, RemoteInvariant
<1>6. client.job = j => EventsInPlace'
  <2>1. SUFFICES ASSUME client.job = j PROVE EventsInPlace'
    OBVIOUS
  <2>2. HeardSoFar' = HeardSoFar BY <1>1 DEF HeardSoFar
  <2>3. client.at # "polling"
    BY <1>1, <2>1 DEF RemoteInvariant, EventsInPlace, NotServing
  <2>4. client.at \in {"uploading", "reading"} => link[j] # "open"
    BY <1>1, <2>1 DEF RemoteInvariant, EventsInPlace
  <2>5. client.at \in {"uploading", "reading"} /\ link[j] = "streaming" =>
          Path(HeardSoFar, pipe'[j], DoneSoFar(j)')
    <3>1. SUFFICES ASSUME client.at \in {"uploading", "reading"}, link[j] = "streaming"
                   PROVE  Path(HeardSoFar, pipe'[j], DoneSoFar(j)')
      OBVIOUS
    <3>2. Path(HeardSoFar, pipe[j], DoneSoFar(j))
      BY <2>1, <3>1 DEF RemoteInvariant, EventsInPlace
    <3>3. HeardSoFar \in Stages BY <1>1, <3>2, PathStarts
    <3>4. DoneSoFar(j) \in Stages BY <1>1, DoneIsStage
    <3>5. DoneSoFar(j)' \in Stages
      <4> DEFINE result == CASE serve'[j].at = "done" -> "ok"
                             [] serve'[j].at = "broken" -> "bad"
                             [] OTHER -> "none"
      <4>1. serve'[j].try \in 0 .. 2 /\ serve'[j].item \in 0 .. Items
        BY <1>1, <1>2 DEF Servings
      <4>2. result \in Verdicts BY DEF Verdicts
      <4> HIDE DEF result
      <4>3. [try |-> serve'[j].try, item |-> serve'[j].item, result |-> result,
             end |-> "none"] \in Stages
        BY <4>1, <4>2 DEF Stages, Verdicts
      <4> QED BY <4>3 DEF DoneSoFar, result
    <3> QED BY <1>1, <1>3, <1>4, <3>1, <3>2, <3>3, <3>4, <3>5, OneMoreLeads
  <2>6. /\ client' = client /\ link' = link
        /\ link[j] # "streaming" => pipe'[j] = pipe[j]
        /\ \A k \in Jobs : k # j => link[k] = "closed" /\ pipe'[k] = << >>
    BY <1>1, <1>4, <2>1 DEF RemoteInvariant, EventsInPlace
  <2> QED BY <1>2, <2>1, <2>2, <2>3, <2>4, <2>5, <2>6 DEF RemoteInvariant, EventsInPlace
<1>7. ~(serve'[j].try = 0) /\ ~(serve'[j].at \in {"none", "receiving"})
  BY <1>2
<1>8. client.job # j => link'[j] = "closed" /\ pipe'[j] = << >>
  BY <1>1, <1>4
<1> QED BY <1>1, <1>2, <1>5, <1>6, <1>7, <1>8, ServerKeeps

\* The verdict is that of the work that has been done.
LEMMA EndsAsDone ==
  ASSUME RemoteInvariant, NEW j \in Own, ServerEnds(j)
  PROVE  /\ Consistent(sched)'
         /\ serve[j].at \in {"working", "done", "broken"}
         /\ sched'.state[j] = "completed" => serve[j].at = "done"
<1>1. j \in Jobs /\ serve[j] \in Servings /\ Consistent(sched)
  BY ServedJob DEF RemoteInvariant
<1>2. /\ \/ serve[j].at = "done"
         \/ serve[j].at = "broken" /\ sched.state[j] = "running" /\ Fail(j)
         \/ /\ serve[j].at # "none" /\ serve[j].at # "receiving"
            /\ sched.state[j] = "cancelling" /\ FinishCancel(j)
      /\ Complete(j) \/ Fail(j) \/ FinishCancel(j)
  BY DEF ServerEnds
<1>3. Consistent(sched)' BY <1>1, <1>2, CallsAreConsistent DEF Owner
<1>4. CASE serve[j].at = "broken" /\ sched.state[j] = "running" /\ Fail(j)
  <2>1. "failed" \in TerminalStates /\ sched.state[j] \in SlotStates \cup {"queued"}
    BY <1>4 DEF TerminalStates, SlotStates, OwnedStates
  <2>2. sched' = End(sched, j, "failed") BY <1>4 DEF Fail, Finish
  <2>3. sched'.state[j] = "failed" BY <1>1, <2>1, <2>2, EndMoves
  <2> QED BY <1>3, <1>4, <2>3
<1>5. CASE /\ serve[j].at # "none" /\ serve[j].at # "receiving"
           /\ sched.state[j] = "cancelling" /\ FinishCancel(j)
  <2>1. "cancelled" \in TerminalStates /\ sched.state[j] \in SlotStates \cup {"queued"}
    BY <1>5 DEF TerminalStates, SlotStates, OwnedStates
  <2>2. sched' = End(sched, j, "cancelled") BY <1>5 DEF FinishCancel, CancelFinished
  <2>3. sched'.state[j] = "cancelled" BY <1>1, <2>1, <2>2, EndMoves
  <2>4. serve[j].at \in {"working", "done", "broken"} BY <1>1, <1>5 DEF Servings
  <2> QED BY <1>3, <2>3, <2>4
<1> QED BY <1>2, <1>3, <1>4, <1>5

LEMMA ServerEndsKeeps ==
  ASSUME RemoteInvariant, NEW j \in Own, ServerEnds(j)
  PROVE  RemoteInvariant'
<1> DEFINE ok == sched'.state[j] = "completed"
           e == [type |-> "result", ok |-> ok]
<1>1. /\ j \in Jobs /\ link \in [Jobs -> Links] /\ serve \in [Jobs -> Servings]
      /\ pipe[j] \in Seq(Messages) /\ ServerTyped
      /\ client.job # j => link[j] = "closed" /\ pipe[j] = << >>
  BY ServedJob DEF RemoteInvariant
<1>2. /\ Sends(j, e) /\ UNCHANGED <<client, canceller, doc>>
      /\ link' = [link EXCEPT ![j] = IF @ = "streaming" THEN "ended" ELSE @]
      /\ serve' = [serve EXCEPT ![j] = NotServing]
  BY DEF ServerEnds
<1>3. /\ Consistent(sched)' /\ serve[j].at \in {"working", "done", "broken"}
      /\ ok => serve[j].at = "done"
  BY EndsAsDone
<1>4. ok \in BOOLEAN OBVIOUS
<1> HIDE DEF ok
<1>5. e \in Messages /\ e.type = "result" /\ e.ok = ok BY <1>4 DEF Messages
<1> HIDE DEF e
<1>6. /\ pipe' \in [Jobs -> Seq(Messages)] /\ \A k \in Jobs : k # j => pipe'[k] = pipe[k]
      /\ link[j] = "streaming" => pipe'[j] = Append(pipe[j], e)
      /\ link[j] # "streaming" => pipe'[j] = pipe[j]
  BY <1>2, <1>5, SentIsLast
<1>7. NotServing \in Servings /\ NotServing.at = "none"
      /\ NotServing.try = 0 /\ NotServing.item = 0
  BY ClientAssumption DEF NotServing, Servings
<1>8. /\ link' \in [Jobs -> Links] /\ serve' \in [Jobs -> Servings] /\ OnlyOf(j)
      /\ serve'[j] = NotServing
      /\ link'[j] = IF link[j] = "streaming" THEN "ended" ELSE link[j]
  BY <1>1, <1>2, <1>6, <1>7 DEF OnlyOf, Links
<1>9. ServerTyped' BY <1>6, <1>8 DEF ServerTyped
<1>10. client.job = j => EventsInPlace'
  <2>1. SUFFICES ASSUME client.job = j PROVE EventsInPlace'
    OBVIOUS
  <2>2. HeardSoFar' = HeardSoFar BY <1>2 DEF HeardSoFar
  <2>3. client.at # "polling"
    BY <1>3, <2>1, <1>7 DEF RemoteInvariant, EventsInPlace
  <2>4. client.at \in {"uploading", "reading"} => link[j] # "open"
    BY <1>3, <2>1 DEF RemoteInvariant, EventsInPlace
  <2>5. client.at \in {"uploading", "reading"} /\ link[j] = "streaming" =>
          \E b \in Stages : b.end # "none" /\ Path(HeardSoFar, pipe'[j], b)
    <3>1. SUFFICES ASSUME client.at \in {"uploading", "reading"}, link[j] = "streaming"
                   PROVE  \E b \in Stages : b.end # "none" /\ Path(HeardSoFar, pipe'[j], b)
      OBVIOUS
    <3> DEFINE a == DoneSoFar(j)
               b == [a EXCEPT !.end = Verdict(e.ok)]
    <3>2. Path(HeardSoFar, pipe[j], a)
      BY <2>1, <3>1 DEF RemoteInvariant, EventsInPlace
    <3>3. HeardSoFar \in Stages /\ a \in Stages BY <1>1, <3>2, PathStarts
    <3>4. a.end = "none" /\ (serve[j].at = "done" => a.result = "ok") BY DEF DoneSoFar
    <3> HIDE DEF a
    <3>5. Verdict(e.ok) \in {"ok", "bad"} BY DEF Verdict
    <3>6. b \in Stages /\ b.end # "none" BY <3>3, <3>5 DEF Stages, Verdicts
    <3>7. Leads(a, e, b)
      <4>1. e.ok => a.result = "ok" BY <1>3, <1>5, <3>4, Zenon
      <4> QED BY <1>5, <3>4, <4>1, Zenon DEF Leads
    <3> HIDE DEF b
    <3>8. Path(HeardSoFar, Append(pipe[j], e), b)
      BY <1>1, <1>5, <3>2, <3>3, <3>6, <3>7, OneMoreLeads
    <3> QED BY <1>6, <3>1, <3>6, <3>8
  <2>6. /\ client' = client
        /\ link[j] # "streaming" => pipe'[j] = pipe[j]
        /\ \A k \in Jobs : k # j => link'[k] = "closed" /\ pipe'[k] = << >>
    BY <1>2, <1>6, <1>8, <2>1 DEF RemoteInvariant, EventsInPlace, OnlyOf
  <2> QED BY <1>8, <2>1, <2>2, <2>3, <2>4, <2>5, <2>6 DEF RemoteInvariant, EventsInPlace
<1>11. client.job # j => link'[j] = "closed" /\ pipe'[j] = << >>
  BY <1>1, <1>6, <1>8
<1> QED BY <1>2, <1>3, <1>7, <1>8, <1>9, <1>10, <1>11, ServerKeeps

-----------------------------------------------------------------------------
(* The invariant.                                                          *)

LEMMA RemoteStarts == ClientInit => RemoteInvariant
<1> SUFFICES ASSUME ClientInit PROVE RemoteInvariant
  OBVIOUS
<1>1. Consistent(sched) BY NewIsConsistent DEF ClientInit, SchedulerInit
<1>2. ServerTyped
  <2>1. NotServing \in Servings BY ClientAssumption DEF NotServing, Servings
  <2>2. << >> \in Seq(Messages) /\ "closed" \in Links BY DEF Links
  <2> QED BY <2>1, <2>2 DEF ClientInit, ServerTyped
<1>3. ClientInPlace
  BY NewIsTyped DEF ClientInit, ClientInPlace, NewWorkflow, NotCancelling, Cancellings
<1>4. DocumentInPlace BY DEF ClientInit, DocumentInPlace, NewWorkflow
<1>5. ServingInPlace BY DEF ClientInit, ServingInPlace, NotServing
<1>6. EventsInPlace BY DEF ClientInit, EventsInPlace, NewWorkflow
<1> QED BY <1>1, <1>2, <1>3, <1>4, <1>5, <1>6 DEF RemoteInvariant

LEMMA RemoteKeeps == RemoteInvariant /\ [ClientNext]_clientVars => RemoteInvariant'
<1> SUFFICES ASSUME RemoteInvariant, [ClientNext]_clientVars
             PROVE  RemoteInvariant'
  OBVIOUS
<1>1. CASE Begin
  BY <1>1, BeginKeeps
<1>2. CASE ClientSteps
  <2>1. CASE \E j \in Own : Reserved(j)
    BY <2>1, ReservedKeeps
  <2>2. CASE \/ \E j \in Own : ReservationLost(j)
             \/ StopsPolling \/ PollLost \/ FindsJobOver \/ Answered
             \/ StopsReading \/ ReadsEnd \/ ReadBreaks
    BY <2>2, GoingKeeps
  <2>3. CASE Polls
    BY <2>3, PollsKeep
  <2>4. CASE StartsUpload
    BY <2>4, StartsUploadKeeps
  <2>5. CASE UploadBreaks
    BY <2>5, UploadBreaksKeeps
  <2>6. CASE Reads
    BY <2>6, ReadsKeep
  <2>7. CASE CancelsItself
    BY <2>7, CancelsItselfKeeps
  <2>8. CASE Ends
    BY <2>8, EndsKeeps
  <2> QED BY <1>2, <2>1, <2>2, <2>3, <2>4, <2>5, <2>6, <2>7, <2>8 DEF ClientSteps
<1>3. CASE \E j \in Own : ServerSteps(j)
  <2>1. PICK j \in Own : ServerSteps(j) BY <1>3
  <2>2. CASE UploadArrives(j)
    BY <2>2, UploadArrivesKeeps
  <2>3. CASE UploadComplete(j)
    BY <2>3, UploadCompleteKeeps
  <2>4. CASE UploadWithdrawn(j)
    BY <2>4, UploadWithdrawnKeeps
  <2>5. CASE Works(j)
    BY <2>5, WorksKeeps
  <2>6. CASE ReaderGone(j)
    BY <2>6, BesidesKeep
  <2>7. CASE ServerEnds(j)
    BY <2>7, ServerEndsKeeps
  <2> QED BY <2>1, <2>2, <2>3, <2>4, <2>5, <2>6, <2>7 DEF ServerSteps
<1>4. CASE \/ UserCancels \/ CancelSteps
           \/ \E j \in Rivals : RivalSteps(j)
           \/ TimePasses \/ OtherRequest \/ UNCHANGED clientVars
  BY <1>4, BesidesKeep
<1> QED BY <1>1, <1>2, <1>3, <1>4 DEF ClientNext

\* In every reachable state the events under way lead from what the client has
\* heard to what the server has done, whatever is lost and whoever cancels.
THEOREM RemoteInvariance == ClientSpec => []RemoteInvariant
<1>1. ClientInit => RemoteInvariant BY RemoteStarts
<1>2. RemoteInvariant /\ [ClientNext]_clientVars => RemoteInvariant' BY RemoteKeeps
<1> QED BY <1>1, <1>2, PTL DEF ClientSpec

\* What run_workflow returns is what the caller has in its document, whole: for
\* any number of segments, tries, lost answers and cancellations.
THEOREM RemoteAnswerIsDocument == ClientSpec => []AnswerIsDocument
<1>1. RemoteInvariant => AnswerIsDocument
  BY DEF RemoteInvariant, DocumentInPlace, AnswerIsDocument
<1> QED BY <1>1, RemoteInvariance, PTL

\* The slot and the line of the server are in order, whatever its clients do
\* and however their requests are lost.
THEOREM RemoteSlotAndLine == ClientSpec => []SlotAndLine
<1>1. RemoteInvariant => SlotAndLine
  BY DEF RemoteInvariant, Consistent, Sane, SlotAndLine, OneSlot, LineHoldsQueued,
         LineBounded, NoIdleSlot
<1> QED BY <1>1, RemoteInvariance, PTL

-----------------------------------------------------------------------------
(* The document is a task stream.                                          *)

\* What TaskStream sees of the client.
Phase ==
  IF client.at = "idle" THEN "idle"
  ELSE IF client.info \/ client.at \in {"cancelling", "failing", "returning"} THEN "over"
  ELSE IF client.try = 0 THEN "ready" ELSE "trying"

Results == IF client.info THEN 1 ELSE 0

Tries == IF client.try = 2 THEN 2 ELSE 1

Told == IF client.at = "idle" THEN << >> ELSE doc

\* The states that the mapped stream goes through.
LEMMA StreamMoves ==
  /\ UNCHANGED <<Phase, Results, Tries, Told>> => UNCHANGED Stream!streamVars
  /\ Phase = "idle" /\ Phase' = "ready" /\
     UNCHANGED <<Results, Tries, Told>> => Stream!Begin
  /\ Phase = "ready" /\ Phase' = "trying" /\ Tries' = 1 /\ Told' = << >> /\
     UNCHANGED Results => Stream!Try
  /\ Phase = "trying" /\ Len(Told) < Items /\
     Told' = Append(Told, Len(Told) + 1) /\
     UNCHANGED <<Phase, Results, Tries>> => Stream!Tell
  /\ Phase = "trying" /\ Tries = 1 /\ Tries' = 2 /\ Told' = << >> /\
     UNCHANGED <<Phase, Results>> => Stream!TryAgain
  /\ Phase = "trying" /\ Len(Told) = Items /\ Results = 0 /\ Results' = 1 /\
     Phase' = "over" /\ UNCHANGED <<Tries, Told>> => Stream!Complete
  /\ Phase \in {"ready", "trying"} /\ Phase' = "over" /\
     UNCHANGED <<Results, Tries, Told>> => Stream!GiveUp
  /\ Phase = "over" /\ Phase' = "idle" /\ Results' = 0 /\ Tries' = 1 /\
     Told' = << >> => Stream!Close
<1>1. UNCHANGED <<Phase, Results, Tries, Told>> => UNCHANGED Stream!streamVars
  BY DEF Stream!streamVars, Phase, Results, Tries, Told
<1>2. Phase = "idle" /\ Phase' = "ready" /\
      UNCHANGED <<Results, Tries, Told>> => Stream!Begin
  BY DEF Stream!Begin, Phase, Results, Tries, Told
<1>3. Phase = "ready" /\ Phase' = "trying" /\ Tries' = 1 /\ Told' = << >> /\
      UNCHANGED Results => Stream!Try
  BY DEF Stream!Try, Phase, Results, Tries, Told
<1>4. Phase = "trying" /\ Len(Told) < Items /\
      Told' = Append(Told, Len(Told) + 1) /\
      UNCHANGED <<Phase, Results, Tries>> => Stream!Tell
  BY DEF Stream!Tell, Phase, Results, Tries, Told
<1>5. Phase = "trying" /\ Tries = 1 /\ Tries' = 2 /\ Told' = << >> /\
      UNCHANGED <<Phase, Results>> => Stream!TryAgain
  BY DEF Stream!TryAgain, Phase, Results, Tries, Told
<1>6. Phase = "trying" /\ Len(Told) = Items /\ Results = 0 /\ Results' = 1 /\
      Phase' = "over" /\ UNCHANGED <<Tries, Told>> => Stream!Complete
  BY DEF Stream!Complete, Phase, Results, Tries, Told
<1>7. Phase \in {"ready", "trying"} /\ Phase' = "over" /\
      UNCHANGED <<Results, Tries, Told>> => Stream!GiveUp
  BY DEF Stream!GiveUp, Phase, Results, Tries, Told
<1>8. Phase = "over" /\ Phase' = "idle" /\ Results' = 0 /\ Tries' = 1 /\
      Told' = << >> => Stream!Close
  BY DEF Stream!Close, Phase, Results, Tries, Told
<1> QED BY <1>1, <1>2, <1>3, <1>4, <1>5, <1>6, <1>7, <1>8

\* A workflow that goes on without reading, or gives up, is a step of the
\* stream.
LEMMA GoesOnOrGivesUp ==
  ASSUME client.at # "idle", client'.at # "idle",
         client.at \in {"cancelling", "failing", "returning"} =>
           client'.at \in {"cancelling", "failing", "returning"},
         client'.try = client.try, client'.info = client.info, doc' = doc
  PROVE  Stream!GiveUp \/ UNCHANGED Stream!streamVars
<1>1. UNCHANGED <<Results, Tries, Told>> BY DEF Results, Tries, Told
<1>2. Phase' = Phase \/ (Phase \in {"ready", "trying"} /\ Phase' = "over")
  BY DEF Phase
<1>3. CASE Phase' = Phase
  BY <1>1, <1>3, StreamMoves
<1>4. CASE Phase \in {"ready", "trying"} /\ Phase' = "over"
  BY <1>1, <1>4, StreamMoves
<1> QED BY <1>2, <1>3, <1>4

\* Reading an event is a step of the stream.
LEMMA ReadsIsStreamStep ==
  ASSUME RemoteInvariant, Reads
  PROVE  Stream!StreamNext \/ UNCHANGED Stream!streamVars
<1> DEFINE j == client.job
           e == Head(pipe[j])
<1>1. /\ client.at = "reading" /\ client \in Clients
      /\ client' = Heard(client, e) /\ doc' = DocAfter(doc, e)
      /\ doc = client.segments /\ client.try \in 0 .. 2
  BY DEF Reads, RemoteInvariant, ClientInPlace, DocumentInPlace, Clients
<1>2. e \in Messages BY FirstLeads
<1>3. PICK c \in Stages : Leads(HeardSoFar, e, c)
  BY FirstLeads
<1> HIDE DEF e
<1>4. Told = doc BY <1>1 DEF Told
<1>5. CASE e.type = "task_started"
  <2>1. /\ client' = [client EXCEPT !.segments = << >>, !.info = FALSE,
                                    !.try = client.try + 1]
        /\ doc' = << >> /\ ~client.info /\ client.try \in {0, 1}
    BY <1>1, <1>2, <1>3, <1>5, StartIsHeard
  <2>2. client'.at = "reading" /\ ~client'.info /\ client'.try = client.try + 1
    BY <1>1, <2>1 DEF Clients
  <2>3. Results' = Results /\ Phase' = "trying" /\ Told' = << >>
    BY <1>1, <2>1, <2>2 DEF Results, Phase, Told
  <2>4. CASE client.try = 0
    <3>1. Phase = "ready" /\ Tries' = 1 BY <1>1, <2>1, <2>2, <2>4 DEF Phase, Tries
    <3> QED BY <2>3, <3>1, StreamMoves DEF Stream!StreamNext
  <2>5. CASE client.try = 1
    <3>1. Phase = "trying" /\ Tries = 1 /\ Tries' = 2
      BY <1>1, <2>1, <2>2, <2>5 DEF Phase, Tries
    <3> QED BY <2>3, <3>1, StreamMoves DEF Stream!StreamNext
  <2> QED BY <2>1, <2>4, <2>5
<1>6. CASE e.type = "segment"
  <2>1. /\ client' = [client EXCEPT !.segments = Append(client.segments, e.item)]
        /\ doc' = Append(doc, e.item) /\ ~client.info /\ client.try \in {1, 2}
        /\ Len(client.segments) < Items /\ e.item = Len(client.segments) + 1
    BY <1>1, <1>2, <1>3, <1>6, SegmentIsHeard
  <2>2. client'.at = "reading" /\ client'.info = client.info /\ client'.try = client.try
    BY <1>1, <2>1 DEF Clients
  <2>3. UNCHANGED <<Phase, Results, Tries>>
    BY <1>1, <2>2 DEF Phase, Results, Tries
  <2>4. Phase = "trying" BY <1>1, <2>1 DEF Phase
  <2>5. Told' = Append(Told, Len(Told) + 1) /\ Len(Told) < Items
    BY <1>1, <1>4, <2>1, <2>2 DEF Told
  <2> QED BY <2>3, <2>4, <2>5, StreamMoves DEF Stream!StreamNext
<1>7. CASE e.type = "task_result" /\ e.ok
  <2>1. /\ client' = [client EXCEPT !.info = TRUE] /\ doc' = doc
        /\ ~client.info /\ client.try \in {1, 2} /\ Len(client.segments) = Items
    BY <1>1, <1>2, <1>3, <1>7, TaskResultIsHeard
  <2>2. client'.at = "reading" /\ client'.info /\ client'.try = client.try
    BY <1>1, <2>1 DEF Clients
  <2>3. Phase = "trying" /\ Phase' = "over" /\ Results = 0 /\ Results' = 1
    BY <1>1, <2>1, <2>2 DEF Phase, Results
  <2>4. UNCHANGED <<Tries, Told>> /\ Len(Told) = Items
    BY <1>1, <1>4, <2>1, <2>2 DEF Tries, Told
  <2> QED BY <2>3, <2>4, StreamMoves DEF Stream!StreamNext
<1>8. CASE e.type = "result" /\ e.ok
  <2>1. client' = [client EXCEPT !.final = TRUE] /\ doc' = doc
    BY <1>1, <1>2, <1>3, <1>8, ResultIsHeard
  <2>2. client'.at = client.at /\ client'.info = client.info /\ client'.try = client.try
    BY <1>1, <2>1 DEF Clients
  <2> QED BY <1>1, <2>1, <2>2, GoesOnOrGivesUp DEF Stream!StreamNext
<1>9. CASE e.type \in {"task_result", "result"} /\ ~e.ok
  <2>1. client' = [client EXCEPT !.at = "failing"] /\ doc' = doc
    BY <1>1, <1>2, <1>3, <1>9, TaskResultIsHeard, ResultIsHeard
  <2>2. client'.at = "failing" /\ client'.info = client.info /\ client'.try = client.try
    BY <1>1, <2>1 DEF Clients
  <2> QED BY <1>1, <2>1, <2>2, GoesOnOrGivesUp DEF Stream!StreamNext
<1> QED BY <1>2, <1>5, <1>6, <1>7, <1>8, <1>9, MessageKinds

\* The steps of the workflow that read nothing.
LEMMA OthersAreStreamSteps ==
  ASSUME RemoteInvariant, [ClientNext]_clientVars, ~Begin, ~Reads, ~Ends
  PROVE  Stream!GiveUp \/ UNCHANGED Stream!streamVars
<1>1. client \in Clients BY DEF RemoteInvariant, ClientInPlace
<1>2. CASE UNCHANGED <<client, doc>>
  <2>1. UNCHANGED <<Phase, Results, Tries, Told>>
    BY <1>2 DEF Phase, Results, Tries, Told
  <2> QED BY <2>1, StreamMoves
<1>3. CASE ClientSteps
  <2>1. doc' = doc /\ client.at # "idle"
    BY <1>3 DEF ClientSteps, ClientGoes, Reserved, ReservationLost, StopsPolling, Polls,
                PollLost, StartsUpload, FindsJobOver, UploadBreaks, Answered,
                StopsReading, ReadsEnd, ReadBreaks, CancelsItself
  <2>2. CASE \/ \E j \in Own : ReservationLost(j)
             \/ StopsPolling \/ PollLost \/ StartsUpload \/ FindsJobOver
             \/ UploadBreaks \/ Answered \/ StopsReading \/ ReadsEnd \/ ReadBreaks
             \/ CancelsItself \/ \E j \in Own : Reserved(j) /\ client'.at = "failing"
    <3>1. \/ \E to \in {"cancelling", "failing", "returning"} :
                client' = [client EXCEPT !.at = to]
          \/ \E to \in {"uploading", "reading"} :
                /\ client' = [client EXCEPT !.at = to]
                /\ client.at \in {"polling", "uploading"}
      <4>1. CASE \E j \in Own : Reserved(j) /\ client'.at = "failing"
        <5>1. "failing" # "polling" OBVIOUS
        <5>2. client' = [client EXCEPT !.at = "failing"]
          BY <1>1, <4>1, <5>1 DEF Reserved, Clients
        <5> QED BY <5>2
      <4>2. CASE \/ \E j \in Own : ReservationLost(j)
                 \/ PollLost \/ FindsJobOver \/ UploadBreaks \/ ReadBreaks \/ CancelsItself
        <5>1. client' = [client EXCEPT !.at = "failing"]
          BY <4>2 DEF ClientGoes, ReservationLost, PollLost, FindsJobOver, UploadBreaks,
                      ReadBreaks, CancelsItself
        <5> QED BY <5>1
      <4>3. CASE StopsPolling \/ StopsReading
        <5>1. client' = [client EXCEPT !.at = "cancelling"]
          BY <4>3 DEF ClientGoes, StopsPolling, StopsReading
        <5> QED BY <5>1
      <4>4. CASE ReadsEnd
        <5>1. \/ client' = [client EXCEPT !.at = "returning"]
              \/ client' = [client EXCEPT !.at = "failing"]
          BY <4>4 DEF ClientGoes, ReadsEnd
        <5> QED BY <5>1
      <4>5. CASE StartsUpload \/ Answered
        <5>1. /\ client.at \in {"polling", "uploading"}
              /\ \/ client' = [client EXCEPT !.at = "uploading"]
                 \/ client' = [client EXCEPT !.at = "reading"]
          BY <4>5 DEF ClientGoes, StartsUpload, Answered
        <5> QED BY <5>1
      <4> QED BY <2>2, <4>1, <4>2, <4>3, <4>4, <4>5
    <3>2. /\ client'.try = client.try /\ client'.info = client.info
          /\ \/ client'.at \in {"cancelling", "failing", "returning"}
             \/ client'.at \in {"uploading", "reading"}
                  /\ client.at \in {"polling", "uploading"}
      BY <1>1, <3>1 DEF Clients
    <3> QED BY <2>1, <3>2, GoesOnOrGivesUp
  <2>3. CASE Polls \/ \E j \in Own : Reserved(j) /\ client'.at # "failing"
    <3>1. /\ client.at \in {"reserving", "polling"} /\ client'.at = "polling"
          /\ client'.try = client.try /\ client'.info = client.info
      BY <1>1, <2>3 DEF Polls, Reserved, Clients
    <3> QED BY <2>1, <3>1, GoesOnOrGivesUp
  <2> QED BY <1>3, <2>2, <2>3 DEF ClientSteps
<1>4. CASE \/ UserCancels \/ CancelSteps
           \/ \E j \in Own : ServerSteps(j)
           \/ \E j \in Rivals : RivalSteps(j)
           \/ TimePasses \/ OtherRequest
  <2>1. UNCHANGED <<client, doc>>
    BY <1>4 DEF UserCancels, CancelSteps, CancelSets, CancelLooks, CancelDeletes,
         ServerSteps, UploadArrives, UploadComplete, UploadWithdrawn, Works, ReaderGone,
         ServerEnds, RivalSteps, TimePasses, OtherRequest
  <2> QED BY <1>2, <2>1
<1> QED BY <1>2, <1>3, <1>4 DEF ClientNext, clientVars

\* A workflow begins and ends as a stream does.
LEMMA EdgesAreStreamSteps ==
  /\ RemoteInvariant /\ Begin => Stream!Begin
  /\ Ends => Stream!Close
<1>1. ASSUME RemoteInvariant, Begin PROVE Stream!Begin
  <2>1. /\ client = NewWorkflow /\ client' = [NewWorkflow EXCEPT !.at = "reserving"]
        /\ doc' = << >>
    BY <1>1 DEF Begin, RemoteInvariant, ClientInPlace
  <2>2. /\ Phase = "idle" /\ Phase' = "ready"
        /\ UNCHANGED <<Results, Tries, Told>>
    BY <2>1 DEF Phase, Results, Tries, Told, NewWorkflow
  <2> QED BY <2>2, StreamMoves
<1>2. ASSUME Ends PROVE Stream!Close
  <2>1. client.at \in {"failing", "returning"} /\ client' = NewWorkflow
    BY <1>2 DEF Ends
  <2>2. /\ Phase = "over" /\ Phase' = "idle" /\ Results' = 0 /\ Tries' = 1
        /\ Told' = << >>
    <3>1. client'.at = "idle" /\ ~client'.info /\ client'.try = 0
      BY <2>1 DEF NewWorkflow
    <3>2. Phase = "over" BY <2>1 DEF Phase
    <3> QED BY <3>1, <3>2 DEF Phase, Results, Tries, Told
  <2> QED BY <2>2, StreamMoves
<1> QED BY <1>1, <1>2

\* The caller's document is a task stream: at most two tries, the segments of
\* one try in their order from the first, and a result only when all are there;
\* for any number of segments, and wherever a connection breaks.
THEOREM RemoteDocumentIsTaskStream == ClientSpec => DocumentIsTaskStream
<1>1. ClientInit => Stream!StreamInit
  <2>1. NewWorkflow.at = "idle" /\ ~NewWorkflow.info /\ NewWorkflow.try = 0
    BY DEF NewWorkflow
  <2> QED BY <2>1 DEF ClientInit, Stream!StreamInit
<1>2. RemoteInvariant /\ [ClientNext]_clientVars
        => [Stream!StreamNext]_(Stream!streamVars)
  <2> SUFFICES ASSUME RemoteInvariant, [ClientNext]_clientVars
               PROVE  Stream!StreamNext \/ UNCHANGED Stream!streamVars
    OBVIOUS
  <2>1. CASE Begin \/ Ends
    BY <2>1, EdgesAreStreamSteps DEF Stream!StreamNext
  <2>2. CASE Reads
    BY <2>2, ReadsIsStreamStep
  <2>3. CASE ~Begin /\ ~Reads /\ ~Ends
    BY <2>3, OthersAreStreamSteps DEF Stream!StreamNext
  <2> QED BY <2>1, <2>2, <2>3
<1> QED BY <1>1, <1>2, RemoteInvariance, PTL
        DEF ClientSpec, DocumentIsTaskStream, Stream!StreamSpec

-----------------------------------------------------------------------------
(* The configured servers.  The form of the server manager holds a profile  *)
(* that may be saved, and only an open form has anything to save.           *)

ProfilesAreSaved == saved \in [Servers -> Profile \cup {Absent}]

FormIsForm ==
  form \in [open : BOOLEAN, id : Servers \cup {Nobody}, text : Texts \cup {Nobody},
            enabled : BOOLEAN, dirty : BOOLEAN]

CatalogInvariant == ProfilesAreSaved /\ FormIsForm /\ (~form.open => ~form.dirty)

LEMMA ProfileParts ==
  ASSUME NEW p \in Profile \cup {Absent}
  PROVE  p.text \in Texts \cup {Nobody} /\ p.enabled \in BOOLEAN
<1>1. CASE p \in Profile BY <1>1 DEF Profile
<1>2. CASE p = Absent
  <2>1. Absent.text = Nobody /\ Absent.enabled = FALSE BY Zenon DEF Absent
  <2>2. p.text = Nobody /\ p.enabled = FALSE BY <1>2, <2>1
  <2> QED BY <2>2
<1> QED BY <1>1, <1>2

\* The form shows a profile as it was saved.
LEMMA ShownIsForm ==
  ASSUME ProfilesAreSaved, NEW s \in Servers \cup {Nobody}, NEW f, f = Shows(s, saved)
  PROVE  /\ f \in [open : BOOLEAN, id : Servers \cup {Nobody}, text : Texts \cup {Nobody},
                   enabled : BOOLEAN, dirty : BOOLEAN]
         /\ f.open /\ ~f.dirty
<1>1. CASE s = Nobody
  BY <1>1 DEF Shows
<1>2. CASE s # Nobody
  <2>1. saved[s] \in Profile \cup {Absent} BY <1>2 DEF ProfilesAreSaved
  <2> QED BY <1>2, <2>1, ProfileParts DEF Shows
<1> QED BY <1>1, <1>2

\* A profile is written where the form says, or at an id that was free.
LEMMA WrittenIsSaved ==
  ASSUME ProfilesAreSaved, NEW f, NEW id \in Servers, PersistWrites(f, id),
         f.text \in Texts \cup {Nobody}, f.enabled \in BOOLEAN
  PROVE  /\ ProfilesAreSaved'
         /\ saved'[id] = Entered(f)
         /\ IF f.id = Nobody THEN id \in FreeIds ELSE id = f.id
<1>1. Entered(f) \in Profile
  BY DEF PersistWrites, Valid, Entered, Profile
<1>2. saved' = [saved EXCEPT ![id] = Entered(f)] BY DEF PersistWrites
<1> QED BY <1>1, <1>2 DEF ProfilesAreSaved, PersistWrites

\* A handler that saves the form f leaves profiles and a form behind, and a
\* form that is no longer dirty has been saved.
LEMMA SavingKeeps ==
  ASSUME ProfilesAreSaved, NEW f, Saves(f), f.open,
         f \in [open : BOOLEAN, id : Servers \cup {Nobody}, text : Texts \cup {Nobody},
                enabled : BOOLEAN, dirty : BOOLEAN]
  PROVE  /\ ProfilesAreSaved' /\ FormIsForm' /\ form'.open
         /\ f.dirty /\ ~form'.dirty =>
              /\ Entered(form') = Entered(f)
              /\ \/ f.id # Nobody /\ saved'[f.id] = Entered(f)
                 \/ f.id = Nobody /\ \E s \in FreeIds : saved'[s] = Entered(f)
<1>1. CASE NothingToWrite(f) /\ form' = [f EXCEPT !.dirty = FALSE]
  <2>1. saved' = saved BY <1>1 DEF NothingToWrite
  <2>2. f.dirty => f.id # Nobody /\ saved[f.id] = Entered(f)
    BY <1>1 DEF NothingToWrite, Unchanged
  <2> QED BY <1>1, <2>1, <2>2 DEF ProfilesAreSaved, FormIsForm, Entered
<1>2. ASSUME NEW id \in Servers, PersistWrites(f, id),
             form' = [f EXCEPT !.dirty = FALSE, !.id = id]
      PROVE  /\ ProfilesAreSaved' /\ FormIsForm' /\ form'.open
             /\ Entered(form') = Entered(f)
             /\ \/ f.id # Nobody /\ saved'[f.id] = Entered(f)
                \/ f.id = Nobody /\ \E s \in FreeIds : saved'[s] = Entered(f)
  <2>1. /\ ProfilesAreSaved'
        /\ saved'[id] = Entered(f)
        /\ IF f.id = Nobody THEN id \in FreeIds ELSE id = f.id
    BY <1>2, WrittenIsSaved
  <2>2. FormIsForm' /\ form'.open /\ Entered(form') = Entered(f)
    BY <1>2 DEF FormIsForm, Entered
  <2> QED BY <2>1, <2>2
<1>3. CASE PersistRefused(f) /\ form' = f
  BY <1>3 DEF PersistRefused, ProfilesAreSaved, FormIsForm
<1> QED BY <1>1, <1>2, <1>3 DEF Saves

\* So does a handler that leaves the form for another one.
LEMMA LeavingKeeps ==
  ASSUME CatalogInvariant, NEW to, LeavesForm(to), ~to.dirty,
         to \in [open : BOOLEAN, id : Servers \cup {Nobody}, text : Texts \cup {Nobody},
                 enabled : BOOLEAN, dirty : BOOLEAN]
  PROVE  /\ CatalogInvariant'
         /\ form.dirty /\ ~form'.dirty =>
              \/ form.id # Nobody /\ saved'[form.id] = Entered(form)
              \/ form.id = Nobody /\ \E s \in FreeIds : saved'[s] = Entered(form)
<1>0. form.text \in Texts \cup {Nobody} /\ form.enabled \in BOOLEAN
  BY DEF CatalogInvariant, FormIsForm
<1>1. CASE NothingToWrite(form) /\ form' = to
  <2>1. saved' = saved BY <1>1 DEF NothingToWrite
  <2>2. form.dirty => form.id # Nobody /\ saved[form.id] = Entered(form)
    BY <1>1 DEF NothingToWrite, Unchanged
  <2> QED BY <1>1, <2>1, <2>2 DEF CatalogInvariant, ProfilesAreSaved, FormIsForm
<1>2. ASSUME NEW id \in Servers, PersistWrites(form, id), form' = to
      PROVE  /\ CatalogInvariant'
             /\ \/ form.id # Nobody /\ saved'[form.id] = Entered(form)
                \/ form.id = Nobody /\ \E s \in FreeIds : saved'[s] = Entered(form)
  <2>1. /\ ProfilesAreSaved'
        /\ saved'[id] = Entered(form)
        /\ IF form.id = Nobody THEN id \in FreeIds ELSE id = form.id
    BY <1>0, <1>2, WrittenIsSaved DEF CatalogInvariant
  <2> QED BY <1>2, <2>1 DEF CatalogInvariant, FormIsForm
<1>3. CASE PersistRefused(form) /\ UNCHANGED form
  BY <1>3 DEF PersistRefused, CatalogInvariant, ProfilesAreSaved, FormIsForm
<1> QED BY <1>1, <1>2, <1>3 DEF LeavesForm

\* What a step of the catalog promises of the form.
EditIsKept ==
  form.dirty /\ ~form'.dirty =>
    \/ form.id # Nobody /\ saved'[form.id] \in {Entered(form'), Entered(form), Absent}
    \/ form.id = Nobody /\ \E s \in FreeIds : saved'[s] \in {Entered(form'), Entered(form)}

LEMMA ManagerKeeps ==
  ASSUME CatalogInvariant, ManagerSteps
  PROVE  CatalogInvariant' /\ EditIsKept
<1>1. CASE OpenManager
  <2>1. PICK s \in Servers \cup {Nobody} : form' = Shows(s, saved)
    BY <1>1 DEF OpenManager
  <2>2. saved' = saved /\ ~form.dirty BY <1>1 DEF OpenManager, CatalogInvariant
  <2> QED BY <2>1, <2>2, ShownIsForm
          DEF CatalogInvariant, ProfilesAreSaved, FormIsForm, EditIsKept
<1>2. CASE FocusOut
  <2>1. form.open /\ Saves(form) BY <1>2 DEF FocusOut
  <2> QED BY <2>1, SavingKeeps DEF CatalogInvariant, FormIsForm, EditIsKept
<1>3. CASE AddProfile
  <2>1. LeavesForm(Shows(Nobody, saved)) BY <1>3 DEF AddProfile
  <2> QED BY <2>1, ShownIsForm, LeavingKeeps DEF CatalogInvariant, EditIsKept
<1>4. CASE CloseManager
  <2>1. LeavesForm(ClosedForm) BY <1>4 DEF CloseManager
  <2>2. /\ ~ClosedForm.dirty
        /\ ClosedForm \in [open : BOOLEAN, id : Servers \cup {Nobody},
                           text : Texts \cup {Nobody}, enabled : BOOLEAN,
                           dirty : BOOLEAN]
    BY DEF ClosedForm
  <2> QED BY <2>1, <2>2, LeavingKeeps DEF EditIsKept
<1>5. CASE ToggleEnabled
  <2> DEFINE f == [form EXCEPT !.enabled = ~@, !.dirty = TRUE]
  <2>1. form.open /\ Saves(f) BY <1>5 DEF ToggleEnabled
  <2>2. /\ f.open /\ f.dirty /\ f.id = form.id
        /\ f \in [open : BOOLEAN, id : Servers \cup {Nobody}, text : Texts \cup {Nobody},
                  enabled : BOOLEAN, dirty : BOOLEAN]
    BY <2>1 DEF CatalogInvariant, FormIsForm
  <2> HIDE DEF f
  <2> QED BY <2>1, <2>2, SavingKeeps DEF CatalogInvariant, EditIsKept
<1>6. CASE RemoveProfile
  <2>1. /\ form.id \in Servers
        /\ saved' = [saved EXCEPT ![form.id] = Absent]
        /\ form' = Shows(Nobody, saved)
    BY <1>6 DEF RemoveProfile, CatalogInvariant, FormIsForm
  <2>2. ProfilesAreSaved' /\ saved'[form.id] = Absent
    BY <2>1 DEF CatalogInvariant, ProfilesAreSaved
  <2>3. FormIsForm' /\ form'.open
    BY <2>1, ShownIsForm DEF CatalogInvariant, FormIsForm
  <2> QED BY <1>6, <2>1, <2>2, <2>3 DEF CatalogInvariant, EditIsKept, RemoveProfile
<1>7. ASSUME NEW t \in Texts \cup {Nobody}, Types(t)
      PROVE  CatalogInvariant' /\ EditIsKept
  <2>1. form.open /\ form' = [form EXCEPT !.text = t, !.dirty = TRUE] /\ saved' = saved
    BY <1>7 DEF Types
  <2>2. FormIsForm' /\ form'.open /\ form'.dirty
    BY <2>1 DEF CatalogInvariant, FormIsForm
  <2> QED BY <2>1, <2>2 DEF CatalogInvariant, ProfilesAreSaved, EditIsKept
<1>8. ASSUME NEW s \in Servers, SelectProfile(s)
      PROVE  CatalogInvariant' /\ EditIsKept
  <2>1. LeavesForm(Shows(s, saved)) BY <1>8 DEF SelectProfile
  <2> QED BY <2>1, ShownIsForm, LeavingKeeps DEF CatalogInvariant, EditIsKept
<1> QED BY <1>1, <1>2, <1>3, <1>4, <1>5, <1>6, <1>7, <1>8 DEF ManagerSteps

\* The other steps leave the profiles and the form alone.
LEMMA OthersKeepEdits ==
  ASSUME CatalogInvariant, [CatalogNext]_catalogVars, ~ManagerSteps
  PROVE  CatalogInvariant' /\ EditIsKept
<1>1. UNCHANGED <<saved, form>>
  <2>1. CASE RefreshSteps
    BY <2>1 DEF RefreshSteps, SyncBegins, SyncRemoves, SyncTurnsToFetch, Fetches,
                SyncEnds, Applies, RefreshesAgain
  <2>2. CASE OpenMenu \/ JobStarts \/ JobActivates \/ JobEnds
    BY <2>2 DEF OpenMenu, JobStarts, JobActivates, JobEnds
  <2> QED BY <2>1, <2>2 DEF CatalogNext, catalogVars
<1> QED BY <1>1 DEF CatalogInvariant, ProfilesAreSaved, FormIsForm, EditIsKept

LEMMA CatalogStarts == CatalogInit => CatalogInvariant
BY DEF CatalogInit, CatalogInvariant, ProfilesAreSaved, FormIsForm, ClosedForm

\* The form of the server manager and the saved profiles are what they should
\* be, and a closed manager has nothing to save, for any number of servers.
THEOREM CatalogInvariance == CatalogSpec => []CatalogInvariant
<1>1. CatalogInvariant /\ [CatalogNext]_catalogVars => CatalogInvariant'
  BY ManagerKeeps, OthersKeepEdits
<1> QED BY <1>1, CatalogStarts, PTL DEF CatalogSpec

\* What the user has typed in the server manager is saved before the form shows
\* something else or closes, unless its profile is deleted; for any servers and
\* entries, whatever a job or a refresh does meanwhile.
THEOREM CatalogNoEditIsLost == CatalogSpec => NoEditIsLost
<1>1. CatalogInvariant /\ [CatalogNext]_catalogVars => EditIsKept
  BY ManagerKeeps, OthersKeepEdits
<1>2. [][EditIsKept]_catalogVars => NoEditIsLost
  BY PTL DEF NoEditIsLost, EditIsKept
<1>3. CatalogInvariant /\ [CatalogNext]_catalogVars => [EditIsKept]_catalogVars
  BY <1>1
<1> QED BY <1>2, <1>3, CatalogInvariance, PTL DEF CatalogSpec

=============================================================================
