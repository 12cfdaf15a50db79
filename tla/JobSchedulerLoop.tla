-------------------------- MODULE JobSchedulerLoop --------------------------
(***************************************************************************)
(* The reaping loop of noScribe/server/jobs.py as the code runs it, one    *)
(* job after the other in the order of the dict _jobs, beside the closed   *)
(* form that JobScheduler uses.  `order` is that order: the order of       *)
(* admission.                                                              *)
(***************************************************************************)
EXTENDS JobScheduler

VARIABLE order

loopVars == <<sched, order>>

\* The body of the loop for one job: `continue` if it is to be purged later,
\* else expiry and release.
Visit(s, j) ==
  IF \/ s.state[j] = "queued" /\ s.left[j] = 0
     \/ s.state[j] = "ready_for_upload" /\ s.left[j] = 0
    THEN End(s, j, "expired")
    ELSE s

\* _reap_expired_locked.
LoopReap(s, jobs) ==
  LET visited[i \in 0 .. Len(jobs)] ==
        IF i = 0 THEN s ELSE Visit(visited[i - 1], jobs[i])
      last   == visited[Len(jobs)]
      purged == {j \in Jobs : s.state[j] \in TerminalStates /\ s.left[j] = 0}
  IN  [last EXCEPT !.state = [j \in Jobs |-> IF j \in purged THEN "unknown"
                                             ELSE last.state[j]]]

\* Admission, of at most one job in a call, adds a key at the end of the dict; a
\* purge removes keys.
Reorder ==
  LET purged == {j \in Jobs : sched'.state[j] = "unknown"}
      added  == {j \in Jobs \ purged : sched.state[j] = "unknown"}
  IN  order' = Without(order, purged)
                 \o (IF added = {} THEN << >> ELSE <<CHOOSE j \in added : TRUE>>)

LoopInit == SchedulerInit /\ order = << >>

LoopNext == SchedulerNext /\ Reorder

LoopSpec == LoopInit /\ [][LoopNext]_loopVars

\* Fairness is that of the scheduler: the order of the dict hinders nobody.
LoopFairSpec == LoopSpec /\ SchedulerFairness

\* In every state the server can reach the closed form and the loop agree.
ReapIsTheLoop == Reap(sched) = LoopReap(sched, order)

=============================================================================
