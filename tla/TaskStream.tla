---------------------------- MODULE TaskStream ----------------------------
(***************************************************************************)
(* What the reader of a job's events may rely on: the tasks come one after *)
(* the other, each is tried at most twice, a second try starts its items   *)
(* again from the first, and a task has a result only after ALL items of   *)
(* ONE try have been told, in their order.                                 *)
(***************************************************************************)
EXTENDS Naturals, Sequences

CONSTANTS
  Tasks,  \* how many tasks a job has
  Items   \* how many items a whole task has

VARIABLES
  phase,   \* "idle", "ready" for the next task, "trying" it, or "over"
  results, \* how many tasks have a result
  tries,   \* how often the task has been tried, with this try
  told     \* the items of the current try

streamVars == <<phase, results, tries, told>>

StreamInit == phase = "idle" /\ results = 0 /\ tries = 1 /\ told = << >>

Begin == phase = "idle" /\ phase' = "ready" /\ UNCHANGED <<results, tries, told>>

Try ==
  /\ phase = "ready"
  /\ phase' = "trying" /\ tries' = 1 /\ told' = << >>
  /\ UNCHANGED results

Tell ==
  /\ phase = "trying" /\ Len(told) < Items
  /\ told' = Append(told, Len(told) + 1)
  /\ UNCHANGED <<phase, results, tries>>

TryAgain ==
  /\ phase = "trying" /\ tries = 1
  /\ tries' = 2 /\ told' = << >>
  /\ UNCHANGED <<phase, results>>

Complete ==
  /\ phase = "trying" /\ Len(told) = Items
  /\ results' = results + 1
  /\ phase' = IF results' = Tasks THEN "over" ELSE "ready"
  /\ UNCHANGED <<tries, told>>

GiveUp ==
  /\ phase \in {"ready", "trying"}
  /\ phase' = "over"
  /\ UNCHANGED <<results, tries, told>>

Close ==
  /\ phase = "over"
  /\ phase' = "idle" /\ results' = 0 /\ tries' = 1 /\ told' = << >>

StreamNext == Begin \/ Try \/ Tell \/ TryAgain \/ Complete \/ GiveUp \/ Close

StreamSpec == StreamInit /\ [][StreamNext]_streamVars

=============================================================================
