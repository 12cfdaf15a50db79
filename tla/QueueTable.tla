----------------------------- MODULE QueueTable -----------------------------
(***************************************************************************)
(* The queue tab of the desktop application, composed with the queue and   *)
(* its threads: update_queue_table and update_queue_controls of            *)
(* noScribe/main.py.  Only the GUI thread draws.  A thread that has        *)
(* changed a job leaves a task for it (_dispatch_ui), and the user can     *)
(* only press what is drawn, which may be out of date.                     *)
(***************************************************************************)
EXTENDS DesktopQueue

VARIABLES
  rows,      \* queue_row_widgets: the status that the row of a job shows
  controls,  \* the buttons below the table that are enabled
  redraw     \* _ui_tasks holds a drawing of the table (they are all the same)

tableVars == <<rows, controls, redraw>>

Repeatable == {"error", "canceled"}

\* The buttons of a row by the status it shows, beside the X, which all have, and
\* the one that opens what there is of a transcript.  A button that a row has got
\* stays and is hidden, and it makes no difference whether it is there hidden.
Buttons(s) ==
  (IF s \in Repeatable THEN {"repeat"} ELSE {}) \cup (IF s = "finished" THEN {"edit"} ELSE {})

\* update_queue_controls: what can be done by the statuses.
Enabled(js, st) ==
  LET running == \E j \in Members(js) : st[j] \in RUNNING_STATUSES
      pending == \E j \in Members(js) : st[j] = "waiting"
  IN  {b \in {"run", "stop", "clear"} :
         \/ b = "run" /\ ~running /\ pending
         \/ b = "stop" /\ (running \/ pending)
         \/ b = "clear" /\ \E j \in Members(js) : st[j] \notin RUNNING_STATUSES}

DrawsControls == controls' = Enabled(jobs', status')

\* What a row says of its job: the text, the colour, the bar and the tooltip go by
\* the status.
ShownAs(j) == status'[j]

\* update_queue_table on the GUI thread: rows are changed, added and removed, so
\* that there is one for each job that shows its status as it is now.
Draws ==
  /\ rows' = [j \in Members(jobs') |-> ShownAs(j)]
  /\ DrawsControls

TableInit ==
  /\ QueueInit
  /\ rows = [j \in {} |-> "none"] /\ controls = {} /\ redraw = FALSE

-----------------------------------------------------------------------------
\* What is pressed is drawn, and the handler draws what it has changed.
Presses ==
  /\ \/ \E j \in Jobs, enqueue \in BOOLEAN : CreateJob(j, enqueue) /\ Draws
     \/ \E j \in DOMAIN rows : RowAsk(j) /\ UNCHANGED <<rows, controls>>
     \/ \E j \in DOMAIN rows : "repeat" \in Buttons(rows[j]) /\ RowRepeat(j) /\ Draws
     \/ "run" \in controls /\ Run /\ DrawsControls /\ UNCHANGED rows
     \/ "stop" \in controls /\ Stop /\ Draws
     \/ Close /\ Draws
     \/ "clear" \in controls /\ Clear /\ Draws
     \/ RowDismiss /\ UNCHANGED <<rows, controls>>
     \/ (RowRemove \/ RowCancel) /\ Draws
  /\ UNCHANGED redraw

\* _drain_ui_tasks, also while a question is open.
Drains ==
  /\ redraw /\ ~closed
  /\ UNCHANGED vars
  /\ Draws
  /\ redraw' = FALSE

\* The steps of a thread that are followed by update_queue_table.
Announced(w) ==
  \/ WorkerBegins(w) \/ Identifies(w) \/ Transcribes(w)
  \/ Raises(w) \/ Fails(w) \/ Finishes(w) \/ EngineReports(w)

Silent(w) ==
  WorkerStarts(w) \/ WorkerPicks(w) \/ ChecksVoices(w) \/ Completes(w) \/ Resets(w)

\* A fault: a job that has failed is not drawn.
WorksUnseen(w) ==
  /\ Undisturbed
  /\ \/ Announced(w) /\ redraw' = (redraw \/ (~closed /\ worker[w].at # "failing")) /\ UNCHANGED <<rows, controls>>
     \/ Silent(w) /\ UNCHANGED tableVars
     \/ WorkerStops(w) /\ DrawsControls /\ redraw' = (redraw \/ ~closed) /\ UNCHANGED rows
     \/ WorkerEnds(w) /\ DrawsControls /\ UNCHANGED <<rows, redraw>>

\* At its end a thread draws the controls itself.
Works(w) ==
  /\ Undisturbed
  /\ \/ Announced(w) /\ redraw' = (redraw \/ ~closed) /\ UNCHANGED <<rows, controls>>
     \/ Silent(w) /\ UNCHANGED tableVars
     \/ WorkerStops(w) /\ DrawsControls /\ redraw' = (redraw \/ ~closed) /\ UNCHANGED rows
     \/ WorkerEnds(w) /\ DrawsControls /\ UNCHANGED <<rows, redraw>>

TableNext == Presses \/ Drains \/ \E w \in Workers : Works(w)

TableSpec == TableInit /\ [][TableNext]_<<vars, tableVars>>

\* An engine may report for ever, yet a thread that goes on does so, and the GUI
\* thread draws.
Advances(w) == Works(w) /\ ~EngineReports(w)

Answers == Presses /\ dialog # NoDialog

TableFairSpec ==
  /\ TableSpec
  /\ WF_<<vars, tableVars>>(Answers) /\ WF_<<vars, tableVars>>(Drains)
  /\ SF_<<vars, tableVars>>(\E w \in Workers : Advances(w))

-----------------------------------------------------------------------------
\* The table shows the queue when nothing is left to be drawn: each job has its
\* row, which shows its status and so the buttons of it; nobody else has one; and
\* what can be done with the queue can be pressed, so that a waiting job can
\* always be run or be stopped (update_queue_table).
TableShowsQueue ==
  ~redraw /\ ~closed =>
    /\ rows = [j \in Members(jobs) |-> status[j]]
    /\ Waiting # {} => controls \cap {"run", "stop"} # {}
    /\ controls = Enabled(jobs, status)
=============================================================================
