------------------------------ MODULE MCEditor ------------------------------
(***************************************************************************)
(* The handlers of the transcript editor, and how it follows the audio in  *)
(* the text: each by itself, `part` is which.                              *)
(***************************************************************************)
EXTENDS Editor, EditorSegments

VARIABLE part

\* Segments that meet, overlap and leave gaps, in the order of their starts,
\* with text around them and, in the last, a link of another kind.
MCDocuments ==
  {<<Plain, Stamped(0, 2), Stamped(1, 4), Plain, Stamped(6, 7)>>,
   <<Stamped(0, 5), Stamped(1, 2), Stamped(3, 3), Stamped(7, 8), Plain>>,
   <<Stamped(1, 2), Stamped(2, 4), Stamped(4, 4), Plain, Stamped(5, 5), Stamped(8, 8)>>,
   <<Stamped(0, 1), Linked, Stamped(3, 4), Stamped(6, 8)>>}

MCEditorInit ==
  /\ part \in {"handlers", "segments"}
  /\ EditorInit
  /\ part = "handlers" => text = CHOOSE d \in Documents : TRUE
  /\ SegmentsInit
  /\ part = "handlers" => cursor = StartsAt(1)

HandlersAlone == part = "handlers" /\ EditorNext /\ UNCHANGED segmentVars
SegmentsAlone == part = "segments" /\ SegmentsNext /\ UNCHANGED editorVars

MCEditorSpec ==
  MCEditorInit /\ [][(HandlersAlone \/ SegmentsAlone) /\ UNCHANGED part]_<<part, editorVars, segmentVars>>
=============================================================================
