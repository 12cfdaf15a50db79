------------------------------ MODULE FifoSlot ------------------------------
(***************************************************************************)
(* What the server's scheduler promises, without jobs, deadlines or        *)
(* methods: ONE holder of the execution slot, everybody else in a line, a  *)
(* slot that is never idle while somebody waits, and a line in which       *)
(* nobody is overtaken.                                                    *)
(***************************************************************************)
EXTENDS Line

CONSTANTS
  Clients,  \* who may want the slot
  Nobody    \* no client: the holder of a free slot

VARIABLES holder, line

slotVars == <<holder, line>>

SlotInit == holder = Nobody /\ line = << >>

Present == Members(line) \cup ({holder} \ {Nobody})

\* The clients of `leavers` go, then those of `joiners` (at most one) join the
\* end of the line, and a free slot is given to whoever is then first.
Turn(leavers, joiners) ==
  LET rest == Without(line, leavers) \o joiners
  IN  IF holder \notin leavers \cup {Nobody}
        THEN holder' = holder /\ line' = rest
      ELSE IF rest = << >>
        THEN holder' = Nobody /\ line' = << >>
        ELSE holder' = Head(rest) /\ line' = Tail(rest)

SlotNext ==
  \E leavers \in SUBSET Present :
    \E joiners \in {<< >>} \cup {<<c>> : c \in Clients \ Present} :
      Turn(leavers, joiners)

SlotSpec == SlotInit /\ [][SlotNext]_slotVars

=============================================================================
