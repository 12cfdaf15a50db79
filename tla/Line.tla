-------------------------------- MODULE Line --------------------------------
(***************************************************************************)
(* Operations on a waiting line kept as a sequence: collections.deque as   *)
(* noScribe/server/jobs.py uses it (append, popleft, remove, index).       *)
(*                                                                         *)
(* Without is a recursive function and not SelectSeq: SelectSeq takes an   *)
(* operator, about which nothing can be proved.                            *)
(***************************************************************************)
EXTENDS Integers, Sequences

\* Who stands in the line q.
Members(q) == {q[i] : i \in 1 .. Len(q)}

\* Nobody stands in the line q twice.
Distinct(q) == \A i, k \in 1 .. Len(q) : q[i] = q[k] => i = k

\* i stands before k in the line q.
Ahead(q, i, k) == \E m, n \in 1 .. Len(q) : m < n /\ q[m] = i /\ q[n] = k

\* The line q once every member of S has left it: deque.remove, for several.
Without(q, S) ==
  LET kept[i \in 0 .. Len(q)] ==
        IF i = 0 THEN << >>
        ELSE IF q[i] \in S THEN kept[i - 1] ELSE Append(kept[i - 1], q[i])
  IN  kept[Len(q)]

=============================================================================
