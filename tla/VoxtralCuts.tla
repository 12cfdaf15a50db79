---------------------------- MODULE VoxtralCuts ----------------------------
(***************************************************************************)
(* How the Voxtral engine sizes its passes from the machine's memory and   *)
(* cuts the audio at pauses (noScribe/voxtral_engine.py, _auto_chunk_sec,  *)
(* _pass_bounds, _chunk_boundaries).                                       *)
(*                                                                         *)
(*   machine  the model's memory profile, the RAM and the reserve, what    *)
(*            chunk_sec asks for (0: nothing), and the length of the audio *)
(*   chunk    the length of a pass, in units; 0 until it is known          *)
(*   bounds   the cuts so far                                              *)
(*   phase    "sizing", "cutting", "cut" or "refused"                      *)
(* A unit stands for the samples of a second.  What the audio sounds like  *)
(* around a cut is chosen when the cut is made: the level of every frame   *)
(* is 0 below the strict gate, 1 below the loose one, and 2 else.          *)
(***************************************************************************)
EXTENDS Integers, Sequences, FiniteSets, FiniteSetsExt

CONSTANTS
  Machines,      \* [fixed, slope, ram, reserve, pinned, length]
  HardMin,       \* HARD_MIN_CHUNK_SEC
  Trusted,       \* TRUSTED_CHUNK_SEC, below MAX_CHUNK_SEC
  Headroom,      \* MIN_HEADROOM_GB
  SilenceSearch, \* SILENCE_SEARCH_SEC
  ForwardReach,  \* how far a cut may be moved on
  CutFrame,      \* the resolution of the search
  GoodRun,       \* the frames of a clear pause
  MinRun         \* the frames of an acceptable one

\* A frame is a small part of the shortest pass.
ASSUME CutAssumption ==
  /\ \A m \in Machines : /\ m.slope \in Nat \ {0} /\ m.length \in Nat \ {0}
                         /\ m.fixed \in Int /\ m.ram \in Int /\ m.reserve \in Int
                         /\ m.pinned \in Nat
  /\ HardMin \in Nat \ {0} /\ Trusted \in Nat /\ Trusted >= HardMin /\ Headroom \in Int
  /\ SilenceSearch \in Nat /\ ForwardReach \in Nat
  /\ CutFrame \in Nat \ {0} /\ 4 * CutFrame <= HardMin
  /\ MinRun \in Nat /\ GoodRun \in Nat /\ GoodRun >= MinRun

VARIABLES machine, chunk, bounds, phase

cutVars == <<machine, chunk, bounds, phase>>

Least(a, b) == IF a < b THEN a ELSE b
Most(a, b) == IF a > b THEN a ELSE b
CeilDiv(a, b) == (a + b - 1) \div b

-----------------------------------------------------------------------------
(* Memory.                                                                 *)

Peak(m, length) == m.fixed + m.slope * length

MinRam(m) == Peak(m, HardMin) + Headroom

MaxSafeChunk(m) == (m.ram - Headroom - m.fixed) \div m.slope

AutoChunk(m) ==
  LET raw == (m.ram - m.reserve - m.fixed) \div m.slope
  IN  Most(HardMin, Least(Trusted, Least(raw, MaxSafeChunk(m))))

PinnedChunk(m) == Most(HardMin, Least(m.pinned, Least(MaxSafeChunk(m), Trusted)))

-----------------------------------------------------------------------------
(* One cut.                                                                *)

\* The quiet runs <<i, j>> of the frames 0..nf-1: quiet from i up to before j.
QuietRuns(quiet, nf) ==
  {r \in (0..nf) \X (0..nf) :
     /\ r[1] < r[2] /\ \A f \in r[1]..(r[2] - 1) : f \in quiet
     /\ (r[1] - 1) \notin quiet /\ r[2] \notin quiet}

Apart(a, b) == IF a < b THEN b - a ELSE a - b
Width(r) == r[2] - r[1]
Mid(r) == (r[1] + r[2]) \div 2

\* The clear pause nearest to `wanted` (units from the window's start), the
\* first of them; the longest run, the first of them.
ClearPause(runs, wanted) ==
  {r \in runs : /\ Width(r) >= GoodRun
                /\ \A s \in {s \in runs : Width(s) >= GoodRun} :
                     LET dr == Apart(Mid(r) * CutFrame, wanted)
                         ds == Apart(Mid(s) * CutFrame, wanted)
                     IN  dr < ds \/ (dr = ds /\ r[1] <= s[1])}

LongestRun(runs) ==
  {r \in runs : \A s \in runs : Width(r) > Width(s) \/ (Width(r) = Width(s) /\ r[1] <= s[1])}

\* The frame to cut in: a set of at most one.
PauseAt(level, nf, wanted) ==
  LET strict == QuietRuns({f \in 0..(nf - 1) : level[f] = 0}, nf)
      loose  == QuietRuns({f \in 0..(nf - 1) : level[f] <= 1}, nf)
      runs   == IF \E r \in strict : Width(r) >= MinRun
                THEN strict ELSE loose
      clear  == ClearPause(runs, wanted)
      long   == {r \in LongestRun(runs) : Width(r) >= MinRun}
  IN  {Mid(r) : r \in IF clear # {} THEN clear ELSE long}

\* A bug: moving the cut on may take the pass past its length.
SearchEndPastMax(target, from, maxLen, n, step) == Least(target + ForwardReach, n - step \div 2)

\* Where the search for a pause ends.
SearchEnd(target, from, maxLen, n, step) ==
  Least(target + ForwardReach, Least(from + maxLen, n - step \div 2))

\* The cuts that may follow `from`, whatever the audio sounds like.
NextCuts(from, n, chunkLen, backLen, maxLen) ==
  LET longTail == chunkLen + chunkLen \div 2
      remaining == n - from
      step == Least(IF remaining >= longTail THEN chunkLen ELSE remaining \div 2, maxLen)
      target == from + step
      lo == Most(from + Most(CutFrame, step \div 2), target - backLen)
      hi == SearchEnd(target, from, maxLen, n, step)
      nf == (hi - lo) \div CutFrame
      wanted == Least(target, hi) - lo
      cuts == IF hi - lo <= 2 * CutFrame THEN {target}
              ELSE UNION {LET pause == PauseAt(level, nf, wanted)
                          IN  IF pause = {} THEN {target}
                              ELSE {lo + f * CutFrame + CutFrame \div 2 : f \in pause}
                            : level \in [0..(nf - 1) -> 0..2]}
  IN  {Least(Most(cut, from + CutFrame), n) : cut \in cuts}

-----------------------------------------------------------------------------
(* The passes.                                                             *)

CutsInit ==
  /\ machine \in Machines /\ chunk = 0 /\ bounds = <<0>> /\ phase = "sizing"

\* No pass fits: refused before anything is loaded.
RefusesMachine ==
  /\ phase = "sizing" /\ machine.ram < MinRam(machine)
  /\ phase' = "refused"
  /\ UNCHANGED <<machine, chunk, bounds>>

SizesPasses ==
  /\ phase = "sizing" /\ machine.ram >= MinRam(machine)
  /\ chunk' = IF machine.pinned = 0 THEN AutoChunk(machine) ELSE PinnedChunk(machine)
  /\ phase' = "cutting"
  /\ UNCHANGED <<machine, bounds>>

\* The fewest passes that fit, of about the same length.
ChunkLen == CeilDiv(machine.length, CeilDiv(machine.length, chunk))

\* The tail is one pass.
TailFits ==
  IF Len(bounds) = 1 /\ machine.length <= Least(ChunkLen, chunk) THEN TRUE
  ELSE machine.length - bounds[Len(bounds)]
         <= Least(chunk, ChunkLen + ChunkLen \div 2)

CutsAtPause ==
  /\ phase = "cutting" /\ ~TailFits
  /\ \E cut \in NextCuts(bounds[Len(bounds)], machine.length, ChunkLen,
                         Least(SilenceSearch, ChunkLen \div 2), chunk) :
       bounds' = Append(bounds, cut)
  /\ UNCHANGED <<machine, chunk, phase>>

EndsCutting ==
  /\ phase = "cutting" /\ TailFits
  /\ bounds' = Append(bounds, machine.length) /\ phase' = "cut"
  /\ UNCHANGED <<machine, chunk>>

CutsNext == RefusesMachine \/ SizesPasses \/ CutsAtPause \/ EndsCutting

CutsSpec == CutsInit /\ [][CutsNext]_cutVars

-----------------------------------------------------------------------------
(* Properties.                                                             *)

Passes == {[from |-> bounds[k], to |-> bounds[k + 1]] : k \in 1..(Len(bounds) - 1)}

\* However the pauses lie, the passes tile the audio; none needs more memory
\* than the machine has next to the aligner; and none is shorter than about a
\* quarter of what an even division gives, down to a sliver at the end
\* (_chunk_boundaries, max_safe_chunk_sec).
PassesFit ==
  /\ phase = "cut" => bounds[1] = 0 /\ bounds[Len(bounds)] = machine.length
  /\ \A p \in Passes :
       /\ p.from < p.to
       /\ Peak(machine, p.to - p.from) + Headroom <= machine.ram
       /\ 4 * (p.to - p.from) + 4 >= ChunkLen

=============================================================================
