--------------------------- MODULE MCGompWorkShare ---------------------------
(***************************************************************************)
(* Model checking of work sharing.                                         *)
(***************************************************************************)
EXTENDS GompWorkShare

Loop(start, end, incr, chunk, nowait) ==
  [kind |-> "loop", start |-> start, end |-> end, incr |-> incr,
   chunk |-> chunk, nowait |-> nowait]
Sections(count, nowait) == [kind |-> "sections", count |-> count, nowait |-> nowait]
Single(nowait) == [kind |-> "single", nowait |-> nowait]

\* Loops with a remainder, going down, empty, with more work than threads.
MCConstructs(nowait) ==
  {Loop(0, 3, 1, 2, nowait), Loop(0, 5, 2, 1, nowait), Loop(2, -1, -1, 2, nowait),
   Loop(1, 0, 1, 1, nowait), Loop(-1, 2, -1, 1, nowait),
   Sections(0, nowait), Sections(2, nowait), Single(nowait)}

\* Two constructs, the last with or without its barrier.  The first has one: a
\* construct that follows a nowait one finds the descriptor in use (README, 4).
MCPrograms ==
  {<<a, b>> : a \in MCConstructs(FALSE), b \in MCConstructs(FALSE) \cup MCConstructs(TRUE)}

\* One construct: every small loop.
MCLoops ==
  {<<Loop(s, e, i, c, FALSE)>> : s \in -1 .. 1, e \in -2 .. 2, i \in {-3, -2, -1, 1, 2, 3},
                                 c \in 1 .. 3}

\* The programs a region may run.
MCAll == MCPrograms \cup MCLoops
==============================================================================
