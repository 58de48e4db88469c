-------------------------- MODULE GompWorkShareProofs --------------------------
(***************************************************************************)
(* Proofs about work sharing, for any number of threads and any region     *)
(* whose constructs, but for the last, end in a barrier: every iteration,  *)
(* section and single body is executed exactly once.                       *)
(***************************************************************************)
EXTENDS GompWorkShare, FiniteSetTheorems, TLAPS

\* A construct that follows a nowait one would find the descriptor in use.
NowaitLast == \A p \in Programs : \A j \in 1 .. Len(p) - 1 : ~p[j].nowait

(* The inductive invariant. *)

Locked == {"first", "peek", "bump", "peeknext", "bumpnext"}
Counting == {"count", "countstore"}
Past == {"reset", "sync", "barrier"}

\* A construct as a loop: what LoopInit and SectionsInit write for it.
From(c) == IF c.kind = "loop" THEN c.start ELSE 1
To(c) == CASE c.kind = "loop" -> LoopInit(c).end
           [] c.kind = "sections" -> c.count + 1
           [] c.kind = "single" -> 2
By(c) == IF c.kind = "loop" THEN c.incr ELSE 1
ChunkOf(c) == IF c.kind = "loop" THEN c.chunk ELSE 1

\* The threads that have been at the descriptor for construct j, and those that are through with it.
Touched(j) == {t \in Threads : cur[t] > j \/ (cur[t] = j /\ pc[t] \notin {"begin", "first"})}
Counted(j) == {t \in Threads : cur[t] > j \/ (cur[t] = j /\ pc[t] \in Past)}
Resetting(j) == \E t \in Threads : cur[t] = j /\ pc[t] = "reset"
InUse(j) == Touched(j) # {} /\ (Counted(j) # Threads \/ Resetting(j))

\* How far construct j has been handed out.
Reached(j) == IF pieces[j] = << >> THEN From(prog[j]) ELSE pieces[j][Len(pieces[j])][2]

\* The descriptor while it serves construct j.
Serves(j) ==
  /\ ws.checkfirst = WS_INITED /\ ws.completed = Cardinality(Counted(j))
  /\ prog[j].kind # "single" =>
       /\ ws.end = To(prog[j]) /\ ws.next = Reached(j)
       /\ ws.incr = By(prog[j]) /\ ws.chunk_size = ChunkOf(prog[j])

\* Position y is reached from the start by whole steps.
OnStep(c, y) == \E m \in Nat : y = From(c) + m * By(c)

\* The pieces handed out follow one another from the start to where the construct has got.
PiecesInv(j) ==
  LET c == prog[j]
      q == pieces[j]
  IN
  /\ Reached(j) = To(c) \/ (OnStep(c, Reached(j)) /\ Before(Reached(j), To(c), By(c)))
  /\ \A i \in 1 .. Len(q) :
       /\ OnStep(c, q[i][1]) /\ Before(q[i][1], q[i][2], By(c))
       /\ ~Before(Reached(j), q[i][2], By(c)) /\ ~Before(To(c), q[i][2], By(c))
  /\ \A i, l \in 1 .. Len(q) : i < l => ~Before(q[l][1], q[i][2], By(c))
  /\ \A x \in Iterations(From(c), Reached(j), By(c)) : \E i \in 1 .. Len(q) : x \in Piece(c, q[i])

\* The descriptor is in use for one construct, or it is free.
DescriptorInv ==
  /\ \A j \in DOMAIN prog : InUse(j) => Serves(j)
  /\ ws.checkfirst = WS_INITED => \E j \in DOMAIN prog : InUse(j)

\* Thread t has found nothing left of construct j.
Ended(t, j) == cur[t] > j \/ (cur[t] = j /\ pc[t] \in {"end"} \cup Counting \cup Past)

ConstructInv(j) ==
  /\ PiecesInv(j)
  /\ Touched(j) = {} => pieces[j] = << >>
  /\ \A t \in Threads : Ended(t, j) => Reached(j) = To(prog[j])

\* Where a thread is, and what it holds.
ThreadInv(t) ==
  /\ cur[t] = Len(prog) + 1 <=> pc[t] = "done"
  /\ pc[t] \in {"peek", "bump", "work", "peeknext", "bumpnext", "end", "count", "countstore"} => prog[cur[t]].kind # "single"
  /\ pc[t] = "reset" => prog[cur[t]].kind = "sections" /\ Counted(cur[t]) = Threads
  /\ pc[t] = "barrier" => ~prog[cur[t]].nowait
  /\ pc[t] \in {"bump", "bumpnext"} => reg[t] = ws.next /\ ws.next # ws.end
  /\ pc[t] = "countstore" => reg[t] = ws.completed
  /\ left[t] = IF pc[t] = "done" /\ prog[Len(prog)].nowait THEN Len(prog) - 1 ELSE cur[t] - 1
  /\ arrived[t] = IF pc[t] = "barrier" THEN left[t] + 1 ELSE left[t]

\* The barrier: nobody has left one that another thread has not entered.
BarrierInv(t, u) == left[u] <= arrived[t]

LockInv ==
  /\ \A t, u \in Threads : pc[t] \in Locked /\ pc[u] \in Locked => t = u
  /\ lock = 0 <=> \A t \in Threads : pc[t] \notin Locked
  /\ \A t, u \in Threads : pc[t] \in Counting /\ pc[u] \in Counting => t = u
  /\ exitLock = 0 <=> \A t \in Threads : pc[t] \notin Counting
  /\ \A t, u \in Threads : pc[t] = "reset" /\ pc[u] = "reset" => t = u

WorkInv ==
  /\ TypeOK /\ LockInv /\ DescriptorInv
  /\ \A j \in 1 .. Len(prog) - 1 : ~prog[j].nowait
  /\ \A j \in DOMAIN prog : ConstructInv(j)
  /\ \A t \in Threads : ThreadInv(t)
  /\ \A t, u \in Threads : BarrierInv(t, u)

-----------------------------------------------------------------------------
(* The iterations of a loop. *)

\* A product of whole numbers grows with its factors.
LEMMA Grows == ASSUME NEW a \in Nat, NEW b \in Nat \ {0} PROVE a * b \in Nat /\ a <= a * b
<1>1. a * (b - 1) \in Nat
  <2>1. b - 1 \in Nat
    OBVIOUS
  <2>2. QED
    BY <2>1
<1>2. a * b = a * (b - 1) + a
  OBVIOUS
<1>3. QED
  BY <1>1, <1>2

\* Steps in the direction of the stride.
LEMMA Sign ==
  ASSUME NEW a \in Int, NEW b \in Int \ {0}
  PROVE  /\ a * b \in Int
         /\ a < 0 => Before(a * b, 0, b)
         /\ a >= 0 => ~Before(a * b, 0, b)
<1>1. CASE b > 0
  <2>1. b \in Nat \ {0}
    BY <1>1
  <2>2. ASSUME a < 0 PROVE a * b < 0
    <3>1. -a \in Nat /\ -a > 0
      BY <2>2
    <3>2. -a <= (-a) * b
      BY <2>1, <3>1, Grows
    <3>3. (-a) * b = -(a * b)
      OBVIOUS
    <3>4. QED
      BY <3>1, <3>2, <3>3
  <2>3. ASSUME a >= 0 PROVE a * b >= 0
    BY <2>1, <2>3, Grows
  <2>4. QED
    BY <1>1, <2>2, <2>3 DEF Before
<1>2. CASE b < 0
  <2>1. -b \in Nat \ {0} /\ a * (-b) = -(a * b)
    BY <1>2
  <2>2. ASSUME a < 0 PROVE a * b > 0
    <3>1. -a \in Nat /\ -a > 0
      BY <2>2
    <3>2. -a <= (-a) * (-b)
      BY <2>1, <3>1, Grows
    <3>3. (-a) * (-b) = a * b
      OBVIOUS
    <3>4. QED
      BY <3>1, <3>2, <3>3
  <2>3. ASSUME a >= 0 PROVE a * b <= 0
    BY <2>1, <2>3, Grows
  <2>4. QED
    BY <1>2, <2>2, <2>3 DEF Before
<1>3. QED
  BY <1>1, <1>2

\* The iterations are the steps before the end.
LEMMA IterationsAre ==
  ASSUME NEW from \in Int, NEW to \in Int, NEW incr \in Int \ {0}, NEW x
  PROVE  x \in Iterations(from, to, incr) <=> \E q \in Nat : x = from + q * incr /\ Before(x, to, incr)
<1>1. ASSUME x \in Iterations(from, to, incr) PROVE \E q \in Nat : x = from + q * incr /\ Before(x, to, incr)
  <2>1. PICK most \in Nat : x \in {y \in {from + q * incr : q \in 0 .. most} : Before(y, to, incr)}
    BY <1>1 DEF Iterations, Before
  <2>2. PICK q \in 0 .. most : x = from + q * incr /\ Before(x, to, incr)
    BY <2>1
  <2>3. QED
    BY <2>2
<1>2. ASSUME NEW q \in Nat, x = from + q * incr, Before(x, to, incr) PROVE x \in Iterations(from, to, incr)
  <2>1. CASE incr > 0
    <3>1. q <= q * incr /\ q * incr \in Nat
      BY <2>1, Grows
    <3>2. from < to /\ q \in 0 .. to - from
      BY <1>2, <2>1, <3>1 DEF Before
    <3>3. QED
      BY <1>2, <2>1, <3>2 DEF Iterations, Before
  <2>2. CASE incr < 0
    <3>1. q <= q * (-incr) /\ q * (-incr) \in Nat /\ q * (-incr) = -(q * incr) /\ q * incr \in Int
      BY <2>2, Grows
    <3>2. to < from /\ q \in 0 .. from - to
      BY <1>2, <2>2, <3>1 DEF Before
    <3>3. QED
      BY <1>2, <2>2, <3>2 DEF Iterations, Before
  <2>3. QED
    BY <2>1, <2>2
<1>3. QED
  BY <1>1, <1>2

\* What comes before another position, in the direction of the stride, is an order.
LEMMA Order ==
  ASSUME NEW x \in Int, NEW y \in Int, NEW z \in Int, NEW incr \in Int
  PROVE  /\ ~Before(x, x, incr)
         /\ Before(x, y, incr) \/ Before(y, x, incr) \/ x = y
         /\ Before(x, y, incr) => ~Before(y, x, incr)
         /\ Before(x, y, incr) /\ ~Before(z, y, incr) => Before(x, z, incr)
         /\ ~Before(y, x, incr) /\ Before(y, z, incr) => Before(x, z, incr)
  BY DEF Before

\* The positions of a construct, by its kind.
LEMMA ConstructFacts ==
  ASSUME NEW c \in Constructs
  PROVE  /\ c.kind \in {"loop", "sections", "single"} /\ c.nowait \in BOOLEAN
         /\ From(c) \in Int /\ To(c) \in Int /\ By(c) \in Int \ {0} /\ ChunkOf(c) \in Nat \ {0}
         /\ ~Before(To(c), From(c), By(c))
<1>1. CASE c \in Loops
  <2>1. /\ c.kind = "loop" /\ c.nowait \in BOOLEAN
        /\ c.start \in Int /\ c.end \in Int /\ c.incr \in Int \ {0} /\ c.chunk \in Nat \ {0}
    BY <1>1 DEF Loops
  <2>2. From(c) = c.start /\ By(c) = c.incr /\ ChunkOf(c) = c.chunk /\ To(c) = LoopInit(c).end
    BY <2>1 DEF From, By, ChunkOf, To
  <2>3. QED
    BY <2>1, <2>2 DEF LoopInit, Before
<1>2. CASE c \in SectionLists
  <2>1. c.kind = "sections" /\ c.nowait \in BOOLEAN /\ c.count \in Nat
    BY <1>2 DEF SectionLists
  <2>2. From(c) = 1 /\ By(c) = 1 /\ ChunkOf(c) = 1 /\ To(c) = c.count + 1
    BY <2>1 DEF From, By, ChunkOf, To
  <2>3. QED
    BY <2>1, <2>2 DEF Before
<1>3. CASE c \in Singles
  <2>1. c.kind = "single" /\ c.nowait \in BOOLEAN
    BY <1>3 DEF Singles
  <2>2. From(c) = 1 /\ By(c) = 1 /\ ChunkOf(c) = 1 /\ To(c) = 2
    BY <2>1 DEF From, By, ChunkOf, To
  <2>3. QED
    BY <2>1, <2>2 DEF Before
<1>4. QED
  BY <1>1, <1>2, <1>3 DEF Constructs

\* What a construct has to do are the iterations that the descriptor is set up for.
LEMMA WorkIs ==
  ASSUME NEW c \in Constructs PROVE Work(c) = Iterations(From(c), To(c), By(c))
<1>1. CASE c \in Loops
  <2>1. c.kind = "loop" /\ c.start \in Int /\ c.end \in Int /\ c.incr \in Int \ {0}
    BY <1>1 DEF Loops
  <2>2. From(c) = c.start /\ By(c) = c.incr /\ To(c) = LoopInit(c).end /\ Work(c) = Iterations(c.start, c.end, c.incr)
    BY <2>1 DEF From, By, To, Work
  <2>3. CASE Before(c.end, c.start, c.incr)
    <3>1. To(c) = c.start
      BY <2>1, <2>2, <2>3 DEF LoopInit, Before
    <3>2. ASSUME NEW x, NEW e \in {c.start, c.end}, x \in Iterations(c.start, e, c.incr) PROVE FALSE
      <4>1. PICK q \in Nat : x = c.start + q * c.incr /\ Before(x, e, c.incr)
        BY <2>1, <3>2, IterationsAre
      <4>2. q * c.incr \in Int /\ ~Before(q * c.incr, 0, c.incr)
        <5>1. q \in Int /\ q >= 0
          OBVIOUS
        <5>2. QED
          BY <2>1, <5>1, Sign
      <4>3. QED
        BY <2>1, <2>3, <4>1, <4>2 DEF Before
    <3>3. Iterations(c.start, c.end, c.incr) = {} /\ Iterations(c.start, c.start, c.incr) = {}
      BY <3>2
    <3>4. QED
      BY <2>2, <3>1, <3>3
  <2>4. CASE ~Before(c.end, c.start, c.incr)
    <3>1. To(c) = c.end
      BY <2>1, <2>2, <2>4 DEF LoopInit, Before
    <3>2. QED
      BY <2>2, <3>1
  <2>5. QED
    BY <2>3, <2>4
<1>2. ASSUME NEW n \in Nat PROVE Iterations(1, n + 1, 1) = 1 .. n
  <2>1. ASSUME NEW x \in Iterations(1, n + 1, 1) PROVE x \in 1 .. n
    BY <2>1 DEF Iterations, Before
  <2>2. ASSUME NEW x \in 1 .. n PROVE x \in Iterations(1, n + 1, 1)
    <3>1. x - 1 \in Nat /\ x = 1 + (x - 1) * 1 /\ Before(x, n + 1, 1)
      BY DEF Before
    <3>2. QED
      BY <3>1, IterationsAre
  <2>3. QED
    BY <2>1, <2>2
<1>3. CASE c \in SectionLists
  <2>1. c.kind = "sections" /\ c.count \in Nat
    BY <1>3 DEF SectionLists
  <2>2. From(c) = 1 /\ By(c) = 1 /\ To(c) = c.count + 1 /\ Work(c) = 1 .. c.count
    BY <2>1 DEF From, By, To, Work
  <2>3. QED
    BY <1>2, <2>1, <2>2
<1>4. CASE c \in Singles
  <2>1. c.kind = "single"
    BY <1>4 DEF Singles
  <2>2. From(c) = 1 /\ By(c) = 1 /\ To(c) = 1 + 1 /\ Work(c) = {1}
    BY <2>1 DEF From, By, To, Work
  <2>3. Iterations(1, 1 + 1, 1) = 1 .. 1
    BY <1>2
  <2>4. QED
    BY <2>2, <2>3
<1>5. QED
  BY <1>1, <1>3, <1>4 DEF Constructs

\* Two pieces that meet on a step make up the piece from the first start to the last end.
LEMMA Tile ==
  ASSUME NEW from \in Int, NEW m \in Nat, NEW by \in Int \ {0}, NEW y \in Int, NEW z \in Int, y = from + m * by,
         NEW x \in Iterations(from, z, by)
  PROVE  x \in Iterations(from, y, by) \/ x \in Iterations(y, z, by)
<1>1. PICK q \in Nat : x = from + q * by /\ Before(x, z, by)
  BY IterationsAre
<1>2. q * by \in Int /\ m * by \in Int /\ (q - m) * by = q * by - m * by /\ (q - m) * by \in Int /\ x \in Int
  BY <1>1, Sign
<1>3. CASE q < m
  <2>1. Before((q - m) * by, 0, by)
    <3>1. q - m \in Int /\ q - m < 0
      BY <1>3
    <3>2. QED
      BY <3>1, Sign
  <2>2. Before(x, y, by)
    BY <1>1, <1>2, <2>1 DEF Before
  <2>3. QED
    BY <1>1, <2>2, IterationsAre
<1>4. CASE q >= m
  <2>1. q - m \in Nat /\ x = y + (q - m) * by
    BY <1>1, <1>2, <1>4
  <2>2. QED
    BY <1>1, <2>1, IterationsAre
<1>5. QED
  BY <1>3, <1>4

\* The clipped chunk goes forward, to the end or by the whole chunk.
LEMMA ClipStep ==
  ASSUME NEW y \in Int, NEW e \in Int, NEW by \in Int \ {0}, NEW chunk \in Nat \ {0}, Before(y, e, by)
  PROVE  LET z == y + Clip(chunk * by, e - y, by)
         IN  /\ z \in Int /\ Before(y, z, by)
             /\ z = e \/ (z = y + chunk * by /\ Before(z, e, by))
<1>1. chunk * by \in Int
  OBVIOUS
<1>2. CASE by > 0
  <2>1. chunk <= chunk * by
    BY <1>2, Grows
  <2>2. QED
    BY <1>1, <1>2, <2>1 DEF Clip, Before
<1>3. CASE by < 0
  <2>1. chunk <= chunk * (-by) /\ chunk * (-by) = -(chunk * by)
    BY <1>3, Grows
  <2>2. QED
    BY <1>1, <1>3, <2>1 DEF Clip, Before
<1>4. QED
  BY <1>2, <1>3

-----------------------------------------------------------------------------
(* The pieces of one construct. *)

\* The region and its constructs.
LEMMA ProgFacts ==
  ASSUME TypeOK
  PROVE  /\ Len(prog) \in Nat \ {0} /\ DOMAIN prog = 1 .. Len(prog)
         /\ \A j \in DOMAIN prog : prog[j] \in Constructs /\ pieces[j] \in Seq(Int \X Int)
<1>1. prog \in Seq(Constructs) /\ Len(prog) \in 1 .. MaxLen /\ MaxLen \in Nat
  BY ConstantsAssumption DEF TypeOK
<1>2. pieces \in [DOMAIN prog -> Seq(Int \X Int)]
  BY DEF TypeOK
<1>3. QED
  BY <1>1, <1>2

\* A piece consists of whole numbers, and lies on the iterations of its stride.
LEMMA PieceFacts ==
  ASSUME TypeOK, NEW j \in DOMAIN prog, NEW i \in 1 .. Len(pieces[j])
  PROVE  /\ pieces[j][i][1] \in Int /\ pieces[j][i][2] \in Int
         /\ Piece(prog[j], pieces[j][i]) = Iterations(pieces[j][i][1], pieces[j][i][2], By(prog[j]))
<1>1. pieces[j] \in Seq(Int \X Int)
  BY ProgFacts
<1>2. pieces[j][i] \in Int \X Int
  BY <1>1
<1>3. QED
  BY <1>2 DEF Piece, By

\* How far a construct has got is a whole number.
LEMMA ReachedFacts ==
  ASSUME TypeOK, NEW j \in DOMAIN prog PROVE Reached(j) \in Int
<1>1. pieces[j] \in Seq(Int \X Int) /\ prog[j] \in Constructs
  BY ProgFacts
<1>2. CASE pieces[j] = << >>
  BY <1>1, <1>2, ConstructFacts DEF Reached
<1>3. CASE pieces[j] # << >>
  <2>1. Len(pieces[j]) \in 1 .. Len(pieces[j])
    BY <1>1, <1>3
  <2>2. QED
    BY <1>3, <2>1, PieceFacts DEF Reached
<1>4. QED
  BY <1>2, <1>3

\* No piece reaches outside its construct.
LEMMA PiecesInside ==
  ASSUME TypeOK, NEW j \in DOMAIN prog, PiecesInv(j), NEW i \in 1 .. Len(pieces[j]),
         NEW x \in Piece(prog[j], pieces[j][i])
  PROVE  x \in Work(prog[j])
<1>1. prog[j] \in Constructs
  BY ProgFacts
<1>2. PICK from \in Int, to \in Int, by \in Int \ {0} : from = From(prog[j]) /\ to = To(prog[j]) /\ by = By(prog[j])
  BY <1>1, ConstructFacts
<1>3. PICK a \in Int, b \in Int : a = pieces[j][i][1] /\ b = pieces[j][i][2] /\ x \in Iterations(a, b, by)
  BY <1>2, PieceFacts
<1>4. PICK m \in Nat : a = from + m * by
  BY <1>2, <1>3 DEF PiecesInv, OnStep
<1>5. ~Before(to, b, by)
  BY <1>2, <1>3 DEF PiecesInv
<1>6. PICK q \in Nat : x = a + q * by /\ Before(x, b, by)
  <2>1. x \in Iterations(a, b, by) <=> \E q \in Nat : x = a + q * by /\ Before(x, b, by)
    BY IterationsAre
  <2>2. QED
    BY <1>3, <2>1
<1>7. x \in Int /\ Before(x, to, by)
  <2>1. x \in Int
    BY <1>6
  <2>2. QED
    BY <1>5, <1>6, <2>1, Order
<1>8. m + q \in Nat /\ x = from + (m + q) * by
  <2>1. (m + q) * by = m * by + q * by
    OBVIOUS
  <2>2. m * by \in Int /\ q * by \in Int
    OBVIOUS
  <2>3. QED
    BY <1>4, <1>6, <2>1, <2>2
<1>9. x \in Iterations(from, to, by)
  BY <1>7, <1>8, IterationsAre
<1>10. QED
  BY <1>1, <1>2, <1>9, WorkIs

\* No two pieces meet.
LEMMA PiecesApart ==
  ASSUME TypeOK, NEW j \in DOMAIN prog, PiecesInv(j), NEW i \in 1 .. Len(pieces[j]), NEW l \in 1 .. Len(pieces[j]), i < l,
         NEW x, x \in Piece(prog[j], pieces[j][i]), x \in Piece(prog[j], pieces[j][l])
  PROVE  FALSE
<1>1. PICK by \in Int \ {0} : by = By(prog[j])
  BY ProgFacts, ConstructFacts
<1>2. PICK a \in Int, b \in Int : a = pieces[j][i][1] /\ b = pieces[j][i][2] /\ x \in Iterations(a, b, by)
  BY <1>1, PieceFacts
<1>3. PICK e \in Int, f \in Int : e = pieces[j][l][1] /\ f = pieces[j][l][2] /\ x \in Iterations(e, f, by)
  BY <1>1, PieceFacts
<1>4. ~Before(e, b, by)
  BY <1>1, <1>2, <1>3 DEF PiecesInv
<1>5. Before(x, b, by)
  BY <1>2, IterationsAre
<1>6. PICK q \in Nat : x = e + q * by
  <2>1. x \in Iterations(e, f, by) <=> \E q \in Nat : x = e + q * by /\ Before(x, f, by)
    BY IterationsAre
  <2>2. QED
    BY <1>3, <2>1
<1>7. q * by \in Int /\ ~Before(q * by, 0, by)
  <2>1. q \in Int /\ q >= 0
    OBVIOUS
  <2>2. QED
    BY <2>1, Sign
<1>8. QED
  BY <1>4, <1>5, <1>6, <1>7 DEF Before

\* Nothing is executed twice.
LEMMA RunOnce ==
  ASSUME TypeOK, NEW j \in DOMAIN prog, PiecesInv(j), NEW x
  PROVE  /\ TimesRun(j, x) \in Nat /\ TimesRun(j, x) <= 1
         /\ (\E i \in 1 .. Len(pieces[j]) : x \in Piece(prog[j], pieces[j][i])) => TimesRun(j, x) = 1
<1> DEFINE S == {i \in DOMAIN pieces[j] : x \in Piece(prog[j], pieces[j][i])}
<1>1. DOMAIN pieces[j] = 1 .. Len(pieces[j]) /\ Len(pieces[j]) \in Nat
  BY ProgFacts
<1>2. ASSUME NEW i \in S, NEW l \in S PROVE i = l
  <2>1. i \in 1 .. Len(pieces[j]) /\ l \in 1 .. Len(pieces[j])
    BY <1>1
  <2>2. ~(i < l) /\ ~(l < i)
    BY <2>1, PiecesApart
  <2>3. QED
    BY <2>1, <2>2
<1>3. TimesRun(j, x) = Cardinality(S)
  BY DEF TimesRun
<1> HIDE DEF S
<1>4. CASE S = {}
  <2>1. Cardinality(S) = 0
    BY <1>4, FS_EmptySet, Zenon
  <2>2. QED
    BY <1>1, <1>3, <1>4, <2>1 DEF S
<1>5. ASSUME NEW i \in S PROVE Cardinality(S) = 1
  <2>1. S = {i}
    BY <1>2
  <2>2. Cardinality({i}) = 1
    BY FS_Singleton, Zenon
  <2>3. QED
    BY <2>1, <2>2
<1>6. QED
  BY <1>3, <1>4, <1>5

\* A construct that has reached its end has executed everything.
LEMMA RunAll ==
  ASSUME TypeOK, NEW j \in DOMAIN prog, PiecesInv(j), Reached(j) = To(prog[j]), NEW x \in Work(prog[j])
  PROVE  TimesRun(j, x) = 1
<1>1. x \in Iterations(From(prog[j]), Reached(j), By(prog[j]))
  BY ProgFacts, WorkIs
<1>2. \E i \in 1 .. Len(pieces[j]) : x \in Piece(prog[j], pieces[j][i])
  BY <1>1 DEF PiecesInv
<1>3. QED
  BY <1>2, RunOnce

\* A piece from where the construct has got, on or up to its end, keeps the pieces in order.
LEMMA Extend ==
  ASSUME TypeOK, NEW j \in DOMAIN prog, PiecesInv(j), NEW y \in Int, NEW z \in Int, y = Reached(j),
         OnStep(prog[j], y), Before(y, z, By(prog[j])),
         z = To(prog[j]) \/ (OnStep(prog[j], z) /\ Before(z, To(prog[j]), By(prog[j]))),
         prog' = prog, pieces' = [pieces EXCEPT ![j] = Append(@, <<y, z>>)]
  PROVE  PiecesInv(j)' /\ Reached(j)' = z
<1>1. PICK c \in Constructs : c = prog[j]
  BY ProgFacts
<1>2. PICK from \in Int, to \in Int, by \in Int \ {0} : from = From(c) /\ to = To(c) /\ by = By(c)
  BY ConstructFacts
<1>3. PICK q \in Seq(Int \X Int) : q = pieces[j]
  BY ProgFacts
<1>4. PICK n \in Nat : n = Len(q)
  OBVIOUS
<1>5. PICK r : r = Append(q, <<y, z>>)
  OBVIOUS
<1>6. pieces'[j] = r
  BY <1>3, <1>5 DEF TypeOK
<1>7. r \in Seq(Int \X Int) /\ Len(r) = n + 1 /\ r # << >> /\ r[n + 1] = <<y, z>>
  BY <1>4, <1>5
<1>8. \A i \in 1 .. n : r[i] = q[i]
  BY <1>4, <1>5
<1>9. \A i \in 1 .. n : q[i][1] \in Int /\ q[i][2] \in Int
  <2>1. \A i \in 1 .. n : q[i] \in Int \X Int
    BY <1>4
  <2>2. QED
    BY <2>1
<1>10. Reached(j)' = z
  <2>1. Reached(j)' = r[Len(r)][2]
    BY <1>6, <1>7 DEF Reached
  <2>2. QED
    BY <1>7, <2>1
<1>11. ~Before(to, z, by)
  BY <1>1, <1>2, Order
<1>12. \A i \in 1 .. n :
         /\ OnStep(c, q[i][1]) /\ Before(q[i][1], q[i][2], by)
         /\ ~Before(y, q[i][2], by) /\ ~Before(to, q[i][2], by)
  BY <1>1, <1>2, <1>3, <1>4 DEF PiecesInv
<1>13. \A i, l \in 1 .. n : i < l => ~Before(q[l][1], q[i][2], by)
  BY <1>1, <1>2, <1>3, <1>4 DEF PiecesInv
<1>14. \A x \in Iterations(from, y, by) : \E i \in 1 .. n : x \in Iterations(q[i][1], q[i][2], by)
  BY <1>1, <1>2, <1>3, <1>4 DEF PiecesInv, Piece, By
<1>15. Before(y, z, by) /\ OnStep(c, y)
  BY <1>1, <1>2
<1>16. ASSUME NEW i \in 1 .. n + 1
       PROVE  /\ OnStep(c, r[i][1]) /\ Before(r[i][1], r[i][2], by)
              /\ ~Before(z, r[i][2], by) /\ ~Before(to, r[i][2], by)
  <2>1. CASE i \in 1 .. n
    <3>1. r[i] = q[i] /\ q[i][2] \in Int
      BY <1>8, <1>9, <2>1
    <3>2. ~Before(y, q[i][2], by)
      BY <1>12, <2>1
    <3>3. ~Before(z, q[i][2], by)
      <4>1. PICK b \in Int : b = q[i][2]
        BY <3>1
      <4>2. Before(y, z, by) /\ ~Before(y, b, by)
        BY <1>15, <3>2, <4>1
      <4>3. ~Before(z, b, by)
        BY <4>2 DEF Before
      <4>4. QED
        BY <4>1, <4>3
    <3>4. QED
      BY <1>12, <2>1, <3>1, <3>3
  <2>2. CASE i = n + 1
    <3>1. r[i][1] = y /\ r[i][2] = z
      BY <1>7, <2>2
    <3>2. ~Before(z, z, by)
      BY DEF Before
    <3>3. QED
      BY <1>11, <1>15, <3>1, <3>2
  <2>3. QED
    BY <2>1, <2>2
<1>17. ASSUME NEW i \in 1 .. n + 1, NEW l \in 1 .. n + 1, i < l PROVE ~Before(r[l][1], r[i][2], by)
  <2>1. i \in 1 .. n /\ r[i] = q[i]
    BY <1>8, <1>17
  <2>2. CASE l \in 1 .. n
    BY <1>8, <1>13, <1>17, <2>1, <2>2
  <2>3. CASE l = n + 1
    <3>1. r[l][1] = y
      BY <1>7, <2>3
    <3>2. QED
      BY <1>12, <2>1, <3>1
  <2>4. QED
    BY <2>2, <2>3
<1>18. ASSUME NEW x \in Iterations(from, z, by) PROVE \E i \in 1 .. n + 1 : x \in Iterations(r[i][1], r[i][2], by)
  <2>1. PICK m \in Nat : y = from + m * by
    BY <1>2, <1>15 DEF OnStep
  <2>2. x \in Iterations(from, y, by) \/ x \in Iterations(y, z, by)
    BY <2>1, Tile
  <2>3. CASE x \in Iterations(from, y, by)
    <3>1. PICK i \in 1 .. n : x \in Iterations(q[i][1], q[i][2], by)
      BY <1>14, <2>3
    <3>2. i \in 1 .. n + 1 /\ r[i] = q[i]
      BY <1>8
    <3>3. QED
      BY <3>1, <3>2
  <2>4. CASE x \in Iterations(y, z, by)
    <3>1. n + 1 \in 1 .. n + 1
      OBVIOUS
    <3>2. r[n + 1][1] = y /\ r[n + 1][2] = z
      BY <1>7
    <3>3. QED
      BY <2>4, <3>1, <3>2
  <2>5. QED
    BY <2>2, <2>3, <2>4
<1>19. PiecesInv(j)'
  <2>1. prog'[j] = c /\ pieces'[j] = r /\ Len(r) = n + 1
    BY <1>1, <1>6, <1>7
  <2>2. z = to \/ (OnStep(c, z) /\ Before(z, to, by))
    BY <1>1, <1>2
  <2>3. \A i \in 1 .. n + 1 : Piece(c, r[i]) = Iterations(r[i][1], r[i][2], by)
    BY <1>2 DEF Piece, By
  <2>4. \A x \in Iterations(from, z, by) : \E i \in 1 .. n + 1 : x \in Piece(c, r[i])
    BY <1>18, <2>3
  <2>5. PiecesInv(j)' = (/\ z = To(c) \/ (OnStep(c, z) /\ Before(z, To(c), By(c)))
                         /\ \A i \in 1 .. n + 1 :
                              /\ OnStep(c, r[i][1]) /\ Before(r[i][1], r[i][2], By(c))
                              /\ ~Before(z, r[i][2], By(c)) /\ ~Before(To(c), r[i][2], By(c))
                         /\ \A i, l \in 1 .. n + 1 : i < l => ~Before(r[l][1], r[i][2], By(c))
                         /\ \A x \in Iterations(From(c), z, By(c)) : \E i \in 1 .. n + 1 : x \in Piece(c, r[i]))
    BY <1>10, <2>1 DEF PiecesInv
  <2>6. QED
    BY <1>2, <1>16, <1>17, <2>2, <2>4, <2>5
<1>20. QED
  BY <1>10, <1>19

-----------------------------------------------------------------------------
(* The threads of the team. *)

\* A set of threads is finite, and counts N only when it holds all of them.
LEMMA CountThreads ==
  ASSUME NEW S \in SUBSET Threads
  PROVE  /\ Cardinality(S) \in 0 .. N
         /\ Cardinality(S) = N <=> S = Threads
         /\ S = {} => Cardinality(S) = 0
         /\ \A t \in Threads \ S : Cardinality(S \cup {t}) = Cardinality(S) + 1
<1>1. IsFiniteSet(Threads) /\ Cardinality(Threads) = N
  <2>1. N \in Nat \ {0} /\ 0 \in Int /\ N - 1 \in Int
    BY ConstantsAssumption
  <2>2. IsFiniteSet(0 .. N - 1) /\ Cardinality(0 .. N - 1) = IF 0 > N - 1 THEN 0 ELSE N - 1 - 0 + 1
    BY <2>1, FS_Interval
  <2>3. QED
    BY <2>1, <2>2 DEF Threads
<1>2. IsFiniteSet(S) /\ Cardinality(S) <= Cardinality(Threads) /\ (Cardinality(S) = Cardinality(Threads) => S = Threads)
  BY <1>1, FS_Subset
<1>3. Cardinality(S) \in Nat
  BY <1>2, FS_CardinalityType
<1>4. S = {} => Cardinality(S) = 0
  BY FS_EmptySet
<1>5. ASSUME NEW t \in Threads \ S PROVE Cardinality(S \cup {t}) = Cardinality(S) + 1
  BY <1>2, FS_AddElement
<1>6. QED
  BY <1>1, <1>2, <1>3, <1>4, <1>5, ConstantsAssumption

\* A thread is at a construct of the region, or done.
LEMMA Where ==
  ASSUME WorkInv, NEW t \in Threads
  PROVE  /\ pc[t] # "done" => cur[t] \in DOMAIN prog /\ cur[t] <= Len(prog) /\ prog[cur[t]] \in Constructs
         /\ pc[t] \in Labels /\ cur[t] \in Int /\ 1 <= cur[t] /\ Len(prog) \in Nat
         /\ pc[t] = "done" => cur[t] = Len(prog) + 1
<1>1. TypeOK /\ ThreadInv(t)
  BY DEF WorkInv
<1>2. cur[t] \in 1 .. Len(prog) + 1 /\ pc[t] \in Labels
  BY <1>1 DEF TypeOK
<1>3. cur[t] = Len(prog) + 1 <=> pc[t] = "done"
  BY <1>1 DEF ThreadInv
<1>4. QED
  BY <1>1, <1>2, <1>3, ProgFacts

\* When a thread is past a construct that is not the last one, all others are past it or in its barrier.
LEMMA Lockstep ==
  ASSUME WorkInv, NEW t \in Threads, NEW u \in Threads, NEW j \in DOMAIN prog, j < Len(prog), j < cur[u], cur[t] <= j
  PROVE  cur[t] = j /\ pc[t] = "barrier"
<1>1. j \in Int /\ Len(prog) \in Nat /\ cur[t] \in Int /\ cur[u] \in Int
  BY Where, ProgFacts DEF WorkInv
<1>2. pc[t] # "done"
  BY <1>1, Where
<1>3. left[t] \in Nat /\ arrived[t] \in Nat /\ left[u] \in Nat
  BY DEF WorkInv, TypeOK
<1>4. left[t] = cur[t] - 1 /\ arrived[t] = IF pc[t] = "barrier" THEN left[t] + 1 ELSE left[t]
  BY <1>2 DEF WorkInv, ThreadInv
<1>5. left[u] = cur[u] - 1 \/ left[u] = Len(prog) - 1
  BY DEF WorkInv, ThreadInv
<1>6. left[u] <= arrived[t]
  BY DEF WorkInv, BarrierInv
<1>7. j <= left[u]
  BY <1>1, <1>5
<1>8. CASE pc[t] = "barrier"
  <2>1. arrived[t] = left[t] + 1
    BY <1>4, <1>8
  <2>2. cur[t] = j
    BY <1>1, <1>3, <1>4, <1>6, <1>7, <2>1
  <2>3. QED
    BY <1>8, <2>2
<1>9. CASE pc[t] # "barrier"
  <2>1. arrived[t] = cur[t] - 1
    BY <1>4, <1>9
  <2>2. QED
    BY <1>1, <1>3, <1>6, <1>7, <2>1
<1>10. QED
  BY <1>8, <1>9

\* A construct other than the last is not in use once a thread is past it.
LEMMA PastNotInUse ==
  ASSUME WorkInv, NEW u \in Threads, NEW j \in DOMAIN prog, j < Len(prog), j < cur[u]
  PROVE  ~InUse(j)
<1>1. j \in Int
  BY ProgFacts DEF WorkInv
<1>2. ASSUME NEW t \in Threads PROVE cur[t] > j \/ (cur[t] = j /\ pc[t] = "barrier")
  <2>1. cur[t] \in Int
    BY Where
  <2>2. QED
    BY <1>1, <2>1, Lockstep
<1>3. \A t \in Threads : cur[t] > j => cur[t] # j
  BY <1>1, Where
<1>4. Counted(j) = Threads
  BY <1>2 DEF Counted, Past
<1>5. ~Resetting(j)
  BY <1>2, <1>3 DEF Resetting
<1>6. QED
  BY <1>4, <1>5 DEF InUse

\* The construct that the descriptor serves is the one a thread outside barriers is at.
LEMMA MineInUse ==
  ASSUME WorkInv, NEW t \in Threads, pc[t] \notin {"barrier", "done"}, NEW j \in DOMAIN prog, InUse(j)
  PROVE  j = cur[t]
<1>1. j \in Int /\ Len(prog) \in Nat /\ j <= Len(prog) /\ cur[t] \in DOMAIN prog /\ cur[t] <= Len(prog) /\ cur[t] \in Int
  BY Where, ProgFacts DEF WorkInv
<1>2. ~(j < cur[t])
  BY <1>1, PastNotInUse
<1>3. ~(cur[t] < j)
  <2>1. SUFFICES ASSUME cur[t] < j PROVE FALSE
    OBVIOUS
  <2>2. PICK u \in Threads : u \in Touched(j)
    BY DEF InUse, Touched
  <2>3. cur[u] >= j /\ cur[u] \in Int
    <3>1. cur[u] \in Int
      BY Where
    <3>2. cur[u] > j \/ cur[u] = j
      BY <2>2 DEF Touched
    <3>3. QED
      BY <1>1, <3>1, <3>2
  <2>4. pc[t] = "barrier"
    BY <1>1, <2>1, <2>3, Lockstep
  <2>5. QED
    BY <2>4
<1>4. QED
  BY <1>1, <1>2, <1>3

\* A thread between its first look at the descriptor and its count has the descriptor serve it.
LEMMA Using ==
  ASSUME WorkInv, NEW t \in Threads,
         pc[t] \in {"peek", "bump", "work", "peeknext", "bumpnext", "end", "count", "countstore", "reset"}
  PROVE  InUse(cur[t]) /\ Serves(cur[t])
<1>1. cur[t] \in DOMAIN prog /\ cur[t] \in Int
  BY Where
<1>2. t \in Touched(cur[t])
  BY DEF Touched
<1>3. pc[t] = "reset" => Resetting(cur[t])
  BY DEF Resetting
<1>4. pc[t] # "reset" => t \notin Counted(cur[t])
  BY <1>1 DEF Counted, Past
<1>5. InUse(cur[t])
  BY <1>2, <1>3, <1>4 DEF InUse
<1>6. QED
  BY <1>1, <1>5 DEF WorkInv, DescriptorInv

-----------------------------------------------------------------------------
(* What a step of one thread leaves alone. *)

\* The other threads stay where they are.
Others(t) ==
  \A u \in Threads \ {t} : /\ pc'[u] = pc[u] /\ cur'[u] = cur[u] /\ reg'[u] = reg[u]
                           /\ arrived'[u] = arrived[u] /\ left'[u] = left[u]

\* The same threads have been at the descriptor, and are through with it.
SameUse ==
  \A j \in DOMAIN prog : /\ Touched(j)' = Touched(j) /\ Counted(j)' = Counted(j)
                         /\ InUse(j)' <=> InUse(j)

\* A step inside a construct that is neither the first look at the descriptor nor the count.
LEMMA StaysSame ==
  ASSUME TypeOK, NEW t \in Threads, NEW b, cur' = cur, pc' = [pc EXCEPT ![t] = b],
         pc[t] \in {"begin", "first"} <=> b \in {"begin", "first"},
         pc[t] \in Past <=> b \in Past, pc[t] = "reset" <=> b = "reset"
  PROVE  SameUse
<1>1. pc'[t] = b /\ \A u \in Threads \ {t} : pc'[u] = pc[u]
  BY DEF TypeOK
<1>2. ASSUME NEW j \in DOMAIN prog
      PROVE  Touched(j)' = Touched(j) /\ Counted(j)' = Counted(j) /\ (Resetting(j)' <=> Resetting(j))
  <2>1. ASSUME NEW u \in Threads
        PROVE  /\ pc'[u] \in {"begin", "first"} <=> pc[u] \in {"begin", "first"}
               /\ pc'[u] \in Past <=> pc[u] \in Past
               /\ pc'[u] = "reset" <=> pc[u] = "reset"
    BY <1>1
  <2>2. Touched(j)' = Touched(j)
    BY <2>1 DEF Touched
  <2>3. Counted(j)' = Counted(j)
    BY <2>1 DEF Counted
  <2>4. Resetting(j)' <=> Resetting(j)
    BY <2>1 DEF Resetting
  <2>5. QED
    BY <2>2, <2>3, <2>4
<1>3. QED
  BY <1>2 DEF SameUse, InUse

\* A step from one construct to the next.
LEMMA OnwardsSame ==
  ASSUME WorkInv, NEW t \in Threads, pc[t] \in {"sync", "barrier"}, NEW b \in {"begin", "done"},
         cur' = [cur EXCEPT ![t] = @ + 1], pc' = [pc EXCEPT ![t] = b], b = "done" <=> cur[t] = Len(prog)
  PROVE  SameUse
<1>1. pc'[t] = b /\ cur'[t] = cur[t] + 1 /\ \A u \in Threads \ {t} : pc'[u] = pc[u] /\ cur'[u] = cur[u]
  BY DEF WorkInv, TypeOK
<1>2. ASSUME NEW j \in DOMAIN prog
      PROVE  Touched(j)' = Touched(j) /\ Counted(j)' = Counted(j) /\ (Resetting(j)' <=> Resetting(j))
  <2>1. cur[t] \in Int /\ j \in Int /\ j <= Len(prog) /\ Len(prog) \in Nat
    BY Where, ProgFacts DEF WorkInv
  <2>2. cur'[t] > j <=> cur[t] >= j
    BY <1>1, <2>1
  <2>3. cur'[t] = j => b # "done"
    BY <1>1, <2>1
  <2>4. pc[t] \notin {"begin", "first", "reset"} /\ pc[t] \in Past /\ pc'[t] \notin Past /\ pc'[t] # "reset"
    BY <1>1 DEF Past
  <2>5. cur[t] >= j <=> cur[t] > j \/ cur[t] = j
    BY <2>1
  <2>6. Touched(j)' = Touched(j)
    <3>1. t \in Touched(j)' <=> cur[t] >= j
      BY <1>1, <2>2, <2>3 DEF Touched
    <3>2. t \in Touched(j) <=> cur[t] >= j
      BY <2>4, <2>5 DEF Touched
    <3>3. QED
      BY <1>1, <3>1, <3>2 DEF Touched
  <2>7. Counted(j)' = Counted(j)
    <3>1. t \in Counted(j)' <=> cur[t] >= j
      BY <1>1, <2>2, <2>4 DEF Counted
    <3>2. t \in Counted(j) <=> cur[t] >= j
      BY <2>4, <2>5 DEF Counted
    <3>3. QED
      BY <1>1, <3>1, <3>2 DEF Counted
  <2>8. Resetting(j)' <=> Resetting(j)
    BY <1>1, <2>4 DEF Resetting
  <2>9. QED
    BY <2>6, <2>7, <2>8
<1>3. QED
  BY <1>2 DEF SameUse, InUse

\* A construct whose pieces stay as they are.
LEMMA SamePieces ==
  ASSUME NEW j, prog' = prog, pieces'[j] = pieces[j], ConstructInv(j), Touched(j)' = {} => Touched(j) = {},
         \A u \in Threads : Ended(u, j)' => Reached(j) = To(prog[j])
  PROVE  Reached(j)' = Reached(j) /\ ConstructInv(j)'
<1>1. Reached(j)' = Reached(j)
  BY DEF Reached
<1>2. PiecesInv(j)'
  BY <1>1 DEF ConstructInv, PiecesInv
<1>3. QED
  BY <1>1, <1>2 DEF ConstructInv

\* A step that leaves the descriptor and the pieces alone.
LEMMA Quiet ==
  ASSUME WorkInv, NEW t \in Threads, SameUse, Others(t), UNCHANGED <<prog, ws, pieces>>,
         \A j \in DOMAIN prog : Ended(t, j)' => Reached(j) = To(prog[j])
  PROVE  DescriptorInv' /\ \A j \in DOMAIN prog : ConstructInv(j)'
<1>1. DescriptorInv'
  BY DEF WorkInv, DescriptorInv, SameUse, Serves, Reached
<1>2. ASSUME NEW j \in DOMAIN prog PROVE ConstructInv(j)'
  <2>1. ConstructInv(j) /\ Touched(j)' = Touched(j)
    BY DEF WorkInv, SameUse
  <2>2. ASSUME NEW u \in Threads, Ended(u, j)' PROVE Reached(j) = To(prog[j])
    <3>1. CASE u = t
      BY <2>2, <3>1
    <3>2. CASE u # t
      <4>1. Ended(u, j)
        BY <2>2, <3>2 DEF Ended, Others
      <4>2. QED
        BY <2>1, <4>1 DEF ConstructInv
    <3>3. QED
      BY <3>1, <3>2
  <2>3. QED
    BY <2>1, <2>2, SamePieces
<1>3. QED
  BY <1>1, <1>2

\* The other threads keep what they hold, when the descriptor keeps what they have read.
LEMMA OthersKeep ==
  ASSUME WorkInv, NEW t \in Threads, Others(t), prog' = prog, NEW u \in Threads \ {t},
         pc[u] = "reset" => Counted(cur[u])' = Threads,
         pc[u] \in {"bump", "bumpnext"} => ws'.next = ws.next /\ ws'.end = ws.end,
         pc[u] = "countstore" => ws'.completed = ws.completed
  PROVE  ThreadInv(u)'
<1>1. ThreadInv(u)
  BY DEF WorkInv
<1>2. /\ pc'[u] = pc[u] /\ cur'[u] = cur[u] /\ reg'[u] = reg[u]
      /\ arrived'[u] = arrived[u] /\ left'[u] = left[u]
  BY DEF Others
<1>3. pc'[u] = "reset" => Counted(cur[u])' = Threads
  BY <1>2
<1>4. QED
  BY <1>1, <1>2, <1>3 DEF ThreadInv

\* A thread that is about to reset the descriptor still finds all others through.
LEMMA ResetKeeps ==
  ASSUME WorkInv, NEW t \in Threads, SameUse, Others(t), NEW u \in Threads \ {t}, pc[u] = "reset"
  PROVE  Counted(cur[u])' = Threads
<1>1. PICK j \in DOMAIN prog : j = cur[u] /\ Counted(j) = Threads
  BY Where DEF WorkInv, ThreadInv
<1>2. cur'[u] = j /\ Counted(j)' = Threads
  BY <1>1 DEF SameUse, Others
<1>3. QED
  BY <1>2 DEF Counted

\* The two locks and the one resetting thread.
LEMMA LockMove ==
  ASSUME TypeOK, LockInv, NEW t \in Threads, NEW b, pc' = [pc EXCEPT ![t] = b],
         lock' = IF b \in Locked THEN 1 ELSE IF pc[t] \in Locked THEN 0 ELSE lock,
         b \in Locked => lock = 0 \/ pc[t] \in Locked,
         exitLock' = IF b \in Counting THEN 1 ELSE IF pc[t] \in Counting THEN 0 ELSE exitLock,
         b \in Counting => exitLock = 0 \/ pc[t] \in Counting,
         b = "reset" => \A u \in Threads : pc[u] # "reset"
  PROVE  LockInv'
<1>1. pc'[t] = b /\ \A u \in Threads \ {t} : pc'[u] = pc[u]
  BY DEF TypeOK
<1>2. b \in Locked => \A u \in Threads \ {t} : pc[u] \notin Locked
  BY DEF LockInv
<1>3. b \in Counting => \A u \in Threads \ {t} : pc[u] \notin Counting
  BY DEF LockInv
<1>4. \A v, u \in Threads : pc'[v] \in Locked /\ pc'[u] \in Locked => v = u
  BY <1>1, <1>2 DEF LockInv
<1>5. \A v, u \in Threads : pc'[v] \in Counting /\ pc'[u] \in Counting => v = u
  BY <1>1, <1>3 DEF LockInv
<1>6. lock' = 0 <=> \A u \in Threads : pc'[u] \notin Locked
  BY <1>1, <1>2 DEF LockInv
<1>7. exitLock' = 0 <=> \A u \in Threads : pc'[u] \notin Counting
  BY <1>1, <1>3 DEF LockInv
<1>8. \A v, u \in Threads : pc'[v] = "reset" /\ pc'[u] = "reset" => v = u
  BY <1>1 DEF LockInv
<1>9. QED
  BY <1>4, <1>5, <1>6, <1>7, <1>8 DEF LockInv

\* A step that changes where a thread is, its register and the locks, and nothing else.
LEMMA Plain ==
  ASSUME WorkInv, NEW t \in Threads, NEW b \in Labels, pc' = [pc EXCEPT ![t] = b],
         UNCHANGED <<prog, ws, cur, arrived, left, pieces>>, lock' \in {0, 1}, exitLock' \in {0, 1},
         reg' \in [Threads -> Int], \A u \in Threads \ {t} : reg'[u] = reg[u],
         SameUse, LockInv', ThreadInv(t)', Ended(t, cur[t])' => Reached(cur[t]) = To(prog[cur[t]])
  PROVE  WorkInv'
<1>1. TypeOK /\ \A u \in Threads : ThreadInv(u)
  BY DEF WorkInv
<1>2. pc' \in [Threads -> Labels]
  BY <1>1 DEF TypeOK
<1>3. TypeOK'
  BY <1>1, <1>2 DEF TypeOK
<1>4. Others(t)
  BY <1>1 DEF TypeOK, Others
<1>5. ASSUME NEW j \in DOMAIN prog, Ended(t, j)' PROVE Reached(j) = To(prog[j])
  <2>1. CASE cur[t] > j
    BY <2>1 DEF WorkInv, ConstructInv, Ended
  <2>2. CASE cur[t] = j
    BY <1>5, <2>2
  <2>3. QED
    BY <1>5, <2>1, <2>2 DEF Ended
<1>6. DescriptorInv' /\ \A j \in DOMAIN prog : ConstructInv(j)'
  BY <1>4, <1>5, Quiet
<1>7. ASSUME NEW u \in Threads \ {t} PROVE ThreadInv(u)'
  <2>1. pc[u] = "reset" => Counted(cur[u])' = Threads
    BY <1>4, ResetKeeps
  <2>2. QED
    BY <1>4, <2>1, OthersKeep
<1>8. \A u, v \in Threads : BarrierInv(u, v)'
  BY DEF WorkInv, BarrierInv
<1>9. QED
  BY <1>3, <1>6, <1>7, <1>8 DEF WorkInv

-----------------------------------------------------------------------------
(* The steps of a thread. *)

\* Taking the lock of the descriptor.
LEMMA LockBusinessInv ==
  ASSUME WorkInv, NEW t \in Threads, LockBusiness(t, "begin", "first") \/ LockBusiness(t, "work", "peeknext")
  PROVE  WorkInv'
<1>1. PICK b \in Labels : /\ (pc[t] = "begin" /\ b = "first") \/ (pc[t] = "work" /\ b = "peeknext")
                          /\ lock = 0 /\ lock' = 1 /\ pc' = [pc EXCEPT ![t] = b]
                          /\ UNCHANGED <<prog, ws, exitLock, cur, reg, arrived, left, pieces>>
  BY DEF LockBusiness, Goto, Labels
<1>2. TypeOK /\ LockInv /\ ThreadInv(t)
  BY DEF WorkInv
<1>3. SameUse
  BY <1>1, <1>2, StaysSame DEF Past
<1>4. LockInv'
  BY <1>1, <1>2, LockMove DEF Locked, Counting
<1>5. pc'[t] = b
  BY <1>1, <1>2 DEF TypeOK
<1>6. ThreadInv(t)'
  BY <1>1, <1>2, <1>5 DEF ThreadInv
<1>7. cur[t] \in Int
  BY Where
<1>8. ~Ended(t, cur[t])'
  BY <1>1, <1>5, <1>7 DEF Ended, Counting, Past
<1>9. lock' \in {0, 1} /\ exitLock' \in {0, 1} /\ reg' \in [Threads -> Int]
  BY <1>1, <1>2 DEF TypeOK
<1>10. QED
  BY <1>1, <1>3, <1>4, <1>6, <1>8, <1>9, Plain

\* Looking whether anything is left.
LEMMA PeekInv ==
  ASSUME WorkInv, NEW t \in Threads, Peek(t, "peek", "bump") \/ Peek(t, "peeknext", "bumpnext")
  PROVE  WorkInv'
<1>1. PICK b \in Labels :
        /\ pc[t] \in {"peek", "peeknext"} /\ pc' = [pc EXCEPT ![t] = b]
        /\ \/ ws.next = ws.end /\ lock' = 0 /\ b = "end" /\ reg' = reg
           \/ ws.next # ws.end /\ lock' = lock /\ b \in {"bump", "bumpnext"} /\ reg' = [reg EXCEPT ![t] = ws.next]
        /\ UNCHANGED <<prog, ws, exitLock, cur, arrived, left, pieces>>
  BY DEF Peek, Goto, Labels
<1>2. TypeOK /\ LockInv /\ ThreadInv(t)
  BY DEF WorkInv
<1>3. SameUse
  BY <1>1, <1>2, StaysSame DEF Past
<1>4. lock = 1
  BY <1>1, <1>2 DEF TypeOK, LockInv, Locked
<1>5. LockInv'
  BY <1>1, <1>2, <1>4, LockMove DEF Locked, Counting
<1>6. pc'[t] = b
  BY <1>1, <1>2 DEF TypeOK
<1>7. b \in {"bump", "bumpnext"} => reg'[t] = ws.next /\ ws.next # ws.end
  BY <1>1, <1>2 DEF TypeOK
<1>8. ThreadInv(t)'
  BY <1>1, <1>2, <1>6, <1>7 DEF ThreadInv
<1>9. cur[t] \in Int /\ cur[t] \in DOMAIN prog
  BY <1>1, Where
<1>10. b = "end" => Reached(cur[t]) = To(prog[cur[t]])
  <2>1. Serves(cur[t])
    BY <1>1, Using
  <2>2. prog[cur[t]].kind # "single"
    BY <1>1, <1>2 DEF ThreadInv
  <2>3. QED
    BY <1>1, <2>1, <2>2 DEF Serves
<1>11. Ended(t, cur[t])' => b = "end"
  BY <1>1, <1>6, <1>9 DEF Ended, Counting, Past
<1>12. /\ lock' \in {0, 1} /\ exitLock' \in {0, 1} /\ reg' \in [Threads -> Int]
       /\ \A u \in Threads \ {t} : reg'[u] = reg[u]
  BY <1>1, <1>2, <1>4 DEF TypeOK
<1>13. QED
  BY <1>1, <1>3, <1>5, <1>8, <1>10, <1>11, <1>12, Plain

\* Taking the exit lock, and reading how many threads are through.
LEMMA LockExitInv ==
  ASSUME WorkInv, NEW t \in Threads, LockExit(t) \/ CountLoad(t)
  PROVE  WorkInv'
<1>1. PICK b \in Labels :
        /\ pc' = [pc EXCEPT ![t] = b]
        /\ \/ pc[t] = "end" /\ b = "count" /\ exitLock = 0 /\ exitLock' = 1 /\ reg' = reg
           \/ pc[t] = "count" /\ b = "countstore" /\ exitLock' = exitLock /\ reg' = [reg EXCEPT ![t] = ws.completed]
        /\ UNCHANGED <<prog, ws, lock, cur, arrived, left, pieces>>
  BY DEF LockExit, CountLoad, Goto, Labels
<1>2. TypeOK /\ LockInv /\ ThreadInv(t)
  BY DEF WorkInv
<1>3. SameUse
  BY <1>1, <1>2, StaysSame DEF Past
<1>4. pc[t] = "count" => exitLock = 1
  BY <1>1, <1>2 DEF TypeOK, LockInv, Counting
<1>5. LockInv'
  BY <1>1, <1>2, <1>4, LockMove DEF Locked, Counting
<1>6. pc'[t] = b
  BY <1>1, <1>2 DEF TypeOK
<1>7. b = "countstore" => reg'[t] = ws.completed
  BY <1>1, <1>2 DEF TypeOK
<1>8. ThreadInv(t)'
  BY <1>1, <1>2, <1>6, <1>7 DEF ThreadInv
<1>9. cur[t] \in Int /\ cur[t] \in DOMAIN prog
  BY <1>1, Where
<1>10. Ended(t, cur[t])
  BY <1>1 DEF Ended, Counting
<1>11. Reached(cur[t]) = To(prog[cur[t]])
  BY <1>9, <1>10 DEF WorkInv, ConstructInv
<1>12. /\ lock' \in {0, 1} /\ exitLock' \in {0, 1} /\ reg' \in [Threads -> Int]
       /\ \A u \in Threads \ {t} : reg'[u] = reg[u]
  BY <1>1, <1>2, <1>4 DEF TypeOK
<1>13. QED
  BY <1>1, <1>3, <1>5, <1>8, <1>11, <1>12, Plain

\* Entering the team barrier.
LEMMA EnterBarrierInv ==
  ASSUME WorkInv, NEW t \in Threads, EnterBarrier(t)
  PROVE  WorkInv'
<1>1. /\ pc[t] = "sync" /\ ~prog[cur[t]].nowait /\ pc' = [pc EXCEPT ![t] = "barrier"]
      /\ arrived' = [arrived EXCEPT ![t] = @ + 1]
      /\ UNCHANGED <<prog, ws, lock, exitLock, cur, reg, left, pieces>>
  BY DEF EnterBarrier, Construct, Goto, TeamBarrier!Arrive
<1>2. TypeOK /\ LockInv /\ ThreadInv(t)
  BY DEF WorkInv
<1>3. "barrier" \in Labels
  BY DEF Labels
<1>4. pc' \in [Threads -> Labels] /\ arrived' \in [Threads -> Nat]
  BY <1>1, <1>2, <1>3 DEF TypeOK
<1>5. TypeOK'
  BY <1>1, <1>2, <1>4 DEF TypeOK
<1>6. pc'[t] = "barrier" /\ arrived'[t] = arrived[t] + 1
  BY <1>1, <1>2 DEF TypeOK
<1>7. Others(t)
  BY <1>1, <1>2 DEF TypeOK, Others
<1>8. SameUse
  BY <1>1, <1>2, StaysSame DEF Past
<1>9. LockInv'
  BY <1>1, <1>2, LockMove DEF Locked, Counting
<1>10. ThreadInv(t)'
  BY <1>1, <1>2, <1>6 DEF ThreadInv
<1>11. ASSUME NEW j \in DOMAIN prog, Ended(t, j)' PROVE Reached(j) = To(prog[j])
  <2>1. Ended(t, j)
    BY <1>1, <1>6, <1>11 DEF Ended, Past
  <2>2. QED
    BY <2>1 DEF WorkInv, ConstructInv
<1>12. DescriptorInv' /\ \A j \in DOMAIN prog : ConstructInv(j)'
  BY <1>1, <1>7, <1>8, <1>11, Quiet
<1>13. ASSUME NEW u \in Threads \ {t} PROVE ThreadInv(u)'
  <2>1. pc[u] = "reset" => Counted(cur[u])' = Threads
    BY <1>7, <1>8, ResetKeeps
  <2>2. QED
    BY <1>1, <1>7, <2>1, OthersKeep
<1>14. ASSUME NEW u \in Threads, NEW v \in Threads PROVE BarrierInv(u, v)'
  <2>1. arrived[u] \in Nat /\ left[v] \in Nat /\ left[v] <= arrived[u]
    BY DEF WorkInv, TypeOK, BarrierInv
  <2>2. arrived'[u] \in Nat /\ arrived'[u] >= arrived[u]
    BY <1>6, <1>7, <2>1 DEF Others
  <2>3. QED
    BY <1>1, <2>1, <2>2 DEF BarrierInv
<1>15. QED
  BY <1>1, <1>5, <1>9, <1>10, <1>12, <1>13, <1>14 DEF WorkInv

\* Going on to the next construct, out of the barrier or without one.
LEMMA OnwardsInv ==
  ASSUME WorkInv, NEW t \in Threads, SkipBarrier(t) \/ LeaveBarrier(t)
  PROVE  WorkInv'
<1>1. PICK b \in {"begin", "done"} :
        /\ b = "done" <=> cur[t] = Len(prog)
        /\ cur' = [cur EXCEPT ![t] = @ + 1] /\ pc' = [pc EXCEPT ![t] = b]
        /\ \/ pc[t] = "sync" /\ prog[cur[t]].nowait /\ left' = left
           \/ /\ pc[t] = "barrier" /\ left' = [left EXCEPT ![t] = arrived[t]]
              /\ \A u \in Threads : arrived[u] >= arrived[t]
        /\ UNCHANGED <<prog, ws, lock, exitLock, reg, arrived, pieces>>
  BY DEF SkipBarrier, LeaveBarrier, NextConstruct, Construct, Goto, TeamBarrier!Leave
<1>2. TypeOK /\ LockInv /\ ThreadInv(t)
  BY DEF WorkInv
<1>3. /\ cur[t] \in DOMAIN prog /\ cur[t] \in Int /\ cur[t] \in 1 .. Len(prog) /\ Len(prog) \in Nat /\ Len(prog) \in DOMAIN prog
      /\ DOMAIN prog = 1 .. Len(prog)
  <2>1. TypeOK /\ cur[t] \in DOMAIN prog
    BY <1>1, <1>2, Where
  <2>2. QED
    BY <2>1, ProgFacts
<1>4. pc'[t] = b /\ cur'[t] = cur[t] + 1
  BY <1>1, <1>2 DEF TypeOK
<1>5. b \in Labels
  BY DEF Labels
<1>6. TypeOK'
  <2>1. pc' \in [Threads -> Labels]
    BY <1>1, <1>2, <1>5 DEF TypeOK
  <2>2. left' \in [Threads -> Nat]
    BY <1>1, <1>2 DEF TypeOK
  <2>3. cur[t] + 1 \in 1 .. Len(prog) + 1
    BY <1>3
  <2>4. cur' \in [Threads -> 1 .. Len(prog) + 1]
    BY <1>1, <1>2, <2>3 DEF TypeOK
  <2>5. QED
    BY <1>1, <1>2, <2>1, <2>2, <2>4 DEF TypeOK
<1>7. Others(t)
  BY <1>1, <1>2 DEF TypeOK, Others
<1>8. SameUse
  BY <1>1, OnwardsSame
<1>9. LockInv'
  BY <1>1, <1>2, LockMove DEF Locked, Counting
<1>10. ThreadInv(t)'
  <2>1. left[t] = cur[t] - 1 /\ arrived[t] = IF pc[t] = "barrier" THEN left[t] + 1 ELSE left[t]
    BY <1>1, <1>2 DEF ThreadInv
  <2>2. cur'[t] = Len(prog) + 1 <=> b = "done"
    BY <1>1, <1>3, <1>4
  <2>3. left'[t] = IF b = "done" /\ prog[Len(prog)].nowait THEN Len(prog) - 1 ELSE cur[t] + 1 - 1
    <3>1. CASE pc[t] = "sync"
      <4>1. cur[t] = Len(prog)
        <5>1. ~(cur[t] \in 1 .. Len(prog) - 1)
          BY <1>1, <3>1 DEF WorkInv
        <5>2. QED
          BY <1>3, <5>1
      <4>2. left'[t] = cur[t] - 1 /\ prog[Len(prog)].nowait
        BY <1>1, <2>1, <3>1, <4>1
      <4>3. QED
        BY <1>1, <4>1, <4>2
    <3>2. CASE pc[t] = "barrier"
      <4>1. left'[t] = cur[t] - 1 + 1
        BY <1>1, <1>2, <2>1, <3>2 DEF TypeOK
      <4>2. ~prog[cur[t]].nowait
        BY <1>2, <3>2 DEF ThreadInv
      <4>3. left'[t] = cur[t] + 1 - 1
        BY <1>3, <4>1
      <4>4. ~(b = "done" /\ prog[Len(prog)].nowait)
        BY <1>1, <4>2
      <4>5. QED
        BY <4>3, <4>4
    <3>3. QED
      BY <1>1, <3>1, <3>2
  <2>4. arrived'[t] = left'[t]
    <3>1. CASE pc[t] = "sync"
      BY <1>1, <2>1, <3>1
    <3>2. CASE pc[t] = "barrier"
      BY <1>1, <1>2, <3>2 DEF TypeOK
    <3>3. QED
      BY <1>1, <3>1, <3>2
  <2>5. prog' = prog /\ pc'[t] \in {"begin", "done"}
    BY <1>1, <1>4
  <2>6. left'[t] = IF pc'[t] = "done" /\ prog'[Len(prog')].nowait THEN Len(prog') - 1 ELSE cur'[t] - 1
    <3>1. CASE b = "done" /\ prog[Len(prog)].nowait
      <4>1. left'[t] = Len(prog) - 1
        BY <2>3, <3>1
      <4>2. pc'[t] = "done" /\ prog'[Len(prog')].nowait
        BY <1>4, <2>5, <3>1
      <4>3. QED
        BY <2>5, <4>1, <4>2
    <3>2. CASE ~(b = "done" /\ prog[Len(prog)].nowait)
      <4>1. left'[t] = cur'[t] - 1
        <5>1. left'[t] = cur[t] + 1 - 1
          BY <2>3, <3>2
        <5>2. QED
          BY <1>3, <1>4, <5>1
      <4>2. ~(pc'[t] = "done" /\ prog'[Len(prog')].nowait)
        BY <1>4, <2>5, <3>2
      <4>3. QED
        BY <4>1, <4>2
    <3>3. QED
      BY <3>1, <3>2
  <2>7. cur'[t] = Len(prog') + 1 <=> pc'[t] = "done"
    BY <1>4, <2>2, <2>5
  <2>8. QED
    BY <2>4, <2>5, <2>6, <2>7 DEF ThreadInv
<1>11. ASSUME NEW j \in DOMAIN prog, Ended(t, j)' PROVE Reached(j) = To(prog[j])
  <2>1. cur[t] > j \/ cur[t] = j
    BY <1>3, <1>4, <1>11 DEF Ended, Counting, Past
  <2>2. Ended(t, j)
    BY <1>1, <2>1 DEF Ended, Past
  <2>3. QED
    BY <2>2 DEF WorkInv, ConstructInv
<1>12. DescriptorInv' /\ \A j \in DOMAIN prog : ConstructInv(j)'
  BY <1>1, <1>7, <1>8, <1>11, Quiet
<1>13. ASSUME NEW u \in Threads \ {t} PROVE ThreadInv(u)'
  <2>1. pc[u] = "reset" => Counted(cur[u])' = Threads
    BY <1>7, <1>8, ResetKeeps
  <2>2. QED
    BY <1>1, <1>7, <2>1, OthersKeep
<1>14. ASSUME NEW u \in Threads, NEW v \in Threads PROVE BarrierInv(u, v)'
  <2>1. arrived'[u] = arrived[u] /\ left[v] <= arrived[u]
    BY <1>1 DEF WorkInv, BarrierInv
  <2>2. left'[v] = left[v] \/ (left'[v] = arrived[t] /\ arrived[u] >= arrived[t])
    BY <1>1, <1>2 DEF TypeOK
  <2>3. arrived[u] \in Nat /\ arrived[t] \in Nat
    BY <1>2 DEF TypeOK
  <2>4. QED
    BY <2>1, <2>2, <2>3 DEF BarrierInv
<1>15. QED
  BY <1>1, <1>6, <1>9, <1>10, <1>12, <1>13, <1>14 DEF WorkInv

\* Where a thread that draws a piece begins it.
LEMMA Drawing ==
  ASSUME WorkInv, NEW t \in Threads, pc[t] \in {"bump", "bumpnext"}, NEW j, j = cur[t]
  PROVE  /\ j \in DOMAIN prog /\ prog[j] \in Constructs /\ prog[j].kind # "single" /\ PiecesInv(j)
         /\ reg[t] \in Int /\ reg[t] = ws.next /\ ws.next = Reached(j) /\ ws.end = To(prog[j])
         /\ ws.incr = By(prog[j]) /\ ws.chunk_size = ChunkOf(prog[j])
         /\ OnStep(prog[j], reg[t]) /\ Before(reg[t], To(prog[j]), By(prog[j])) /\ Reached(j) # To(prog[j])
<1>1. TypeOK /\ ThreadInv(t)
  BY DEF WorkInv
<1>2. j \in DOMAIN prog /\ prog[j] \in Constructs
  BY Where
<1>3. prog[j].kind # "single" /\ reg[t] = ws.next /\ ws.next # ws.end
  BY <1>1 DEF ThreadInv
<1>4. Serves(j)
  BY Using
<1>5. ws.next = Reached(j) /\ ws.end = To(prog[j]) /\ ws.incr = By(prog[j]) /\ ws.chunk_size = ChunkOf(prog[j])
  BY <1>3, <1>4 DEF Serves
<1>6. PiecesInv(j)
  BY <1>2 DEF WorkInv, ConstructInv
<1>7. Reached(j) # To(prog[j])
  BY <1>3, <1>5
<1>8. OnStep(prog[j], Reached(j)) /\ Before(Reached(j), To(prog[j]), By(prog[j]))
  BY <1>6, <1>7 DEF PiecesInv
<1>9. reg[t] \in Int
  BY <1>1 DEF TypeOK
<1>10. QED
  BY <1>2, <1>3, <1>5, <1>6, <1>7, <1>8, <1>9

\* Handing out a piece that goes forward to the end or by whole steps.
LEMMA AdvanceInv ==
  ASSUME WorkInv, NEW t \in Threads, pc[t] \in {"bump", "bumpnext"}, NEW z \in Int,
         Before(reg[t], z, By(prog[cur[t]])),
         z = To(prog[cur[t]]) \/ (OnStep(prog[cur[t]], z) /\ Before(z, To(prog[cur[t]]), By(prog[cur[t]]))),
         Advance(t, z)
  PROVE  WorkInv'
<1>1. PICK k : k = cur[t]
  OBVIOUS
<1>2. PICK y \in Int : y = reg[t]
  BY Drawing
<1>3. /\ ws' = [ws EXCEPT !.next = z] /\ lock' = 0
      /\ pieces' = [pieces EXCEPT ![k] = Append(@, <<y, z>>)]
      /\ pc' = [pc EXCEPT ![t] = "work"]
      /\ UNCHANGED <<prog, exitLock, cur, reg, arrived, left>>
  BY <1>1, <1>2 DEF Advance, HandOut, Goto
<1>4. TypeOK /\ LockInv /\ ThreadInv(t)
  BY DEF WorkInv
<1>5. /\ k \in DOMAIN prog /\ prog[k].kind # "single" /\ PiecesInv(k) /\ y = Reached(k)
      /\ OnStep(prog[k], y) /\ Reached(k) # To(prog[k])
  BY <1>1, <1>2, Drawing
<1>6. PiecesInv(k)' /\ Reached(k)' = z
  BY <1>1, <1>2, <1>3, <1>4, <1>5, Extend
<1>7. TypeOK'
  <2>1. "work" \in Labels
    BY DEF Labels
  <2>2. pc' \in [Threads -> Labels]
    BY <1>3, <1>4, <2>1 DEF TypeOK
  <2>3. pieces[k] \in Seq(Int \X Int) /\ <<y, z>> \in Int \X Int
    BY <1>4, <1>5 DEF TypeOK
  <2>4. Append(pieces[k], <<y, z>>) \in Seq(Int \X Int)
    BY <2>3
  <2>5. pieces' \in [DOMAIN prog -> Seq(Int \X Int)]
    BY <1>3, <1>4, <2>4 DEF TypeOK
  <2>6. ws' \in [checkfirst : BOOLEAN, end : Int, next : Int, chunk_size : Nat, incr : Int, completed : 0 .. N]
    BY <1>3, <1>4 DEF TypeOK
  <2>7. QED
    BY <1>3, <1>4, <2>2, <2>5, <2>6 DEF TypeOK
<1>8. ws'.next = z /\ ws'.end = ws.end /\ ws'.checkfirst = ws.checkfirst /\ ws'.completed = ws.completed
      /\ ws'.incr = ws.incr /\ ws'.chunk_size = ws.chunk_size
  BY <1>3, <1>4 DEF TypeOK
<1>9. pc'[t] = "work" /\ \A u \in Threads \ {t} : pc'[u] = pc[u]
  BY <1>3, <1>4 DEF TypeOK
<1>10. Others(t)
  BY <1>3, <1>9 DEF Others
<1>11. SameUse
  BY <1>3, <1>4, StaysSame DEF Past
<1>12. LockInv'
  BY <1>3, <1>4, LockMove DEF Locked, Counting
<1>13. ThreadInv(t)'
  BY <1>3, <1>4, <1>9 DEF ThreadInv
<1>14. ASSUME NEW u \in Threads \ {t} PROVE ThreadInv(u)'
  <2>1. pc[u] = "reset" => Counted(cur[u])' = Threads
    BY <1>10, <1>11, ResetKeeps
  <2>2. pc[u] \notin {"bump", "bumpnext"}
    BY <1>4 DEF LockInv, Locked
  <2>3. QED
    BY <1>3, <1>8, <1>10, <2>1, <2>2, OthersKeep
<1>15. \A j \in DOMAIN prog : j # k => pieces'[j] = pieces[j]
  BY <1>3, <1>4 DEF TypeOK
<1>16. ASSUME NEW j \in DOMAIN prog, InUse(j)' PROVE Serves(j)'
  <2>1. InUse(j)
    BY <1>11, <1>16 DEF SameUse
  <2>2. j = k
    BY <1>1, <2>1, MineInUse
  <2>3. Serves(k)
    BY <1>1, Using
  <2>4. Counted(k)' = Counted(k)
    BY <1>5, <1>11 DEF SameUse
  <2>5. QED
    BY <1>3, <1>5, <1>6, <1>8, <2>2, <2>3, <2>4 DEF Serves
<1>17. InUse(k)'
  <2>1. InUse(k)
    BY <1>1, Using
  <2>2. QED
    BY <1>5, <1>11, <2>1 DEF SameUse
<1>18. DescriptorInv'
  BY <1>3, <1>5, <1>16, <1>17 DEF DescriptorInv
<1>19. ASSUME NEW u \in Threads PROVE ~Ended(u, k)'
  <2>1. CASE u = t
    <3>1. cur[t] \in Int
      BY Where
    <3>2. QED
      BY <1>1, <1>3, <1>9, <2>1, <3>1 DEF Ended, Counting, Past
  <2>2. CASE u # t
    <3>1. ~Ended(u, k)
      BY <1>5 DEF WorkInv, ConstructInv
    <3>2. QED
      BY <1>3, <1>9, <2>2, <3>1 DEF Ended
  <2>3. QED
    BY <2>1, <2>2
<1>20. ASSUME NEW j \in DOMAIN prog PROVE ConstructInv(j)'
  <2>1. CASE j = k
    <3>1. t \in Touched(k)'
      BY <1>1, <1>3, <1>9 DEF Touched
    <3>2. QED
      BY <1>6, <1>19, <2>1, <3>1 DEF ConstructInv
  <2>2. CASE j # k
    <3>1. pieces'[j] = pieces[j] /\ ConstructInv(j)
      BY <1>15, <2>2 DEF WorkInv
    <3>2. ASSUME NEW u \in Threads, Ended(u, j)' PROVE Reached(j) = To(prog[j])
      <4>1. Ended(u, j)
        <5>1. CASE u = t
          BY <1>1, <1>3, <1>9, <2>2, <3>2, <5>1 DEF Ended
        <5>2. CASE u # t
          BY <1>3, <1>9, <3>2, <5>2 DEF Ended
        <5>3. QED
          BY <5>1, <5>2
      <4>2. QED
        BY <3>1, <4>1 DEF ConstructInv
    <3>3. Touched(j)' = Touched(j)
      BY <1>11 DEF SameUse
    <3>4. QED
      BY <1>3, <3>1, <3>2, <3>3, SamePieces
  <2>3. QED
    BY <2>1, <2>2
<1>21. \A u, v \in Threads : BarrierInv(u, v)'
  BY <1>3 DEF WorkInv, BarrierInv
<1>22. QED
  BY <1>3, <1>7, <1>12, <1>13, <1>14, <1>18, <1>20, <1>21 DEF WorkInv

\* The clipped chunk of a construct ends on a step or at its end.
LEMMA ChunkEnds ==
  ASSUME NEW c \in Constructs, NEW y \in Int, OnStep(c, y), Before(y, To(c), By(c)),
         NEW z, z = y + Clip(ChunkOf(c) * By(c), To(c) - y, By(c))
  PROVE  /\ z \in Int /\ Before(y, z, By(c))
         /\ z = To(c) \/ (OnStep(c, z) /\ Before(z, To(c), By(c)))
<1>1. PICK from \in Int, to \in Int, by \in Int \ {0}, chunk \in Nat \ {0} :
        from = From(c) /\ to = To(c) /\ by = By(c) /\ chunk = ChunkOf(c)
  BY ConstructFacts
<1>2. Before(y, to, by) /\ z = y + Clip(chunk * by, to - y, by)
  BY <1>1
<1>3. /\ z \in Int /\ Before(y, z, by)
      /\ z = to \/ (z = y + chunk * by /\ Before(z, to, by))
  <2>1. PICK w : w = y + Clip(chunk * by, to - y, by)
    OBVIOUS
  <2>2. w \in Int /\ Before(y, w, by) /\ (w = to \/ (w = y + chunk * by /\ Before(w, to, by)))
    BY <1>2, <2>1, ClipStep
  <2>3. QED
    BY <1>2, <2>1, <2>2
<1>4. PICK m \in Nat : y = from + m * by
  BY <1>1 DEF OnStep
<1>5. ASSUME z = y + chunk * by PROVE OnStep(c, z)
  <2>1. m + chunk \in Nat /\ m * by \in Int /\ chunk * by \in Int
    OBVIOUS
  <2>2. (m + chunk) * by = m * by + chunk * by
    OBVIOUS
  <2>3. z = from + (m + chunk) * by
    BY <1>4, <1>5, <2>1, <2>2
  <2>4. QED
    BY <1>1, <2>1, <2>3 DEF OnStep
<1>6. QED
  BY <1>1, <1>3, <1>5

\* Drawing a chunk of a loop, or a section.
LEMMA DrawInv ==
  ASSUME WorkInv, NEW t \in Threads, LoopStartAdvance(t) \/ SectionsStartAdvance(t) \/ NextAdvance(t)
  PROVE  WorkInv'
<1>1. PICK c : c = prog[cur[t]]
  OBVIOUS
<1>2. pc[t] \in {"bump", "bumpnext"}
  BY DEF LoopStartAdvance, SectionsStartAdvance, NextAdvance
<1>3. PICK y \in Int : y = reg[t]
  BY <1>2, Drawing
<1>4. /\ c \in Constructs /\ ws.end = To(c) /\ ws.incr = By(c) /\ ws.chunk_size = ChunkOf(c)
      /\ OnStep(c, y) /\ Before(y, To(c), By(c))
  BY <1>1, <1>2, <1>3, Drawing
<1>5. PICK z : z = y + Clip(ChunkOf(c) * By(c), To(c) - y, By(c))
  OBVIOUS
<1>6. Advance(t, z)
  <2>1. CASE LoopStartAdvance(t)
    <3>1. c.kind = "loop" /\ Advance(t, y + Clip(c.chunk * c.incr, ws.end - y, c.incr))
      BY <1>1, <1>3, <2>1 DEF LoopStartAdvance, Construct
    <3>2. c.chunk = ChunkOf(c) /\ c.incr = By(c)
      BY <3>1 DEF ChunkOf, By
    <3>3. QED
      BY <1>4, <1>5, <3>1, <3>2
  <2>2. CASE SectionsStartAdvance(t)
    <3>1. c.kind = "sections" /\ Advance(t, y + 1)
      BY <1>1, <1>3, <2>2 DEF SectionsStartAdvance, Construct
    <3>2. ChunkOf(c) = 1 /\ By(c) = 1 /\ To(c) \in Int
      BY <1>4, <3>1, ConstructFacts DEF ChunkOf, By
    <3>3. y < To(c)
      BY <1>4, <3>2 DEF Before
    <3>4. Clip(1 * 1, To(c) - y, 1) = 1
      BY <3>2, <3>3 DEF Clip
    <3>5. QED
      BY <1>5, <3>1, <3>2, <3>4
  <2>3. CASE NextAdvance(t)
    <3>1. Advance(t, y + Clip(ws.chunk_size * ws.incr, ws.end - y, ws.incr))
      BY <1>3, <2>3 DEF NextAdvance
    <3>2. QED
      BY <1>4, <1>5, <3>1
  <2>4. QED
    BY <2>1, <2>2, <2>3
<1>7. /\ z \in Int /\ Before(y, z, By(c))
      /\ z = To(c) \/ (OnStep(c, z) /\ Before(z, To(c), By(c)))
  BY <1>4, <1>5, ChunkEnds
<1>8. QED
  BY <1>1, <1>2, <1>3, <1>6, <1>7, AdvanceInv

\* The first look at the descriptor, by the thread that sets it up or a later one.
LEMMA CheckFirstInv ==
  ASSUME WorkInv, NEW t \in Threads, CheckFirst(t)
  PROVE  WorkInv'
<1>1. PICK k : k = cur[t]
  OBVIOUS
<1>2. PICK c : c = prog[k]
  OBVIOUS
<1>3. /\ pc[t] = "first" /\ c.kind # "single"
      /\ pc' = [pc EXCEPT ![t] = "peek"]
      /\ UNCHANGED <<prog, lock, exitLock, cur, reg, arrived, left, pieces>>
  BY <1>1, <1>2 DEF CheckFirst, Construct, Goto
<1>4. TypeOK /\ LockInv /\ ThreadInv(t)
  BY DEF WorkInv
<1>5. k \in DOMAIN prog /\ k \in Int /\ c \in Constructs
  BY <1>1, <1>2, <1>3, Where
<1>6. ws' = IF ws.checkfirst = WS_INITED THEN ws ELSE IF c.kind = "loop" THEN LoopInit(c) ELSE SectionsInit(c)
  BY <1>1, <1>2 DEF CheckFirst, Construct
<1>7. pc'[t] = "peek" /\ \A u \in Threads \ {t} : pc'[u] = pc[u]
  BY <1>3, <1>4 DEF TypeOK
<1>8. Others(t)
  BY <1>3, <1>7 DEF Others
<1>9. ASSUME NEW j \in DOMAIN prog
      PROVE  /\ Counted(j)' = Counted(j) /\ (Resetting(j)' <=> Resetting(j))
             /\ Touched(j)' = Touched(j) \cup (IF j = k THEN {t} ELSE {})
  <2>1. Counted(j)' = Counted(j)
    BY <1>3, <1>7 DEF Counted, Past
  <2>2. Resetting(j)' <=> Resetting(j)
    BY <1>3, <1>7 DEF Resetting
  <2>3. Touched(j)' = Touched(j) \cup (IF j = k THEN {t} ELSE {})
    BY <1>1, <1>3, <1>7 DEF Touched
  <2>4. QED
    BY <2>1, <2>2, <2>3
<1>10. t \notin Counted(k)
  BY <1>1, <1>3, <1>5 DEF Counted, Past
<1>11. InUse(k)'
  BY <1>5, <1>9, <1>10 DEF InUse
<1>12. ASSUME NEW j \in DOMAIN prog, j # k PROVE ~InUse(j)'
  <2>1. InUse(j)' <=> InUse(j)
    BY <1>9, <1>12 DEF InUse
  <2>2. QED
    BY <1>1, <1>3, <1>12, <2>1, MineInUse
<1>13. /\ Serves(k)'
       /\ ws' \in [checkfirst : BOOLEAN, end : Int, next : Int, chunk_size : Nat, incr : Int, completed : 0 .. N]
       /\ \A u \in Threads : pc[u] = "countstore" => ws'.completed = ws.completed
  <2>1. CASE ws.checkfirst = WS_INITED
    <3>1. ws' = ws
      BY <1>6, <2>1
    <3>2. PICK j \in DOMAIN prog : InUse(j)
      BY <2>1 DEF WorkInv, DescriptorInv
    <3>3. j = k
      BY <1>1, <1>3, <3>2, MineInUse
    <3>4. Serves(k)
      BY <3>2, <3>3 DEF WorkInv, DescriptorInv
    <3>5. Serves(k)'
      BY <1>3, <1>5, <1>9, <3>1, <3>4 DEF Serves, Reached
    <3>6. QED
      BY <1>4, <3>1, <3>5 DEF TypeOK
  <2>2. CASE ws.checkfirst # WS_INITED
    <3>1. ~InUse(k)
      BY <1>5, <2>2 DEF WorkInv, DescriptorInv, Serves
    <3>2. Touched(k) = {}
      BY <1>10, <3>1 DEF InUse
    <3>3. Counted(k) = {} /\ Reached(k)' = From(c)
      <4>1. Counted(k) \subseteq Touched(k)
        BY DEF Counted, Touched, Past
      <4>2. pieces[k] = << >>
        BY <1>5, <3>2 DEF WorkInv, ConstructInv
      <4>3. QED
        BY <1>2, <1>3, <3>2, <4>1, <4>2 DEF Reached
    <3>4. Cardinality(Counted(k)') = 0
      <4>1. Cardinality({}) = 0
        BY FS_EmptySet
      <4>2. QED
        BY <1>5, <1>9, <3>3, <4>1
    <3>5. /\ ws'.checkfirst = WS_INITED /\ ws'.completed = 0
          /\ ws'.end = To(c) /\ ws'.next = From(c) /\ ws'.incr = By(c) /\ ws'.chunk_size = ChunkOf(c)
          /\ ws' \in [checkfirst : BOOLEAN, end : Int, next : Int, chunk_size : Nat, incr : Int, completed : 0 .. N]
      <4>1. 0 \in 0 .. N
        BY ConstantsAssumption
      <4>2. CASE c.kind = "loop"
        <5>1. ws' = LoopInit(c) /\ To(c) = LoopInit(c).end
          BY <1>6, <2>2, <4>2 DEF To
        <5>2. From(c) = c.start /\ By(c) = c.incr /\ ChunkOf(c) = c.chunk
          BY <4>2 DEF From, By, ChunkOf
        <5>3. c \in Loops
          BY <1>5, <4>2 DEF Constructs, SectionLists, Singles
        <5>4. QED
          BY <4>1, <5>1, <5>2, <5>3 DEF LoopInit, Loops, WS_INITED
      <4>3. CASE c.kind = "sections"
        <5>1. ws' = SectionsInit(c) /\ To(c) = c.count + 1
          BY <1>6, <2>2, <4>3 DEF To
        <5>2. From(c) = 1 /\ By(c) = 1 /\ ChunkOf(c) = 1
          BY <4>3 DEF From, By, ChunkOf
        <5>3. c \in SectionLists
          BY <1>5, <4>3 DEF Constructs, Loops, Singles
        <5>4. QED
          BY <4>1, <5>1, <5>2, <5>3 DEF SectionsInit, SectionLists, WS_INITED
      <4>4. QED
        BY <1>3, <1>5, <4>2, <4>3, ConstructFacts
    <3>6. Serves(k)'
      BY <1>2, <1>3, <3>3, <3>4, <3>5 DEF Serves
    <3>7. ASSUME NEW u \in Threads, pc[u] = "countstore" PROVE FALSE
      <4>1. InUse(cur[u]) /\ cur[u] \in DOMAIN prog
        BY <3>7, Using, Where
      <4>2. cur[u] = k
        BY <1>1, <1>3, <4>1, MineInUse
      <4>3. QED
        BY <3>1, <4>1, <4>2
    <3>8. QED
      BY <3>5, <3>6, <3>7
  <2>3. QED
    BY <2>1, <2>2
<1>14. TypeOK'
  <2>1. "peek" \in Labels
    BY DEF Labels
  <2>2. pc' \in [Threads -> Labels]
    BY <1>3, <1>4, <2>1 DEF TypeOK
  <2>3. QED
    BY <1>3, <1>4, <1>13, <2>2 DEF TypeOK
<1>15. LockInv'
  <2>1. lock = 1
    BY <1>3, <1>4 DEF TypeOK, LockInv, Locked
  <2>2. QED
    BY <1>3, <1>4, <2>1, LockMove DEF Locked, Counting
<1>16. DescriptorInv'
  BY <1>3, <1>5, <1>11, <1>12, <1>13 DEF DescriptorInv
<1>17. ThreadInv(t)'
  BY <1>1, <1>2, <1>3, <1>4, <1>7 DEF ThreadInv
<1>18. ASSUME NEW u \in Threads \ {t} PROVE ThreadInv(u)'
  <2>1. pc[u] = "reset" => Counted(cur[u])' = Threads
    <3>1. pc[u] = "reset" => cur[u] \in DOMAIN prog /\ Counted(cur[u]) = Threads
      BY Where DEF WorkInv, ThreadInv
    <3>2. QED
      BY <1>3, <1>9, <3>1
  <2>2. pc[u] \notin {"bump", "bumpnext"}
    BY <1>3, <1>4 DEF LockInv, Locked
  <2>3. QED
    BY <1>3, <1>8, <1>13, <2>1, <2>2, OthersKeep
<1>19. ASSUME NEW j \in DOMAIN prog PROVE ConstructInv(j)'
  <2>1. ConstructInv(j) /\ pieces'[j] = pieces[j]
    BY <1>3 DEF WorkInv
  <2>2. ASSUME NEW u \in Threads, Ended(u, j)' PROVE Reached(j) = To(prog[j])
    <3>1. Ended(u, j)
      <4>1. CASE u = t
        BY <1>3, <1>7, <2>2, <4>1 DEF Ended, Counting, Past
      <4>2. CASE u # t
        BY <1>3, <1>7, <2>2, <4>2 DEF Ended
      <4>3. QED
        BY <4>1, <4>2
    <3>2. QED
      BY <2>1, <3>1 DEF ConstructInv
  <2>3. Touched(j)' = {} => Touched(j) = {}
    BY <1>9
  <2>4. QED
    BY <1>3, <2>1, <2>2, <2>3, SamePieces
<1>20. \A u, v \in Threads : BarrierInv(u, v)'
  BY <1>3 DEF WorkInv, BarrierInv
<1>21. QED
  BY <1>3, <1>14, <1>15, <1>16, <1>17, <1>18, <1>19, <1>20 DEF WorkInv

\* A thread that counts itself at the descriptor.
LEMMA CountStep ==
  ASSUME WorkInv, NEW t \in Threads, pc[t] \in {"first", "countstore"}, NEW b \in {"sync", "reset"},
         pc' = [pc EXCEPT ![t] = b], UNCHANGED <<prog, cur>>, NEW k, k = cur[t]
  PROVE  /\ \A u \in Threads : pc[u] # "reset"
         /\ \A j \in DOMAIN prog : j # k => ~InUse(j)'
         /\ \A j \in DOMAIN prog : Touched(j)' = {} => Touched(j) = {}
         /\ Cardinality(Counted(k)') = Cardinality(Counted(k)) + 1
         /\ Cardinality(Counted(k)) \in 0 .. N /\ Cardinality(Counted(k)') \in 0 .. N
         /\ Cardinality(Counted(k)') = N => Counted(k)' = Threads
         /\ InUse(k)' <=> Cardinality(Counted(k)') # N \/ b = "reset"
<1>1. TypeOK /\ \A u \in Threads : ThreadInv(u)
  BY DEF WorkInv
<1>2. k \in DOMAIN prog /\ k \in Int
  BY Where
<1>3. pc'[t] = b /\ \A u \in Threads \ {t} : pc'[u] = pc[u]
  BY <1>1 DEF TypeOK
<1>4. t \notin Counted(k)
  BY <1>2 DEF Counted, Past
<1>5. ASSUME NEW u \in Threads, pc[u] = "reset" PROVE FALSE
  <2>1. InUse(cur[u]) /\ cur[u] \in DOMAIN prog /\ Counted(cur[u]) = Threads
    BY <1>1, <1>5, Using, Where DEF ThreadInv
  <2>2. cur[u] = k
    BY <2>1, MineInUse
  <2>3. QED
    BY <1>4, <2>1, <2>2
<1>6. Counted(k)' = Counted(k) \cup {t}
  BY <1>3 DEF Counted, Past
<1>7. ASSUME NEW j \in DOMAIN prog, j # k PROVE ~InUse(j)'
  <2>1. Counted(j)' = Counted(j)
    BY <1>3, <1>7 DEF Counted
  <2>2. Touched(j)' = Touched(j)
    BY <1>3, <1>7 DEF Touched
  <2>3. Resetting(j)' <=> Resetting(j)
    BY <1>3, <1>7 DEF Resetting
  <2>4. InUse(j)' <=> InUse(j)
    BY <2>1, <2>2, <2>3 DEF InUse
  <2>5. QED
    BY <1>7, <2>4, MineInUse
<1>8. ASSUME NEW j \in DOMAIN prog PROVE Touched(j) \subseteq Touched(j)'
  BY <1>3 DEF Touched
<1>9. t \in Touched(k)'
  BY <1>3 DEF Touched
<1>10. Counted(k) \in SUBSET Threads /\ Counted(k)' \in SUBSET Threads
  BY DEF Counted
<1>11. Cardinality(Counted(k)) \in 0 .. N /\ Cardinality(Counted(k) \cup {t}) = Cardinality(Counted(k)) + 1
  BY <1>4, <1>10, CountThreads
<1>12. Cardinality(Counted(k)') \in 0 .. N /\ (Cardinality(Counted(k)') = N <=> Counted(k)' = Threads)
  BY <1>10, CountThreads
<1>13. Resetting(k)' <=> b = "reset"
  BY <1>3, <1>5 DEF Resetting
<1>14. InUse(k)' <=> Cardinality(Counted(k)') # N \/ b = "reset"
  BY <1>9, <1>12, <1>13 DEF InUse
<1>15. QED
  BY <1>5, <1>6, <1>7, <1>8, <1>11, <1>12, <1>14

\* What holds of the other threads and constructs when a thread counts itself.
LEMMA CountInv ==
  ASSUME WorkInv, NEW t \in Threads, pc[t] \in {"first", "countstore"}, NEW b \in {"sync", "reset"},
         pc' = [pc EXCEPT ![t] = b], UNCHANGED <<prog, cur, reg, arrived, left>>,
         b = "reset" => prog[cur[t]].kind = "sections" /\ Cardinality(Counted(cur[t])') = N,
         ws' \in [checkfirst : BOOLEAN, end : Int, next : Int, chunk_size : Nat, incr : Int, completed : 0 .. N],
         ws'.next = ws.next, ws'.end = ws.end, \A u \in Threads \ {t} : pc[u] # "countstore",
         pieces' \in [DOMAIN prog -> Seq(Int \X Int)], lock' \in {0, 1}, exitLock' \in {0, 1},
         LockInv', Serves(cur[t])' \/ (ws'.checkfirst = WS_NOT_INITED /\ ~InUse(cur[t])'), InUse(cur[t])' \/ ws'.checkfirst = WS_NOT_INITED,
         \A j \in DOMAIN prog : ConstructInv(j)'
  PROVE  WorkInv'
<1>1. TypeOK /\ \A u \in Threads : ThreadInv(u)
  BY DEF WorkInv
<1>2. PICK k : k = cur[t]
  OBVIOUS
<1>3. k \in DOMAIN prog
  BY <1>2, Where
<1>4. /\ \A u \in Threads : pc[u] # "reset"
      /\ \A j \in DOMAIN prog : j # k => ~InUse(j)'
      /\ Cardinality(Counted(k)') = N => Counted(k)' = Threads
  BY <1>2, CountStep
<1>5. pc'[t] = b /\ \A u \in Threads \ {t} : pc'[u] = pc[u]
  BY <1>1 DEF TypeOK
<1>6. b \in Labels
  BY DEF Labels
<1>7. pc' \in [Threads -> Labels]
  BY <1>1, <1>6 DEF TypeOK
<1>8. TypeOK'
  BY <1>1, <1>7 DEF TypeOK
<1>9. Others(t)
  BY <1>5 DEF Others
<1>10. cur'[t] = k /\ (b = "reset" => prog[k].kind = "sections" /\ Counted(k)' = Threads)
  BY <1>2, <1>4
<1>11. Serves(k)' \/ ~InUse(k)'
  BY <1>2
<1>12. InUse(k)' \/ ws'.checkfirst = WS_NOT_INITED
  BY <1>2
<1>13. DescriptorInv'
  BY <1>3, <1>4, <1>11, <1>12 DEF DescriptorInv, WS_INITED, WS_NOT_INITED
<1>14. ThreadInv(t)'
  <2>1. ThreadInv(t)
    BY <1>1
  <2>2. b = "reset" => prog'[cur'[t]].kind = "sections" /\ Counted(cur[t])' = Threads
    BY <1>2, <1>10
  <2>3. QED
    BY <1>5, <2>1, <2>2 DEF ThreadInv
<1>15. ASSUME NEW u \in Threads \ {t} PROVE ThreadInv(u)'
  BY <1>4, <1>9, OthersKeep
<1>16. \A u, v \in Threads : BarrierInv(u, v)'
  BY DEF WorkInv, BarrierInv
<1>17. QED
  BY <1>8, <1>13, <1>14, <1>15, <1>16 DEF WorkInv

\* The count of a thread that leaves a loop or the sections; the last one resets the loop's descriptor.
LEMMA EndStoreInv ==
  ASSUME WorkInv, NEW t \in Threads, LoopEndStore(t) \/ SectionsEndStore(t)
  PROVE  WorkInv'
<1>1. PICK k : k = cur[t]
  OBVIOUS
<1>2. PICK n : n = reg[t] + 1
  OBVIOUS
<1>3. PICK b \in {"sync", "reset"} :
        /\ pc[t] = "countstore" /\ exitLock' = 0 /\ pc' = [pc EXCEPT ![t] = b]
        /\ \/ prog[k].kind = "loop" /\ b = "sync"
              /\ ws' = IF n = N THEN [ws EXCEPT !.completed = 0, !.checkfirst = WS_NOT_INITED]
                                ELSE [ws EXCEPT !.completed = n]
           \/ prog[k].kind = "sections" /\ (b = "reset" <=> n = N) /\ ws' = [ws EXCEPT !.completed = n]
        /\ UNCHANGED <<prog, lock, cur, reg, arrived, left, pieces>>
  BY <1>1, <1>2 DEF LoopEndStore, SectionsEndStore, Construct, Goto
<1>4. TypeOK /\ LockInv /\ ThreadInv(t)
  BY DEF WorkInv
<1>5. k \in DOMAIN prog /\ Serves(k)
  BY <1>1, <1>3, Where, Using
<1>6. /\ \A u \in Threads : pc[u] # "reset"
      /\ \A j \in DOMAIN prog : Touched(j)' = {} => Touched(j) = {}
      /\ Cardinality(Counted(k)') = Cardinality(Counted(k)) + 1
      /\ Cardinality(Counted(k)) \in 0 .. N /\ Cardinality(Counted(k)') \in 0 .. N
      /\ InUse(k)' <=> Cardinality(Counted(k)') # N \/ b = "reset"
  BY <1>1, <1>3, CountStep
<1>7. n = Cardinality(Counted(k)') /\ n \in 0 .. N
  <2>1. reg[t] = ws.completed
    BY <1>3, <1>4 DEF ThreadInv
  <2>2. ws.completed = Cardinality(Counted(k))
    BY <1>5 DEF Serves
  <2>3. QED
    BY <1>2, <1>6, <2>1, <2>2
<1>8. 0 \in 0 .. N
  BY ConstantsAssumption
<1>9. /\ ws' \in [checkfirst : BOOLEAN, end : Int, next : Int, chunk_size : Nat, incr : Int, completed : 0 .. N]
      /\ ws'.next = ws.next /\ ws'.end = ws.end /\ ws'.incr = ws.incr /\ ws'.chunk_size = ws.chunk_size
  BY <1>3, <1>4, <1>7, <1>8 DEF TypeOK, WS_NOT_INITED
<1>10. \A u \in Threads \ {t} : pc[u] # "countstore"
  BY <1>3, <1>4 DEF LockInv, Counting
<1>11. LockInv'
  BY <1>3, <1>4, <1>6, LockMove DEF Locked, Counting
<1>12. IF prog[k].kind = "loop" /\ n = N
       THEN ws'.checkfirst = WS_NOT_INITED
       ELSE ws'.checkfirst = ws.checkfirst /\ ws'.completed = n
  BY <1>3, <1>4 DEF TypeOK
<1>13. Reached(k)' = Reached(k)
  BY <1>3 DEF Reached
<1>14. Serves(k)' \/ (ws'.checkfirst = WS_NOT_INITED /\ ~InUse(k)')
  <2>1. CASE prog[k].kind = "loop" /\ n = N
    <3>1. b = "sync"
      BY <1>3, <2>1
    <3>2. ~InUse(k)'
      BY <1>6, <1>7, <2>1, <3>1
    <3>3. QED
      BY <1>12, <2>1, <3>2
  <2>2. CASE ~(prog[k].kind = "loop" /\ n = N)
    <3>1. ws'.checkfirst = ws.checkfirst /\ ws'.completed = Cardinality(Counted(k)')
      BY <1>7, <1>12, <2>2
    <3>2. prog' = prog
      BY <1>3
    <3>3. QED
      BY <1>5, <1>9, <1>13, <3>1, <3>2 DEF Serves
  <2>3. QED
    BY <2>1, <2>2
<1>15. InUse(k)' \/ ws'.checkfirst = WS_NOT_INITED
  <2>1. CASE prog[k].kind = "loop" /\ n = N
    BY <1>12, <2>1
  <2>2. CASE ~(prog[k].kind = "loop" /\ n = N)
    BY <1>3, <1>6, <1>7, <2>2
  <2>3. QED
    BY <2>1, <2>2
<1>16. ASSUME NEW j \in DOMAIN prog PROVE ConstructInv(j)'
  <2>1. ConstructInv(j) /\ pieces'[j] = pieces[j] /\ prog' = prog
    BY <1>3 DEF WorkInv
  <2>2. pc'[t] = b /\ \A u \in Threads \ {t} : pc'[u] = pc[u]
    BY <1>3, <1>4 DEF TypeOK
  <2>3. ASSUME NEW u \in Threads, Ended(u, j)' PROVE Reached(j) = To(prog[j])
    <3>1. Ended(u, j)
      <4>1. CASE u = t
        BY <1>3, <2>3, <4>1 DEF Ended, Counting
      <4>2. CASE u # t
        BY <1>3, <2>2, <2>3, <4>2 DEF Ended
      <4>3. QED
        BY <4>1, <4>2
    <3>2. QED
      BY <2>1, <3>1 DEF ConstructInv
  <2>4. QED
    BY <1>6, <2>1, <2>3, SamePieces
<1>17. /\ b = "reset" => prog[cur[t]].kind = "sections" /\ Cardinality(Counted(cur[t])') = N
       /\ Serves(cur[t])' \/ (ws'.checkfirst = WS_NOT_INITED /\ ~InUse(cur[t])')
       /\ InUse(cur[t])' \/ ws'.checkfirst = WS_NOT_INITED
  <2>1. cur[t] = k /\ cur'[t] = k /\ (b = "reset" => prog[k].kind = "sections" /\ n = N)
    BY <1>1, <1>3
  <2>2. QED
    BY <1>7, <1>14, <1>15, <2>1
<1>18. lock' \in {0, 1} /\ exitLock' \in {0, 1} /\ pieces' \in [DOMAIN prog -> Seq(Int \X Int)]
  BY <1>3, <1>4 DEF TypeOK
<1>19. QED
  BY <1>3, <1>9, <1>10, <1>11, <1>16, <1>17, <1>18, CountInv

\* The single: the first thread in executes it, the last one resets the descriptor.
LEMMA SingleInv ==
  ASSUME WorkInv, NEW t \in Threads, GOMP_single_start(t)
  PROVE  WorkInv'
<1>1. PICK k : k = cur[t]
  OBVIOUS
<1>2. PICK n : n = (IF ws.checkfirst # WS_INITED THEN 0 ELSE ws.completed) + 1
  OBVIOUS
<1>3. /\ pc[t] = "first" /\ prog[k].kind = "single" /\ lock' = 0 /\ pc' = [pc EXCEPT ![t] = "sync"]
      /\ ws' = [ws EXCEPT !.completed = n, !.checkfirst = IF n = N THEN WS_NOT_INITED ELSE WS_INITED]
      /\ IF ws.checkfirst # WS_INITED THEN pieces' = [pieces EXCEPT ![k] = Append(@, <<1, 2>>)] ELSE pieces' = pieces
      /\ UNCHANGED <<prog, exitLock, cur, reg, arrived, left>>
  BY <1>1, <1>2 DEF GOMP_single_start, Construct, HandOut, Goto
<1>4. TypeOK /\ LockInv /\ ThreadInv(t)
  BY DEF WorkInv
<1>5. k \in DOMAIN prog /\ k \in Int /\ prog[k] \in Constructs /\ t \notin Counted(k)
  <2>1. k \in DOMAIN prog /\ k \in Int /\ prog[k] \in Constructs
    BY <1>1, <1>3, Where
  <2>2. QED
    BY <1>1, <1>3, <2>1 DEF Counted, Past
<1>6. /\ \A u \in Threads : pc[u] # "reset"
      /\ \A j \in DOMAIN prog : Touched(j)' = {} => Touched(j) = {}
      /\ Cardinality(Counted(k)') = Cardinality(Counted(k)) + 1
      /\ Cardinality(Counted(k)) \in 0 .. N /\ Cardinality(Counted(k)') \in 0 .. N
      /\ InUse(k)' <=> Cardinality(Counted(k)') # N
  <2>1. "sync" # "reset" /\ "sync" \in {"sync", "reset"}
    OBVIOUS
  <2>2. QED
    BY <1>1, <1>3, <2>1, CountStep
<1>7. ASSUME ws.checkfirst = WS_INITED PROVE Serves(k) /\ Touched(k) # {}
  <2>1. PICK j \in DOMAIN prog : InUse(j)
    BY <1>7 DEF WorkInv, DescriptorInv
  <2>2. j = k
    BY <1>1, <1>3, <2>1, MineInUse
  <2>3. QED
    BY <2>1, <2>2 DEF WorkInv, DescriptorInv, InUse
<1>8. ASSUME ws.checkfirst # WS_INITED PROVE Touched(k) = {} /\ Counted(k) = {}
  <2>1. ~InUse(k)
    BY <1>5, <1>8 DEF WorkInv, DescriptorInv, Serves
  <2>2. Touched(k) = {}
    BY <1>5, <2>1 DEF InUse
  <2>3. Counted(k) \subseteq Touched(k)
    BY DEF Counted, Touched, Past
  <2>4. QED
    BY <2>2, <2>3
<1>9. n = Cardinality(Counted(k)') /\ n \in 0 .. N
  <2>1. CASE ws.checkfirst = WS_INITED
    <3>1. ws.completed = Cardinality(Counted(k))
      BY <1>7, <2>1 DEF Serves
    <3>2. QED
      BY <1>2, <1>6, <2>1, <3>1
  <2>2. CASE ws.checkfirst # WS_INITED
    <3>1. Cardinality({}) = 0
      BY FS_EmptySet
    <3>2. QED
      BY <1>2, <1>6, <1>8, <2>2, <3>1
  <2>3. QED
    BY <2>1, <2>2
<1>10. /\ ws' \in [checkfirst : BOOLEAN, end : Int, next : Int, chunk_size : Nat, incr : Int, completed : 0 .. N]
       /\ ws'.next = ws.next /\ ws'.end = ws.end /\ ws'.completed = n
       /\ ws'.checkfirst = IF n = N THEN WS_NOT_INITED ELSE WS_INITED
  BY <1>3, <1>4, <1>9 DEF TypeOK, WS_NOT_INITED, WS_INITED
<1>11. ASSUME NEW u \in Threads \ {t} PROVE pc[u] # "countstore"
  <2>1. SUFFICES ASSUME pc[u] = "countstore" PROVE FALSE
    OBVIOUS
  <2>2. InUse(cur[u]) /\ cur[u] \in DOMAIN prog
    BY <2>1, Using, Where
  <2>3. cur[u] = k
    BY <1>1, <1>3, <2>2, MineInUse
  <2>4. prog[cur[u]].kind # "single"
    BY <2>1 DEF WorkInv, ThreadInv
  <2>5. QED
    BY <1>3, <2>3, <2>4
<1>12. LockInv'
  <2>1. "sync" \notin Locked /\ "sync" \notin Counting /\ "sync" # "reset" /\ "first" \in Locked /\ "first" \notin Counting
    BY DEF Locked, Counting
  <2>2. QED
    BY <1>3, <1>4, <2>1, LockMove
<1>13. Serves(k)' \/ (ws'.checkfirst = WS_NOT_INITED /\ ~InUse(k)')
  BY <1>3, <1>6, <1>9, <1>10 DEF Serves
<1>14. InUse(k)' \/ ws'.checkfirst = WS_NOT_INITED
  BY <1>6, <1>9, <1>10
<1>15. From(prog[k]) = 1 /\ To(prog[k]) = 2 /\ By(prog[k]) = 1 /\ OnStep(prog[k], 1) /\ Before(1, 2, 1)
  <2>1. From(prog[k]) = 1 /\ To(prog[k]) = 2 /\ By(prog[k]) = 1
    BY <1>3 DEF From, To, By
  <2>2. 0 \in Nat /\ 1 = 1 + 0 * 1
    OBVIOUS
  <2>3. QED
    BY <2>1, <2>2 DEF OnStep, Before
<1>16. pc'[t] = "sync" /\ \A u \in Threads \ {t} : pc'[u] = pc[u]
  BY <1>3, <1>4 DEF TypeOK
<1>17. PiecesInv(k)' /\ Reached(k)' = To(prog[k]) /\ pieces' \in [DOMAIN prog -> Seq(Int \X Int)]
  <2>1. ConstructInv(k)
    BY <1>5 DEF WorkInv
  <2>2. CASE ws.checkfirst = WS_INITED
    <3>1. pieces' = pieces /\ prog' = prog
      BY <1>3, <2>2
    <3>2. PICK u \in Threads : u \in Touched(k)
      BY <1>7, <2>2 DEF Touched
    <3>3. Ended(u, k)
      <4>1. pc[u] \in Labels /\ ThreadInv(u)
        BY Where DEF WorkInv
      <4>2. cur[u] = k => pc[u] \in {"begin", "first", "sync", "barrier", "reset", "done"}
        BY <1>3, <4>1 DEF ThreadInv, Labels
      <4>3. cur[u] = k => pc[u] # "done"
        BY <1>5, <4>1, Where, ProgFacts DEF WorkInv
      <4>4. QED
        BY <3>2, <4>2, <4>3 DEF Ended, Touched, Past
    <3>4. Reached(k) = To(prog[k])
      BY <2>1, <3>3 DEF ConstructInv
    <3>5. Reached(k)' = Reached(k)
      BY <3>1 DEF Reached
    <3>6. PiecesInv(k)'
      BY <2>1, <3>1, <3>5 DEF ConstructInv, PiecesInv
    <3>7. QED
      BY <1>4, <3>1, <3>4, <3>5, <3>6 DEF TypeOK
  <2>3. CASE ws.checkfirst # WS_INITED
    <3>1. pieces' = [pieces EXCEPT ![k] = Append(@, <<1, 2>>)] /\ prog' = prog
      BY <1>3, <2>3
    <3>2. pieces[k] = << >>
      BY <1>8, <2>1, <2>3 DEF ConstructInv
    <3>3. Reached(k) = 1
      BY <1>15, <3>2 DEF Reached
    <3>4. PiecesInv(k)' /\ Reached(k)' = 2
      <4>1. PiecesInv(k) /\ 1 \in Int /\ 2 \in Int
        BY <2>1 DEF ConstructInv
      <4>2. QED
        BY <1>4, <1>5, <1>15, <3>1, <3>3, <4>1, Extend
    <3>5. pieces[k] \in Seq(Int \X Int) /\ <<1, 2>> \in Int \X Int
      BY <1>4, <1>5 DEF TypeOK
    <3>6. Append(pieces[k], <<1, 2>>) \in Seq(Int \X Int)
      BY <3>5
    <3>7. pieces' \in [DOMAIN prog -> Seq(Int \X Int)]
      BY <1>4, <3>1, <3>6 DEF TypeOK
    <3>8. QED
      BY <1>15, <3>4, <3>7
  <2>4. QED
    BY <2>2, <2>3
<1>18. ASSUME NEW j \in DOMAIN prog PROVE ConstructInv(j)'
  <2>1. CASE j = k
    <3>1. t \in Touched(k)'
      BY <1>1, <1>3, <1>16 DEF Touched
    <3>2. prog' = prog
      BY <1>3
    <3>3. QED
      BY <1>17, <2>1, <3>1, <3>2 DEF ConstructInv
  <2>2. CASE j # k
    <3>1. ConstructInv(j) /\ prog' = prog
      BY <1>3 DEF WorkInv
    <3>2. pieces'[j] = pieces[j]
      BY <1>3, <1>4, <2>2 DEF TypeOK
    <3>3. ASSUME NEW u \in Threads, Ended(u, j)' PROVE Reached(j) = To(prog[j])
      <4>1. Ended(u, j)
        <5>1. CASE u = t
          BY <1>1, <1>3, <2>2, <3>3, <5>1 DEF Ended
        <5>2. CASE u # t
          BY <1>3, <1>16, <3>3, <5>2 DEF Ended
        <5>3. QED
          BY <5>1, <5>2
      <4>2. QED
        BY <3>1, <4>1 DEF ConstructInv
    <3>4. QED
      BY <1>6, <3>1, <3>2, <3>3, SamePieces
  <2>3. QED
    BY <2>1, <2>2
<1>19. PICK b \in {"sync", "reset"} : b = "sync"
  OBVIOUS
<1>20. /\ Serves(cur[t])' \/ (ws'.checkfirst = WS_NOT_INITED /\ ~InUse(cur[t])')
       /\ InUse(cur[t])' \/ ws'.checkfirst = WS_NOT_INITED
  <2>1. cur[t] = k /\ cur'[t] = k
    BY <1>1, <1>3
  <2>2. QED
    BY <1>13, <1>14, <2>1
<1>21. lock' \in {0, 1} /\ exitLock' \in {0, 1} /\ b # "reset" /\ pc' = [pc EXCEPT ![t] = b]
  BY <1>3, <1>4, <1>19 DEF TypeOK
<1>22. QED
  BY <1>3, <1>10, <1>11, <1>12, <1>17, <1>18, <1>20, <1>21, CountInv

\* The reset after the sections, outside the lock.
LEMMA ResetInv ==
  ASSUME WorkInv, NEW t \in Threads, gomp_work_share_end_nowait(t)
  PROVE  WorkInv'
<1>1. PICK k : k = cur[t]
  OBVIOUS
<1>2. /\ pc[t] = "reset" /\ pc' = [pc EXCEPT ![t] = "sync"]
      /\ ws.completed = N => ws' = [checkfirst |-> WS_NOT_INITED, end |-> 0, next |-> 0,
                                    chunk_size |-> 0, incr |-> 0, completed |-> 0]
      /\ UNCHANGED <<prog, lock, exitLock, cur, reg, arrived, left, pieces>>
  BY DEF gomp_work_share_end_nowait, Goto
<1>3. TypeOK /\ LockInv /\ ThreadInv(t)
  BY DEF WorkInv
<1>4. k \in DOMAIN prog /\ Serves(k) /\ InUse(k) /\ Counted(k) = Threads
  BY <1>1, <1>2, <1>3, Using, Where DEF ThreadInv
<1>5. ws.completed = N
  <2>1. Threads \in SUBSET Threads
    OBVIOUS
  <2>2. Cardinality(Threads) = N
    BY <2>1, CountThreads
  <2>3. QED
    BY <1>4, <2>2 DEF Serves
<1>6. ws' = [checkfirst |-> WS_NOT_INITED, end |-> 0, next |-> 0, chunk_size |-> 0, incr |-> 0, completed |-> 0]
  BY <1>2, <1>5
<1>7. ws' \in [checkfirst : BOOLEAN, end : Int, next : Int, chunk_size : Nat, incr : Int, completed : 0 .. N]
  <2>1. 0 \in 0 .. N
    BY ConstantsAssumption
  <2>2. QED
    BY <1>6, <2>1 DEF WS_NOT_INITED
<1>8. pc'[t] = "sync" /\ \A u \in Threads \ {t} : pc'[u] = pc[u]
  BY <1>2, <1>3 DEF TypeOK
<1>9. Others(t)
  BY <1>2, <1>8 DEF Others
<1>10. TypeOK'
  <2>1. "sync" \in Labels
    BY DEF Labels
  <2>2. pc' \in [Threads -> Labels]
    BY <1>2, <1>3, <2>1 DEF TypeOK
  <2>3. QED
    BY <1>2, <1>3, <1>7, <2>2 DEF TypeOK
<1>11. LockInv'
  BY <1>2, <1>3, LockMove DEF Locked, Counting
<1>12. ASSUME NEW u \in Threads \ {t} PROVE pc[u] \notin {"reset", "bump", "bumpnext", "countstore"}
  <2>1. pc[u] # "reset"
    BY <1>2, <1>3 DEF LockInv
  <2>2. SUFFICES ASSUME pc[u] \in {"bump", "bumpnext", "countstore"} PROVE FALSE
    BY <2>1
  <2>3. cur[u] = k /\ cur[u] \in Int
    BY <1>4, <2>2, MineInUse, Where
  <2>4. u \in Counted(k)
    BY <1>4
  <2>5. QED
    BY <2>2, <2>3, <2>4 DEF Counted, Past
<1>13. ThreadInv(t)'
  BY <1>2, <1>3, <1>8 DEF ThreadInv
<1>14. ASSUME NEW u \in Threads \ {t} PROVE ThreadInv(u)'
  BY <1>2, <1>9, <1>12, OthersKeep
<1>15. ASSUME NEW j \in DOMAIN prog
       PROVE  Touched(j)' = Touched(j) /\ Counted(j)' = Counted(j) /\ ~Resetting(j)'
  <2>1. Touched(j)' = Touched(j)
    BY <1>2, <1>8 DEF Touched
  <2>2. Counted(j)' = Counted(j)
    BY <1>2, <1>8 DEF Counted, Past
  <2>3. ~Resetting(j)'
    BY <1>8, <1>12 DEF Resetting
  <2>4. QED
    BY <2>1, <2>2, <2>3
<1>16. ASSUME NEW j \in DOMAIN prog PROVE ~InUse(j)'
  <2>1. CASE j = k
    BY <1>4, <1>15, <2>1 DEF InUse
  <2>2. CASE j # k
    <3>1. InUse(j)' => InUse(j)
      BY <1>15 DEF InUse
    <3>2. QED
      BY <1>1, <1>2, <2>2, <3>1, MineInUse
  <2>3. QED
    BY <2>1, <2>2
<1>17. DescriptorInv'
  BY <1>2, <1>6, <1>16 DEF DescriptorInv, WS_INITED, WS_NOT_INITED
<1>18. ASSUME NEW j \in DOMAIN prog PROVE ConstructInv(j)'
  <2>1. ConstructInv(j) /\ pieces'[j] = pieces[j] /\ prog' = prog
    BY <1>2 DEF WorkInv
  <2>2. ASSUME NEW u \in Threads, Ended(u, j)' PROVE Reached(j) = To(prog[j])
    <3>1. Ended(u, j)
      <4>1. CASE u = t
        BY <1>2, <2>2, <4>1 DEF Ended, Past
      <4>2. CASE u # t
        BY <1>2, <1>8, <2>2, <4>2 DEF Ended
      <4>3. QED
        BY <4>1, <4>2
    <3>2. QED
      BY <2>1, <3>1 DEF ConstructInv
  <2>3. QED
    BY <1>15, <2>1, <2>2, SamePieces
<1>19. \A u, v \in Threads : BarrierInv(u, v)'
  BY <1>2 DEF WorkInv, BarrierInv
<1>20. QED
  BY <1>2, <1>10, <1>11, <1>13, <1>14, <1>17, <1>18, <1>19 DEF WorkInv

\* A step that changes nothing.
LEMMA StutterInv ==
  ASSUME WorkInv, UNCHANGED vars PROVE WorkInv'
<1>1. /\ prog' = prog /\ ws' = ws /\ lock' = lock /\ exitLock' = exitLock /\ pc' = pc /\ cur' = cur /\ reg' = reg
      /\ arrived' = arrived /\ left' = left /\ pieces' = pieces
  BY DEF vars
<1>2. TypeOK' /\ LockInv'
  BY <1>1 DEF WorkInv, TypeOK, LockInv
<1>3. ASSUME NEW j \in DOMAIN prog
      PROVE  Touched(j)' = Touched(j) /\ Counted(j)' = Counted(j) /\ (InUse(j)' <=> InUse(j)) /\ Reached(j)' = Reached(j)
  BY <1>1 DEF Touched, Counted, InUse, Resetting, Reached
<1>4. DescriptorInv'
  BY <1>1, <1>3 DEF WorkInv, DescriptorInv, Serves
<1>5. ASSUME NEW j \in DOMAIN prog PROVE ConstructInv(j)'
  BY <1>1, <1>3, SamePieces DEF WorkInv, ConstructInv, Ended
<1>6. ASSUME NEW t \in Threads PROVE ThreadInv(t)'
  <2>1. ThreadInv(t)
    BY DEF WorkInv
  <2>2. Counted(cur[t])' = Counted(cur[t])
    BY <1>1 DEF Counted
  <2>3. QED
    BY <1>1, <2>1, <2>2 DEF ThreadInv
<1>7. \A u, v \in Threads : BarrierInv(u, v)'
  BY <1>1 DEF WorkInv, BarrierInv
<1>8. QED
  BY <1>1, <1>2, <1>4, <1>5, <1>6, <1>7 DEF WorkInv

\* Every step keeps the invariant.
LEMMA NextInv ==
  ASSUME WorkInv, [Next]_vars PROVE WorkInv'
<1>1. ASSUME NEW t \in Threads, Step(t) PROVE WorkInv'
  <2>1. CASE Start(t)
    BY <2>1, LockBusinessInv, CheckFirstInv, PeekInv, DrawInv DEF Start
  <2>2. CASE gomp_iter_dynamic_next(t)
    BY <2>2, LockBusinessInv, PeekInv, DrawInv DEF gomp_iter_dynamic_next
  <2>3. CASE GOMP_single_start(t)
    BY <2>3, SingleInv
  <2>4. CASE End(t)
    BY <2>4, LockExitInv, EndStoreInv, ResetInv DEF End
  <2>5. CASE SkipBarrier(t) \/ LeaveBarrier(t)
    BY <2>5, OnwardsInv
  <2>6. CASE EnterBarrier(t)
    BY <2>6, EnterBarrierInv
  <2>7. QED
    BY <1>1, <2>1, <2>2, <2>3, <2>4, <2>5, <2>6 DEF Step
<1>2. CASE Finished
  BY <1>2, StutterInv DEF Finished
<1>3. CASE UNCHANGED vars
  BY <1>3, StutterInv
<1>4. QED
  BY <1>1, <1>2, <1>3 DEF Next

\* The invariant holds when the region begins.
LEMMA InitInv ==
  ASSUME NowaitLast, Init PROVE WorkInv
<1>1. /\ prog \in Programs /\ lock = 0 /\ exitLock = 0
      /\ ws = [checkfirst |-> WS_NOT_INITED, end |-> 0, next |-> 0, chunk_size |-> 0, incr |-> 0, completed |-> 0]
      /\ pc = [t \in Threads |-> "begin"] /\ cur = [t \in Threads |-> 1] /\ reg = [t \in Threads |-> 0]
      /\ arrived = [t \in Threads |-> 0] /\ left = [t \in Threads |-> 0] /\ pieces = [j \in DOMAIN prog |-> << >>]
  BY DEF Init
<1>2. prog \in Seq(Constructs) /\ Len(prog) \in 1 .. MaxLen /\ MaxLen \in Nat /\ 0 \in 0 .. N
  BY <1>1, ConstantsAssumption
<1>3. DOMAIN prog = 1 .. Len(prog) /\ Len(prog) \in Nat \ {0} /\ \A j \in DOMAIN prog : prog[j] \in Constructs
  BY <1>2
<1>4. TypeOK
  <2>1. ws \in [checkfirst : BOOLEAN, end : Int, next : Int, chunk_size : Nat, incr : Int, completed : 0 .. N]
    BY <1>1, <1>2 DEF WS_NOT_INITED
  <2>2. pc \in [Threads -> Labels] /\ reg \in [Threads -> Int]
    BY <1>1 DEF Labels
  <2>3. arrived \in [Threads -> Nat] /\ left \in [Threads -> Nat]
    BY <1>1
  <2>4. cur \in [Threads -> 1 .. Len(prog) + 1]
    BY <1>1, <1>3
  <2>5. << >> \in Seq(Int \X Int)
    OBVIOUS
  <2>6. pieces \in [DOMAIN prog -> Seq(Int \X Int)]
    BY <1>1, <2>5
  <2>7. QED
    BY <1>1, <2>1, <2>2, <2>3, <2>4, <2>6 DEF TypeOK
<1>5. \A t \in Threads : pc[t] = "begin" /\ cur[t] = 1 /\ arrived[t] = 0 /\ left[t] = 0
  BY <1>1
<1>6. LockInv
  BY <1>1, <1>5 DEF LockInv, Locked, Counting
<1>7. ASSUME NEW j \in DOMAIN prog PROVE Touched(j) = {} /\ \A t \in Threads : ~Ended(t, j)
  <2>1. j \in Nat /\ ~(1 > j)
    BY <1>3
  <2>2. QED
    BY <1>5, <2>1 DEF Touched, Ended, Counting, Past
<1>8. DescriptorInv
  BY <1>1, <1>7 DEF DescriptorInv, InUse, WS_INITED, WS_NOT_INITED
<1>9. \A j \in 1 .. Len(prog) - 1 : ~prog[j].nowait
  BY <1>1 DEF NowaitLast
<1>10. ASSUME NEW j \in DOMAIN prog PROVE ConstructInv(j)
  <2>1. PICK from \in Int, to \in Int, by \in Int \ {0} : from = From(prog[j]) /\ to = To(prog[j]) /\ by = By(prog[j])
    BY <1>3, ConstructFacts
  <2>2. ~Before(to, from, by)
    BY <1>3, <2>1, ConstructFacts
  <2>3. pieces[j] = << >> /\ Reached(j) = from /\ Len(pieces[j]) = 0
    BY <1>1, <2>1 DEF Reached
  <2>4. from = to \/ Before(from, to, by)
    BY <2>2, Order
  <2>5. OnStep(prog[j], from)
    <3>1. 0 \in Nat /\ from = from + 0 * by
      OBVIOUS
    <3>2. QED
      BY <2>1, <3>1 DEF OnStep
  <2>6. ASSUME NEW x \in Iterations(from, from, by) PROVE FALSE
    <3>1. x \in Iterations(from, from, by) <=> \E q \in Nat : x = from + q * by /\ Before(x, from, by)
      BY IterationsAre
    <3>2. PICK q \in Nat : x = from + q * by /\ Before(x, from, by)
      BY <3>1
    <3>3. q * by \in Int /\ ~Before(q * by, 0, by)
      <4>1. q \in Int /\ q >= 0
        OBVIOUS
      <4>2. QED
        BY <4>1, Sign
    <3>4. QED
      BY <3>2, <3>3 DEF Before
  <2>7. 1 .. 0 = {}
    OBVIOUS
  <2>8. PiecesInv(j)
    BY <2>1, <2>3, <2>4, <2>5, <2>6, <2>7 DEF PiecesInv
  <2>9. QED
    BY <1>7, <2>3, <2>8 DEF ConstructInv
<1>11. ASSUME NEW t \in Threads PROVE ThreadInv(t)
  <2>1. pc[t] = "begin" /\ cur[t] = 1 /\ arrived[t] = 0 /\ left[t] = 0 /\ 1 # Len(prog) + 1
    BY <1>3, <1>5
  <2>2. QED
    BY <2>1 DEF ThreadInv
<1>12. \A t, u \in Threads : BarrierInv(t, u)
  BY <1>5 DEF BarrierInv
<1>13. QED
  BY <1>4, <1>6, <1>8, <1>9, <1>10, <1>11, <1>12 DEF WorkInv

-----------------------------------------------------------------------------
(* The theorems. *)

\* The descriptor, the locks and the pieces are as the invariant says, in every region whose nowait construct is the last.
THEOREM Invariance == ASSUME NowaitLast PROVE Spec => []WorkInv
<1>1. Init => WorkInv
  BY InitInv
<1>2. WorkInv /\ [Next]_vars => WorkInv'
  BY NextInv
<1>3. QED
  BY <1>1, <1>2, PTL DEF Spec

\* The one gomp_work_share_t of the team is well formed, and a thread that goes on behind the barrier of a
\* construct finds all of it executed, exactly once.
THEOREM DescriptorIsReady == ASSUME NowaitLast PROVE Spec => []DescriptorReady
<1>1. ASSUME WorkInv PROVE DescriptorReady
  <2>1. TypeOK
    BY <1>1 DEF WorkInv
  <2>2. ASSUME NEW t \in Threads, NEW j \in DOMAIN prog, j < cur[t], NEW x \in Work(prog[j]) PROVE TimesRun(j, x) = 1
    <3>1. Ended(t, j)
      <4>1. j \in Int /\ cur[t] \in Int
        BY <1>1, <2>1, ProgFacts, Where
      <4>2. QED
        BY <2>2, <4>1 DEF Ended
    <3>2. PiecesInv(j) /\ Reached(j) = To(prog[j])
      BY <1>1, <3>1 DEF WorkInv, ConstructInv
    <3>3. QED
      BY <2>1, <3>2, RunAll
  <2>3. QED
    BY <2>1, <2>2 DEF DescriptorReady, CompleteAfterBarrier
<1>2. QED
  BY <1>1, Invariance, PTL

\* Threads that draw chunks and sections at the same time share them out: no iteration, section or single body is
\* handed out twice, no piece reaches outside its construct, and nothing is left when the region is over.
THEOREM WorkIsSharedOut == ASSUME NowaitLast PROVE Spec => []SharedOut
<1>1. ASSUME WorkInv PROVE SharedOut
  <2>1. TypeOK /\ \A j \in DOMAIN prog : ConstructInv(j)
    BY <1>1 DEF WorkInv
  <2>2. ASSUME NEW j \in DOMAIN prog PROVE PiecesInv(j) /\ DOMAIN pieces[j] = 1 .. Len(pieces[j])
    BY <2>1, ProgFacts DEF ConstructInv
  <2>3. ASSUME NEW j \in DOMAIN prog, NEW i \in DOMAIN pieces[j] PROVE Piece(prog[j], pieces[j][i]) \subseteq Work(prog[j])
    BY <2>1, <2>2, PiecesInside
  <2>4. ASSUME NEW j \in DOMAIN prog, NEW x \in Work(prog[j]) PROVE TimesRun(j, x) <= 1
    BY <2>1, <2>2, RunOnce
  <2>5. ASSUME \A t \in Threads : pc[t] = "done", NEW j \in DOMAIN prog, NEW x \in Work(prog[j]) PROVE TimesRun(j, x) = 1
    <3>1. PICK t \in Threads : pc[t] = "done"
      <4>1. 0 \in Threads
        BY ConstantsAssumption DEF Threads
      <4>2. QED
        BY <2>5, <4>1
    <3>2. cur[t] > j
      BY <1>1, <2>1, <3>1, ProgFacts, Where
    <3>3. Reached(j) = To(prog[j])
      BY <2>1, <3>2 DEF ConstructInv, Ended
    <3>4. QED
      BY <2>1, <2>2, <3>3, RunAll
  <2>6. QED
    BY <2>3, <2>4, <2>5 DEF SharedOut, AtMostOnce, ExactlyOnce
<1>2. QED
  BY <1>1, Invariance, PTL
==============================================================================
