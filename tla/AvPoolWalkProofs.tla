-------------------------- MODULE AvPoolWalkProofs --------------------------
(***************************************************************************)
(* The walks of the writer.  Before it overwrites the oldest frames the    *)
(* driver moves two marks past them, frame by frame, in loops that nothing *)
(* bounds.  They end if any two frames leave some of the ring free: a ring *)
(* that two frames may fill up makes a loop turn for ever.  With such      *)
(* frames, and whichever copies fail, the frames form one chain and the    *)
(* oldest mark is on one of them.                                          *)
(***************************************************************************)
EXTENDS AvPoolProofs

WF == INSTANCE WellFoundedInduction

\* Two frames with their headers leave a cell of the ring free.
SmallFrames == \A k, l \in Lens : k + l + 3 <= N

-----------------------------------------------------------------------------
(***************************************************************************)
(* Walks.                                                                  *)
(***************************************************************************)

\* A set of numbers has a least one.
LEMMA Least ==
  ASSUME NEW T, T \subseteq Nat, T # {}
  PROVE  \E x \in T : \A y \in T : x <= y
<1> DEFINE R == WF!OpToRel(<, Nat)
<1>1. WF!IsWellFoundedOn(R, Nat)
  BY WF!NatLessThanWellFounded
<1>2. PICK x \in T : \A y \in T : <<y, x>> \notin R
  BY <1>1, WF!WFMin
<1>3. R = {ss \in Nat \X Nat : ss[1] < ss[2]}
  BY DEF WF!OpToRel
<1>4. \A y \in Nat : y < x => <<y, x>> \in R
  BY <1>3
<1> HIDE DEF R
<1>5. \A y \in T : ~(y < x)
  BY <1>2, <1>4
<1> QED BY <1>5

\* Hence induction, for the numbers of a set.
LEMMA Induction ==
  ASSUME NEW S, 0 \in S, \A n \in Nat : n \in S => n + 1 \in S
  PROVE  \A n \in Nat : n \in S
<1> DEFINE T == Nat \ S
<1> SUFFICES ASSUME T # {} PROVE FALSE
  OBVIOUS
<1>1. PICK x \in T : \A y \in T : x <= y
  BY Least
<1>2. x - 1 \in Nat /\ x - 1 \in S
  BY <1>1
<1>3. x - 1 + 1 \in S
  BY <1>2
<1> QED BY <1>1, <1>3

\* The k-th step of a walk f.
WalkStep(p, g, f, k) ==
  IF k = 0 THEN [pos |-> p, run |-> 0]
  ELSE LET last == f[k-1]
       IN [pos |-> NextPos(last.pos, g), run |-> last.run + hdr[last.pos].len + 1]

IsWalk(f, m, p, g) == f = [k \in 0 .. m |-> WalkStep(p, g, f, k)]

\* There is a walk of any length.
LEMMA WalkExists ==
  ASSUME NEW p, NEW g
  PROVE  \A m \in Nat : \E f : IsWalk(f, m, p, g)
<1> DEFINE S == {m \in Nat : \E f : IsWalk(f, m, p, g)}
<1>1. 0 \in S
  <2> DEFINE f == [k \in 0 .. 0 |-> [pos |-> p, run |-> 0]]
  <2>1. IsWalk(f, 0, p, g)
    BY DEF IsWalk, WalkStep
  <2> QED BY <2>1
<1>2. ASSUME NEW n \in Nat, n \in S PROVE n + 1 \in S
  <2>1. PICK f : IsWalk(f, n, p, g)
    BY <1>2
  <2> DEFINE F == [k \in 0 .. n + 1 |-> IF k = n + 1 THEN WalkStep(p, g, f, k) ELSE f[k]]
  <2>2. \A k \in 0 .. n : F[k] = f[k] /\ f[k] = WalkStep(p, g, f, k)
    BY <2>1 DEF IsWalk
  <2>3. \A k \in 0 .. n + 1 : F[k] = WalkStep(p, g, f, k)
    <3>1. n + 1 \in 0 .. n + 1 /\ F[n + 1] = WalkStep(p, g, f, n + 1)
      OBVIOUS
    <3>2. \A k \in 0 .. n + 1 : k = n + 1 \/ k \in 0 .. n
      OBVIOUS
    <3> HIDE DEF F
    <3> QED BY <2>2, <3>1, <3>2
  <2>5. ASSUME NEW k \in 0 .. n + 1 PROVE WalkStep(p, g, f, k) = WalkStep(p, g, F, k)
    <3> HIDE DEF F
    <3>1. CASE k = 0
      BY <3>1 DEF WalkStep
    <3>2. CASE k # 0
      <4>1. k - 1 \in 0 .. n
        BY <3>2
      <4>2. F[k-1] = f[k-1]
        BY <2>2, <4>1
      <4> QED BY <4>2 DEF WalkStep
    <3> QED BY <3>1, <3>2
  <2>6. F = [k \in 0 .. n + 1 |-> F[k]]
    OBVIOUS
  <2> HIDE DEF F
  <2>7. F = [k \in 0 .. n + 1 |-> WalkStep(p, g, F, k)]
    BY <2>3, <2>5, <2>6
  <2> QED BY <2>7 DEF IsWalk
<1> HIDE DEF S
<1>3. \A m \in Nat : m \in S
  BY <1>1, <1>2, Induction
<1> QED BY <1>3 DEF S

\* What Walk is.
LEMMA WalkIs ==
  ASSUME NEW p, NEW g
  PROVE  /\ Walk(p, g)[0].pos = p
         /\ \A k \in 1 .. N + 1 : Walk(p, g)[k].pos = NextPos(Walk(p, g)[k-1].pos, g)
<1>1. N + 1 \in Nat
  BY RingAssumption
<1>2. \E f : IsWalk(f, N + 1, p, g)
  BY <1>1, WalkExists
<1>3. Walk(p, g) = CHOOSE f : IsWalk(f, N + 1, p, g)
  BY Zenon DEF Walk, IsWalk, WalkStep
<1>4. IsWalk(Walk(p, g), N + 1, p, g)
  BY <1>2, <1>3
<1> DEFINE f == Walk(p, g)
<1> HIDE DEF f
<1>5. f = [k \in 0 .. N + 1 |-> WalkStep(p, g, f, k)]
  BY <1>4 DEF IsWalk, f
<1>6. \A k \in 0 .. N + 1 : f[k] = WalkStep(p, g, f, k)
  BY <1>5
<1>7. f[0].pos = p
  <2>1. 0 \in 0 .. N + 1
    BY <1>1
  <2>2. f[0] = WalkStep(p, g, f, 0)
    BY <1>6, <2>1
  <2> QED BY <2>2 DEF WalkStep
<1>8. ASSUME NEW k \in 1 .. N + 1 PROVE f[k].pos = NextPos(f[k-1].pos, g)
  <2>1. k \in 0 .. N + 1 /\ k # 0
    BY <1>1
  <2>2. f[k] = WalkStep(p, g, f, k)
    BY <1>6, <2>1
  <2>3. WalkStep(p, g, f, k) = [pos |-> NextPos(f[k-1].pos, g),
                                run |-> f[k-1].run + hdr[f[k-1].pos].len + 1]
    BY <2>1 DEF WalkStep
  <2> QED BY <2>2, <2>3
<1> QED BY <1>7, <1>8 DEF f

-----------------------------------------------------------------------------
(***************************************************************************)
(* They end.                                                               *)
(***************************************************************************)

\* A cell is in the way if it is at most the length of the frame and one behind w.
LEMMA InTheWayIs ==
  ASSUME TypeOK, NEW len \in Lens, NEW q \in Cells
  PROVE  InTheWay(q, len) <=> Dist(w, q) <= len + 1
<1>1. w \in Cells /\ len \in Nat /\ len > 0 /\ len < N
  BY RingAssumption DEF TypeOK
<1>2. CASE w + len + 1 < N
  BY <1>1, <1>2, RingAssumption DEF InTheWay, Dist, Cells
<1>3. CASE ~(w + len + 1 < N)
  BY <1>1, <1>3, RingAssumption DEF InTheWay, Dist, Cells, Adv
<1> QED BY <1>2, <1>3

\* From a frame in the way the walk moves away from w.
LEMMA WalkAdvances ==
  ASSUME TypeOK, SmallFrames, NEW len \in Lens, NEW q, IsFrame(q), InTheWay(q, len), NEW g
  PROVE  /\ NextPos(q, g) = Adv(q, hdr[q].len + 1) /\ NextPos(q, g) \in Cells
         /\ Dist(w, NextPos(q, g)) = Dist(w, q) + hdr[q].len + 1
<1>1. q \in Cells /\ hdr[q].len \in Lens /\ w \in Cells
  BY FrameTyped DEF Frames, TypeOK
<1>2. Dist(w, q) <= len + 1
  BY <1>1, InTheWayIs
<1> DEFINE l == hdr[q].len
<1>3. l \in Nat /\ len \in Nat /\ len + l + 3 <= N
  BY <1>1, RingAssumption DEF SmallFrames
<1>4. NextPos(q, g) = Adv(q, l + 1)
  BY DEF NextPos
<1> HIDE DEF l
<1>5. Adv(q, l + 1) \in Cells /\ Dist(w, Adv(q, l + 1)) = Dist(w, q) + l + 1
  BY <1>1, <1>2, <1>3, RingAssumption DEF Adv, Dist, Cells
<1> QED BY <1>4, <1>5 DEF l

\* As long as it is on frames in the way, it is a cell further with every step.
LEMMA WalkProgress ==
  ASSUME TypeOK, SmallFrames, NEW len \in Lens, NEW p, NEW g,
         NEW m \in Nat, m <= N + 1,
         \A k \in 1 .. m : ~Ends(Walk(p, g), len, k)
  PROVE  \A k \in 1 .. m : Dist(w, Walk(p, g)[k].pos) >= k - 1
<1> DEFINE f == Walk(p, g)
           S == {n \in Nat : n \in 1 .. m => Dist(w, f[n].pos) \in Int /\ Dist(w, f[n].pos) >= n - 1}
<1>1. w \in Cells /\ N \in Nat
  BY RingAssumption DEF TypeOK
<1>2. \A k \in 1 .. m : IsFrame(f[k].pos) /\ InTheWay(f[k].pos, len) /\ f[k].pos \in Cells
  BY DEF Ends, IsFrame
<1>3. \A q \in Cells : Dist(w, q) \in Nat
  BY <1>1, RingAssumption DEF Dist, Cells
<1>4. 0 \in S
  OBVIOUS
<1>5. ASSUME NEW n \in Nat, n \in S PROVE n + 1 \in S
  <2>1. CASE n + 1 \notin 1 .. m
    BY <2>1
  <2>2. CASE n = 0 /\ 1 \in 1 .. m
    <3>1. Dist(w, f[1].pos) \in Nat
      BY <1>2, <1>3, <2>2
    <3> HIDE DEF f
    <3> QED BY <2>2, <3>1
  <2>3. CASE n # 0 /\ n + 1 \in 1 .. m
    <3>1. n \in 1 .. m /\ n + 1 \in 1 .. N + 1
      BY <1>1, <2>3
    <3>2. f[n+1].pos = NextPos(f[n].pos, g)
      <4>1. (n + 1) - 1 = n
        OBVIOUS
      <4> QED BY <3>1, <4>1, WalkIs
    <3>3. f[n].pos \in Cells /\ hdr[f[n].pos].len \in Lens
      BY <1>2, <3>1, FrameTyped DEF Frames
    <3>4. Dist(w, f[n+1].pos) = Dist(w, f[n].pos) + hdr[f[n].pos].len + 1
      BY <1>2, <3>1, <3>2, WalkAdvances
    <3>5. Dist(w, f[n].pos) \in Nat /\ hdr[f[n].pos].len \in Nat /\ Dist(w, f[n].pos) >= n - 1
      BY <1>3, <1>5, <3>1, <3>3, RingAssumption
    <3> HIDE DEF f
    <3> QED BY <3>4, <3>5
  <2> QED BY <2>1, <2>2, <2>3
<1> HIDE DEF S
<1>6. \A n \in Nat : n \in S
  BY <1>4, <1>5, Induction
<1>7. \A k \in 1 .. m : k \in Nat /\ k \in S
  BY <1>6
<1> QED BY <1>7 DEF S

\* So it leaves the way, or the frames.
LEMMA WalkEnds ==
  ASSUME TypeOK, SmallFrames, NEW len \in Lens, NEW p, NEW g
  PROVE  \E k \in 1 .. N + 1 : Ends(Walk(p, g), len, k)
<1> SUFFICES ASSUME \A k \in 1 .. N + 1 : ~Ends(Walk(p, g), len, k) PROVE FALSE
  OBVIOUS
<1> DEFINE q == Walk(p, g)[N + 1].pos
<1>1. N \in Nat /\ N + 1 \in Nat /\ N + 1 \in 1 .. N + 1 /\ N + 1 - 1 = N
  BY RingAssumption
<1>2. Dist(w, q) >= N + 1 - 1
  BY <1>1, WalkProgress
<1>3. q \in Cells /\ w \in Cells
  BY <1>1 DEF Ends, IsFrame, TypeOK
<1> HIDE DEF q
<1> QED BY <1>1, <1>2, <1>3 DEF Dist, Cells

\* The loops that run with the pool's semaphore held end, in every state and for every next
\* frame, if two frames never fill the ring (av_pool_refresh_oldest_frame_pos,
\* av_pool_refresh_oldest_iframe_pos).
THEOREM RefreshAlwaysTerminates ==
  ASSUME SmallFrames
  PROVE  Spec => []RefreshTerminates
<1>1. TypeOK => RefreshTerminates
  BY WalkEnds DEF RefreshTerminates, WalkTerminates
<1> QED BY <1>1, TypeCorrect, PTL

-----------------------------------------------------------------------------
(***************************************************************************)
(* The chain of frames, and the oldest of them.                            *)
(***************************************************************************)

NumbersOK == \A p \in Cells : hdr[p].no <= frameNo

\* The oldest mark is at the write position only if the first copy of a stream failed, and
\* unset only before that.
OldestApart ==
  /\ oldest.pos = Unset => w = 0
  /\ oldest.pos = w => w = 0 /\ faults # 0

WalkInv == IntegrityInv /\ NumbersOK /\ FramesAreChained /\ OldestIsFrame /\ OldestApart

\* An empty ring has no chain to break.
LEMMA WalkInit == Init => WalkInv
<1> SUFFICES ASSUME Init PROVE WalkInv
  OBVIOUS
<1>1. \A p \in Cells : hdr[p].no = 0
  BY DEF Init, NoFrame
<1>2. frameNo = 0 /\ oldest.pos = Unset /\ w = 0
  BY DEF Init
<1>3. w # Unset
  BY <1>2 DEF Unset
<1> QED
  BY <1>1, <1>2, <1>3, IntegrityInit
     DEF WalkInv, NumbersOK, FramesAreChained, IsFrame, OldestIsFrame, OldestApart

\* Of two frames that end at the same place one holds the header of the other.
LEMMA SameEnd ==
  ASSUME NEW a \in Cells, NEW b \in Cells, a # b, NEW k \in Nat, NEW l \in Nat,
         k < N, l < N, Adv(a, k + 1) = Adv(b, l + 1)
  PROVE  a \in Payload(b, l) \/ b \in Payload(a, k)
BY RingAssumption DEF Adv, Payload, Dist, Cells

\* A walk stops at the first position at which it may.
LEMMA WalkStops ==
  ASSUME TypeOK, SmallFrames, NEW len \in Lens, NEW p, NEW g
  PROVE  \E k \in 1 .. N + 1 :
           /\ WalkEnd(p, g, len) = Walk(p, g)[k].pos
           /\ Ends(Walk(p, g), len, k) /\ \A j \in 1 .. k-1 : ~Ends(Walk(p, g), len, j)
<1> DEFINE f == Walk(p, g)
           K == {k \in 1 .. N + 1 : Ends(f, len, k)}
<1>1. \E k \in K : \A j \in K : k <= j
  <2>1. K # {} /\ K \subseteq Nat
    BY WalkEnds
  <2> HIDE DEF K
  <2> QED BY <2>1, Least
<1> DEFINE k == CHOOSE k \in 1 .. N + 1 :
                  Ends(f, len, k) /\ \A j \in 1 .. k-1 : ~Ends(f, len, j)
<1>2. k \in 1 .. N + 1 /\ Ends(f, len, k) /\ \A j \in 1 .. k-1 : ~Ends(f, len, j)
  <2>1. PICK m \in K : \A j \in K : m <= j
    BY <1>1
  <2>2. m \in 1 .. N + 1 /\ Ends(f, len, m)
    BY <2>1
  <2>3. ASSUME NEW j \in 1 .. m - 1 PROVE ~Ends(f, len, j)
    <3>1. j \in 1 .. N + 1 /\ ~(m <= j)
      BY <2>2, RingAssumption
    <3> QED BY <2>1, <3>1
  <2> HIDE DEF f, K
  <2> QED BY <2>2, <2>3
<1>3. WalkEnd(p, g, len) = f[k].pos
  BY DEF WalkEnd
<1> HIDE DEF k, f
<1> QED BY <1>2, <1>3 DEF f

\* From a frame in the way other than the one at the write position, a walk leads to
\* another one behind the write position.
LEMMA WalkLeaves ==
  ASSUME TypeOK, SmallFrames, NEW len \in Lens, NEW q, IsFrame(q), InTheWay(q, len), NEW g
  PROVE  NextPos(q, g) # w
<1>1. q \in Cells /\ hdr[q] \in Frames /\ w \in Cells
  BY FrameTyped DEF TypeOK
<1>2. hdr[q].len \in Nat /\ Dist(w, w) = 0 /\ Dist(w, q) \in Nat
  <2>1. hdr[q].len \in Nat
    BY <1>1, RingAssumption DEF Frames
  <2> QED BY <1>1, <2>1, RingAssumption DEF Dist, Cells
<1>3. Dist(w, NextPos(q, g)) = Dist(w, q) + hdr[q].len + 1
  BY WalkAdvances
<1> QED BY <1>2, <1>3

\* The walk that starts at a frame in the way ends at a frame that is not, unless it starts
\* at the write position, where a copy may have failed.
LEMMA WalkStays ==
  ASSUME SmallFrames, TypeOK, FramesAreChained, NEW len \in Lens, NEW g,
         NEW p, p # w, IsFrame(p), InTheWay(p, len)
  PROVE  LET end == WalkEnd(p, g, len)
         IN IsFrame(end) /\ ~InTheWay(end, len)
<1> DEFINE f == Walk(p, g)
<1>1. PICK k \in 1 .. N + 1 :
        WalkEnd(p, g, len) = f[k].pos /\ Ends(f, len, k) /\ \A j \in 1 .. k-1 : ~Ends(f, len, j)
  BY WalkStops
<1> DEFINE q == f[k-1].pos
           end == f[k].pos
<1>2. f[0].pos = p /\ \A j \in 1 .. N + 1 : f[j].pos = NextPos(f[j-1].pos, g)
  BY WalkIs
<1> HIDE DEF f
<1>3. k \in Nat /\ k # 0 /\ N \in Nat
  BY RingAssumption
<1>4. \A j \in 0 .. k-1 : IsFrame(f[j].pos) /\ InTheWay(f[j].pos, len)
  <2> TAKE j \in 0 .. k-1
  <2>1. CASE j = 0
    BY <1>2, <2>1
  <2>2. CASE j # 0
    <3>1. j \in 1 .. k-1
      BY <2>2
    <3> QED BY <1>1, <3>1 DEF Ends
  <2> QED BY <2>1, <2>2
<1>5. IsFrame(q) /\ InTheWay(q, len) /\ end = NextPos(q, g)
  <2>1. k-1 \in 0 .. k-1
    BY <1>3
  <2> QED BY <1>2, <1>4, <2>1
<1>6. q # w
  <2>1. CASE k = 1
    BY <1>2, <2>1
  <2>2. CASE k # 1
    <3>1. k-2 \in 0 .. k-1 /\ k-1 \in 1 .. N + 1 /\ (k-1)-1 = k-2
      BY <1>3, <2>2
    <3>2. q = NextPos(f[k-2].pos, g)
      BY <1>2, <3>1
    <3>3. IsFrame(f[k-2].pos) /\ InTheWay(f[k-2].pos, len)
      BY <1>4, <3>1
    <3> QED BY <3>2, <3>3, WalkLeaves
  <2> QED BY <2>1, <2>2
<1> HIDE DEF q
<1>7. q \in Cells /\ hdr[q] \in Frames
  BY <1>5, FrameTyped
<1>8. end = Adv(q, hdr[q].len + 1) /\ end \in Cells /\ end # w
  BY <1>5, WalkAdvances, WalkLeaves
<1> HIDE DEF end
<1>9. hdr[end].no \in hdr[q].no + 1 .. hdr[q].no + 1 + faults
  BY <1>5, <1>6, <1>7, <1>8 DEF FramesAreChained
<1>10. IsFrame(end)
  <2>1. hdr[q].no \in Nat
    BY <1>7 DEF Frames
  <2> QED BY <1>8, <1>9, <2>1 DEF IsFrame
<1>11. ~InTheWay(end, len)
  BY <1>1, <1>10 DEF Ends, end
<1> QED BY <1>1, <1>10, <1>11 DEF end

\* What is not in the way of a write is not overwritten, neither by all of it nor by the
\* part copied before a fault; the cell behind what is written is in the way.
LEMMA OutOfTheWay ==
  ASSUME TypeOK, NEW len \in Lens, NEW n \in 0 .. len, NEW type, NEW pts,
         Store(n, len, type, pts), NEW p \in Cells, ~InTheWay(p, len)
  PROVE  hdr'[p] = hdr[p] /\ p # w /\ p # Adv(w, len + 1)
<1>1. Dist(w, p) > len + 1 /\ w \in Cells /\ len \in Nat /\ len < N
  BY InTheWayIs, RingAssumption DEF TypeOK, Dist, Cells
<1>2. p # w /\ p \notin Payload(w, n)
  BY <1>1, RingAssumption DEF Payload, Dist, Cells
<1>3. p # Adv(w, len + 1)
  BY <1>1, RingAssumption DEF Adv, Dist, Cells
<1> QED BY <1>2, <1>3 DEF Store

\* A write, complete or not, moves the oldest mark to a frame that stays; only on the first
\* frame of a stream, which may be written again and again, it stays itself.
LEMMA OldestMoves ==
  ASSUME SmallFrames, WalkInv, NEW len \in Lens, NEW n \in 0 .. len, NEW type, NEW pts,
         NEW g \in Cells, Stamp(len, type, pts, g), Store(n, len, type, pts)
  PROVE  /\ oldest'.pos \in Cells /\ hdr'[oldest'.pos].no # 0
         /\ oldest'.no = hdr'[oldest'.pos].no \/ (oldest'.no = Unset /\ faults # 0)
         /\ oldest'.pos = w \/ oldest'.pos # Adv(w, len + 1)
         /\ oldest'.pos = w => w = 0
<1>1. TypeOK /\ FramesAreChained /\ OldestIsFrame /\ OldestApart /\ w \in Cells
  BY DEF WalkInv, IntegrityInv, TypeOK
<1>2. hdr'[w].no = frameNo + 1 /\ frameNo + 1 # 0
  BY <1>1 DEF Store, TypeOK
<1>3. ASSUME NEW p, IsFrame(p), ~InTheWay(p, len)
      PROVE  p \in Cells /\ hdr'[p] = hdr[p] /\ hdr[p].no # 0 /\ p # w /\ p # Adv(w, len + 1)
  BY <1>1, <1>3, OutOfTheWay DEF IsFrame
<1>4. CASE oldest.pos = Unset
  <2>1. oldest'.pos = w /\ oldest'.no = frameNo + 1
    BY <1>4 DEF Stamp
  <2> QED BY <1>1, <1>2, <1>4, <2>1 DEF OldestApart
<1>5. CASE oldest.pos # Unset
  <2> DEFINE end == WalkEnd(oldest.pos, g, len)
  <2>1. oldest' = RefreshOldest(g, len)
    BY <1>5 DEF Stamp
  <2>2. /\ IsFrame(oldest.pos)
        /\ oldest.no = hdr[oldest.pos].no \/ (oldest.no = Unset /\ faults # 0)
    BY <1>1, <1>5 DEF OldestIsFrame
  <2>3. CASE ~InTheWay(oldest.pos, len)
    <3>1. oldest' = oldest
      BY <2>1, <2>3 DEF RefreshOldest
    <3> QED BY <1>3, <2>2, <2>3, <3>1
  <2>4. ASSUME InTheWay(oldest.pos, len), IsFrame(end), ~InTheWay(end, len)
        PROVE  /\ oldest'.pos \in Cells /\ hdr'[oldest'.pos].no # 0
               /\ oldest'.no = hdr'[oldest'.pos].no
               /\ oldest'.pos # Adv(w, len + 1) /\ oldest'.pos # w
    <3>1. oldest'.pos = end /\ oldest'.no = hdr[end].no
      BY <2>1, <2>4 DEF RefreshOldest
    <3> HIDE DEF end
    <3> QED BY <1>3, <2>4, <3>1
  <2>5. CASE InTheWay(oldest.pos, len) /\ oldest.pos # w
    <3>1. IsFrame(end) /\ ~InTheWay(end, len)
      BY <1>1, <2>2, <2>5, WalkStays
    <3> HIDE DEF end
    <3> QED BY <2>4, <2>5, <3>1
  <2>6. CASE InTheWay(oldest.pos, len) /\ oldest.pos = w
    <3>1. w = 0 /\ faults # 0
      BY <1>1, <2>6 DEF OldestApart
    <3>2. ~IsFrame(end) \/ ~InTheWay(end, len)
      BY <1>1, WalkStops DEF Ends
    <3>3. CASE IsFrame(end)
      <4> HIDE DEF end
      <4> QED BY <2>4, <2>6, <3>2, <3>3
    <3>4. CASE ~IsFrame(end)
      <4>1. oldest'.pos = 0 /\ oldest'.no = Unset
        BY <2>1, <2>6, <3>4 DEF RefreshOldest, LostMark
      <4> QED BY <1>1, <1>2, <3>1, <4>1
    <3> QED BY <3>3, <3>4
  <2> QED BY <2>3, <2>5, <2>6
<1> QED BY <1>4, <1>5

\* The frames a write leaves alone lead to where they led, and that is overwritten only if
\* it is the write position.
LEMMA OthersChained ==
  ASSUME WalkInv, NEW n \in Nat, n < N, NEW len \in Lens, NEW type \in Types,
         NEW pts \in Int, Store(n, len, type, pts), NEW p \in Cells, p # w, hdr'[p].no # 0
  PROVE  LET next == Adv(p, hdr'[p].len + 1)
         IN /\ hdr'[p].no \in Nat /\ hdr'[p].no <= frameNo
            /\ next \in Cells /\ next # Adv(w, n + 1)
            /\ IF next = w THEN hdr'[p].no >= frameNo - faults
               ELSE hdr'[next].no \in hdr'[p].no + 1 .. hdr'[p].no + 1 + faults
<1> DEFINE l == hdr[p].len
           next == Adv(p, l + 1)
<1>1. TypeOK /\ NoStraddle /\ NumbersOK /\ FramesAreChained /\ w \in Cells
  BY DEF WalkInv, IntegrityInv, TypeOK
<1>2. hdr'[p] = hdr[p] /\ p \notin Payload(w, n) /\ w \notin Payload(p, l)
  BY <1>1, Survivors
<1>3. hdr[p] \in Frames /\ IsFrame(p)
  BY <1>1, <1>2, FrameTyped DEF IsFrame
<1>4. l \in Lens /\ l \in Nat /\ l < N /\ hdr[p].no \in Nat
  BY <1>3, RingAssumption DEF Frames
<1>5. next \in Cells
  BY <1>4, NextInCells
<1>6. hdr[p].no <= frameNo
      /\ IF next = w THEN hdr[p].no >= frameNo - faults
         ELSE hdr[next].no \in hdr[p].no + 1 .. hdr[p].no + 1 + faults
  BY <1>1, <1>3 DEF NumbersOK, FramesAreChained
<1>7. next \notin Payload(w, n) /\ next # Adv(w, n + 1)
  <2> HIDE DEF l
  <2> QED BY <1>1, <1>2, <1>4, NextNotInside, SameEnd
<1> HIDE DEF next, l
<1>8. next # w => hdr'[next] = hdr[next]
  BY <1>5, <1>7 DEF Store
<1> QED BY <1>2, <1>4, <1>5, <1>6, <1>7, <1>8 DEF next, l

\* A write adds its frame to the end of the chain, and takes frames from its start.
LEMMA WriteChains ==
  ASSUME SmallFrames, WalkInv, NEW len \in Lens, NEW type \in Types,
         NEW pts \in Int, NEW g \in Cells, WriteFrame(len, type, pts, g)
  PROVE  NumbersOK' /\ FramesAreChained' /\ OldestIsFrame' /\ OldestApart'
<1>1. TypeOK /\ w \in Cells /\ frameNo \in Nat /\ faults \in Nat
  BY DEF WalkInv, IntegrityInv, TypeOK
<1>2. /\ Stamp(len, type, pts, g) /\ Store(len, len, type, pts) /\ w' = Adv(w, len + 1)
      /\ frameNo' = frameNo + 1 /\ newestPos' = w /\ faults' = faults
  BY DEF WriteFrame, Stamp
<1>3. hdr'[w].no = frameNo + 1 /\ hdr'[w].len = len
  BY <1>1, <1>2 DEF Store
<1>4. len \in Nat /\ len < N /\ len \in 0 .. len /\ w' # w /\ w' \in Cells
  BY <1>1, <1>2, RingAssumption, NextInCells DEF SmallFrames, Adv, Cells
<1>5. NumbersOK'
  BY <1>1, <1>2, <1>3, <1>4, OthersChained DEF NumbersOK
<1>6. FramesAreChained'
  <2> SUFFICES ASSUME NEW p \in Cells, hdr'[p].no # 0
               PROVE  LET next == Adv(p, hdr'[p].len + 1)
                      IN IF next = w' THEN hdr'[p].no >= frameNo' - faults'
                         ELSE hdr'[next].no \in hdr'[p].no + 1 .. hdr'[p].no + 1 + faults'
    BY DEF FramesAreChained, IsFrame
  <2>1. CASE p = w
    BY <1>1, <1>2, <1>3, <2>1
  <2>2. CASE p # w
    BY <1>1, <1>2, <1>3, <1>4, <2>2, OthersChained
  <2> QED BY <2>1, <2>2
<1>7. OldestIsFrame' /\ OldestApart'
  <2>1. /\ oldest'.pos \in Cells /\ hdr'[oldest'.pos].no # 0
        /\ oldest'.no = hdr'[oldest'.pos].no \/ (oldest'.no = Unset /\ faults # 0)
        /\ oldest'.pos # w'
    BY <1>2, <1>4, OldestMoves
  <2>2. oldest'.pos # Unset
    BY <2>1 DEF Cells, Unset
  <2> QED BY <1>2, <2>1, <2>2 DEF OldestIsFrame, IsFrame, OldestApart
<1> QED BY <1>5, <1>6, <1>7

\* A copy that fails takes frames from the start of the chain, and a number, and puts a
\* header at its end that leads nowhere.
LEMMA FaultChains ==
  ASSUME SmallFrames, WalkInv, NEW len \in Lens, NEW type \in Types, NEW pts \in Int,
         NEW g \in Cells, NEW n \in 0 .. len-1, WriteFault(n, len, type, pts, g)
  PROVE  NumbersOK' /\ FramesAreChained' /\ OldestIsFrame' /\ OldestApart'
<1>1. TypeOK /\ w \in Cells /\ frameNo \in Nat /\ faults \in Nat
  BY DEF WalkInv, IntegrityInv, TypeOK
<1>2. /\ Stamp(len, type, pts, g) /\ Store(n, len, type, pts) /\ w' = w
      /\ frameNo' = frameNo + 1 /\ newestPos' = w /\ faults' = faults + 1
  BY DEF WriteFault, Stamp
<1>3. hdr'[w].no = frameNo + 1
  BY <1>1, <1>2 DEF Store
<1>4. n \in Nat /\ n < N /\ n \in 0 .. len
  BY RingAssumption
<1>5. NumbersOK'
  BY <1>1, <1>2, <1>3, <1>4, OthersChained DEF NumbersOK
<1>6. FramesAreChained'
  <2> SUFFICES ASSUME NEW p \in Cells, hdr'[p].no # 0, p # w' \/ p # newestPos'
               PROVE  LET next == Adv(p, hdr'[p].len + 1)
                      IN IF next = w' THEN hdr'[p].no >= frameNo' - faults'
                         ELSE hdr'[next].no \in hdr'[p].no + 1 .. hdr'[p].no + 1 + faults'
    BY DEF FramesAreChained, IsFrame
  <2> QED BY <1>1, <1>2, <1>4, OthersChained
<1>7. OldestIsFrame' /\ OldestApart'
  <2>1. /\ oldest'.pos \in Cells /\ hdr'[oldest'.pos].no # 0
        /\ oldest'.no = hdr'[oldest'.pos].no \/ oldest'.no = Unset
        /\ oldest'.pos = w => w = 0
    BY <1>2, <1>4, OldestMoves
  <2>2. oldest'.pos # Unset /\ faults' # 0
    BY <1>1, <1>2, <2>1 DEF Cells, Unset
  <2> QED BY <1>2, <2>1, <2>2 DEF OldestIsFrame, IsFrame, OldestApart
<1> QED BY <1>5, <1>6, <1>7

\* Every step keeps the chain; readers leave the ring alone.
LEMMA ChainStep ==
  ASSUME SmallFrames, WalkInv, [Next]_vars
  PROVE  WalkInv'
<1>1. IntegrityInv'
  BY IntegrityStep DEF WalkInv
<1>2. TypeOK
  BY DEF WalkInv, IntegrityInv
<1> SUFFICES NumbersOK' /\ FramesAreChained' /\ OldestIsFrame' /\ OldestApart'
  BY <1>1 DEF WalkInv
<1>3. CASE Write
  <2>1. PICK len \in Lens, type \in Types, d \in PtsSteps, g \in Garbage :
          WriteFrame(len, type, newestPts + d, g)
    BY <1>3 DEF Write
  <2>2. newestPts + d \in Int /\ g \in Cells
    BY <1>2, RingAssumption, GarbageInCells DEF TypeOK
  <2> QED BY <2>1, <2>2, WriteChains
<1>4. CASE Fault
  <2>1. PICK len \in Lens, type \in Types, d \in PtsSteps, g \in Garbage :
          \E n \in 0 .. len-1 : WriteFault(n, len, type, newestPts + d, g)
    BY <1>4 DEF Fault
  <2>2. newestPts + d \in Int /\ g \in Cells
    BY <1>2, RingAssumption, GarbageInCells DEF TypeOK
  <2> QED BY <2>1, <2>2, FaultChains
<1>5. CASE Reset
  <2>1. \A p \in Cells : hdr'[p].no = 0
    BY <1>5 DEF Reset, NoFrame
  <2>2. frameNo' = 0 /\ oldest'.pos = Unset /\ w' = 0 /\ w' # Unset
    BY <1>5 DEF Reset, Unset
  <2> QED BY <2>1, <2>2 DEF NumbersOK, FramesAreChained, IsFrame, OldestIsFrame, OldestApart
<1>6. CASE UNCHANGED pool /\ faults' = faults
  BY <1>6 DEF WalkInv, pool, NumbersOK, FramesAreChained, OldestIsFrame, OldestApart, IsFrame
<1>7. Write \/ Fault \/ Reset \/ (UNCHANGED pool /\ faults' = faults)
  BY DEF Next, vars, ghosts, StartRead, StopRead, Read, ReadOldest, ReadWith, GrowBuffer
<1> QED BY <1>3, <1>4, <1>5, <1>6, <1>7

\* The chain, and with it the oldest mark, for the whole of a behaviour.
LEMMA WalkAlways ==
  ASSUME SmallFrames
  PROVE  Spec => []WalkInv
BY WalkInit, ChainStep, PTL DEF Spec

\* Whichever copies fail, every frame but the newest leads to the next one, with no more
\* numbers left out than copies failed: the walks of the writer and a reader that keeps up
\* stay on frames (av_pool_write_av_data).
THEOREM ChainedAlways ==
  ASSUME SmallFrames
  PROVE  Spec => []FramesAreChained
<1>1. WalkInv => FramesAreChained
  BY DEF WalkInv
<1> QED BY <1>1, WalkAlways, PTL

\* Whichever copies fail, the oldest mark is on a frame, and with its number unless a copy
\* failed: a write never overwrites it without moving it on
\* (av_pool_refresh_oldest_frame_pos).
THEOREM OldestIsFrameAlways ==
  ASSUME SmallFrames
  PROVE  Spec => []OldestIsFrame
<1>1. WalkInv => OldestIsFrame
  BY DEF WalkInv
<1> QED BY <1>1, WalkAlways, PTL

-----------------------------------------------------------------------------
(***************************************************************************)
(* The place a reader remembers.                                           *)
(***************************************************************************)

\* No two frames have the same number.
Distinct == \A p, q \in Cells : IsFrame(p) /\ hdr[p].no = hdr[q].no => p = q

\* The cursor of a reader that has seen the present stream is where the frame it asks for
\* is, if it is in the pool, or will be.
Placed(r) ==
  LET c == reader[r]
  IN c.need \in Nat \ {0} /\ got[r].epoch = epoch =>
       /\ c.need = frameNo + 1 => c.pos = w
       /\ \A p \in Cells : hdr[p].no = c.need => p = c.pos

\* The frame at the write position is never the newest, but for one whose copy failed.
NewestApart == newestPos # w \/ frameNo = 0

PlaceInv ==
  /\ WalkInv /\ OrderInv /\ Distinct
  /\ faults = 0 => NewestApart /\ \A r \in Readers : Placed(r)

\* In an empty pool there is nothing to place.
LEMMA PlaceInit == Init => PlaceInv
<1> SUFFICES ASSUME Init PROVE PlaceInv
  OBVIOUS
<1>1. Distinct
  BY DEF Init, NoFrame, Distinct, IsFrame
<1>2. frameNo = 0 /\ \A r \in Readers : reader[r].need = 0
  BY DEF Init, Closed
<1> QED BY <1>1, <1>2, WalkInit, OrderInit DEF PlaceInv, NewestApart, Placed

\* A write, complete or not, gives a number that no other frame has.
LEMMA StoreDistinct ==
  ASSUME PlaceInv, NEW n, NEW len, NEW type, NEW pts, Store(n, len, type, pts)
  PROVE  /\ Distinct'
         /\ \A p \in Cells : IsFrame(p)' =>
              \/ p = w /\ hdr'[p].no = frameNo + 1
              \/ p # w /\ hdr'[p] = hdr[p] /\ IsFrame(p) /\ hdr[p].no <= frameNo
<1>1. w \in Cells /\ frameNo \in Nat /\ Distinct
      /\ \A p \in Cells : hdr[p].no \in Nat /\ hdr[p].no <= frameNo
  BY DEF PlaceInv, WalkInv, IntegrityInv, NumbersOK, TypeOK, Frames, NoFrame
<1>2. ASSUME NEW p \in Cells, hdr'[p].no # 0
      PROVE  \/ p = w /\ hdr'[p].no = frameNo + 1
             \/ p # w /\ hdr'[p] = hdr[p] /\ hdr[p].no # 0 /\ hdr[p].no <= frameNo
  BY <1>1, <1>2 DEF Store, NoFrame
<1>3. ASSUME NEW p \in Cells, NEW q \in Cells, hdr'[p].no # 0, hdr'[p].no = hdr'[q].no
      PROVE  p = q
  <2>1. hdr'[q].no # 0
    BY <1>3
  <2>2. CASE p = w
    BY <1>1, <1>2, <1>3, <2>1, <2>2
  <2>3. CASE p # w
    <3>1. hdr'[p] = hdr[p] /\ hdr[p].no # 0 /\ hdr[p].no <= frameNo
      BY <1>2, <1>3, <2>3
    <3>2. q # w
      BY <1>1, <1>2, <1>3, <2>1, <3>1
    <3>3. hdr'[q] = hdr[q]
      BY <1>2, <2>1, <3>2
    <3> QED BY <1>1, <1>3, <3>1, <3>3 DEF Distinct, IsFrame
  <2> QED BY <2>2, <2>3
<1> QED BY <1>2, <1>3 DEF Distinct, IsFrame

\* A frame that is written comes to where the readers that have read all others wait for it.
LEMMA WritePlaces ==
  ASSUME SmallFrames, PlaceInv, faults = 0, NEW len \in Lens, NEW type \in Types,
         NEW pts \in Int, NEW g \in Cells, WriteFrame(len, type, pts, g)
  PROVE  Distinct' /\ NewestApart' /\ \A r \in Readers : Placed(r)'
<1>1. /\ Stamp(len, type, pts, g) /\ Store(len, len, type, pts) /\ w' = Adv(w, len + 1)
      /\ frameNo' = frameNo + 1 /\ newestPos' = w /\ UNCHANGED <<reader, got, epoch>>
  BY DEF WriteFrame, Stamp
<1>2. TypeOK /\ w \in Cells /\ frameNo \in Nat
  BY DEF PlaceInv, WalkInv, IntegrityInv, TypeOK
<1>3. NewestApart'
  <2>1. w # Adv(w, len + 1)
    BY <1>2, RingAssumption DEF SmallFrames, Adv, Cells
  <2> QED BY <1>1, <2>1 DEF NewestApart
<1>4. ASSUME NEW r \in Readers, reader[r].need \in Nat \ {0}, got[r].epoch = epoch
      PROVE  /\ reader[r].need # frameNo + 2
             /\ \A p \in Cells : hdr'[p].no = reader[r].need => p = reader[r].pos
  <2>1. CursorOK(r) /\ Placed(r) /\ got[r] \in Deliveries
    BY DEF PlaceInv, OrderInv, TypeOK
  <2>2. reader[r].need = got[r].no + 1 /\ got[r].no <= frameNo /\ got[r].no \in Nat
    BY <1>4, <2>1 DEF CursorOK, Deliveries, Unset
  <2>3. /\ reader[r].need = frameNo + 1 => reader[r].pos = w
        /\ \A p \in Cells : hdr[p].no = reader[r].need => p = reader[r].pos
    BY <1>4, <2>1 DEF Placed
  <2>4. ASSUME NEW p \in Cells, hdr'[p].no = reader[r].need PROVE p = reader[r].pos
    <3>1. hdr'[p].no # 0
      BY <1>4, <2>4
    <3>2. \/ p = w /\ hdr'[p].no = frameNo + 1
          \/ hdr'[p] = hdr[p]
      BY <1>1, <3>1, StoreDistinct DEF IsFrame
    <3> QED BY <2>3, <2>4, <3>2
  <2> QED BY <1>2, <2>2, <2>4
<1>5. ASSUME NEW r \in Readers PROVE Placed(r)'
  BY <1>1, <1>2, <1>4 DEF Placed
<1> QED BY <1>1, <1>3, <1>5, StoreDistinct

\* A read that delivers a frame leaves the cursor at the next one.
LEMMA ReadPlaces ==
  ASSUME SmallFrames, PlaceInv, faults = 0, NEW r \in Readers, NEW c \in Cursors,
         ReadWith(r, c), c = reader[r] \/ (c.need = Unset /\ c.pos = Unset /\ c.iframe)
  PROVE  \A s \in Readers : Placed(s)'
<1> DEFINE p == ReadPos(c)
           h == hdr[p]
           next == Adv(p, h.len + 1)
<1>1. UNCHANGED <<hdr, w, frameNo, epoch>>
  BY DEF ReadWith, pool, ghosts
<1>2. /\ TypeOK /\ reader \in [Readers -> Cursors] /\ got \in [Readers -> Deliveries]
      /\ frameNo \in Nat /\ faults \in Nat
  BY DEF PlaceInv, OrderInv, TypeOK
<1>3. \A s \in Readers : s # r => reader'[s] = reader[s] /\ got'[s] = got[s]
  BY <1>2 DEF ReadWith
<1>4. Placed(r)'
  <2>1. CASE ~(IsFrame(p) /\ ~(h.len > c.buf))
    <3>1. got' = got /\ (reader'[r] = c \/ reader'[r] = [c EXCEPT !.short = TRUE])
      BY <1>2, <2>1 DEF ReadWith
    <3>2. reader'[r].need = c.need /\ reader'[r].pos = c.pos
      BY <3>1 DEF Cursors
    <3>3. c.need \in Nat \ {0} => c = reader[r]
      BY DEF Unset
    <3>4. Placed(r)
      BY DEF PlaceInv
    <3> QED BY <1>1, <3>1, <3>2, <3>3, <3>4 DEF Placed
  <2>2. CASE IsFrame(p) /\ ~(h.len > c.buf)
    <3>1. /\ reader'[r] = [c EXCEPT !.iframe = FALSE, !.need = h.no + 1, !.pos = next]
          /\ got'[r].no = h.no
      BY <1>2, <2>2 DEF ReadWith
    <3>2. reader'[r].need = h.no + 1 /\ reader'[r].pos = next
      BY <3>1 DEF Cursors
    <3>3. p \in Cells /\ h \in Frames /\ h.no \in Nat \ {0} /\ h.len \in Lens
      BY <1>2, <2>2, FrameTyped DEF Frames
    <3>4. next \in Cells
      BY <3>3, NextInCells
    <3>5. h.no <= frameNo /\ \A q \in Cells : hdr[q].no <= frameNo
      BY <3>3 DEF PlaceInv, WalkInv, NumbersOK
    <3>6. p # w \/ p # newestPos
      BY <1>2, <3>3, <3>5 DEF PlaceInv, NewestApart
    <3> HIDE DEF next, p, h
    <3>7. IF next = w THEN h.no >= frameNo ELSE hdr[next].no = h.no + 1
      <4>1. IF Adv(p, hdr[p].len + 1) = w THEN hdr[p].no >= frameNo - 0
            ELSE hdr[Adv(p, hdr[p].len + 1)].no \in hdr[p].no + 1 .. hdr[p].no + 1 + 0
        BY <2>2, <3>3, <3>6 DEF PlaceInv, WalkInv, FramesAreChained
      <4> QED BY <1>2, <3>3, <4>1 DEF next, h
    <3>8. CASE next = w
      <4>1. h.no = frameNo
        BY <1>2, <3>3, <3>5, <3>7, <3>8
      <4>2. \A q \in Cells : hdr[q].no # h.no + 1
        BY <1>2, <3>5, <4>1
      <4> QED BY <1>1, <3>2, <3>8, <4>2 DEF Placed
    <3>9. CASE next # w
      <4>1. hdr[next].no = h.no + 1 /\ h.no + 1 <= frameNo /\ h.no + 1 # 0
        BY <3>3, <3>4, <3>5, <3>7, <3>9
      <4>2. \A q \in Cells : hdr[q].no = h.no + 1 => q = next
        BY <3>4, <4>1 DEF PlaceInv, Distinct, IsFrame
      <4>3. h.no + 1 # frameNo + 1
        BY <1>2, <3>3, <4>1
      <4> QED BY <1>1, <3>2, <4>2, <4>3 DEF Placed
    <3> QED BY <3>8, <3>9
  <2> QED BY <2>1, <2>2
<1>5. ASSUME NEW s \in Readers, s # r PROVE Placed(s)'
  BY <1>1, <1>3, <1>5 DEF PlaceInv, Placed
<1> QED BY <1>4, <1>5

\* Every step keeps the cursors in place, as long as no copy failed.
LEMMA PlaceStep ==
  ASSUME SmallFrames, PlaceInv, [Next]_vars
  PROVE  PlaceInv'
<1>1. WalkInv' /\ OrderInv'
  BY ChainStep, OrderStep DEF PlaceInv
<1>2. TypeOK /\ faults \in Nat
  BY DEF PlaceInv, OrderInv, TypeOK
<1> SUFFICES Distinct' /\ (faults' = 0 => NewestApart' /\ \A r \in Readers : Placed(r)')
  BY <1>1 DEF PlaceInv
<1>3. CASE Write
  <2>1. PICK len \in Lens, type \in Types, d \in PtsSteps, g \in Garbage :
          WriteFrame(len, type, newestPts + d, g)
    BY <1>3 DEF Write
  <2>2. newestPts + d \in Int /\ g \in Cells /\ faults' = faults
    BY <1>2, <2>1, RingAssumption, GarbageInCells DEF TypeOK, WriteFrame
  <2>3. Distinct'
    BY <2>1, StoreDistinct DEF WriteFrame
  <2> QED BY <2>1, <2>2, <2>3, WritePlaces
<1>4. CASE Fault
  <2>1. Distinct' /\ faults' = faults + 1
    BY <1>4, StoreDistinct DEF Fault, WriteFault
  <2> QED BY <1>2, <2>1
<1>5. CASE Reset
  <2>1. /\ \A p \in Cells : hdr'[p].no = 0
        /\ frameNo' = 0 /\ epoch' = epoch + 1 /\ UNCHANGED <<reader, got>>
    BY <1>5 DEF Reset, NoFrame
  <2>2. ASSUME NEW r \in Readers PROVE Placed(r)'
    <3>1. CursorOK(r) /\ got[r].epoch \in Nat /\ epoch \in Nat
      BY DEF PlaceInv, OrderInv, TypeOK, Deliveries
    <3>2. reader[r].need \in Nat \ {0} => got[r].epoch # epoch + 1
      BY <3>1 DEF CursorOK, Unset
    <3> QED BY <2>1, <3>2 DEF Placed
  <2> QED BY <2>1, <2>2 DEF Distinct, IsFrame, NewestApart
<1>6. ASSUME NEW r \in Readers, StartRead(r) \/ StopRead(r) \/ GrowBuffer(r)
      PROVE  Distinct' /\ (faults' = 0 => NewestApart' /\ \A s \in Readers : Placed(s)')
  <2>1. UNCHANGED <<hdr, w, frameNo, newestPos, epoch, faults>>
    BY <1>6 DEF StartRead, StopRead, GrowBuffer, pool, ghosts
  <2>2. reader \in [Readers -> Cursors]
    BY <1>2 DEF TypeOK
  <2>3. ASSUME NEW s \in Readers
        PROVE  \/ reader'[s].need = 0
               \/ /\ got'[s] = got[s] /\ reader'[s].need = reader[s].need
                  /\ reader'[s].pos = reader[s].pos
    <3>1. CASE StartRead(r) \/ StopRead(r)
      <4>1. reader'[r].need = 0
        <5>1. CASE StartRead(r)
          <6>1. reader'[r] = [Closed EXCEPT !.open = TRUE, !.iframe = TRUE, !.buf = BufInit]
            BY <2>2, <5>1 DEF StartRead
          <6> QED BY <6>1 DEF Closed
        <5>2. CASE StopRead(r)
          <6>1. reader'[r] = Closed
            BY <2>2, <5>2 DEF StopRead
          <6> QED BY <6>1 DEF Closed
        <5> QED BY <3>1, <5>1, <5>2
      <4>2. s # r => reader'[s] = reader[s] /\ got'[s] = got[s]
        BY <1>2, <2>2, <3>1 DEF StartRead, StopRead, TypeOK
      <4> QED BY <4>1, <4>2
    <3>2. CASE GrowBuffer(r)
      <4>1. got' = got /\ (s # r => reader'[s] = reader[s])
        BY <2>2, <3>2 DEF GrowBuffer
      <4>2. reader'[r].need = reader[r].need /\ reader'[r].pos = reader[r].pos
        BY <2>2, <3>2 DEF GrowBuffer, Cursors
      <4> QED BY <4>1, <4>2
    <3> QED BY <1>6, <3>1, <3>2
  <2>4. ASSUME faults = 0, NEW s \in Readers PROVE Placed(s)'
    <3>1. Placed(s)
      BY <2>4 DEF PlaceInv
    <3> QED BY <2>1, <2>3, <3>1 DEF Placed
  <2> QED BY <2>1, <2>4 DEF PlaceInv, Distinct, IsFrame, NewestApart
<1>7. ASSUME NEW r \in Readers, Read(r) \/ ReadOldest(r)
      PROVE  Distinct' /\ (faults' = 0 => NewestApart' /\ \A s \in Readers : Placed(s)')
  <2>1. PICK c \in Cursors :
          ReadWith(r, c) /\ (c = reader[r] \/ (c.need = Unset /\ c.pos = Unset /\ c.iframe))
    <3>1. reader[r] \in Cursors
      BY <1>2 DEF TypeOK
    <3>2. CASE Read(r)
      BY <3>1, <3>2 DEF Read
    <3>3. CASE ReadOldest(r)
      <4> DEFINE c == [reader[r] EXCEPT !.iframe = TRUE, !.need = Unset, !.pos = Unset]
      <4>1. c \in Cursors /\ c.need = Unset /\ c.pos = Unset /\ c.iframe
        BY <3>1 DEF Cursors
      <4>2. ReadWith(r, c)
        BY <3>3 DEF ReadOldest
      <4> HIDE DEF c
      <4> QED BY <4>1, <4>2
    <3> QED BY <1>7, <3>2, <3>3
  <2>2. UNCHANGED <<hdr, w, frameNo, newestPos, faults>>
    BY <2>1 DEF ReadWith, pool, ghosts
  <2> QED BY <2>1, <2>2, ReadPlaces DEF PlaceInv, Distinct, IsFrame, NewestApart
<1>8. CASE UNCHANGED vars
  <2>1. \A r \in Readers : Placed(r) => Placed(r)'
    BY <1>8 DEF vars, pool, ghosts, Placed
  <2> QED BY <1>8, <2>1 DEF vars, pool, ghosts, PlaceInv, Distinct, IsFrame, NewestApart
<1> QED BY <1>3, <1>4, <1>5, <1>6, <1>7, <1>8 DEF Next

\* A reader gets the next frame wherever the pool has it and it is recent enough.
LEMMA NextIsFound ==
  ASSUME PlaceInv, faults = 0, [Next]_vars, NEW r \in Readers, Follows(r),
         got'[r].no # got[r].no + 1, NEW p \in Cells, hdr[p].no = got[r].no + 1
  PROVE  ~InDelay(p)
<1>1. PICK c \in Cursors :
        ReadWith(r, c) /\ (c = reader[r] \/ (c.need = Unset /\ c.pos = Unset /\ c.iframe))
  BY FollowsByRead DEF PlaceInv
<1>2. LET q == SearchData(c.need, c.pos)
      IN /\ got'[r].no = hdr[q].no /\ c = reader[r] /\ c.need = got[r].no + 1
         /\ got[r].no \in Nat /\ got[r].epoch = epoch
  BY <1>1, NextSearches DEF PlaceInv
<1>3. p = c.pos
  BY <1>2 DEF PlaceInv, Placed
<1>4. IsFrame(p)
  BY <1>2 DEF IsFrame
<1>5. InDelay(p) => SearchData(c.need, c.pos) = p
  BY <1>2, <1>3, <1>4 DEF SearchData
<1> QED BY <1>2, <1>5

\* A reader that is not late misses nothing, in a pool of any size and however writes fall
\* between its reads: the place it remembers is the place of the next frame
\* (av_pool_search_data).
THEOREM MissedOnlyIfLateAlways ==
  ASSUME SmallFrames
  PROVE  Spec => MissedOnlyIfLate
<1>1. PlaceInv /\ [Next]_vars
        => [\A r \in Readers :
              Follows(r) /\ faults = 0 /\ got'[r].no # got[r].no + 1
                => \A p \in Cells : hdr[p].no = got[r].no + 1 => ~InDelay(p)]_got
  BY NextIsFound
<1> QED BY <1>1, PlaceInit, PlaceStep, PTL DEF Spec, MissedOnlyIfLate
=============================================================================
