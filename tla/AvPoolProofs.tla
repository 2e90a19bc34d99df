---------------------------- MODULE AvPoolProofs ----------------------------
(***************************************************************************)
(* Theorems about AvPool, for every ring size, every set of frame lengths  *)
(* that fit it, and every number of readers, writes, resets and failures.  *)
(***************************************************************************)
EXTENDS AvPool, TLAPS

-----------------------------------------------------------------------------
(***************************************************************************)
(* Arithmetic of the ring.                                                 *)
(***************************************************************************)

\* A step of at most one turn stays in the ring.
LEMMA AdvInCells ==
  ASSUME NEW p \in Cells, NEW k \in 0 .. N
  PROVE  Adv(p, k) \in Cells
BY RingAssumption DEF Cells, Adv

\* The header that follows a frame of a legal length is in the ring.
LEMMA NextInCells ==
  ASSUME NEW p \in Cells, NEW len \in Lens
  PROVE  Adv(p, len + 1) \in Cells
<1>1. len + 1 \in 0 .. N
  BY RingAssumption
<1>2. QED
  BY <1>1, AdvInCells

-----------------------------------------------------------------------------
(***************************************************************************)
(* Types.                                                                  *)
(***************************************************************************)

\* A cell that holds a frame holds a well-typed one.
LEMMA FrameTyped ==
  ASSUME TypeOK, NEW p, IsFrame(p)
  PROVE  p \in Cells /\ hdr[p] \in Frames
BY DEF TypeOK, IsFrame, NoFrame

\* Every header cell gives a length and a number.
LEMMA LenTyped ==
  ASSUME TypeOK, NEW p \in Cells
  PROVE  hdr[p].len \in Nat
<1>1. hdr[p] \in Frames \/ hdr[p] = NoFrame
  BY DEF TypeOK
<1>2. CASE hdr[p] \in Frames
  BY <1>2, RingAssumption DEF Frames
<1>3. CASE hdr[p] = NoFrame
  BY <1>3 DEF NoFrame
<1>4. QED
  BY <1>1, <1>2, <1>3

\* The oldest marks a write leaves have their type.
LEMMA RefreshTyped ==
  ASSUME TypeOK, NEW g \in Cells, NEW len \in Lens
  PROVE  RefreshOldest(g, len) \in Marks /\ RefreshOldestI(g, len) \in Marks
<1>1. LostMark \in Marks
  BY RingAssumption DEF LostMark, Marks, Cells, Unset
<1>2. ASSUME NEW p, IsFrame(p)
      PROVE  [pos |-> p, no |-> hdr[p].no] \in Marks
  BY <1>2, FrameTyped DEF Frames, Marks
<1>3. oldest \in Marks /\ oldestI \in Marks
  BY DEF TypeOK
<1>4. RefreshOldest(g, len) \in Marks
  BY <1>1, <1>2, <1>3 DEF RefreshOldest
<1>5. \A p : IsIFrame(p) => IsFrame(p)
  BY DEF IsIFrame, IsFrame
<1>6. RefreshOldestI(g, len) \in Marks
  BY <1>1, <1>2, <1>3, <1>5 DEF RefreshOldestI
<1>7. QED
  BY <1>4, <1>6

\* What Stamp assigns has its type.
LEMMA StampTyped ==
  ASSUME TypeOK, NEW len \in Lens, NEW type \in Types, NEW pts \in Int,
         NEW g \in Cells, Stamp(len, type, pts, g)
  PROVE  /\ newestPos' \in Cells /\ newestPts' \in Int
         /\ newestIPos' \in Cells /\ newestINo' \in Nat
         /\ oldest' \in Marks /\ oldestI' \in Marks
         /\ frameNo' \in Nat /\ maxLen' \in Nat /\ writes' \in Nat
<1>1. /\ newestPos' \in Cells /\ newestPts' \in Int
      /\ newestIPos' \in Cells /\ newestINo' \in Nat
      /\ frameNo' \in Nat /\ writes' \in Nat
  BY DEF Stamp, TypeOK
<1>2. maxLen' \in Nat
  BY RingAssumption DEF Stamp, TypeOK
<1>3. [pos |-> w, no |-> frameNo + 1] \in Marks
  BY DEF Marks, TypeOK
<1>4. oldest' \in Marks
  BY <1>3, RefreshTyped DEF Stamp
<1>5. oldestI' \in Marks
  BY <1>3, RefreshTyped DEF Stamp, TypeOK
<1>6. QED
  BY <1>1, <1>2, <1>4, <1>5

\* What Store assigns has its type.
LEMMA StoreTyped ==
  ASSUME TypeOK, NEW n \in Nat, NEW len \in Lens, NEW type \in Types,
         NEW pts \in Int, Store(n, len, type, pts)
  PROVE  hdr' \in [Cells -> Frames \cup {NoFrame}] /\ body' \in [Cells -> Nat]
<1> DEFINE new == [no |-> frameNo + 1, len |-> len, type |-> type, pts |-> pts,
                   id |-> writes + 1]
<1>1. new \in Frames
  BY DEF Frames, TypeOK
<1>2. hdr' \in [Cells -> Frames \cup {NoFrame}]
  BY <1>1 DEF Store, TypeOK
<1>3. body' \in [Cells -> Nat]
  BY DEF Store, TypeOK
<1>4. QED
  BY <1>2, <1>3

\* The cells a write may start its walk from are cells of the ring.
LEMMA GarbageInCells == Garbage \subseteq Cells
BY RingAssumption DEF Garbage, Cells

\* A read leaves the cursor and the delivery of its reader well typed.
LEMMA ReadWithTyped ==
  ASSUME TypeOK, NEW r \in Readers, NEW c \in Cursors, ReadWith(r, c)
  PROVE  TypeOK'
<1> DEFINE p == ReadPos(c)
           h == hdr[p]
<1>1. UNCHANGED <<pool, ghosts>>
  BY DEF ReadWith
<1>2. reader' \in [Readers -> Cursors] /\ got' \in [Readers -> Deliveries]
  <2>1. CASE ~IsFrame(p)
    BY <2>1 DEF ReadWith, TypeOK
  <2>2. CASE IsFrame(p) /\ h.len > c.buf
    <3>1. [c EXCEPT !.short = TRUE] \in Cursors
      BY DEF Cursors
    <3>2. QED
      BY <2>2, <3>1 DEF ReadWith, TypeOK
  <2>3. CASE IsFrame(p) /\ ~(h.len > c.buf)
    <3>1. p \in Cells /\ h \in Frames
      BY <2>3, FrameTyped
    <3>2. Adv(p, h.len + 1) \in Cells
      BY <3>1, NextInCells DEF Frames
    <3> DEFINE c2 == [c EXCEPT !.iframe = FALSE, !.need = h.no + 1,
                               !.pos = Adv(p, h.len + 1)]
               d  == [id |-> h.id, no |-> h.no, type |-> h.type,
                      parts |-> {body[q] : q \in Payload(p, h.len)},
                      epoch |-> epoch, asked |-> Asked(c)]
    <3>3. c2 \in Cursors
      <4>1. h.no + 1 \in Nat
        BY <3>1 DEF Frames
      <4>2. \A no \in Nat, q \in Cells :
              [c EXCEPT !.iframe = FALSE, !.need = no, !.pos = q] \in Cursors
        BY DEF Cursors
      <4>3. QED
        BY <3>2, <4>1, <4>2
    <3>4. {body[q] : q \in Payload(p, h.len)} \in SUBSET Nat
      BY DEF Payload, TypeOK
    <3>5. Asked(c) \in {"none", "first", "oldest", "next"}
      BY DEF Asked
    <3>6. d \in Deliveries
      BY <3>1, <3>4, <3>5 DEF Deliveries, Frames, TypeOK
    <3>7. reader' = [reader EXCEPT ![r] = c2] /\ got' = [got EXCEPT ![r] = d]
      BY <2>3 DEF ReadWith
    <3>8. QED
      BY <3>3, <3>6, <3>7 DEF TypeOK
  <2>4. QED
    BY <2>1, <2>2, <2>3
<1>3. QED
  BY <1>1, <1>2 DEF TypeOK, pool, ghosts

\* Every step keeps the types.
LEMMA TypeStep == TypeOK /\ [Next]_vars => TypeOK'
<1> SUFFICES ASSUME TypeOK, [Next]_vars PROVE TypeOK'
  OBVIOUS
<1>1. CASE Write
  <2>1. PICK len \in Lens, type \in Types, d \in PtsSteps, g \in Garbage :
          WriteFrame(len, type, newestPts + d, g)
    BY <1>1 DEF Write
  <2>2. newestPts + d \in Int /\ g \in Cells /\ len \in Nat
    BY RingAssumption, GarbageInCells DEF TypeOK
  <2>3. /\ hdr' \in [Cells -> Frames \cup {NoFrame}] /\ body' \in [Cells -> Nat]
    BY <2>1, <2>2, StoreTyped DEF WriteFrame
  <2>4. /\ newestPos' \in Cells /\ newestPts' \in Int
        /\ newestIPos' \in Cells /\ newestINo' \in Nat
        /\ oldest' \in Marks /\ oldestI' \in Marks
        /\ frameNo' \in Nat /\ maxLen' \in Nat /\ writes' \in Nat
    BY <2>1, <2>2, StampTyped DEF WriteFrame
  <2>5. w' \in Cells
    BY <2>1, NextInCells DEF WriteFrame, TypeOK
  <2>6. QED
    BY <2>1, <2>3, <2>4, <2>5 DEF WriteFrame, TypeOK
<1>2. CASE Fault
  <2> PICK len \in Lens, type \in Types, d \in PtsSteps, g \in Garbage :
        \E n \in 0 .. len-1 : WriteFault(n, len, type, newestPts + d, g)
    BY <1>2 DEF Fault
  <2>1. PICK n \in 0 .. len-1 : WriteFault(n, len, type, newestPts + d, g)
    OBVIOUS
  <2>2. newestPts + d \in Int /\ g \in Cells /\ n \in Nat
    BY RingAssumption, GarbageInCells DEF TypeOK
  <2>3. /\ hdr' \in [Cells -> Frames \cup {NoFrame}] /\ body' \in [Cells -> Nat]
    BY <2>1, <2>2, StoreTyped DEF WriteFault
  <2>4. /\ newestPos' \in Cells /\ newestPts' \in Int
        /\ newestIPos' \in Cells /\ newestINo' \in Nat
        /\ oldest' \in Marks /\ oldestI' \in Marks
        /\ frameNo' \in Nat /\ maxLen' \in Nat /\ writes' \in Nat
    BY <2>1, <2>2, StampTyped DEF WriteFault
  <2>5. QED
    BY <2>1, <2>3, <2>4 DEF WriteFault, TypeOK
<1>3. CASE Reset
  <2>1. 0 \in Cells
    BY RingAssumption DEF Cells
  <2>2. /\ hdr' \in [Cells -> Frames \cup {NoFrame}] /\ body' \in [Cells -> Nat]
    BY <1>3 DEF Reset
  <2>3. oldest' \in Marks /\ oldestI' \in Marks
    BY <1>3 DEF Reset, Marks
  <2>4. QED
    BY <1>3, <2>1, <2>2, <2>3 DEF Reset, TypeOK
<1>4. ASSUME NEW r \in Readers, StartRead(r) PROVE TypeOK'
  <2>1. [Closed EXCEPT !.open = TRUE, !.iframe = TRUE, !.buf = BufInit] \in Cursors
    <3>1. Closed \in Cursors
      BY RingAssumption DEF Closed, Cursors, Cells
    <3>2. \A c \in Cursors, b \in Nat :
            [c EXCEPT !.open = TRUE, !.iframe = TRUE, !.buf = b] \in Cursors
      BY DEF Cursors
    <3>3. QED
      BY <3>1, <3>2, ReaderAssumption
  <2>2. NothingYet \in Deliveries
    BY DEF NothingYet, Deliveries
  <2>3. QED
    BY <1>4, <2>1, <2>2 DEF StartRead, TypeOK, pool, ghosts
<1>5. ASSUME NEW r \in Readers, StopRead(r) PROVE TypeOK'
  <2>1. Closed \in Cursors
    BY RingAssumption DEF Closed, Cursors, Cells
  <2>2. NothingYet \in Deliveries
    BY DEF NothingYet, Deliveries
  <2>3. QED
    BY <1>5, <2>1, <2>2 DEF StopRead, TypeOK, pool, ghosts
<1>6. ASSUME NEW r \in Readers, Read(r) PROVE TypeOK'
  BY <1>6, ReadWithTyped DEF Read, TypeOK
<1>7. ASSUME NEW r \in Readers, ReadOldest(r) PROVE TypeOK'
  <2>1. [reader[r] EXCEPT !.iframe = TRUE, !.need = Unset, !.pos = Unset] \in Cursors
    BY DEF TypeOK, Cursors
  <2>2. QED
    BY <1>7, <2>1, ReadWithTyped DEF ReadOldest
<1>8. ASSUME NEW r \in Readers, GrowBuffer(r) PROVE TypeOK'
  <2>1. PICK b \in Nat : reader' = [reader EXCEPT ![r].short = FALSE, ![r].buf = b]
    BY <1>8 DEF GrowBuffer, TypeOK, Cursors
  <2>2. [reader[r] EXCEPT !.short = FALSE, !.buf = b] \in Cursors
    BY DEF TypeOK, Cursors
  <2>3. reader' \in [Readers -> Cursors]
    BY <2>1, <2>2 DEF TypeOK
  <2>4. QED
    BY <1>8, <2>3 DEF GrowBuffer, TypeOK, pool, ghosts
<1>9. CASE UNCHANGED vars
  BY <1>9 DEF TypeOK, vars, pool, ghosts
<1>10. QED
  BY <1>1, <1>2, <1>3, <1>4, <1>5, <1>6, <1>7, <1>8, <1>9 DEF Next

\* The initial state is well typed.
LEMMA TypeInit == Init => TypeOK
<1> SUFFICES ASSUME Init PROVE TypeOK
  OBVIOUS
<1>1. 0 \in Cells
  BY RingAssumption DEF Cells
<1>2. Closed \in Cursors /\ NothingYet \in Deliveries
  BY <1>1 DEF Closed, Cursors, NothingYet, Deliveries
<1>3. [pos |-> Unset, no |-> 0] \in Marks
  BY DEF Marks
<1>4. QED
  BY <1>1, <1>2, <1>3 DEF Init, TypeOK

\* Every variable keeps its type in every behaviour: in particular the write
\* position, the marks and every cursor stay inside the ring, whatever the
\* lengths of the frames (JPOOL_MAN, AVPoolRead).
THEOREM TypeCorrect == Spec => []TypeOK
BY TypeInit, TypeStep, PTL DEF Spec

-----------------------------------------------------------------------------
(***************************************************************************)
(* Integrity.  Why a frame whose header survives a write keeps its payload *)
(* is not local to the frame: the write position must never lie inside a   *)
(* frame that is still there.  That is the strengthening below.            *)
(***************************************************************************)

\* The write position lies on a frame boundary: in no frame's payload.
NoStraddle == \A p \in Cells : hdr[p].no # 0 => w \notin Payload(p, hdr[p].len)

IntegrityInv == TypeOK /\ NoStraddle /\ FramesAreWhole

\* Two arcs of the ring: n cells after a, and l cells after b.  If neither holds
\* the start of the other they are disjoint.
LEMMA DisjointArcs ==
  ASSUME NEW a \in Cells, NEW b \in Cells, a # b, NEW n \in Nat, NEW l \in Nat,
         b \notin Payload(a, n), a \notin Payload(b, l),
         NEW q \in Payload(b, l)
  PROVE  q # a /\ q \notin Payload(a, n)
BY RingAssumption DEF Payload, Dist, Cells

\* The cell after the n cells that follow a does not lie in the l cells after b.
LEMMA NextNotInside ==
  ASSUME NEW a \in Cells, NEW b \in Cells, a # b, NEW n \in Nat, NEW l \in Nat,
         n < N, b \notin Payload(a, n), a \notin Payload(b, l)
  PROVE  Adv(a, n + 1) \notin Payload(b, l)
BY RingAssumption DEF Payload, Dist, Cells, Adv

\* A write of n cells at w leaves alone the frames whose headers it leaves alone.
LEMMA Survivors ==
  ASSUME TypeOK, NoStraddle, NEW n \in Nat, n < N,
         NEW len \in Lens, NEW type \in Types, NEW pts \in Int,
         Store(n, len, type, pts),
         NEW p \in Cells, p # w, hdr'[p].no # 0
  PROVE  /\ hdr'[p] = hdr[p]
         /\ p \notin Payload(w, n) /\ w \notin Payload(p, hdr[p].len)
         /\ \A q \in Payload(p, hdr[p].len) : body'[q] = body[q]
<1>1. p \notin Payload(w, n) /\ hdr'[p] = hdr[p]
  BY DEF Store, NoFrame
<1>2. w \notin Payload(p, hdr[p].len)
  BY <1>1 DEF NoStraddle
<1>3. hdr[p].len \in Nat /\ w \in Cells
  BY LenTyped DEF TypeOK
<1>4. ASSUME NEW q \in Payload(p, hdr[p].len)
      PROVE  body'[q] = body[q]
  <2>1. q # w /\ q \notin Payload(w, n)
    BY <1>1, <1>2, <1>3, <1>4, DisjointArcs
  <2>2. q \in Cells
    BY DEF Payload
  <2>3. QED
    BY <2>1, <2>2 DEF Store
<1>5. QED
  BY <1>1, <1>2, <1>4

\* A completed write keeps integrity.
LEMMA WriteIntegrity ==
  ASSUME IntegrityInv, NEW len \in Lens, NEW type \in Types, NEW pts \in Int,
         NEW g \in Cells, WriteFrame(len, type, pts, g)
  PROVE  NoStraddle' /\ FramesAreWhole'
<1>1. len \in Nat /\ len > 0 /\ len < N
  BY RingAssumption
<1>2. Store(len, len, type, pts) /\ w' = Adv(w, len + 1) /\ faults' = faults
  BY DEF WriteFrame
<1>3. TypeOK /\ NoStraddle /\ FramesAreWhole /\ w \in Cells
  BY DEF IntegrityInv, TypeOK
<1>4. ASSUME NEW p \in Cells, p # w, hdr'[p].no # 0
      PROVE  w' \notin Payload(p, hdr'[p].len) /\ Whole(p)'
  <2>1. /\ hdr'[p] = hdr[p]
        /\ p \notin Payload(w, len) /\ w \notin Payload(p, hdr[p].len)
        /\ \A q \in Payload(p, hdr[p].len) : body'[q] = body[q]
    BY <1>1, <1>2, <1>3, <1>4, Survivors
  <2>2. hdr[p].len \in Nat
    BY <1>3, LenTyped
  <2>3. w' \notin Payload(p, hdr'[p].len)
    BY <1>1, <1>2, <1>3, <1>4, <2>1, <2>2, NextNotInside
  <2>4. Whole(p)
    BY <1>3, <1>4, <2>1 DEF FramesAreWhole
  <2>5. Whole(p)'
    BY <2>1, <2>4 DEF Whole
  <2>6. QED
    BY <2>3, <2>5
<1>5. hdr'[w].len = len /\ hdr'[w].id = writes + 1
  BY <1>2, <1>3 DEF Store
<1>6. w' \notin Payload(w, hdr'[w].len)
  BY <1>1, <1>2, <1>3, <1>5, RingAssumption DEF Payload, Dist, Adv, Cells
<1>7. \A q \in Payload(w, hdr'[w].len) : body'[q] = hdr'[w].id
  <2>1. ASSUME NEW q \in Payload(w, len) PROVE body'[q] = writes + 1
    <3>1. q \in Cells /\ q # w
      BY <1>3 DEF Payload, Dist, Cells
    <3>2. QED
      BY <1>2, <2>1, <3>1 DEF Store
  <2>2. QED
    BY <1>5, <2>1
<1>8. ASSUME NEW p \in Cells, hdr'[p].no # 0
      PROVE  w' \notin Payload(p, hdr'[p].len) /\ Whole(p)'
  BY <1>4, <1>6, <1>7, <1>8 DEF Whole
<1>9. QED
  BY <1>8 DEF NoStraddle, FramesAreWhole

\* A write that fails half-way keeps it too: the write position stays where it is,
\* on the header of the frame that is not whole.
LEMMA FaultIntegrity ==
  ASSUME IntegrityInv, NEW len \in Lens, NEW type \in Types, NEW pts \in Int,
         NEW g \in Cells, NEW n \in 0 .. len-1, WriteFault(n, len, type, pts, g)
  PROVE  NoStraddle' /\ FramesAreWhole'
<1>1. len \in Nat /\ n \in Nat /\ n < N
  BY RingAssumption
<1>2. Store(n, len, type, pts) /\ w' = w /\ faults' # 0
  BY DEF WriteFault, IntegrityInv, TypeOK
<1>3. TypeOK /\ NoStraddle /\ FramesAreWhole /\ w \in Cells
  BY DEF IntegrityInv, TypeOK
<1>4. ASSUME NEW p \in Cells, p # w, hdr'[p].no # 0
      PROVE  w \notin Payload(p, hdr'[p].len) /\ Whole(p)'
  <2>1. /\ hdr'[p] = hdr[p]
        /\ w \notin Payload(p, hdr[p].len)
        /\ \A q \in Payload(p, hdr[p].len) : body'[q] = body[q]
    BY <1>1, <1>2, <1>3, <1>4, Survivors
  <2>2. Whole(p)
    BY <1>3, <1>4, <2>1 DEF FramesAreWhole
  <2>3. QED
    BY <2>1, <2>2 DEF Whole
<1>5. \A l \in Nat : w \notin Payload(w, l)
  BY <1>3 DEF Payload, Dist, Cells
<1>6. hdr'[w].len = len
  BY <1>2, <1>3 DEF Store
<1>7. QED
  BY <1>1, <1>2, <1>4, <1>5, <1>6 DEF NoStraddle, FramesAreWhole

\* Integrity holds initially and every step keeps it.
LEMMA IntegrityInit == Init => IntegrityInv
<1>1. Init => \A p \in Cells : hdr[p].no = 0
  BY DEF Init, NoFrame
<1>2. QED
  BY <1>1, TypeInit DEF IntegrityInv, NoStraddle, FramesAreWhole

\* Every step keeps integrity: only writes and resets touch the ring.
LEMMA IntegrityStep == IntegrityInv /\ [Next]_vars => IntegrityInv'
<1> SUFFICES ASSUME IntegrityInv, [Next]_vars PROVE IntegrityInv'
  OBVIOUS
<1>1. TypeOK'
  BY TypeStep DEF IntegrityInv
<1>2. CASE Write
  <2>1. PICK len \in Lens, type \in Types, d \in PtsSteps, g \in Garbage :
          WriteFrame(len, type, newestPts + d, g)
    BY <1>2 DEF Write
  <2>2. newestPts + d \in Int /\ g \in Cells
    BY RingAssumption, GarbageInCells DEF IntegrityInv, TypeOK
  <2>3. QED
    BY <1>1, <2>1, <2>2, WriteIntegrity DEF IntegrityInv
<1>3. CASE Fault
  <2> PICK len \in Lens, type \in Types, d \in PtsSteps, g \in Garbage :
        \E n \in 0 .. len-1 : WriteFault(n, len, type, newestPts + d, g)
    BY <1>3 DEF Fault
  <2>1. PICK n \in 0 .. len-1 : WriteFault(n, len, type, newestPts + d, g)
    OBVIOUS
  <2>2. newestPts + d \in Int /\ g \in Cells
    BY RingAssumption, GarbageInCells DEF IntegrityInv, TypeOK
  <2>3. QED
    BY <1>1, <2>1, <2>2, FaultIntegrity DEF IntegrityInv
<1>4. CASE Reset
  <2>1. \A p \in Cells : hdr'[p].no = 0
    BY <1>4 DEF Reset, NoFrame
  <2>2. QED
    BY <1>1, <2>1 DEF IntegrityInv, NoStraddle, FramesAreWhole
<1>5. CASE UNCHANGED <<hdr, body, w, faults>>
  BY <1>1, <1>5 DEF IntegrityInv, NoStraddle, FramesAreWhole, Whole
<1>6. ASSUME NEW r \in Readers,
             StartRead(r) \/ StopRead(r) \/ Read(r) \/ ReadOldest(r) \/ GrowBuffer(r)
      PROVE  UNCHANGED <<hdr, body, w, faults>>
  BY <1>6 DEF StartRead, StopRead, Read, ReadOldest, GrowBuffer, ReadWith, pool, ghosts
<1>7. CASE UNCHANGED vars
  BY <1>5, <1>7 DEF vars, pool, ghosts
<1>8. QED
  BY <1>2, <1>3, <1>4, <1>5, <1>6, <1>7 DEF Next

\* Whatever the writer has overwritten, a frame that can still be found in the
\* pool has all of its payload (av_pool_write_av_data against the readers).
THEOREM PoolIntegrity == Spec => []FramesAreWhole
<1>1. IntegrityInv => FramesAreWhole
  BY DEF IntegrityInv
<1>2. QED
  BY <1>1, IntegrityInit, IntegrityStep, PTL DEF Spec

-----------------------------------------------------------------------------
(***************************************************************************)
(* What readers get.                                                       *)
(***************************************************************************)

\* What a step that gives something to reader r may give it.
Given(r) ==
  got'[r] # got[r] /\ (got'[r].id # hdr[w].id \/ faults = 0)
    => got'[r].parts \subseteq {got'[r].id}

\* A read copies out one whole frame.
LEMMA ReadDelivers ==
  ASSUME IntegrityInv, NEW r \in Readers, NEW c, ReadWith(r, c)
  PROVE  \A s \in Readers : Given(s)
<1> DEFINE p == ReadPos(c)
<1>1. CASE got' = got
  BY <1>1 DEF Given
<1>2. CASE got' # got
  <2>1. IsFrame(p)
    BY <1>2 DEF ReadWith
  <2>2. p \in Cells /\ hdr[p].no # 0
    BY <2>1 DEF IsFrame
  <2>3. p # w \/ faults = 0 => Whole(p)
    BY <2>2 DEF IntegrityInv, FramesAreWhole
  <2>4. got' = [got EXCEPT ![r] =
                 [id |-> hdr[p].id, no |-> hdr[p].no, type |-> hdr[p].type,
                  parts |-> {body[q] : q \in Payload(p, hdr[p].len)},
                  epoch |-> epoch, asked |-> Asked(c)]]
    BY <1>2, <2>1 DEF ReadWith
  <2>5. Whole(p) => {body[q] : q \in Payload(p, hdr[p].len)} \subseteq {hdr[p].id}
    BY DEF Whole
  <2>6. got \in [Readers -> Deliveries]
    BY DEF IntegrityInv, TypeOK
  <2>7. got'[r].id = hdr[p].id /\ (Whole(p) => got'[r].parts \subseteq {got'[r].id})
    BY <2>4, <2>5, <2>6
  <2>8. \A s \in Readers : s # r => got'[s] = got[s]
    BY <2>4, <2>6
  <2>9. Given(r)
    BY <2>3, <2>7 DEF Given
  <2>10. QED
    BY <2>8, <2>9 DEF Given
<1>3. QED
  BY <1>1, <1>2

\* The other steps give nothing, or take back what was given.
LEMMA DeliveryStep ==
  ASSUME IntegrityInv, [Next]_vars, NEW s \in Readers
  PROVE  Given(s)
<1>1. got' = got \/ \E r \in Readers :
                    StartRead(r) \/ StopRead(r) \/ Read(r) \/ ReadOldest(r)
  BY DEF Next, Write, WriteFrame, Fault, WriteFault, Reset, GrowBuffer, vars
<1>2. CASE got' = got
  BY <1>2 DEF Given
<1>3. ASSUME NEW r \in Readers, StartRead(r) \/ StopRead(r) PROVE Given(s)
  <2>1. got' = [got EXCEPT ![r] = NothingYet] /\ NothingYet.parts = {}
    BY <1>3 DEF StartRead, StopRead, NothingYet
  <2>2. got \in [Readers -> Deliveries]
    BY DEF IntegrityInv, TypeOK
  <2>3. QED
    BY <2>1, <2>2 DEF Given
<1>4. ASSUME NEW r \in Readers, Read(r) \/ ReadOldest(r) PROVE Given(s)
  BY <1>4, ReadDelivers DEF Read, ReadOldest
<1>5. QED
  BY <1>1, <1>2, <1>3, <1>4

\* A reader only ever gets whole frames, however slow it is, however often the
\* writer wraps or restarts and whichever copies fail, but for the one frame at the
\* write position whose copy failed (av_pool_read_av_data).
THEOREM ReadsIntact == Spec => DeliveredIntact
<1>1. IntegrityInv /\ [Next]_vars => [\A r \in Readers : Given(r)]_got
  BY DeliveryStep
<1>2. QED
  BY <1>1, IntegrityInit, IntegrityStep, PTL DEF Spec, DeliveredIntact, Given

-----------------------------------------------------------------------------
(***************************************************************************)
(* The order of what readers get.                                          *)
(***************************************************************************)

\* No frame has a number the pool has not given yet.
Numbered == \A p \in Cells : hdr[p].no <= frameNo

\* A cursor is fresh, asks for the oldest frame, or asks for the one after the last that
\* was read, which is of the present stream or of an earlier one.
CursorOK(r) ==
  LET c == reader[r]
  IN \/ c.need = 0 /\ c.pos = 0
     \/ c.need = Unset /\ c.pos = Unset /\ c.iframe
     \/ /\ c.need \in Nat \ {0} /\ ~c.iframe /\ got[r].epoch <= epoch
        /\ got[r].epoch = epoch => c.need = got[r].no + 1 /\ got[r].no <= frameNo

OrderInv == TypeOK /\ Numbered /\ \A r \in Readers : CursorOK(r)

\* An empty pool has no numbers, and a closed cursor is fresh.
LEMMA OrderInit == Init => OrderInv
<1> SUFFICES ASSUME Init PROVE OrderInv
  OBVIOUS
<1>1. Numbered
  BY DEF Init, NoFrame, Numbered
<1>2. \A r \in Readers : CursorOK(r)
  BY DEF Init, Closed, CursorOK
<1> QED BY <1>1, <1>2, TypeInit DEF OrderInv

\* A write gives the next number, whether or not its copy fails.
LEMMA WriteNumbers ==
  ASSUME OrderInv, TypeOK', NEW n, NEW len, NEW type, NEW pts, NEW g,
         Stamp(len, type, pts, g), Store(n, len, type, pts),
         UNCHANGED <<reader, got, epoch>>
  PROVE  OrderInv'
<1>1. frameNo' = frameNo + 1 /\ frameNo \in Nat
  BY DEF Stamp, OrderInv, TypeOK
<1>2. ASSUME NEW q \in Cells PROVE hdr'[q].no <= frameNo'
  <2>1. hdr'[q].no = frameNo + 1 \/ hdr'[q] = NoFrame \/ hdr'[q] = hdr[q]
    BY DEF Store
  <2>2. hdr[q].no <= frameNo /\ hdr[q].no \in Nat
    BY DEF OrderInv, Numbered, TypeOK, Frames, NoFrame
  <2> QED BY <1>1, <2>1, <2>2 DEF NoFrame
<1>3. ASSUME NEW r \in Readers PROVE CursorOK(r)'
  <2>1. CursorOK(r) /\ got[r] \in Deliveries
    BY DEF OrderInv, TypeOK
  <2> QED BY <1>1, <2>1 DEF CursorOK, Deliveries
<1> QED BY <1>2, <1>3 DEF OrderInv, Numbered

\* A read leaves the cursor behind the frame it delivers.
LEMMA ReadOrders ==
  ASSUME OrderInv, TypeOK', NEW r \in Readers, NEW c \in Cursors, ReadWith(r, c),
         c = reader[r] \/ (c.need = Unset /\ c.pos = Unset /\ c.iframe)
  PROVE  OrderInv'
<1> DEFINE p == ReadPos(c)
           h == hdr[p]
<1>1. UNCHANGED <<hdr, frameNo, epoch>>
  BY DEF ReadWith, pool, ghosts
<1>2. reader \in [Readers -> Cursors] /\ got \in [Readers -> Deliveries] /\ epoch \in Nat
  BY DEF OrderInv, TypeOK
<1>3. \A s \in Readers : s # r => reader'[s] = reader[s] /\ got'[s] = got[s]
  BY <1>2 DEF ReadWith
<1>4. CursorOK(r)'
  <2>1. CASE ~IsFrame(p)
    <3>1. reader'[r] = c /\ got' = got
      BY <1>2, <2>1 DEF ReadWith
    <3> QED BY <1>1, <3>1 DEF CursorOK, OrderInv
  <2>2. CASE IsFrame(p) /\ h.len > c.buf
    <3>1. reader'[r] = [c EXCEPT !.short = TRUE] /\ got' = got
      BY <1>2, <2>2 DEF ReadWith
    <3>2. /\ reader'[r].need = c.need /\ reader'[r].pos = c.pos
          /\ reader'[r].iframe = c.iframe
      BY <3>1 DEF Cursors
    <3> QED BY <1>1, <3>1, <3>2 DEF CursorOK, OrderInv
  <2>3. CASE IsFrame(p) /\ ~(h.len > c.buf)
    <3>1. /\ reader'[r] = [c EXCEPT !.iframe = FALSE, !.need = h.no + 1,
                                    !.pos = Adv(p, h.len + 1)]
          /\ got'[r] = [id |-> h.id, no |-> h.no, type |-> h.type,
                        parts |-> {body[q] : q \in Payload(p, h.len)},
                        epoch |-> epoch, asked |-> Asked(c)]
      BY <1>2, <2>3 DEF ReadWith
    <3>2. h.no \in Nat \ {0} /\ h.no <= frameNo
      BY <2>3, FrameTyped DEF OrderInv, Numbered, Frames
    <3>3. /\ reader'[r].need = h.no + 1 /\ ~reader'[r].iframe
          /\ got'[r].no = h.no /\ got'[r].epoch = epoch
      BY <3>1 DEF Cursors
    <3> QED BY <1>1, <1>2, <3>2, <3>3 DEF CursorOK
  <2> QED BY <2>1, <2>2, <2>3
<1>5. \A s \in Readers : CursorOK(s)'
  BY <1>1, <1>3, <1>4 DEF CursorOK, OrderInv
<1> QED BY <1>1, <1>5 DEF OrderInv, Numbered

\* Every step keeps the numbers and the cursors in order.
LEMMA OrderStep == OrderInv /\ [Next]_vars => OrderInv'
<1> SUFFICES ASSUME OrderInv, [Next]_vars PROVE OrderInv'
  OBVIOUS
<1>1. TypeOK'
  BY TypeStep DEF OrderInv
<1>2. CASE Write
  BY <1>1, <1>2, WriteNumbers DEF Write, WriteFrame
<1>3. CASE Fault
  BY <1>1, <1>3, WriteNumbers DEF Fault, WriteFault
<1>4. CASE Reset
  <2>1. epoch' = epoch + 1 /\ frameNo' = 0 /\ UNCHANGED <<reader, got>>
        /\ \A p \in Cells : hdr'[p].no = 0
    BY <1>4 DEF Reset, NoFrame
  <2>2. epoch \in Nat /\ got \in [Readers -> Deliveries]
    BY DEF OrderInv, TypeOK
  <2>3. ASSUME NEW r \in Readers PROVE CursorOK(r)'
    <3>1. CursorOK(r) /\ got[r].epoch \in Nat
      BY <2>2 DEF OrderInv, Deliveries
    <3> QED BY <2>1, <2>2, <3>1 DEF CursorOK
  <2> QED BY <1>1, <2>1, <2>3 DEF OrderInv, Numbered
<1>5. ASSUME NEW r \in Readers, StartRead(r) \/ StopRead(r) \/ GrowBuffer(r) PROVE OrderInv'
  <2>1. UNCHANGED <<hdr, frameNo, epoch>>
    BY <1>5 DEF StartRead, StopRead, GrowBuffer, pool, ghosts
  <2>2. reader \in [Readers -> Cursors] /\ got \in [Readers -> Deliveries]
    BY DEF OrderInv, TypeOK
  <2>3. ASSUME NEW s \in Readers PROVE CursorOK(s)'
    <3>1. \/ reader'[s].need = 0 /\ reader'[s].pos = 0
          \/ /\ got'[s] = got[s] /\ reader'[s].need = reader[s].need
             /\ reader'[s].pos = reader[s].pos /\ reader'[s].iframe = reader[s].iframe
      <4>1. CASE StartRead(r) \/ StopRead(r)
        <5>1. reader'[r].need = 0 /\ reader'[r].pos = 0
          <6>1. CASE StartRead(r)
            <7>1. reader'[r] = [Closed EXCEPT !.open = TRUE, !.iframe = TRUE, !.buf = BufInit]
              BY <2>2, <6>1 DEF StartRead
            <7> QED BY <7>1 DEF Closed
          <6>2. CASE StopRead(r)
            <7>1. reader'[r] = Closed
              BY <2>2, <6>2 DEF StopRead
            <7> QED BY <7>1 DEF Closed
          <6> QED BY <4>1, <6>1, <6>2
        <5>2. s # r => reader'[s] = reader[s] /\ got'[s] = got[s]
          BY <2>2, <4>1 DEF StartRead, StopRead
        <5> QED BY <5>1, <5>2
      <4>2. CASE GrowBuffer(r)
        <5>1. got' = got /\ (s # r => reader'[s] = reader[s])
          BY <2>2, <4>2 DEF GrowBuffer
        <5>2. \E buf : reader'[r] = [reader[r] EXCEPT !.short = FALSE, !.buf = buf]
          BY <2>2, <4>2 DEF GrowBuffer
        <5>3. /\ reader'[r].need = reader[r].need /\ reader'[r].pos = reader[r].pos
              /\ reader'[r].iframe = reader[r].iframe
          BY <2>2, <5>2 DEF Cursors
        <5> QED BY <5>1, <5>2, <5>3
      <4> QED BY <1>5, <4>1, <4>2
    <3> QED BY <2>1, <3>1 DEF CursorOK, OrderInv
  <2> QED BY <1>1, <2>1, <2>3 DEF OrderInv, Numbered
<1>6. ASSUME NEW r \in Readers, Read(r) \/ ReadOldest(r) PROVE OrderInv'
  <2>1. reader[r] \in Cursors
    BY DEF OrderInv, TypeOK
  <2>2. CASE Read(r)
    BY <1>1, <2>1, <2>2, ReadOrders DEF Read
  <2>3. CASE ReadOldest(r)
    <3> DEFINE c == [reader[r] EXCEPT !.iframe = TRUE, !.need = Unset, !.pos = Unset]
    <3>1. c \in Cursors /\ c.need = Unset /\ c.pos = Unset /\ c.iframe
      BY <2>1 DEF Cursors
    <3>2. ReadWith(r, c)
      BY <2>3 DEF ReadOldest
    <3> HIDE DEF c
    <3> QED BY <1>1, <3>1, <3>2, ReadOrders
  <2> QED BY <1>6, <2>2, <2>3
<1>7. CASE UNCHANGED vars
  <2>1. \A r \in Readers : CursorOK(r)'
    BY <1>7 DEF vars, pool, ghosts, OrderInv, CursorOK
  <2> QED BY <1>1, <1>7, <2>1 DEF vars, pool, ghosts, OrderInv, Numbered
<1> QED BY <1>2, <1>3, <1>4, <1>5, <1>6, <1>7 DEF Next

\* What a step gives reader s that follows another frame of the stream: one with the number
\* it asked for, or a newer one to start from.
Ordered(s) ==
  Follows(s) => /\ got'[s].no > got[s].no
                /\ Video /\ got'[s].type = "P" => got'[s].no = got[s].no + 1

\* Only a read gives a reader a frame that follows another.
LEMMA FollowsByRead ==
  ASSUME OrderInv, [Next]_vars, NEW s \in Readers, Follows(s)
  PROVE  \E c \in Cursors :
           ReadWith(s, c) /\ (c = reader[s] \/ (c.need = Unset /\ c.pos = Unset /\ c.iframe))
<1>1. got \in [Readers -> Deliveries] /\ got'[s] # got[s] /\ got'[s].asked = "next"
      /\ reader[s] \in Cursors
  BY DEF OrderInv, TypeOK, Follows
<1>2. PICK r \in Readers : StartRead(r) \/ StopRead(r) \/ Read(r) \/ ReadOldest(r)
  BY <1>1 DEF Next, Write, WriteFrame, Fault, WriteFault, Reset, GrowBuffer, vars
<1>3. r = s
  BY <1>1, <1>2 DEF StartRead, StopRead, Read, ReadOldest, ReadWith
<1>4. ~StartRead(r) /\ ~StopRead(r)
  BY <1>1, <1>3 DEF StartRead, StopRead, NothingYet
<1>5. CASE Read(r)
  BY <1>1, <1>3, <1>5 DEF Read
<1>6. CASE ReadOldest(r)
  <2> DEFINE c == [reader[r] EXCEPT !.iframe = TRUE, !.need = Unset, !.pos = Unset]
  <2>1. c \in Cursors /\ c.need = Unset /\ c.pos = Unset /\ c.iframe
    BY <1>1, <1>3 DEF Cursors
  <2>2. ReadWith(r, c)
    BY <1>6 DEF ReadOldest
  <2> HIDE DEF c
  <2> QED BY <1>3, <2>1, <2>2
<1> QED BY <1>2, <1>4, <1>5, <1>6

\* What follows another frame was searched for with the reader's own cursor, which asks for
\* the frame after the last.
LEMMA NextSearches ==
  ASSUME OrderInv, NEW r \in Readers, NEW c \in Cursors, ReadWith(r, c),
         c = reader[r] \/ (c.need = Unset /\ c.pos = Unset /\ c.iframe),
         Follows(r)
  PROVE  LET p == SearchData(c.need, c.pos)
         IN /\ IsFrame(p) /\ p # Again /\ got'[r].no = hdr[p].no /\ got'[r].type = hdr[p].type
            /\ c = reader[r] /\ c.need = got[r].no + 1 /\ ~NotYet(c.need)
            /\ got[r].no \in Nat /\ got[r].no <= frameNo /\ got[r].epoch = epoch
<1> DEFINE p == ReadPos(c)
           h == hdr[p]
<1>1. got \in [Readers -> Deliveries]
  BY DEF OrderInv, TypeOK
<1>2. IsFrame(p) /\ got'[r].no = h.no /\ got'[r].type = h.type
      /\ got'[r].epoch = epoch /\ got'[r].asked = Asked(c)
  BY <1>1 DEF ReadWith, Follows
<1>3. Asked(c) = "next" /\ got[r].epoch = epoch
  BY <1>2 DEF Follows
<1>4. c = reader[r] /\ ~(c.need = 0 /\ c.pos = 0) /\ c.need # Unset
  BY <1>3 DEF Asked
<1>5. c.need = got[r].no + 1 /\ got[r].no <= frameNo /\ got[r].no \in Nat /\ ~c.iframe
  BY <1>1, <1>3, <1>4 DEF OrderInv, CursorOK, Deliveries
<1>6. p # Again
  BY <1>2 DEF IsFrame, Again, Cells
<1>7. p = SearchData(c.need, c.pos) /\ ~NotYet(c.need)
  BY <1>4, <1>5, <1>6 DEF ReadPos
<1> HIDE DEF p
<1> QED BY <1>2, <1>3, <1>4, <1>5, <1>6, <1>7

\* A reader that has seen the stream is not further ahead of it than the next frame.
LEMMA NextOrders ==
  ASSUME AheadLimit > 1, OrderInv, NEW r \in Readers, NEW c \in Cursors, ReadWith(r, c),
         c = reader[r] \/ (c.need = Unset /\ c.pos = Unset /\ c.iframe),
         Follows(r)
  PROVE  Ordered(r)
<1> DEFINE p == SearchData(c.need, c.pos)
           h == hdr[p]
<1>1. frameNo \in Nat /\ AheadLimit \in Nat
  BY ReaderAssumption DEF OrderInv, TypeOK
<1>2. /\ IsFrame(p) /\ p # Again /\ got'[r].no = h.no /\ got'[r].type = h.type
      /\ c.need = got[r].no + 1 /\ ~NotYet(c.need) /\ got[r].no \in Nat /\ got[r].no <= frameNo
  BY NextSearches
<1>3. c.need <= frameNo
  BY <1>1, <1>2 DEF NotYet, Unset
<1>4. h.no \in Nat
  BY <1>2, FrameTyped DEF OrderInv, Frames
<1>5. h.no = c.need \/ (h.no >= c.need /\ (Video => h.type = "I"))
  <2>1. CASE IsFrame(c.pos) /\ hdr[c.pos].no = c.need /\ InDelay(c.pos)
    BY <2>1 DEF SearchData
  <2>2. CASE ~(IsFrame(c.pos) /\ hdr[c.pos].no = c.need /\ InDelay(c.pos))
    <3>1. ~(frameNo >= c.need /\ h.no < c.need) /\ (Video => IsIFrame(p))
      BY <1>2, <2>2 DEF SearchData
    <3> QED BY <1>1, <1>2, <1>3, <1>4, <3>1 DEF IsIFrame
  <2> QED BY <2>1, <2>2
<1> HIDE DEF p, h
<1> QED BY <1>2, <1>4, <1>5 DEF Ordered

\* The other steps give nothing that follows anything.
LEMMA OrderedStep ==
  ASSUME AheadLimit > 1, OrderInv, [Next]_vars, NEW s \in Readers
  PROVE  Ordered(s)
<1> SUFFICES ASSUME Follows(s) PROVE Ordered(s)
  BY DEF Ordered
<1> QED BY FollowsByRead, NextOrders

\* While the writer stays, what a reader gets next is newer than what it has, in a pool of
\* any size and however late it is, as long as the driver waits for more than one frame
\* (av_pool_search_data, and the limit of 30 of av_pool_read_av_data).
THEOREM ForwardAlways ==
  ASSUME AheadLimit > 1
  PROVE  Spec => ReadsGoForward
<1>1. OrderInv /\ [Next]_vars => [\A r \in Readers : Follows(r) => got'[r].no > got[r].no]_got
  BY OrderedStep DEF Ordered
<1> QED BY <1>1, OrderInit, OrderStep, PTL DEF Spec, ReadsGoForward

\* In a video pool, a P frame that does not follow the one before it never reaches a
\* reader of the same stream (av_pool_search_data).
THEOREM NoGapAlways ==
  ASSUME AheadLimit > 1, Video
  PROVE  Spec => NoPAfterGap
<1>1. OrderInv /\ [Next]_vars
        => [\A r \in Readers :
              Follows(r) /\ got'[r].type = "P" => got'[r].no = got[r].no + 1]_got
  BY OrderedStep DEF Ordered
<1> QED BY <1>1, OrderInit, OrderStep, PTL DEF Spec, NoPAfterGap
=============================================================================
