------------------------------- MODULE AvPool -------------------------------
(***************************************************************************)
(* One frame pool of the av_pool kernel driver: the ring buffer through    *)
(* which a camera's stream reaches every consumer of the recorder.  One    *)
(* thread writes frames, any number of readers follow them, each with a    *)
(* cursor of its own kept by the user library (av_pool/lib).               *)
(*                                                                         *)
(* The driver lays frames out on 64-byte boundaries: a 64-byte header, the *)
(* payload rounded up to 64 bytes, and nothing else.  The unit of this     *)
(* model is that 64-byte cell, so a header is one cell and a payload of    *)
(* `len' cells follows it, wrapping at the end of the ring.  A write or a  *)
(* read holds the pool's rw_semaphore from its first to its last access to *)
(* the pool (down_write / down_read), hence each is one action.            *)
(*                                                                         *)
(* Left out: the AV header that precedes a payload is counted in `len';    *)
(* the bytes of a payload are reduced to the write that stored them; the   *)
(* pts of the oldest frames, which nothing reads.                          *)
(***************************************************************************)
EXTENDS Integers, FiniteSets

CONSTANTS
  N,          \* u32BuffSize, in 64-byte cells
  Lens,       \* payload sizes of the frames the encoders produce, in cells
  Video,      \* u8VideoPool: TRUE for a camera, FALSE for the talk channel
  Types,      \* frame types written: "I", "P" and "A" (audio)
  PtsSteps,   \* how far the time stamp moves from one frame to the next
  Readers,    \* open read handles (AVPoolRead)
  MaxDelay,   \* nMaxDelay of a reader, in time-stamp units
  AheadLimit, \* 30: how far ahead of the pool a reader may wait
  FirstGap,   \* 5: how far behind the newest frame a first I frame may be
  BufInit,    \* 256KB: the read buffer a handle starts with, in cells
  MaxWrites,  \* bound: frames written, over all streams
  MaxResets,  \* bound: times a writer (re)opens the pool
  MaxFaults   \* bound: writes whose copy_from_user fails half-way

ASSUME RingAssumption ==
  /\ N \in Nat \ {0}
  /\ Lens \subseteq Nat \ {0}
  /\ \A l \in Lens : l < N
  /\ Video \in BOOLEAN
  /\ Types \subseteq {"I", "P", "A"}
  /\ PtsSteps \subseteq Int

ASSUME ReaderAssumption ==
  /\ MaxDelay \in Nat /\ AheadLimit \in Nat /\ FirstGap \in Nat /\ BufInit \in Nat

ASSUME BoundAssumption ==
  MaxWrites \in Nat /\ MaxResets \in Nat /\ MaxFaults \in Nat

VARIABLES
  hdr,         \* hdr[p]: the frame header in cell p, NoFrame if there is none
  body,        \* body[p]: the write whose payload is in cell p, 0 if none
  w,           \* u32WritePos
  frameNo,     \* u32FrameNo: number of the last frame
  maxLen,      \* u32MaxSize: largest frame since the last reset
  oldest,      \* u32OldestFramePos, u32OldestFrameNo
  oldestI,     \* u32OldestIFramePos, u32OldestIFrameNo
  newestPos,   \* u32NewestFramePos
  newestPts,   \* u64NewestFramePts
  newestIPos,  \* u32NewestIPos
  newestINo,   \* u32NewestIFrameNo
  reader,      \* reader[r]: the cursor kept by the library
  \* History: they observe the run and guard nothing but its bounds.
  writes,      \* writes so far; the number identifies the write
  epoch,       \* resets so far
  faults,      \* failed writes so far
  got          \* got[r]: the last frame delivered to r

pool   == <<hdr, body, w, frameNo, maxLen, oldest, oldestI,
            newestPos, newestPts, newestIPos, newestINo>>
ghosts == <<writes, epoch, faults>>
vars   == <<pool, reader, ghosts, got>>

-----------------------------------------------------------------------------
Cells == 0 .. N-1

\* 0xFFFFFFFF, the value of "no position" and "no number".
Unset == -1

\* The result of a read that finds nothing to deliver (-EAGAIN).
Again == -1

NoFrame == [no |-> 0, len |-> 0, type |-> "none", pts |-> 0, id |-> 0]

Frames == [no : Nat \ {0}, len : Lens, type : Types, pts : Int, id : Nat \ {0}]

\* Mutant: the end of the ring is forgotten.
AdvPastTheEnd(p, k) == p + k

\* (p + k) % u32BuffSize, for a step of at most one turn of the ring.
Adv(p, k) == IF p + k < N THEN p + k ELSE p + k - N

\* How many cells q lies after p, going round the ring.
Dist(p, q) == IF q >= p THEN q - p ELSE q - p + N

\* The payload cells of a frame of len cells whose header is at p.
Payload(p, len) == {q \in Cells : Dist(p, q) \in 1 .. len}

\* av_pool_check_is_frame, av_pool_check_is_iframe
IsFrame(p)  == p \in Cells /\ hdr[p].no # 0
IsIFrame(p) == p \in Cells /\ hdr[p].no # 0 /\ hdr[p].type = "I"

-----------------------------------------------------------------------------
(***************************************************************************)
(* The oldest frames.  Before it overwrites len+1 cells from w, a write    *)
(* moves the two oldest-frame marks past them by walking the frames.       *)
(***************************************************************************)

\* Mutants: the range a write takes is computed as if it never wrapped; the end
\* of a range that wraps is not reduced modulo the size of the ring.
InTheWayNoWrap(p, len) == p >= w /\ p <= w + len + 1
InTheWayNoModulo(p, len) ==
  IF w + len + 1 < N
  THEN p >= w /\ p <= w + len + 1
  ELSE p >= w \/ p <= w + len + 1

\* The cells the write of a payload of len cells will take, and the one
\* after them: the condition of the loops that move a mark.
InTheWay(p, len) ==
  IF w + len + 1 < N
  THEN p >= w /\ p <= w + len + 1
  ELSE p >= w \/ p <= Adv(w, len + 1)

\* The position that follows p in the walk.  The first position of a walk may
\* hold no header (a mark cleared to 0 by an earlier failure): its length is
\* then whatever the payload there says, so that any cell g may follow.
NextPos(p, g) == IF IsFrame(p) THEN Adv(p, hdr[p].len + 1) ELSE g

\* The walk that starts at p: its k-th position, and the cells walked so far.
\* It visits at most N positions before it repeats itself.
Walk(p, g) ==
  LET step[k \in 0 .. N+1] ==
        IF k = 0 THEN [pos |-> p, run |-> 0]
        ELSE LET last == step[k-1]
             IN [pos |-> NextPos(last.pos, g),
                 run |-> last.run + hdr[last.pos].len + 1]
  IN step

\* A walk ends at the first position that holds no header or is out of the way.
Ends(step, len, k) == ~IsFrame(step[k].pos) \/ ~InTheWay(step[k].pos, len)

\* The loops of the two refresh functions leave (the pool's semaphore is held
\* for writing while they run).
WalkTerminates(p, g, len) ==
  InTheWay(p, len) => \E k \in 1 .. N+1 : Ends(Walk(p, g), len, k)

WalkEnd(p, g, len) ==
  LET step == Walk(p, g)
      k    == CHOOSE k \in 1 .. N+1 :
                Ends(step, len, k) /\ \A j \in 1 .. k-1 : ~Ends(step, len, j)
  IN step[k].pos

\* A mark whose walk failed: the number is cleared, the position becomes 0.
LostMark == [pos |-> 0, no |-> Unset]

\* av_pool_refresh_oldest_frame_pos
RefreshOldest(g, len) ==
  LET end == WalkEnd(oldest.pos, g, len)
  IN IF ~InTheWay(oldest.pos, len) THEN oldest
     ELSE IF IsFrame(end) THEN [pos |-> end, no |-> hdr[end].no]
     ELSE LostMark

\* The position of the first I frame from p on; the search gives up at a cell
\* with no header and after one turn of the ring.
FirstIFrom(p) ==
  LET step == Walk(p, p)
      seen == {k \in 0 .. N : step[k].run < N /\ \A j \in 0 .. k : IsFrame(step[j].pos)}
      hits == {k \in seen : IsIFrame(step[k].pos)}
  IN IF hits = {} THEN Unset
     ELSE step[CHOOSE k \in hits : \A j \in hits : k <= j].pos

\* av_pool_refresh_oldest_iframe_pos
RefreshOldestI(g, len) ==
  LET end  == WalkEnd(oldestI.pos, g, len)
      next == FirstIFrom(end)
  IN IF ~InTheWay(oldestI.pos, len) THEN oldestI
     ELSE IF IsFrame(end) /\ IsIFrame(next) THEN [pos |-> next, no |-> hdr[next].no]
     ELSE LostMark

-----------------------------------------------------------------------------
(***************************************************************************)
(* Writing.                                                                *)
(***************************************************************************)

\* What av_pool_write_av_data does before it copies the payload: the marks of
\* the newest and of the oldest frames, and the number of the frame.  Note that
\* newestINo takes u32FrameNo before the increment.
Stamp(len, type, pts, g) ==
  /\ newestPos' = w /\ newestPts' = pts
  /\ IF type = "I"
     THEN newestIPos' = w /\ newestINo' = frameNo
     ELSE UNCHANGED <<newestIPos, newestINo>>
  /\ oldest' = IF oldest.pos = Unset THEN [pos |-> w, no |-> frameNo + 1]
               ELSE RefreshOldest(g, len)
  /\ oldestI' = IF Video /\ oldestI.pos # Unset
                  THEN IF oldest.pos # Unset THEN RefreshOldestI(g, len) ELSE oldestI
                ELSE IF Video /\ type = "I" THEN [pos |-> w, no |-> frameNo + 1]
                ELSE oldestI
  /\ frameNo' = frameNo + 1
  /\ maxLen' = IF len > maxLen THEN len ELSE maxLen
  /\ writes' = writes + 1

\* Cell w becomes the header of the frame and the n cells after it payload.
Store(n, len, type, pts) ==
  LET new == [no |-> frameNo + 1, len |-> len, type |-> type, pts |-> pts,
              id |-> writes + 1]
  IN /\ hdr' = [q \in Cells |-> IF q = w THEN new
                                ELSE IF q \in Payload(w, n) THEN NoFrame
                                ELSE hdr[q]]
     /\ body' = [q \in Cells |-> IF q = w THEN 0
                                 ELSE IF q \in Payload(w, n) THEN writes + 1
                                 ELSE body[q]]

\* The cell a walk may reach from a mark that holds no header.
Garbage ==
  IF \A m \in {oldest, oldestI} : m.pos = Unset \/ IsFrame(m.pos) THEN {0} ELSE Cells

\* Mutant: the write position moves by the payload without its header.
WriteFrameShortStep(len, type, pts, g) ==
  /\ writes < MaxWrites
  /\ Stamp(len, type, pts, g)
  /\ Store(len, len, type, pts)
  /\ w' = Adv(w, len)
  /\ UNCHANGED <<reader, epoch, faults, got>>

\* av_pool_write_frame: the frame is stored and the write position moves on.
\* The early return -ENOMEM is for payloads no ring of this size can hold, which
\* RingAssumption excludes (with one cell to spare for the header).
WriteFrame(len, type, pts, g) ==
  /\ writes < MaxWrites
  /\ Stamp(len, type, pts, g)
  /\ Store(len, len, type, pts)
  /\ w' = Adv(w, len + 1)
  /\ UNCHANGED <<reader, epoch, faults, got>>

\* Mutant: the write position moves on although the copy failed.
WriteFaultMovesOn(n, len, type, pts, g) ==
  /\ writes < MaxWrites /\ faults < MaxFaults
  /\ n < len
  /\ Stamp(len, type, pts, g)
  /\ Store(n, len, type, pts)
  /\ faults' = faults + 1
  /\ w' = Adv(w, len + 1)
  /\ UNCHANGED <<reader, epoch, got>>

\* av_pool_write_frame when copy_from_user fails after n cells: av_pool_write_
\* av_data returns -EFAULT before it moves the write position, and its caller
\* ignores the result.
WriteFault(n, len, type, pts, g) ==
  /\ writes < MaxWrites /\ faults < MaxFaults
  /\ n < len
  /\ Stamp(len, type, pts, g)
  /\ Store(n, len, type, pts)
  /\ faults' = faults + 1
  /\ UNCHANGED <<w, reader, epoch, got>>

\* Mutant: the memset of the buffer is forgotten.
ResetKeepsFrames ==
  /\ epoch < MaxResets
  /\ epoch' = epoch + 1
  /\ w' = 0 /\ frameNo' = 0 /\ maxLen' = 0
  /\ oldest' = [pos |-> Unset, no |-> 0]
  /\ oldestI' = [pos |-> Unset, no |-> 0]
  /\ newestPos' = 0 /\ newestPts' = 0 /\ newestIPos' = 0 /\ newestINo' = 0
  /\ UNCHANGED <<hdr, body, reader, writes, faults, got>>

\* av_pool_reset_pool, which opens every stream (av_pool_start_write_frame).
Reset ==
  /\ epoch < MaxResets
  /\ epoch' = epoch + 1
  /\ hdr' = [q \in Cells |-> NoFrame]
  /\ body' = [q \in Cells |-> 0]
  /\ w' = 0 /\ frameNo' = 0 /\ maxLen' = 0
  /\ oldest' = [pos |-> Unset, no |-> 0]
  /\ oldestI' = [pos |-> Unset, no |-> 0]
  /\ newestPos' = 0 /\ newestPts' = 0 /\ newestIPos' = 0 /\ newestINo' = 0
  /\ UNCHANGED <<reader, writes, faults, got>>

-----------------------------------------------------------------------------
(***************************************************************************)
(* Reading.                                                                *)
(***************************************************************************)

\* av_pool_check_frame_in_delay
InDelay(p) ==
  IF newestPts >= hdr[p].pts
  THEN newestPts - hdr[p].pts < MaxDelay
  ELSE hdr[p].pts + MaxDelay > newestPts

\* Mutants: a reader that is past the newest I frame is sent back to it; a late
\* video reader is sent to the newest frame, not I frame; a reader that is not late is
\* sent to a newer I frame as well.
SearchFallsBack(need, pos) ==
  LET fallback == IF Video THEN newestIPos ELSE newestPos
  IN IF IsFrame(pos) /\ hdr[pos].no = need /\ InDelay(pos) THEN pos
     ELSE IF IsFrame(fallback) /\ (Video => IsIFrame(fallback)) THEN fallback
     ELSE Again
SearchNewest(need, pos) ==
  IF IsFrame(pos) /\ hdr[pos].no = need /\ InDelay(pos) THEN pos
  ELSE IF IsFrame(newestPos) /\ ~(frameNo >= need /\ hdr[newestPos].no < need)
       THEN newestPos
  ELSE Again
SearchSkips(need, pos) ==
  IF IsIFrame(newestIPos) /\ hdr[newestIPos].no >= need THEN newestIPos
  ELSE IF IsFrame(pos) /\ hdr[pos].no = need THEN pos
  ELSE Again

\* av_pool_search_data: the frame asked for if it is still at the position
\* where the reader left off and not too old; else the newest frame a reader
\* can start from, unless the reader is past it.
SearchData(need, pos) ==
  LET fallback == IF Video THEN newestIPos ELSE newestPos
  IN IF IsFrame(pos) /\ hdr[pos].no = need /\ InDelay(pos) THEN pos
     ELSE IF /\ IsFrame(fallback)
             /\ ~(frameNo >= need /\ hdr[fallback].no < need)
             /\ Video => IsIFrame(fallback)
          THEN fallback
     ELSE Again

\* Mutant: the frame after the newest one is taken for one that is written.
NotYetOffByOne(need) ==
  need # Unset /\ need > frameNo + 1 /\ need - frameNo < AheadLimit

\* The frame asked for is not written yet; a reader further ahead than that has
\* seen the numbers start again.
NotYet(need) == need # Unset /\ need > frameNo /\ need - frameNo < AheadLimit

\* av_pool_read_av_data: the position a read of cursor c copies from.
ReadPos(c) ==
  IF NotYet(c.need) \/ maxLen = 0 THEN Again
  ELSE IF c.need = 0 /\ c.pos = 0
  THEN IF Video /\ c.iframe /\ frameNo - newestINo > FirstGap THEN Again ELSE newestIPos
  ELSE IF c.need = Unset /\ c.pos = Unset
  THEN IF Video THEN oldestI.pos ELSE oldest.pos
  ELSE IF c.iframe /\ Video
  THEN IF IsIFrame(newestIPos) /\ c.need <= hdr[newestIPos].no THEN newestIPos ELSE Again
  ELSE SearchData(c.need, c.pos)

Closed == [open |-> FALSE, iframe |-> FALSE, need |-> 0, pos |-> 0,
           buf |-> 0, short |-> FALSE]

NothingYet == [id |-> 0, no |-> 0, type |-> "none", parts |-> {}, epoch |-> 0,
               asked |-> "none"]

\* av_pool_start_read_frame
StartRead(r) ==
  /\ ~reader[r].open
  /\ reader' = [reader EXCEPT ![r] = [Closed EXCEPT !.open = TRUE, !.iframe = TRUE,
                                                    !.buf = BufInit]]
  /\ got' = [got EXCEPT ![r] = NothingYet]
  /\ UNCHANGED <<pool, ghosts>>

\* av_pool_stop_read_frame
StopRead(r) ==
  /\ reader[r].open
  /\ reader' = [reader EXCEPT ![r] = Closed]
  /\ got' = [got EXCEPT ![r] = NothingYet]
  /\ UNCHANGED <<pool, ghosts>>

\* How cursor c asks: for a first frame, for the oldest one, or for the next one.
Asked(c) == IF c.need = 0 /\ c.pos = 0 THEN "first"
            ELSE IF c.need = Unset THEN "oldest" ELSE "next"

\* One ioctl of av_pool_read_frame with cursor c: the frame at ReadPos(c) is
\* copied out and the library advances its cursor; or the frame does not fit
\* the buffer (-ENOMEM); or there is nothing to read and the cursor stays.
ReadWith(r, c) ==
  LET p == ReadPos(c)
      h == hdr[p]
  IN /\ IF ~IsFrame(p)
        THEN /\ reader' = [reader EXCEPT ![r] = c]
             /\ UNCHANGED got
        ELSE IF h.len > c.buf
        THEN /\ reader' = [reader EXCEPT ![r] = [c EXCEPT !.short = TRUE]]
             /\ UNCHANGED got
        ELSE /\ reader' = [reader EXCEPT ![r] =
                  [c EXCEPT !.iframe = FALSE, !.need = h.no + 1,
                            !.pos = Adv(p, h.len + 1)]]
             /\ got' = [got EXCEPT ![r] =
                  [id |-> h.id, no |-> h.no, type |-> h.type,
                   parts |-> {body[q] : q \in Payload(p, h.len)},
                   epoch |-> epoch, asked |-> Asked(c)]]
     /\ UNCHANGED <<pool, ghosts>>

\* av_pool_read_frame of the library.
Read(r) == reader[r].open /\ ~reader[r].short /\ ReadWith(r, reader[r])

\* av_pool_read_frame with nTimeOut = -1, "force an I frame".
ReadOldest(r) ==
  /\ reader[r].open /\ ~reader[r].short
  /\ ReadWith(r, [reader[r] EXCEPT !.iframe = TRUE, !.need = Unset, !.pos = Unset])

\* The library's answer to -ENOMEM: the buffer grows to the largest frame the
\* pool holds, an ioctl of its own.
GrowBuffer(r) ==
  /\ reader[r].short
  /\ reader' = [reader EXCEPT ![r].short = FALSE,
                              ![r].buf = IF @ < maxLen THEN maxLen ELSE @]
  /\ UNCHANGED <<pool, ghosts, got>>

-----------------------------------------------------------------------------
Init ==
  /\ hdr = [p \in Cells |-> NoFrame]
  /\ body = [p \in Cells |-> 0]
  /\ w = 0 /\ frameNo = 0 /\ maxLen = 0
  /\ oldest = [pos |-> Unset, no |-> 0]
  /\ oldestI = [pos |-> Unset, no |-> 0]
  /\ newestPos = 0 /\ newestPts = 0 /\ newestIPos = 0 /\ newestINo = 0
  /\ reader = [r \in Readers |-> Closed]
  /\ got = [r \in Readers |-> NothingYet]
  /\ writes = 0 /\ epoch = 0 /\ faults = 0

Write ==
  \E len \in Lens, type \in Types, d \in PtsSteps, g \in Garbage :
    WriteFrame(len, type, newestPts + d, g)

Fault ==
  \E len \in Lens, type \in Types, d \in PtsSteps, g \in Garbage :
    \E n \in 0 .. len-1 : WriteFault(n, len, type, newestPts + d, g)

Next ==
  \/ Write
  \/ Fault
  \/ Reset
  \/ \E r \in Readers :
       StartRead(r) \/ StopRead(r) \/ Read(r) \/ ReadOldest(r) \/ GrowBuffer(r)

Spec == Init /\ [][Next]_vars

-----------------------------------------------------------------------------
(***************************************************************************)
(* Properties.                                                             *)
(***************************************************************************)

Marks == [pos : Cells \cup {Unset}, no : Nat \cup {Unset}]

Cursors == [open : BOOLEAN, iframe : BOOLEAN, need : Nat \cup {Unset},
            pos : Cells \cup {Unset}, buf : Nat, short : BOOLEAN]

Deliveries == [id : Nat, no : Nat, type : Types \cup {"none"}, parts : SUBSET Nat,
               epoch : Nat, asked : {"none", "first", "oldest", "next"}]

\* Every variable has its type: in particular the write position and the marks
\* stay inside the ring.
TypeOK ==
  /\ hdr \in [Cells -> Frames \cup {NoFrame}]
  /\ body \in [Cells -> Nat]
  /\ w \in Cells /\ frameNo \in Nat /\ maxLen \in Nat
  /\ oldest \in Marks /\ oldestI \in Marks
  /\ newestPos \in Cells /\ newestPts \in Int
  /\ newestIPos \in Cells /\ newestINo \in Nat
  /\ reader \in [Readers -> Cursors]
  /\ got \in [Readers -> Deliveries]
  /\ writes \in Nat /\ epoch \in Nat /\ faults \in Nat

\* The frame whose header is at p has all of its payload.
Whole(p) == \A q \in Payload(p, hdr[p].len) : body[q] = hdr[p].id

\* A frame a reader may still be handed is whole: the write that wraps over it
\* destroys the header before, or together with, any cell of the payload.  Only
\* the header at the write position may be that of a frame whose copy failed,
\* and the next write replaces it.
FramesAreWhole ==
  \A p \in Cells : hdr[p].no # 0 /\ (p # w \/ faults = 0) => Whole(p)

\* What a read returns is one frame: header and payload are of one write,
\* although readers take no lock that spans two reads and the writer may have
\* wrapped round since the cursor was set (av_pool_read_av_data).  Only the frame
\* at the write position may be one whose copy failed.
DeliveredIntact ==
  [][\A r \in Readers :
       got'[r] # got[r] /\ (got'[r].id # hdr[w].id \/ faults = 0)
         => got'[r].parts \subseteq {got'[r].id}]_got

\* A read that follows another one of the same reader in the same stream.
Follows(r) == got'[r] # got[r] /\ got'[r].asked = "next" /\ got'[r].epoch = got[r].epoch

\* While the writer stays, a reader that asks for the next frame never gets a
\* frame again, nor an older one: it goes on, or jumps to a newer I frame.
ReadsGoForward ==
  [][\A r \in Readers : Follows(r) => got'[r].no > got[r].no]_got

\* While the writer stays, a P frame reaches a reader right after the frame that
\* precedes it in the stream: after a gap the reader restarts from an I frame,
\* so a decoder never sees a P frame without what it refers to.
NoPAfterGap ==
  [][\A r \in Readers :
       Follows(r) /\ got'[r].type = "P" => got'[r].no = got[r].no + 1]_got

\* While no copy fails a reader misses a frame only if the writer has overwritten it or it
\* is older than the reader accepts: as long as the frame after the last one is in the
\* pool and recent, that is what the reader gets (av_pool_search_data), although its place
\* is remembered from the read before.
MissedOnlyIfLate ==
  [][\A r \in Readers :
       Follows(r) /\ faults = 0 /\ got'[r].no # got[r].no + 1
         => \A p \in Cells : hdr[p].no = got[r].no + 1 => ~InDelay(p)]_got

\* The frames in the pool form one chain: from every frame the position its length
\* leads to holds the next one, or is the write position and the frame is the newest
\* (av_pool_write_av_data), so that a reader that keeps up never misses one and the walks
\* of the refresh functions stay on frames.  A copy that fails breaks nothing but leaves
\* its number out; its own frame, at the write position, leads nowhere.
FramesAreChained ==
  \A p \in Cells :
    IsFrame(p) /\ (p # w \/ p # newestPos) =>
      LET next == Adv(p, hdr[p].len + 1)
      IN IF next = w THEN hdr[p].no >= frameNo - faults
         ELSE hdr[next].no \in hdr[p].no + 1 .. hdr[p].no + 1 + faults

\* The oldest mark, once set, is on a frame, whatever is written and whichever copies
\* fail: no write overwrites it without moving it on (av_pool_refresh_oldest_frame_pos).
\* It is the number of that frame, or none after a copy that failed: the refresh that
\* loses the mark puts it where the first frame of the stream is written again.
OldestIsFrame ==
  oldest.pos # Unset =>
    /\ IsFrame(oldest.pos)
    /\ oldest.no = hdr[oldest.pos].no \/ (oldest.no = Unset /\ faults # 0)

\* The loops that move the oldest marks end: they run in the kernel with the
\* pool's semaphore held, and nothing else bounds them.
RefreshTerminates ==
  \A len \in Lens, g \in Garbage :
    /\ oldest.pos # Unset => WalkTerminates(oldest.pos, g, len)
    /\ oldestI.pos # Unset => WalkTerminates(oldestI.pos, g, len)
=============================================================================
