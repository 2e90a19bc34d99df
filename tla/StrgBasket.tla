----------------------------- MODULE StrgBasket -----------------------------
(***************************************************************************)
(* One basket, the file a channel records into                             *)
(* (storage/app/src/strg_basket.c), and what is left of it after a crash.  *)
(*                                                                         *)
(* The file begins with a global record and the headers of the fragments,  *)
(* then come the index entries of the I frames and the frames themselves.  *)
(* While a fragment is written its header says no more than where it       *)
(* begins; how long it is stays in memory until it is stopped.  After a    *)
(* crash strg_basket_scan finds that out from the index.                   *)
(*                                                                         *)
(* file is what the process reads and writes, disk what is there after a   *)
(* power cut.  The kernel writes pages when it likes, fdatasync writes     *)
(* them all.  The frames are counted in groups that begin with an I frame; *)
(* a group takes one index entry and one unit of space, and its number     *)
(* stands for the time and the frame number of its I frame, both of which  *)
(* grow.                                                                   *)
(*                                                                         *)
(* Left out: the clock set back while old index entries are there; a power *)
(* cut in the half minute after a kill in which the kernel still has pages *)
(* to write; write errors; the copies of headers in the global file of the *)
(* disk; and what StrgDisk has, who gets which basket.                     *)
(***************************************************************************)
EXTENDS Integers, Sequences, FiniteSetsExt

CONSTANTS
  Frags,     \* BASKET_FRAGMENT_NUM
  Slots,     \* groups that fit in the basket
  Shared,    \* headers that are in one page with the global record
  Span,      \* groups in ten seconds, the limit of strg_basket_scan_iframe
  MaxUse,    \* bound: how often the basket is reset
  MaxGop,    \* bound: groups written
  MaxCrash,  \* bound: crashes
  Nothing,   \* what is in a part of the file that was never written
  Lost, None \* see StrgLog

ASSUME BasketAssumption ==
  /\ Frags \in Nat \ {0} /\ Slots \in Nat \ {0} /\ Shared \in 1 .. Frags
  /\ Span \in Nat /\ MaxUse \in Nat /\ MaxGop \in Nat /\ MaxCrash \in Nat
  /\ Nothing \notin Nat /\ Lost \notin Nat

VARIABLES
  file,    \* use and num of the global record, hdr, slot and data, as read
  disk,    \* the same, as it is after a power cut
  use,     \* bg.use_cnt in memory
  list,    \* bf_list in memory
  phase,   \* where the process is
  gop,     \* groups written so far, which is also the time
  crashes, \* crashes so far
  cut      \* history: one of them was a power cut

vars == <<file, disk, use, list, phase, gop, crashes, cut>>

-----------------------------------------------------------------------------
\* A header: the use of the basket it is of, its first group and whether begin_time is
\* later than that, its first index entry, its iframe_num, and whether it is being written.
Header == [use : 0 .. MaxUse, begin : 1 .. MaxGop + 1, late : BOOLEAN, first : 1 .. Slots,
           n : 0 .. Slots, writing : BOOLEAN]

\* An index entry, and frames: the use, and the group.
Entry == [use : 0 .. MaxUse, gop : 1 .. MaxGop]

Files == [use : 0 .. MaxUse, num : 0 .. Frags, hdr : [1 .. Frags -> Header \cup {Nothing}],
          slot : [1 .. Slots -> Entry \cup {Nothing}], data : [1 .. Slots -> Entry \cup {Nothing}]]

Blank == [use |-> 0, num |-> 0, hdr |-> [k \in 1 .. Frags |-> Nothing],
          slot |-> [i \in 1 .. Slots |-> Nothing], data |-> [i \in 1 .. Slots |-> Nothing]]

\* What was never written is no header and no entry, and None is no fragment.
ASSUME NothingAssumption ==
  Nothing \notin Header \cup Entry /\ None \notin Seq(Nat \cup {Lost})

\* The first page of g, and the other parts, those in new written and those not in it
\* as they are in f.
FirstPage(f, g) ==
  [f EXCEPT !.use = g.use, !.num = g.num,
            !.hdr = [k \in 1 .. Frags |-> IF k <= Shared THEN g.hdr[k] ELSE f.hdr[k]]]

Others(f, g, hdrs, slots, datas) ==
  [f EXCEPT !.hdr = [k \in 1 .. Frags |-> IF k \in hdrs THEN g.hdr[k] ELSE f.hdr[k]],
            !.slot = [i \in 1 .. Slots |-> IF i \in slots THEN g.slot[i] ELSE f.slot[i]],
            !.data = [i \in 1 .. Slots |-> IF i \in datas THEN g.data[i] ELSE f.data[i]]]

Differ(f, g) == {i \in DOMAIN f : f[i] # g[i]}

\* Where the next fragment begins.
EndMutant == Len(list) + 1                                \* one entry for a fragment
End == IF list = <<>> THEN 1 ELSE list[Len(list)].first + list[Len(list)].n

-----------------------------------------------------------------------------
(***************************************************************************)
(* strg_basket_scan.                                                       *)
(***************************************************************************)

\* The index entry of the first I frame, written in the ten seconds after begin_time.
Found(f, h) ==
  LET e == f.slot[h.first]
  IN e # Nothing /\ e.use = h.use /\ ~h.late /\ e.gop - h.begin \in 0 .. Span

\* An entry that goes on from the first one.
FollowsMutant(f, h, i) == f.slot[i] # Nothing /\ f.slot[i].use = h.use    \* any time
Follows(f, h, i) ==
  LET e == f.slot[i]
  IN e # Nothing /\ e.use = h.use /\ e.gop - f.slot[h.first].gop \in 1 .. Span

\* strg_basket_scan_iframe: the groups up to the last I frame that follows.
Salvage(f, h) ==
  Max({n \in 0 .. Slots - h.first : \A i \in 1 .. n : Follows(f, h, h.first + i)})

Good(f, k) ==
  LET h == f.hdr[k]
  IN h # Nothing /\ (h.writing => Found(f, h) /\ Salvage(f, h) > 0)

Restored(f, k) ==
  LET h == f.hdr[k]
  IN IF h.writing THEN [h EXCEPT !.n = Salvage(f, h), !.writing = FALSE] ELSE h

\* The scan ends at the first header that is of no use.
Recovered(f) ==
  [k \in 1 .. Max({m \in 0 .. f.num : \A k \in 1 .. m : Good(f, k)}) |-> Restored(f, k)]

-----------------------------------------------------------------------------
Init ==
  /\ file = Blank /\ disk = Blank
  /\ use = 0 /\ list = <<>> /\ phase = "idle" /\ gop = 0 /\ crashes = 0 /\ cut = FALSE

\* There is room for a group and its index entry.
RoomMutant == End <= Slots + 1                            \* off by one
Room == End <= Slots

\* strg_basket_reset: the basket is given to a channel; nothing is synchronised.
Reset ==
  /\ phase = "idle" /\ use < MaxUse
  /\ use' = use + 1 /\ list' = <<>>
  /\ file' = [file EXCEPT !.use = use', !.num = 0]
  /\ phase' = "reset"
  /\ UNCHANGED <<disk, gop, crashes, cut>>

\* strg_basket_write_start: the header, the global record, fdatasync.  The time of the
\* first frame may have been taken before begin_time.
StartHeader ==
  LET k == Len(list) + 1
  IN /\ phase = "reset" \/ (phase = "idle" /\ use > 0)
     /\ k <= Frags /\ Room
     /\ \E late \in BOOLEAN :
          file' = [file EXCEPT !.hdr[k] = [use |-> use, begin |-> gop + 1, late |-> late,
                                           first |-> End, n |-> 0, writing |-> TRUE]]
     /\ phase' = "header"
     /\ UNCHANGED <<disk, use, list, gop, crashes, cut>>

StartGlobal ==
  /\ phase = "header"
  /\ file' = [file EXCEPT !.num = Len(list) + 1]
  /\ phase' = "global"
  /\ UNCHANGED <<disk, use, list, gop, crashes, cut>>

StartSync ==
  /\ phase = "global"
  /\ disk' = file
  /\ list' = Append(list, file.hdr[Len(list) + 1])
  /\ phase' = "writing"
  /\ UNCHANGED <<file, use, gop, crashes, cut>>

\* strg_basket_write: frames, and the index entry of the I frame among them.
Write ==
  /\ phase = "writing" /\ Room /\ gop < MaxGop
  /\ gop' = gop + 1
  /\ file' = [file EXCEPT !.data[End] = [use |-> use, gop |-> gop'],
                          !.slot[End] = [use |-> use, gop |-> gop']]
  /\ list' = [list EXCEPT ![Len(list)].n = @ + 1, ![Len(list)].late = FALSE]
  /\ UNCHANGED <<disk, use, phase, crashes, cut>>

\* strg_basket_write_stop: the header, then fdatasync.
StopHeader ==
  LET k == Len(list)
  IN /\ phase = "writing"
     /\ list' = [list EXCEPT ![k].writing = FALSE]
     /\ file' = [file EXCEPT !.hdr[k] = list'[k]]
     /\ phase' = "stopping"
     /\ UNCHANGED <<disk, use, gop, crashes, cut>>

SyncedMutant == Others(disk, file, 1 .. Frags, 1 .. Slots, {})   \* no fdatasync for the frames
Synced == file

StopSync ==
  /\ phase = "stopping"
  /\ disk' = Synced
  /\ phase' = "idle"
  /\ UNCHANGED <<file, use, list, gop, crashes, cut>>

-----------------------------------------------------------------------------
(***************************************************************************)
(* The kernel, and crashes.                                                *)
(***************************************************************************)

\* The first page is written; the others are, or not, when the power fails.
WriteBack ==
  /\ phase # "down"
  /\ disk' = FirstPage(disk, file)
  /\ UNCHANGED <<file, use, list, phase, gop, crashes, cut>>

Down ==
  /\ phase # "down" /\ crashes < MaxCrash
  /\ phase' = "down" /\ use' = 0 /\ list' = <<>> /\ crashes' = crashes + 1
  /\ UNCHANGED gop

Kill == Down /\ disk' = file /\ UNCHANGED <<file, cut>>

PowerCut ==
  /\ Down
  /\ \E first \in BOOLEAN, hdrs \in SUBSET {k \in Differ(disk.hdr, file.hdr) : k > Shared},
        slots \in SUBSET Differ(disk.slot, file.slot), datas \in SUBSET Differ(disk.data, file.data) :
       disk' = Others(IF first THEN FirstPage(disk, file) ELSE disk, file, hdrs, slots, datas)
  /\ file' = disk' /\ cut' = TRUE

\* strg_basket_scan, whose writes are synchronous.
Scan ==
  LET found == Recovered(file)
  IN /\ phase = "down"
     /\ list' = found /\ use' = file.use
     /\ file' = [file EXCEPT !.num = Len(found),
                             !.hdr = [k \in 1 .. Frags |-> IF k <= Len(found) THEN found[k] ELSE @[k]]]
     /\ disk' = file'
     /\ phase' = "idle"
     /\ UNCHANGED <<gop, crashes, cut>>

Next ==
  \/ Reset \/ StartHeader \/ StartGlobal \/ StartSync \/ Write \/ StopHeader \/ StopSync
  \/ WriteBack \/ Kill \/ PowerCut \/ Scan

Spec == Init /\ [][Next]_vars

-----------------------------------------------------------------------------
TypeOK ==
  /\ file \in Files /\ disk \in Files
  /\ use \in 0 .. MaxUse /\ list \in Seq(Header) /\ Len(list) <= Frags
  /\ phase \in {"idle", "reset", "header", "global", "writing", "stopping", "down"}
  /\ gop \in 0 .. MaxGop /\ crashes \in 0 .. MaxCrash /\ cut \in BOOLEAN

\* What a player gets who reads a fragment.  A part of the file that was lost may still
\* hold an older recording, which is no better.
Own(e, h) == e # Nothing /\ e.use = h.use /\ e.gop >= h.begin

Held(f, h) ==
  [i \in 1 .. h.n |-> LET p == h.first + i - 1
                      IN IF Own(f.data[p], h) /\ f.data[p] = f.slot[p] THEN f.data[p].gop ELSE Lost]

Contents(f, l) == [k \in 1 .. Len(l) |-> Held(f, l[k])]

Open == phase \in {"writing", "stopping"}

\* While the process is up what it holds counts, while it is down what it will find, and
\* until a start is synchronised, what is on the disk.
ClosedNow ==
  IF Open THEN Contents(file, SubSeq(list, 1, Len(list) - 1))
  ELSE IF phase \in {"reset", "header", "global"} THEN Contents(disk, Recovered(disk))
  ELSE IF phase = "down" THEN Contents(file, Recovered(file))
  ELSE Contents(file, list)

TailNow == IF Open THEN Held(file, list[Len(list)]) ELSE None

Log == INSTANCE StrgLog WITH Gop <- 1 .. MaxGop, closed <- ClosedNow, tail <- TailNow

\* strg_basket.c:352 and 1078: the basket keeps what StrgLog promises: a fragment that was
\* stopped is there, frame by frame, after any crash and any number of them, and of one
\* that was not its beginning is there or nothing, never something else.
KeepsLog == Log!LogSpec

\* strg_basket.c:1002: what is recovered after a process died is readable to the end.
ReadableUnlessCut == ~cut => \A k \in DOMAIN ClosedNow : Lost \notin Range(ClosedNow[k])

\* strg_basket.c:237: the fragments of a basket lie one after the other, also those begun
\* behind one that was recovered.
FragmentsApart ==
  \A k \in 1 .. Len(list) - 1 : list[k + 1].first = list[k].first + list[k].n

\* strg_basket.c:1002: what a process that dies while it writes leaves of the fragment: all
\* groups but the last, up to the limit of the scan; old index entries behind them change
\* nothing. If that is none, or its first frame was too early, the fragment is given up.
KillCosts ==
  [][phase = "writing" /\ phase' = "down" /\ file' = file =>
       LET k == Len(list)
           n == list[k].n
           kept == IF file.hdr[k].late \/ n <= 1 THEN 0 ELSE IF n - 1 < Span THEN n - 1 ELSE Span
       IN /\ Len(Recovered(file)) = IF kept = 0 THEN k - 1 ELSE k
          /\ kept # 0 => Recovered(file)[k].n = kept]_vars

\* strg_basket.c:991, of the scan of the index: "it only may throw away the data of the last
\* gop".  It throws away more, if the fragment is longer than the limit of the scan.
OnlyLastGop ==
  [][phase = "writing" /\ phase' = "down" /\ file' = file /\ ~file.hdr[Len(list)].late =>
       LET n == list[Len(list)].n
       IN n > 1 => Len(Recovered(file)) = Len(list) /\ Recovered(file)[Len(list)].n >= n - 1]_vars
=============================================================================
