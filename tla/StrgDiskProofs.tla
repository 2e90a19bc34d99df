--------------------------- MODULE StrgDiskProofs ---------------------------
(***************************************************************************)
(* What TLAPS proves of StrgDisk, for any number of baskets, channels and  *)
(* players: a basket is in one place at a time, and no recording that is   *)
(* played is overwritten as long as the flag says so.                      *)
(***************************************************************************)
EXTENDS StrgDisk, TLAPS

\* A thread holds a basket exactly while it writes, and asks for one only while it
\* does not.
Owned ==
  \A c \in Chn : /\ cur[c] = None <=> rec[c] \in {"off", "idle"}
                 /\ mng.chn = c => rec[c] = "idle"

\* The flag of a played basket is there, unless a race or a restart spoilt it.
FlagStands == \A b \in Basket : ref[b] > 0 /\ b \notin wrong => bg[b].reading

DiskInv ==
  TypeOK /\ Owned /\ EachBasketOnce /\ ListsMatchUse /\ FlagStands /\ UnsavedIsScanned

\* The part of TypeOK that says what is known of a basket.
Infos == [chn : Chn \cup {None}, reading : BOOLEAN, room : 0 .. Units]

-----------------------------------------------------------------------------
\* A new disk has all its baskets to be overwritten.
LEMMA DiskInit == Init => DiskInv
<1> SUFFICES ASSUME Init PROVE DiskInv
  OBVIOUS
<1>1. [chn |-> None, reading |-> FALSE, room |-> Units] \in Infos
  BY DiskAssumption DEF Infos
<1>2. TypeOK
  BY <1>1 DEF Init, TypeOK, Infos, NoStart
<1>3. Owned /\ UnsavedIsScanned
  BY DiskAssumption DEF Init, Owned, UnsavedIsScanned, NoStart
<1>4. EachBasketOnce /\ ListsMatchUse /\ FlagStands
  BY DiskAssumption DEF Init, EachBasketOnce, ListsMatchUse, FlagStands
<1> QED
  BY <1>2, <1>3, <1>4 DEF DiskInv

-----------------------------------------------------------------------------
(* A channel takes a basket. *)

\* A record thread begins.
LEMMA BeginStep == ASSUME DiskInv, NEW c \in Chn, Begin(c) PROVE DiskInv'
BY DiskAssumption
   DEF DiskInv, TypeOK, Owned, EachBasketOnce, ListsMatchUse, FlagStands, UnsavedIsScanned,
       Begin, lists, files

\* It takes the lock of the manager, with no basket in hand.
LEMMA TakeMngStep == ASSUME DiskInv, NEW c \in Chn, TakeMng(c) PROVE DiskInv'
BY DiskAssumption
   DEF DiskInv, TypeOK, Owned, EachBasketOnce, ListsMatchUse, FlagStands, UnsavedIsScanned,
       TakeMng, MngFree, lists, files

\* It goes on in a basket it has begun, which leaves the list of this round.
LEMMA ContinueStep == ASSUME DiskInv, NEW c \in Chn, Continue(c) PROVE DiskInv'
<1>1. PICK b \in FromNew(c) : new' = new \ {b} /\ Written(c, b, bg[b].reading)
  BY DEF Continue
<1>2. b \in new /\ b \in Basket /\ b # None /\ cur[c] = None
  BY <1>1, DiskAssumption DEF FromNew, DiskInv, TypeOK, Owned, Continue
<1>3. TypeOK'
  BY <1>1, <1>2, DiskAssumption DEF DiskInv, TypeOK, Continue, Written, NoStart
<1>4. Owned'
  BY <1>1, <1>2, DiskAssumption DEF DiskInv, TypeOK, Owned, Continue, Written, NoStart
<1>5. EachBasketOnce' /\ ListsMatchUse'
  BY <1>1, <1>2, DiskAssumption DEF DiskInv, TypeOK, EachBasketOnce, ListsMatchUse, Continue, Written
<1>6. FlagStands' /\ UnsavedIsScanned'
  BY <1>1, <1>2 DEF DiskInv, TypeOK, FlagStands, UnsavedIsScanned, Continue, Written
<1> QED
  BY <1>3, <1>4, <1>5, <1>6 DEF DiskInv

\* It takes a basket of an earlier round, which becomes one of this round.
LEMMA ResetStep == ASSUME DiskInv, NEW c \in Chn, Reset(c) PROVE DiskInv'
<1>1. PICK b \in FromOld :
        /\ old' = old \ {b} /\ recent' = recent \cup {b}
        /\ bg' = [bg EXCEPT ![b] = [chn |-> c, reading |-> FALSE, room |-> Units]]
        /\ Written(c, b, FALSE)
  BY DEF Reset
<1>2. b \in old /\ b \in Basket /\ b # None /\ cur[c] = None /\ new' = new /\ ~bg[b].reading
  BY <1>1, DiskAssumption DEF FromOld, DiskInv, TypeOK, Owned, Reset
<1>3. bg' \in [Basket -> Infos]
  BY <1>1, <1>2, DiskAssumption DEF DiskInv, TypeOK, Infos
<1>4. TypeOK'
  BY <1>1, <1>2, <1>3, DiskAssumption DEF DiskInv, TypeOK, Written, NoStart, Infos
<1>5. Owned'
  BY <1>1, <1>2, DiskAssumption DEF DiskInv, TypeOK, Owned, Written, NoStart
<1>6. EachBasketOnce' /\ ListsMatchUse'
  BY <1>1, <1>2, DiskAssumption DEF DiskInv, TypeOK, EachBasketOnce, ListsMatchUse, Written
<1>7. FlagStands'
  BY <1>1, <1>2 DEF DiskInv, TypeOK, FlagStands, Written
<1>8. UnsavedIsScanned'
  BY <1>1, <1>2 DEF DiskInv, TypeOK, UnsavedIsScanned, Written
<1> QED
  BY <1>4, <1>5, <1>6, <1>7, <1>8 DEF DiskInv

\* It begins a new round, or is refused.
LEMMA RoundStep ==
  ASSUME DiskInv, NEW c \in Chn, GoRound(c) \/ DiskReset(c) \/ Refused(c) PROVE DiskInv'
<1>1. UNCHANGED <<bg, cur, rec, loaded, overwrite, ref, files, wrong>>
  BY DEF GoRound, DiskReset, Refused
<1>2. mng' \in [chn : {c, None}, phase : {"none", "first", "reset", "second"}] /\ mng.chn = c
  BY DEF DiskInv, TypeOK, GoRound, DiskReset, Refused, NoStart
<1>3. \/ UNCHANGED <<new, old, recent>>
      \/ recent' = {} /\ old' = old \cup new /\ new' = {}
  BY DEF GoRound, DiskReset, Refused, lists
<1>4. TypeOK'
  BY <1>1, <1>2, <1>3 DEF DiskInv, TypeOK, files
<1>5. Owned'
  BY <1>1, <1>2, DiskAssumption DEF DiskInv, TypeOK, Owned
<1>6. EachBasketOnce' /\ ListsMatchUse'
  BY <1>1, <1>3 DEF DiskInv, TypeOK, EachBasketOnce, ListsMatchUse
<1>7. FlagStands' /\ UnsavedIsScanned'
  BY <1>1 DEF DiskInv, FlagStands, UnsavedIsScanned, files
<1> QED
  BY <1>4, <1>5, <1>6, <1>7 DEF DiskInv

-----------------------------------------------------------------------------
(* A thread writes, and gives its basket back. *)

\* Frames and the full flag are written with no lock; a flag that is spoilt is recorded.
LEMMA WriteStep ==
  ASSUME DiskInv, NEW c \in Chn, Write(c) \/ LoadFlags(c) \/ StoreFlags(c) PROVE DiskInv'
<1>1. cur[c] \in Basket /\ UNCHANGED <<lists, cur, mng, overwrite, ref, files>>
  BY DEF DiskInv, TypeOK, Owned, Write, LoadFlags, StoreFlags, threads
<1>2. CASE Write(c)
  <2>1. bg' = [bg EXCEPT ![cur[c]].room = @ - 1] /\ UNCHANGED <<rec, loaded, wrong>>
    BY <1>2 DEF Write, threads
  <2>2. bg[cur[c]] \in Infos /\ bg[cur[c]].room - 1 \in 0 .. Units
    BY <1>1, <1>2, DiskAssumption DEF Write, Fits, DiskInv, TypeOK, Infos
  <2>3. bg' \in [Basket -> Infos] /\ \A b \in Basket : bg'[b].reading = bg[b].reading
    BY <1>1, <2>1, <2>2 DEF DiskInv, TypeOK, Infos
  <2> QED
    BY <1>1, <2>1, <2>3
    DEF DiskInv, TypeOK, Owned, EachBasketOnce, ListsMatchUse, FlagStands, UnsavedIsScanned,
        lists, files, Infos
<1>3. CASE LoadFlags(c)
  <2>1. bg[cur[c]].reading \in BOOLEAN
    BY <1>1 DEF DiskInv, TypeOK
  <2>2. /\ loaded' = [loaded EXCEPT ![c] = bg[cur[c]].reading] /\ UNCHANGED <<bg, wrong>>
        /\ rec[c] = "writing" /\ rec' = [rec EXCEPT ![c] = "filling"]
    BY <1>3 DEF LoadFlags
  <2> QED
    BY <1>1, <2>1, <2>2
    DEF DiskInv, TypeOK, Owned, EachBasketOnce, ListsMatchUse, FlagStands, UnsavedIsScanned,
        lists, files
<1>4. CASE StoreFlags(c)
  <2>1. /\ bg' = [bg EXCEPT ![cur[c]].reading = loaded[c]]
        /\ wrong' = IF loaded[c] = bg[cur[c]].reading THEN wrong ELSE wrong \cup {cur[c]}
        /\ loaded' = [loaded EXCEPT ![c] = FALSE]
        /\ rec[c] = "filling" /\ rec' = [rec EXCEPT ![c] = "stopping"]
    BY <1>4 DEF StoreFlags
  <2>2. loaded[c] \in BOOLEAN /\ bg[cur[c]] \in Infos
    BY <1>1 DEF DiskInv, TypeOK, Infos
  <2>3. bg' \in [Basket -> Infos]
    BY <1>1, <2>1, <2>2 DEF DiskInv, TypeOK, Infos
  <2>4. TypeOK' /\ Owned'
    BY <1>1, <2>1, <2>3 DEF DiskInv, TypeOK, Owned, lists, files, Infos
  <2>5. FlagStands'
    BY <1>1, <2>1 DEF DiskInv, TypeOK, FlagStands
  <2> QED
    BY <1>1, <2>4, <2>5 DEF DiskInv, EachBasketOnce, ListsMatchUse, UnsavedIsScanned, lists, files
<1> QED
  BY <1>2, <1>3, <1>4

\* A basket goes back to the list its use count asks for.
LEMMA StopStep == ASSUME DiskInv, NEW c \in Chn, Stop(c) PROVE DiskInv'
<1> DEFINE b == cur[c]
<1>1. b \in Basket /\ b \notin new \cup old /\ b # None
  BY DiskAssumption DEF DiskInv, TypeOK, Owned, EachBasketOnce, Stop
<1>2. \/ b \in recent /\ new' = new \cup {b} /\ old' = old
      \/ b \notin recent /\ new' = new /\ old' = old \cup {b}
  BY DEF Stop, GivenTo
<1>3. /\ cur' = [cur EXCEPT ![c] = None] /\ rec' = [rec EXCEPT ![c] = "idle"]
      /\ saved' = [saved EXCEPT ![b] = bg[b].reading]
      /\ UNCHANGED <<recent, bg, loaded, mng, overwrite, ref, flagged, wrong>>
  BY DEF Stop
<1>4. TypeOK'
  BY <1>1, <1>2, <1>3 DEF DiskInv, TypeOK
<1>5. Owned'
  BY <1>3, DiskAssumption DEF DiskInv, TypeOK, Owned
<1>6. EachBasketOnce' /\ ListsMatchUse'
  BY <1>1, <1>2, <1>3, DiskAssumption DEF DiskInv, TypeOK, EachBasketOnce, ListsMatchUse
<1>7. FlagStands' /\ UnsavedIsScanned'
  BY <1>3 DEF DiskInv, TypeOK, FlagStands, UnsavedIsScanned
<1> QED
  BY <1>4, <1>5, <1>6, <1>7 DEF DiskInv

\* A thread ends, or the overwrite mask changes.
LEMMA EndStep == ASSUME DiskInv, NEW c \in Chn, End(c) \/ SetOverwrite(c) PROVE DiskInv'
<1>1. CASE End(c)
  BY <1>1 DEF DiskInv, TypeOK, Owned, EachBasketOnce, ListsMatchUse, FlagStands, UnsavedIsScanned,
              End, lists, files
<1>2. CASE SetOverwrite(c)
  BY <1>2 DEF DiskInv, TypeOK, Owned, EachBasketOnce, ListsMatchUse, FlagStands, UnsavedIsScanned,
              SetOverwrite, lists, files, threads
<1> QED
  BY <1>1, <1>2

-----------------------------------------------------------------------------
(* The main loop, and the process. *)

\* Players come and go; the last one takes the flag away.
LEMMA PlayStep == ASSUME DiskInv, NEW b \in Basket, PlayStart(b) \/ PlayStop(b) PROVE DiskInv'
<1>1. UNCHANGED <<new, old, recent, cur, rec, loaded, mng, overwrite, saved, flagged, wrong>>
  BY DEF PlayStart, PlayStop, lists, threads, files
<1>2. ref' \in [Basket -> Nat] /\ bg' \in [Basket -> Infos]
  <2>1. ref \in [Basket -> Nat] /\ bg \in [Basket -> Infos]
    BY DEF DiskInv, TypeOK, Infos
  <2>2. CASE PlayStart(b)
    <3>1. ref[b] + 1 \in Nat /\ ref' = [ref EXCEPT ![b] = @ + 1]
      BY <2>1, <2>2 DEF PlayStart
    <3>2. bg' = [bg EXCEPT ![b].reading = TRUE]
      BY <2>2 DEF PlayStart
    <3>3. bg' \in [Basket -> Infos]
      BY <2>1, <3>2 DEF Infos
    <3> QED
      BY <2>1, <3>1, <3>3
  <2>3. CASE PlayStop(b)
    <3>1. ref[b] \in Nat /\ ref[b] > 0
      BY <2>1, <2>3 DEF PlayStop, Played
    <3>2. ref[b] - 1 \in Nat
      BY <3>1
    <3>3. bg' = bg \/ bg' = [bg EXCEPT ![b].reading = FALSE]
      BY <2>3 DEF PlayStop
    <3> QED
      BY <2>1, <2>3, <3>2, <3>3 DEF PlayStop, Infos
  <2> QED
    BY <2>2, <2>3
<1>3. TypeOK'
  BY <1>1, <1>2 DEF DiskInv, TypeOK, Infos
<1>4. FlagStands'
  BY <1>1, <1>2 DEF DiskInv, TypeOK, FlagStands, PlayStart, PlayStop, LastPlayer, Played
<1> QED
  BY <1>1, <1>3, <1>4 DEF DiskInv, Owned, EachBasketOnce, ListsMatchUse, UnsavedIsScanned

\* A start makes the lists from the use counts, with nobody there.
LEMMA ReopenedStep ==
  ASSUME DiskInv, NEW status \in [Basket -> BOOLEAN], Reopened(status), bg' \in [Basket -> Infos]
  PROVE  DiskInv'
<1>1. TypeOK'
  BY DEF DiskInv, TypeOK, Reopened, Infos, NoStart
<1>2. Owned' /\ UnsavedIsScanned'
  BY DiskAssumption DEF Owned, UnsavedIsScanned, Reopened, NoStart
<1>3. EachBasketOnce' /\ ListsMatchUse'
  BY DiskAssumption DEF DiskInv, TypeOK, EachBasketOnce, ListsMatchUse, Reopened
<1>4. FlagStands'
  BY DEF FlagStands, Reopened
<1> QED
  BY <1>1, <1>2, <1>3, <1>4 DEF DiskInv

\* Both ways to end, and both ways to start again.
LEMMA KillStep == ASSUME DiskInv, Restart \/ Kill PROVE DiskInv'
<1>1. ASSUME Reopened(saved), bg' = [b \in Basket |-> [bg[b] EXCEPT !.reading = saved[b]]]
      PROVE  DiskInv'
  <2>1. saved \in [Basket -> BOOLEAN] /\ bg' \in [Basket -> Infos]
    BY <1>1 DEF DiskInv, TypeOK, Infos
  <2> QED
    BY <1>1, <2>1, ReopenedStep
<1>2. ASSUME NEW room \in [Basket -> 0 .. Units], Reopened([b \in Basket |-> FALSE]),
             bg' = [b \in Basket |-> [bg[b] EXCEPT !.reading = FALSE, !.room = room[b]]]
      PROVE  DiskInv'
  <2> DEFINE clear == [b \in Basket |-> FALSE]
  <2>1. bg' \in [Basket -> Infos]
    <3>1. \A b \in Basket : bg[b] \in Infos /\ room[b] \in 0 .. Units
      BY <1>2 DEF DiskInv, TypeOK, Infos
    <3>2. \A b \in Basket : [bg[b] EXCEPT !.reading = FALSE, !.room = room[b]] \in Infos
      BY <3>1 DEF Infos
    <3> QED
      BY <1>2, <3>2
  <2>2. clear \in [Basket -> BOOLEAN] /\ Reopened(clear)
    BY <1>2
  <2> HIDE DEF clear
  <2> QED
    BY <2>1, <2>2, ReopenedStep
<1>3. CASE Restart
  BY <1>1, <1>3 DEF Restart
<1>4. CASE Kill
  BY <1>1, <1>2, <1>4 DEF Kill
<1> QED
  BY <1>3, <1>4

-----------------------------------------------------------------------------
\* Every step keeps the invariant.
LEMMA DiskStep == DiskInv /\ [Next]_vars => DiskInv'
<1> SUFFICES ASSUME DiskInv, [Next]_vars PROVE DiskInv'
  OBVIOUS
<1>1. ASSUME NEW c \in Chn, Start(c) PROVE DiskInv'
  BY <1>1, ContinueStep, ResetStep, RoundStep DEF Start
<1>2. ASSUME NEW c \in Chn, Record(c) \/ SetOverwrite(c) PROVE DiskInv'
  BY <1>2, BeginStep, TakeMngStep, WriteStep, StopStep, EndStep DEF Record
<1>3. ASSUME NEW b \in Basket, PlayStart(b) \/ PlayStop(b) PROVE DiskInv'
  BY <1>3, PlayStep
<1>4. CASE UNCHANGED vars
  BY <1>4 DEF vars, lists, threads, files, DiskInv, TypeOK, Owned, EachBasketOnce, ListsMatchUse,
              FlagStands, UnsavedIsScanned
<1> QED
  BY <1>1, <1>2, <1>3, <1>4, KillStep DEF Next

\* The invariant behind the theorems: who holds what, and which flags are to be relied on.
THEOREM DiskAlways == Spec => []DiskInv
BY DiskInit, DiskStep, PTL DEF Spec

\* strg_disk.c: lists, baskets and flags stay what they are, through restarts and kills;
\* a frame is written, and its room taken, in a basket that a channel has.
THEOREM TypeCorrect == Spec => []TypeOK
<1>1. DiskInv => TypeOK
  BY DEF DiskInv
<1> QED
  BY <1>1, DiskAlways, PTL

\* strg_disk_alloc_basket, strg_disk_free_basket, strg_disk_reset: however many channels
\* take and give back baskets, no basket is in two hands and none is lost.
THEOREM EachBasketOnceAlways == Spec => []EachBasketOnce
<1>1. DiskInv => EachBasketOnce
  BY DEF DiskInv
<1> QED
  BY <1>1, DiskAlways, PTL

\* strg_disk_free_basket: the baskets that may be overwritten are never of this round.
THEOREM ListsMatchUseAlways == Spec => []ListsMatchUse
<1>1. DiskInv => ListsMatchUse
  BY DEF DiskInv
<1> QED
  BY <1>1, DiskAlways, PTL

\* strg_disk_write_start: while a channel writes, a crash is noticed at the next start.
THEOREM UnsavedIsScannedAlways == Spec => []UnsavedIsScanned
<1>1. DiskInv => UnsavedIsScanned
  BY DEF DiskInv
<1> QED
  BY <1>1, DiskAlways, PTL

\* strg_disk_alloc_basket: what is played is not overwritten, unless its flag was spoilt.
THEOREM PlayedIsKeptAlways == Spec => PlayedIsKept
<1>1. DiskInv /\ [Next]_vars =>
        [\A b \in Played : b \in wrong \/ b \in recent \/ b \notin recent']_vars
  <2> SUFFICES ASSUME DiskInv, Next, NEW b \in Played, b \notin wrong, b \notin recent, b \in recent'
               PROVE  FALSE
    OBVIOUS
  <2>1. b \in Basket /\ bg[b].reading
    BY DEF Played, DiskInv, FlagStands
  <2>2. PICK c \in Chn : Reset(c)
    BY DEF Next, Start, Record, Begin, TakeMng, Continue, GoRound, DiskReset, Refused, Write,
           LoadFlags, StoreFlags, Stop, End, SetOverwrite, PlayStart, PlayStop, Restart, Kill,
           Reopened, lists, threads
  <2> QED
    BY <2>1, <2>2 DEF Reset, FromOld
<1> QED
  BY <1>1, DiskAlways, PTL DEF Spec, PlayedIsKept

=============================================================================
