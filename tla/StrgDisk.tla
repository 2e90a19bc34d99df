------------------------------ MODULE StrgDisk ------------------------------
(***************************************************************************)
(* One disk of the storage process: who gets which basket                  *)
(* (storage/app/src/strg_disk.c, strg_mng.c, the threads of strg_record.c, *)
(* and the status flags of strg_basket.c).                                 *)
(*                                                                         *)
(* A disk is cut into baskets, files of one size.  A channel records into  *)
(* a basket of its own; what it may take is in two lists, the baskets of   *)
(* the present round of the disk and those of earlier rounds, which may be *)
(* overwritten.  When nothing is left a new round begins.  The record      *)
(* threads, one for each channel, take and give back baskets with two      *)
(* locks held, but write frames, and with them the flag of a full basket,  *)
(* with none.  The main loop starts and stops players under one of the     *)
(* locks.  The process may be killed, or end and be started again.         *)
(*                                                                         *)
(* Left out: what a basket holds (StrgBasket); other disks, which are      *)
(* tried one after the other in the same way; the limits on fragments and  *)
(* index entries, which fill a basket as frames do; a disk that fails to   *)
(* read or write, the write-flag file included; formatting (NvrRec); and   *)
(* pictures of a channel, which the main loop writes without a look at the *)
(* basket the channel's thread may be writing.  Of the status of a basket  *)
(* the reading flag is kept: the full flag is there when no room is, so    *)
(* that a player's change of the status, a read and a write of the same    *)
(* word, is one step.  A list is a set here: which of the baskets that     *)
(* qualify comes first decides none of the properties.                     *)
(***************************************************************************)
EXTENDS Integers, FiniteSetsExt

CONSTANTS
  Basket,   \* the baskets of the disk
  Chn,      \* channels that record
  Players,  \* read handles there may be at a time
  Units,    \* frames that fit in a basket
  None      \* no channel, no basket, nothing loaded

ASSUME DiskAssumption ==
  /\ Units \in Nat \ {0} /\ Players \in Nat
  /\ None \notin Basket \cup Chn

VARIABLES
  new, old,    \* bgi_new, bgi_old: baskets to take, of this round and of earlier ones
  recent,      \* baskets whose use_cnt is that of the disk
  bg,          \* of each basket: its channel, its reading flag, the room left in it
  cur,         \* bfi_cur: the basket each channel writes
  rec,         \* the record thread of each channel
  loaded,      \* the reading flag as a record thread has read and will write it back
  mng,         \* the start request under way with mng_lock held: channel, phase
  overwrite,   \* channels whose recordings may be overwritten
  ref,         \* read_ref: how many players read a basket
  saved,       \* the reading flags as the disk's global file has them
  flagged,     \* the write-flag file is on the disk
  wrong        \* history: baskets whose reading flag was overwritten or left behind

lists   == <<new, old, recent>>
threads == <<cur, rec, loaded, mng>>
files   == <<saved, flagged>>
vars    == <<lists, bg, threads, overwrite, ref, files, wrong>>

-----------------------------------------------------------------------------
NoStart == [chn |-> None, phase |-> "none"]

\* No start or stop of another channel is under way.
MngFree == mng.chn = None

Played  == {b \in Basket : ref[b] > 0}
Handles == MapThenSumSet(LAMBDA b : ref[b], Basket)

\* Baskets that strg_disk_alloc_basket looks at first: the channel goes on in a
\* basket it has begun in this round.
FromNew(c) ==
  {b \in new : bg[b].chn = c /\ ~bg[b].reading /\ bg[b].room > 0}

\* Then: a basket of an earlier round, whose recordings are given up.
FromOld == {b \in old : bg[b].chn \in overwrite \cup {None} /\ ~bg[b].reading}

Nothing(c) == FromNew(c) = {} /\ FromOld = {}

\* strg_disk_free_basket: the list that the use count asks for.
GivenToMutant(b) == [new |-> new, old |-> old \cup {b}]   \* the use count is not compared
GivenTo(b) ==
  IF b \in recent THEN [new |-> new \cup {b}, old |-> old]
                  ELSE [new |-> new, old |-> old \cup {b}]

-----------------------------------------------------------------------------
Init ==
  /\ new = {} /\ old = Basket /\ recent = {}
  /\ bg = [b \in Basket |-> [chn |-> None, reading |-> FALSE, room |-> Units]]
  /\ cur = [c \in Chn |-> None]
  /\ rec = [c \in Chn |-> "off"]
  /\ loaded = [c \in Chn |-> FALSE]
  /\ mng = NoStart
  /\ overwrite = Chn
  /\ ref = [b \in Basket |-> 0]
  /\ saved = [b \in Basket |-> FALSE]
  /\ flagged = FALSE
  /\ wrong = {}

-----------------------------------------------------------------------------
(***************************************************************************)
(* A channel takes a basket: strg_mng_write_start with mng_lock held       *)
(* throughout, and the disk's lock in each of its three steps.  The mask   *)
(* of channels to overwrite is read at the start of a step.                *)
(***************************************************************************)

\* strg_record_start creates the thread.
Begin(c) ==
  /\ rec[c] = "off"
  /\ rec' = [rec EXCEPT ![c] = "idle"]
  /\ UNCHANGED <<lists, bg, cur, loaded, mng, overwrite, ref, files, wrong>>

TakeMng(c) ==
  /\ rec[c] = "idle" /\ MngFree
  /\ mng' = [chn |-> c, phase |-> "first"]
  /\ UNCHANGED <<lists, bg, cur, rec, loaded, overwrite, ref, files, wrong>>

\* What every successful strg_disk_write_start ends with: the basket is the
\* channel's, the global file has its status, the write-flag file exists.
WrittenMutant(c, b, status) ==             \* no flag file for a basket gone on with
  /\ cur' = [cur EXCEPT ![c] = b]
  /\ rec' = [rec EXCEPT ![c] = "writing"]
  /\ mng' = NoStart
  /\ saved' = [saved EXCEPT ![b] = status]
  /\ flagged' = (flagged \/ b \in old)
  /\ UNCHANGED <<loaded, overwrite, ref, wrong>>
Written(c, b, status) ==
  /\ cur' = [cur EXCEPT ![c] = b]
  /\ rec' = [rec EXCEPT ![c] = "writing"]
  /\ mng' = NoStart
  /\ saved' = [saved EXCEPT ![b] = status]
  /\ flagged' = TRUE
  /\ UNCHANGED <<loaded, overwrite, ref, wrong>>

Continue(c) ==
  /\ mng.chn = c /\ mng.phase \in {"first", "second"}
  /\ \E b \in FromNew(c) :
       /\ new' = new \ {b}
       /\ Written(c, b, bg[b].reading)
  /\ UNCHANGED <<old, recent, bg>>

\* strg_basket_reset
Reset(c) ==
  /\ mng.chn = c /\ mng.phase \in {"first", "second"}
  /\ FromNew(c) = {}
  /\ \E b \in FromOld :
       /\ old' = old \ {b} /\ recent' = recent \cup {b}
       /\ bg' = [bg EXCEPT ![b] = [chn |-> c, reading |-> FALSE, room |-> Units]]
       /\ Written(c, b, FALSE)
  /\ UNCHANGED new

\* There is no basket, but some may be overwritten: the disk is to begin a new round.
GoRound(c) ==
  /\ mng.chn = c /\ mng.phase = "first"
  /\ Nothing(c) /\ overwrite # {}
  /\ mng' = [mng EXCEPT !.phase = "reset"]
  /\ UNCHANGED <<lists, bg, cur, rec, loaded, overwrite, ref, files, wrong>>

\* strg_disk_reset looks for a basket of this round that may be overwritten.
CanRoundMutant == old = {} /\ \E b \in new : bg[b].chn \in overwrite      \* a stuck basket blocks
CanRound == \E b \in new : bg[b].chn \in overwrite /\ ~bg[b].reading

DiskResetMutant(c) ==                                   \* bgi_new is not emptied
  /\ mng.chn = c /\ mng.phase = "reset" /\ CanRound
  /\ recent' = {} /\ old' = old \cup new /\ new' = new
  /\ mng' = [mng EXCEPT !.phase = "second"]
  /\ UNCHANGED <<bg, cur, rec, loaded, overwrite, ref, files, wrong>>
DiskReset(c) ==
  /\ mng.chn = c /\ mng.phase = "reset" /\ CanRound
  /\ recent' = {} /\ old' = old \cup new /\ new' = {}
  /\ mng' = [mng EXCEPT !.phase = "second"]
  /\ UNCHANGED <<bg, cur, rec, loaded, overwrite, ref, files, wrong>>

\* The request fails; the thread tries again after three seconds.
Refused(c) ==
  /\ mng.chn = c
  /\ \/ mng.phase = "first" /\ Nothing(c) /\ overwrite = {}
     \/ mng.phase = "reset" /\ ~CanRound
     \/ mng.phase = "second" /\ Nothing(c)
  /\ mng' = NoStart
  /\ UNCHANGED <<lists, bg, cur, rec, loaded, overwrite, ref, files, wrong>>

-----------------------------------------------------------------------------
(***************************************************************************)
(* A record thread writes, and gives its basket back.                      *)
(***************************************************************************)

\* strg_basket_write, with no lock.
FitsMutant(b) == bg[b].room >= 0                             \* off by one
Fits(b) == bg[b].room > 0

Write(c) ==
  /\ rec[c] = "writing" /\ Fits(cur[c])
  /\ bg' = [bg EXCEPT ![cur[c]].room = @ - 1]
  /\ UNCHANGED <<lists, threads, overwrite, ref, files, wrong>>

\* A frame that does not fit: the status is read, and written with the full flag.
LoadFlags(c) ==
  /\ rec[c] = "writing" /\ ~Fits(cur[c])
  /\ loaded' = [loaded EXCEPT ![c] = bg[cur[c]].reading]
  /\ rec' = [rec EXCEPT ![c] = "filling"]
  /\ UNCHANGED <<lists, bg, cur, mng, overwrite, ref, files, wrong>>

StoreFlags(c) ==
  LET b == cur[c]
  IN /\ rec[c] = "filling"
     /\ bg' = [bg EXCEPT ![b].reading = loaded[c]]
     /\ wrong' = IF loaded[c] = bg[b].reading THEN wrong ELSE wrong \cup {b}
     /\ loaded' = [loaded EXCEPT ![c] = FALSE]
     /\ rec' = [rec EXCEPT ![c] = "stopping"]
     /\ UNCHANGED <<lists, cur, mng, overwrite, ref, files>>

\* strg_mng_write_stop, strg_disk_write_stop: at the end of a basket or of a
\* fragment, when the pool is not written, when the clock jumps, on request.
Stop(c) ==
  LET b == cur[c]
  IN /\ rec[c] \in {"writing", "stopping"} /\ MngFree
     /\ new' = GivenTo(b).new /\ old' = GivenTo(b).old
     /\ cur' = [cur EXCEPT ![c] = None]
     /\ rec' = [rec EXCEPT ![c] = "idle"]
     /\ saved' = [saved EXCEPT ![b] = bg[b].reading]
     /\ UNCHANGED <<recent, bg, loaded, mng, overwrite, ref, flagged, wrong>>

\* __strg_record_stop: the thread ends.
End(c) ==
  /\ rec[c] = "idle" /\ mng.chn # c
  /\ rec' = [rec EXCEPT ![c] = "off"]
  /\ UNCHANGED <<lists, bg, cur, loaded, mng, overwrite, ref, files, wrong>>

-----------------------------------------------------------------------------
(***************************************************************************)
(* The main loop.                                                          *)
(***************************************************************************)

\* strg_mng_write_set_overwrite
SetOverwrite(c) ==
  /\ overwrite' = IF c \in overwrite THEN overwrite \ {c} ELSE overwrite \cup {c}
  /\ UNCHANGED <<lists, bg, threads, ref, files, wrong>>

\* strg_disk_read_start finds the basket in the list of all, so it may be one that
\* is written; strg_basket_read_start.
PlayStart(b) ==
  /\ bg[b].chn # None /\ Handles < Players
  /\ ref' = [ref EXCEPT ![b] = @ + 1]
  /\ bg' = [bg EXCEPT ![b].reading = TRUE]
  /\ UNCHANGED <<lists, threads, overwrite, files, wrong>>

\* strg_basket_read_stop: the last player takes the flag away.
LastPlayerMutant(b) == TRUE                                  \* read_ref is not looked at
LastPlayer(b) == ref[b] = 1

PlayStop(b) ==
  /\ b \in Played
  /\ ref' = [ref EXCEPT ![b] = @ - 1]
  /\ bg' = IF LastPlayer(b) THEN [bg EXCEPT ![b].reading = FALSE] ELSE bg
  /\ UNCHANGED <<lists, threads, overwrite, files, wrong>>

-----------------------------------------------------------------------------
(***************************************************************************)
(* The process ends and starts again.                                      *)
(***************************************************************************)

\* The lists are made from the use counts; no thread, no player is there yet, and
\* every channel may be overwritten until nvr_server says otherwise.
Reopened(status) ==
  /\ new' = recent /\ old' = Basket \ recent
  /\ cur' = [c \in Chn |-> None] /\ rec' = [c \in Chn |-> "off"]
  /\ loaded' = [c \in Chn |-> FALSE] /\ mng' = NoStart
  /\ overwrite' = Chn
  /\ ref' = [b \in Basket |-> 0]
  /\ saved' = status
  /\ flagged' = FALSE
  /\ wrong' = {b \in Basket : status[b]}
  /\ UNCHANGED recent

\* strg_record_uninit stops players and threads, strg_mng_uninit closes the disk;
\* strg_disk_global_open takes the status from the global file.
Restart ==
  /\ \A c \in Chn : rec[c] = "off"
  /\ Reopened(saved)
  /\ bg' = [b \in Basket |-> [bg[b] EXCEPT !.reading = saved[b]]]

\* Killed.  With the write-flag file there strg_disk_global_scan looks at every
\* basket: it drops all flags, and the end of the fragment that was being written.
Kill ==
  /\ \/ /\ flagged
        /\ Reopened([b \in Basket |-> FALSE])
        /\ \E room \in [Basket -> 0 .. Units] :
             /\ \A b \in Basket : IF \E c \in Chn : cur[c] = b
                                  THEN room[b] >= bg[b].room ELSE room[b] = bg[b].room
             /\ bg' = [b \in Basket |-> [bg[b] EXCEPT !.reading = FALSE, !.room = room[b]]]
     \/ /\ ~flagged
        /\ Reopened(saved)
        /\ bg' = [b \in Basket |-> [bg[b] EXCEPT !.reading = saved[b]]]

-----------------------------------------------------------------------------
Start(c) == Continue(c) \/ Reset(c) \/ GoRound(c) \/ DiskReset(c) \/ Refused(c)

Record(c) == Begin(c) \/ TakeMng(c) \/ Write(c) \/ LoadFlags(c) \/ StoreFlags(c) \/ Stop(c) \/ End(c)

Next ==
  \/ \E c \in Chn : Start(c) \/ Record(c) \/ SetOverwrite(c)
  \/ \E b \in Basket : PlayStart(b) \/ PlayStop(b)
  \/ Restart
  \/ Kill

Spec == Init /\ [][Next]_vars

\* The thread that has mng_lock goes on, and one that waits for it gets it some time:
\* it is held for a few system calls, and whoever was refused sleeps for three seconds.
Fairness == \A c \in Chn : WF_vars(Start(c)) /\ SF_vars(TakeMng(c))

LiveSpec == Spec /\ Fairness

-----------------------------------------------------------------------------
TypeOK ==
  /\ new \subseteq Basket /\ old \subseteq Basket /\ recent \subseteq Basket
  /\ bg \in [Basket -> [chn : Chn \cup {None}, reading : BOOLEAN, room : 0 .. Units]]
  /\ cur \in [Chn -> Basket \cup {None}]
  /\ rec \in [Chn -> {"off", "idle", "writing", "filling", "stopping"}]
  /\ loaded \in [Chn -> BOOLEAN]
  /\ mng \in [chn : Chn \cup {None}, phase : {"none", "first", "reset", "second"}]
  /\ overwrite \subseteq Chn
  /\ ref \in [Basket -> Nat]
  /\ saved \in [Basket -> BOOLEAN]
  /\ flagged \in BOOLEAN
  /\ wrong \subseteq Basket

\* strg_disk.c:665, 700 and 719: a basket leaves a list when a channel takes it and
\* comes back to one list when the channel gives it back, whatever rounds begin in
\* between: two channels never write one basket, and none is lost until a restart.
EachBasketOnce ==
  /\ new \cap old = {}
  /\ \A c \in Chn : cur[c] \notin new \cup old
  /\ \A c, d \in Chn : c # d /\ cur[c] = cur[d] => cur[c] = None
  /\ \A b \in Basket : b \in new \cup old \/ \E c \in Chn : cur[c] = b

\* strg_disk.c:681 and 718: a basket of the present round is never among those to be
\* overwritten, also one that was written while a round ended and was given back then.
ListsMatchUse == new \subseteq recent /\ old \cap recent = {}

\* strg_disk.c:686: recordings are not overwritten while they are played, unless the
\* flag of a full basket was written over that of the player, or an old one was left.
PlayedIsKept ==
  [][\A b \in Played : b \in wrong \/ b \in recent \/ b \notin recent']_vars

\* strg_disk.c:744: as long as a channel writes, the write-flag file is on the disk, and
\* a start after a crash looks at the baskets themselves.
UnsavedIsScanned == \A c \in Chn : cur[c] # None => flagged

\* strg_record.c:429: a channel that is to record gets a basket some time, when every
\* channel may be overwritten and the players leave theirs alone, unless each basket is
\* written or has the flag of a player.
AllInUse == \A b \in Basket : bg[b].reading \/ \E c \in Chn : cur[c] = b

WantedIsWritten ==
  <>[][FALSE]_ref =>
    \A c \in Chn : rec[c] = "idle" ~> cur[c] # None \/ rec[c] = "off" \/ AllInUse \/ overwrite # Chn

=============================================================================
