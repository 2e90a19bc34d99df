------------------------------ MODULE StrgLog ------------------------------
(***************************************************************************)
(* What a basket promises to those who record and play: a sequence of      *)
(* fragments that are finished, and at most one that is being written.  A  *)
(* finished fragment stays as it is until the basket is given up.  Of the  *)
(* other one a crash leaves the beginning, or nothing; after a power cut   *)
(* some of what is left may be unreadable, or be an older recording.       *)
(***************************************************************************)
EXTENDS Naturals, Sequences

CONSTANTS
  Gop,    \* groups of pictures: an I frame and the frames up to the next one
  Lost,   \* in place of a group that is not there
  None    \* no fragment is being written

VARIABLES
  closed,   \* the finished fragments
  tail      \* the one being written, or None

LogVars == <<closed, tail>>

LogInit == closed = <<>> /\ tail = None

\* The recordings are given up, with or without a new one.
Wipe == tail = None /\ closed' = <<>> /\ tail' = None

Begin == tail = None /\ closed' \in {closed, <<>>} /\ tail' = <<>>

Add(g) == tail # None /\ tail' = Append(tail, g) /\ UNCHANGED closed

Finish == tail # None /\ closed' = Append(closed, tail) /\ tail' = None

\* What is left of the fragment being written: its first n groups, some unreadable.
Left(n, lost) == [i \in 1 .. n |-> IF i \in lost THEN Lost ELSE tail[i]]

Crash ==
  /\ tail # None /\ tail' = None
  /\ \/ UNCHANGED closed
     \/ \E n \in 1 .. Len(tail) : \E lost \in SUBSET (1 .. n) :
          closed' = Append(closed, Left(n, lost))

LogNext == Wipe \/ Begin \/ (\E g \in Gop : Add(g)) \/ Finish \/ Crash

LogSpec == LogInit /\ [][LogNext]_LogVars
=============================================================================
