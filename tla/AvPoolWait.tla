----------------------------- MODULE AvPoolWait -----------------------------
(***************************************************************************)
(* Reads that wait.  av_pool_read_frame of the driver with a timeout       *)
(* (av_pool_mng.c): a read that finds nothing lets the pool's semaphore    *)
(* go, and only then joins the pool's wait queue.  A write wakes whoever   *)
(* is in the queue at that moment.  Everything else is AvPool's.           *)
(*                                                                         *)
(* A reader is a thread that reads with a timeout again and again, as the  *)
(* players of the talk pool do (nvr_talk_jxj.c:197); none of them asks for *)
(* the oldest frame.  Time is left out: a sleep may end by its timeout at  *)
(* any moment.                                                             *)
(***************************************************************************)
EXTENDS AvPool

CONSTANT
  MaxSignals  \* bound: signals the readers get

ASSUME SignalAssumption == MaxSignals \in Nat

VARIABLES
  at,      \* at[r]: where the reader is in the loop of av_pool_read_frame
  pending, \* pending[r]: it has a signal that it takes when the call returns
  signals  \* history: signals so far

waitVars == <<vars, at, pending, signals>>

WaitInit ==
  /\ Init
  /\ at = [r \in Readers |-> "out"] /\ pending = [r \in Readers |-> FALSE] /\ signals = 0

\* A read, from the call or from the loop: it returns unless nothing is to be read.
Look(r) ==
  /\ at[r] \in {"out", "woken"}
  /\ Read(r)
  /\ IF IsFrame(ReadPos(reader[r]))
     THEN at' = [at EXCEPT ![r] = "out"] /\ pending' = [pending EXCEPT ![r] = FALSE]
     ELSE at' = [at EXCEPT ![r] = "looked"] /\ UNCHANGED pending
  /\ UNCHANGED signals

\* interruptible_sleep_on_timeout, which returns at once if a signal is pending; what it
\* returns is then the time left, as if a frame had come.
FallAsleep(r) ==
  /\ at[r] = "looked"
  /\ at' = [at EXCEPT ![r] = IF pending[r] THEN "woken" ELSE "asleep"]
  /\ UNCHANGED <<vars, pending, signals>>

\* Mutants: the end of the timeout is taken for a wake-up; the sleep has no timeout.
TimeOutGoesOn(r) ==
  /\ at[r] = "asleep"
  /\ at' = [at EXCEPT ![r] = "woken"]
  /\ UNCHANGED <<vars, pending, signals>>
TimeOutNever(r) == at[r] = "never" /\ UNCHANGED waitVars

\* The timeout ends the read, which does not look again.
TimeOut(r) ==
  /\ at[r] = "asleep"
  /\ at' = [at EXCEPT ![r] = "out"]
  /\ UNCHANGED <<vars, pending, signals>>

Signal(r) ==
  /\ at[r] # "out" /\ ~pending[r] /\ signals < MaxSignals
  /\ signals' = signals + 1
  /\ pending' = [pending EXCEPT ![r] = TRUE]
  /\ at' = [at EXCEPT ![r] = IF @ = "asleep" THEN "woken" ELSE @]
  /\ UNCHANGED vars

\* wake_up_all, after a write of which the driver does not know whether it failed.
WakeAll ==
  /\ at' = [r \in Readers |-> IF at[r] = "asleep" THEN "woken" ELSE at[r]]
  /\ UNCHANGED <<pending, signals>>

\* What a reader does outside a read.
Outside(r) ==
  /\ at[r] = "out"
  /\ StartRead(r) \/ StopRead(r) \/ GrowBuffer(r)
  /\ UNCHANGED <<at, pending, signals>>

WaitNext ==
  \/ Write /\ WakeAll
  \/ Fault /\ WakeAll
  \/ Reset /\ UNCHANGED <<at, pending, signals>>
  \/ \E r \in Readers :
       Look(r) \/ FallAsleep(r) \/ TimeOut(r) \/ Signal(r) \/ Outside(r)

\* A reader goes on reading, a sleep ends.
Fairness ==
  \A r \in Readers :
    /\ WF_waitVars(Look(r)) /\ WF_waitVars(FallAsleep(r)) /\ WF_waitVars(TimeOut(r))
    /\ WF_waitVars(at[r] = "out" /\ GrowBuffer(r) /\ UNCHANGED <<at, pending, signals>>)

WaitSpec == WaitInit /\ [][WaitNext]_waitVars /\ Fairness

-----------------------------------------------------------------------------
\* There is a frame for a reader that has already read one.
Behind(r) == reader[r].open /\ got[r] # NothingYet /\ reader[r].need \in 1 .. frameNo

\* av_pool_mng.c:756: a reader that looked just before a frame came and fell asleep just
\* after it was announced still gets it: it does not stay behind when no other frame
\* follows.
NewestIsRead == \A r \in Readers : Behind(r) ~> ~Behind(r)

\* av_pool_mng.c:745: a read with a timeout returns, frame or not.  Only a reader that has
\* a signal to take may go round the loop until a frame comes.
ReadEnds == \A r \in Readers : at[r] # "out" ~> (at[r] = "out" \/ pending[r])
=============================================================================
