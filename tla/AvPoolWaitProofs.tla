--------------------------- MODULE AvPoolWaitProofs ---------------------------
(***************************************************************************)
(* Reads that wait are reads: the loop of av_pool_read_frame does nothing  *)
(* to a pool that a read, a write or a reset of AvPool would not do.  What *)
(* AvPoolProofs proves of the pool holds for readers that wait.            *)
(***************************************************************************)
EXTENDS AvPoolWait, AvPoolWalkProofs

\* A step of a reader in its loop is a read, or the pool is left alone.
LEMMA WaitStep == WaitNext => [Next]_vars
<1> SUFFICES ASSUME WaitNext PROVE [Next]_vars
  OBVIOUS
<1>1. CASE (Write /\ WakeAll) \/ (Fault /\ WakeAll) \/ Reset
  BY <1>1 DEF Next
<1>2. ASSUME NEW r \in Readers, Look(r) \/ Outside(r)
      PROVE  Next
  BY <1>2 DEF Look, Outside, Next
<1>3. ASSUME NEW r \in Readers, FallAsleep(r) \/ TimeOut(r) \/ Signal(r)
      PROVE  UNCHANGED vars
  BY <1>3 DEF FallAsleep, TimeOut, Signal
<1> QED BY <1>1, <1>2, <1>3 DEF WaitNext

\* The pool with readers that wait (av_pool_mng.c:745) implements the pool.
THEOREM WaitImplementsPool == WaitSpec => Spec
<1>1. WaitInit => Init
  BY DEF WaitInit
<1>2. [WaitNext]_waitVars => [Next]_vars
  BY WaitStep DEF waitVars
<1> QED BY <1>1, <1>2, PTL DEF WaitSpec, Spec

\* While readers sleep and are woken, no write leaves a header whose payload it overwrote.
THEOREM WholeWhileWaiting == WaitSpec => []FramesAreWhole
BY WaitImplementsPool, PoolIntegrity, PTL

\* A reader that was woken gets a frame that was written, with its own payload.
THEOREM IntactWhileWaiting == WaitSpec => DeliveredIntact
BY WaitImplementsPool, ReadsIntact, PTL

\* What a reader gets after a sleep, however it ended, is newer than what it has
\* (av_pool_search_data).
THEOREM ForwardWhileWaiting ==
  ASSUME AheadLimit > 1
  PROVE  WaitSpec => ReadsGoForward
BY WaitImplementsPool, ForwardAlways, PTL

\* A reader that sleeps through a wake-up comes late, and still misses nothing that the pool
\* has and that is recent enough (av_pool_search_data).
THEOREM MissedWhileWaiting ==
  ASSUME SmallFrames
  PROVE  WaitSpec => MissedOnlyIfLate
BY WaitImplementsPool, MissedOnlyIfLateAlways, PTL
=============================================================================
