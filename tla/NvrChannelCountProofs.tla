----------------------- MODULE NvrChannelCountProofs -----------------------
(***************************************************************************)
(* What TLAPS proves of the reader counts of NvrChannel, for any number of *)
(* readers, messages and timers: a stream is never counted for more        *)
(* readers than it has, and, when readers start on a connected channel     *)
(* only, for no fewer.                                                     *)
(*                                                                         *)
(* The counts are sums over a queue, two threads and the timers: of every  *)
(* step the proof says by how much each part of the sum changes.           *)
(***************************************************************************)
EXTENDS NvrChannelProofs, FiniteSetTheorems, SequenceTheorems

\* The queue has room for the readers there are: no message is dropped.
QueueHolds == IsFiniteSet(Readers) /\ MaxTimers + Cardinality(Readers) <= MaxMsgs

\* The readers that are open, of either stream.
AllOpen == Cardinality({r \in Readers : open[r]})

\* Every open reader still has a place in the queue for its stop.
NoDrop == Len(msgs) + AllOpen <= MaxMsgs

\* How many readers of stream i are not counted.
Missing(i) == Wanted(i) - cnt[i]

\* How often m is in s.
CountOf(s, m) == Cardinality({k \in DOMAIN s : s[k] = m})

Msg(op, i) == [op |-> op, stream |-> i]

-----------------------------------------------------------------------------
(***************************************************************************)
(* Counting in queues and sets.                                            *)
(***************************************************************************)

\* A queue holds finitely many of anything.
LEMMA CountIsNat ==
  ASSUME NEW s \in Seq(Messages), NEW m
  PROVE  /\ IsFiniteSet({k \in DOMAIN s : s[k] = m})
         /\ CountOf(s, m) \in Nat
<1>1. DOMAIN s = 1 .. Len(s) /\ Len(s) \in Nat
  BY LenProperties
<1>2. IsFiniteSet(1 .. Len(s))
  BY <1>1, FS_Interval
<1>3. IsFiniteSet({k \in DOMAIN s : s[k] = m})
  BY <1>1, <1>2, FS_Subset
<1> QED BY <1>3, FS_CardinalityType DEF CountOf

\* A message more at the end of the queue.
LEMMA CountAppend ==
  ASSUME NEW s \in Seq(Messages), NEW x \in Messages, NEW m
  PROVE  CountOf(Append(s, x), m) = CountOf(s, m) + (IF x = m THEN 1 ELSE 0)
<1> DEFINE t == Append(s, x)
           A == {k \in DOMAIN s : s[k] = m}
           B == {k \in DOMAIN t : t[k] = m}
           n == Len(s) + 1
<1>1. DOMAIN s = 1 .. Len(s) /\ DOMAIN t = 1 .. n /\ Len(s) \in Nat
  BY LenProperties, AppendProperties
<1>2. t[n] = x /\ \A k \in 1 .. Len(s) : t[k] = s[k]
  BY AppendProperties
<1>3. n \notin A /\ A \subseteq 1 .. Len(s)
  BY <1>1
<1>4. B = IF x = m THEN A \cup {n} ELSE A
  BY <1>1, <1>2
<1>5. IsFiniteSet(A) /\ Cardinality(A) \in Nat
  BY CountIsNat DEF CountOf
<1>6. Cardinality(A \cup {n}) = Cardinality(A) + 1
  BY <1>3, <1>5, FS_AddElement
<1>7. CountOf(s, m) = Cardinality(A) /\ CountOf(t, m) = Cardinality(B)
  BY DEF CountOf
<1> HIDE DEF A, B, t
<1>8. CASE x = m
  BY <1>4, <1>6, <1>7, <1>8 DEF t
<1>9. CASE x # m
  BY <1>4, <1>5, <1>7, <1>9 DEF t
<1> QED BY <1>8, <1>9

\* The first message is taken from the queue.
LEMMA CountTail ==
  ASSUME NEW s \in Seq(Messages), s # <<>>, NEW m
  PROVE  CountOf(Tail(s), m) = CountOf(s, m) - (IF Head(s) = m THEN 1 ELSE 0)
<1> DEFINE t == Tail(s)
           A == {k \in DOMAIN s : s[k] = m}
           B == {k \in DOMAIN t : t[k] = m}
           f == [k \in B |-> k + 1]
<1>1. Len(s) \in Nat \ {0} /\ DOMAIN s = 1 .. Len(s)
  BY LenProperties, EmptySeq
<1>2. t \in Seq(Messages) /\ DOMAIN t = 1 .. Len(s) - 1 /\ \A k \in DOMAIN t : t[k] = s[k + 1]
  BY <1>1, HeadTailProperties, LenProperties
<1>3. f \in Bijection(B, A \ {1})
  <2>1. \A k \in B : k \in Nat /\ f[k] \in A \ {1}
    BY <1>1, <1>2
  <2>2. f \in [B -> A \ {1}]
    BY <2>1
  <2>3. \A j, k \in B : f[j] = f[k] => j = k
    BY <2>1
  <2>4. \A k \in A \ {1} : k - 1 \in B /\ f[k - 1] = k
    BY <1>1, <1>2
  <2>5. f \in Injection(B, A \ {1})
    BY <2>2, <2>3 DEF Injection, IsInjective
  <2>6. f \in Surjection(B, A \ {1})
    BY <2>2, <2>4 DEF Surjection
  <2> QED BY <2>5, <2>6 DEF Bijection
<1>4. IsFiniteSet(A) /\ IsFiniteSet(B) /\ Cardinality(A) \in Nat
  BY <1>2, CountIsNat DEF CountOf
<1>5. Cardinality(A \ {1}) = Cardinality(B)
  BY <1>3, <1>4, FS_Bijection DEF ExistsBijection
<1>6. 1 \in A <=> Head(s) = m
  BY <1>1
<1>7. Cardinality(A \ {1}) = IF 1 \in A THEN Cardinality(A) - 1 ELSE Cardinality(A)
  BY <1>4, FS_RemoveElement
<1>8. CountOf(s, m) = Cardinality(A) /\ CountOf(t, m) = Cardinality(B)
  BY DEF CountOf
<1> HIDE DEF A, B, f, t
<1>9. CASE Head(s) = m
  BY <1>4, <1>5, <1>6, <1>7, <1>8, <1>9 DEF t
<1>10. CASE Head(s) # m
  BY <1>4, <1>5, <1>6, <1>7, <1>8, <1>10 DEF t
<1> QED BY <1>9, <1>10

\* A reader is opened or closed: what that does to any number of open readers.
LEMMA OpenCount ==
  ASSUME IsFiniteSet(Readers), NEW S \in SUBSET Readers, NEW r \in Readers,
         open \in [Readers -> BOOLEAN], NEW b \in BOOLEAN, open[r] = ~b,
         open' = [open EXCEPT ![r] = b]
  PROVE  LET old == Cardinality({q \in S : open[q]})
             new == Cardinality({q \in S : open'[q]})
         IN /\ old \in Nat /\ new \in Nat
            /\ new = IF r \notin S THEN old ELSE IF b THEN old + 1 ELSE old - 1
<1> DEFINE A == {q \in S : open[q]}
           B == {q \in S : open'[q]}
<1>1. IsFiniteSet(A) /\ IsFiniteSet(B)
  BY FS_Subset
<1>2. Cardinality(A) \in Nat /\ Cardinality(B) \in Nat
  BY <1>1, FS_CardinalityType
<1>3. r \notin S => A = B
  OBVIOUS
<1>4. r \in S /\ b => r \notin A /\ B = A \cup {r}
  OBVIOUS
<1>5. r \in S /\ ~b => r \in A /\ B = A \ {r}
  OBVIOUS
<1>6. r \in S /\ b => Cardinality(B) = Cardinality(A) + 1
  BY <1>1, <1>4, FS_AddElement
<1>7. r \in S /\ ~b => Cardinality(B) = Cardinality(A) - 1
  BY <1>1, <1>5, FS_RemoveElement
<1> QED BY <1>2, <1>3, <1>6, <1>7

-----------------------------------------------------------------------------
(***************************************************************************)
(* The parts of the sum, and what each step does to them.                  *)
(***************************************************************************)

\* All parts of the sum are numbers.
LEMMA PartsAreNumbers ==
  ASSUME TypeOK, IsFiniteSet(Readers), NEW i \in Streams
  PROVE  /\ Opened(i) \in Nat /\ AllOpen \in Nat
         /\ Queued("start", i) \in Nat /\ Queued("stop", i) \in Nat
         /\ timers[i] \in Nat /\ cnt[i] \in Int
<1>1. Opened(i) \in Nat /\ AllOpen \in Nat
  BY FS_Subset, FS_CardinalityType DEF Opened, AllOpen
<1>2. \A op : Queued(op, i) = CountOf(msgs, Msg(op, i))
  BY DEF Queued, CountOf, Msg
<1>3. Queued("start", i) \in Nat /\ Queued("stop", i) \in Nat
  BY <1>2, CountIsNat DEF TypeOK
<1> QED BY <1>1, <1>3 DEF TypeOK

\* A message is sent that the queue has room for.
LEMMA SendCount ==
  ASSUME TypeOK, NEW x \in Messages, Len(msgs) < MaxMsgs, Send(x),
         NEW op \in {"start", "stop"}, NEW i \in Streams
  PROVE  /\ Queued(op, i)' = Queued(op, i) + (IF x = Msg(op, i) THEN 1 ELSE 0)
         /\ Len(msgs') = Len(msgs) + 1
<1>1. msgs' = Append(msgs, x) /\ msgs \in Seq(Messages)
  BY DEF Send, TypeOK
<1>2. Queued(op, i) = CountOf(msgs, Msg(op, i)) /\ Queued(op, i)' = CountOf(msgs', Msg(op, i))
  BY DEF Queued, CountOf, Msg
<1>3. CountOf(msgs', Msg(op, i)) = CountOf(msgs, Msg(op, i)) + (IF x = Msg(op, i) THEN 1 ELSE 0)
  BY <1>1, CountAppend
<1> QED BY <1>1, <1>2, <1>3, AppendProperties

\* The av-message thread takes a message, and the queue is one shorter.
LEMMA ReceiveLength ==
  ASSUME TypeOK, NEW op, Receive(op)
  PROVE  /\ Len(msgs') = Len(msgs) - 1 /\ Len(msgs) \in Nat
         /\ Head(msgs) \in Messages /\ Head(msgs).stream \in Streams /\ avmsg = NoStream
<1>1. msgs' = Tail(msgs) /\ msgs # <<>> /\ msgs \in Seq(Messages) /\ avmsg = NoStream
  BY DEF Receive, TypeOK
<1>2. Head(msgs) \in Messages /\ Len(msgs') = Len(msgs) - 1 /\ Len(msgs) \in Nat
  BY <1>1, HeadTailProperties, LenProperties
<1>3. Head(msgs).stream \in Streams
  BY <1>2 DEF Messages
<1> QED BY <1>1, <1>2, <1>3

\* What that does to the number of messages of each kind.
LEMMA ReceiveCount ==
  ASSUME TypeOK, NEW op \in {"start", "stop"}, Receive(op),
         NEW q \in {"start", "stop"}, NEW i \in Streams
  PROVE  /\ Queued(q, i)' = Queued(q, i)
                              - (IF q = op /\ Head(msgs).stream = i THEN 1 ELSE 0)
<1>1. msgs' = Tail(msgs) /\ msgs # <<>> /\ msgs \in Seq(Messages) /\ Head(msgs).op = op
  BY DEF Receive, TypeOK
<1>2. Queued(q, i) = CountOf(msgs, Msg(q, i)) /\ Queued(q, i)' = CountOf(msgs', Msg(q, i))
  BY DEF Queued, CountOf, Msg
<1>3. CountOf(msgs', Msg(q, i)) = CountOf(msgs, Msg(q, i))
                                    - (IF Head(msgs) = Msg(q, i) THEN 1 ELSE 0)
  BY <1>1, CountTail
<1>4. Head(msgs) \in Messages
  BY <1>1, HeadTailProperties
<1>5. Head(msgs) = Msg(q, i) <=> q = op /\ Head(msgs).stream = i
  BY <1>1, <1>4 DEF Messages, Msg
<1>6. CountOf(msgs, Msg(q, i)) \in Nat
  BY <1>1, CountIsNat
<1> QED BY <1>2, <1>3, <1>5, <1>6

\* A reader that opens or closes: its message balances it.
LEMMA ReaderBalance ==
  ASSUME TypeOK, QueueHolds, NoDrop, NEW r \in Readers, OpenReader(r) \/ CloseReader(r)
  PROVE  NoDrop' /\ \A i \in Streams : Missing(i)' = Missing(i)
<1> DEFINE b == ~open[r]
           op == IF b THEN "start" ELSE "stop"
           j == StreamOf[r]
<1>1. j \in Streams /\ Msg(op, j) \in Messages /\ IsFiniteSet(Readers)
      /\ MaxTimers \in Nat \ {0} /\ MaxMsgs \in Nat \ {0}
  BY ChannelAssumption DEF Messages, Msg, QueueHolds
<1>2. /\ Send(Msg(op, j)) /\ open' = [open EXCEPT ![r] = b]
      /\ UNCHANGED <<cnt, avmsg, timers>>
      /\ open[r] = ~b /\ open \in [Readers -> BOOLEAN] /\ b \in BOOLEAN
  BY DEF OpenReader, CloseReader, Msg, TypeOK
<1>3. Len(msgs) \in Nat /\ timers[j] \in Nat /\ Cardinality(Readers) \in Nat
  BY <1>1, FS_CardinalityType, LenProperties DEF TypeOK
<1>4. /\ AllOpen \in Nat /\ AllOpen' \in Nat
      /\ AllOpen' = IF b THEN AllOpen + 1 ELSE AllOpen - 1
  BY <1>1, <1>2, OpenCount DEF AllOpen
<1>5. AllOpen' <= Cardinality(Readers)
  BY <1>1, FS_Subset DEF AllOpen
<1>6. Len(msgs) < MaxMsgs /\ (b => Len(msgs) < MaxTimers)
  <2>1. CASE b
    <3>1. Len(msgs) + timers[j] < MaxTimers
      BY <2>1 DEF OpenReader, CloseReader
    <3> HIDE DEF j, b
    <3> QED BY <3>1, <1>1, <1>3 DEF QueueHolds
  <2>2. CASE ~b
    <3> HIDE DEF j, b
    <3> QED BY <2>2, <1>1, <1>3, <1>4 DEF NoDrop
  <2> QED BY <2>1, <2>2
<1>7. Len(msgs') = Len(msgs) + 1
  BY <1>1, <1>2, <1>6, SendCount
<1>8. NoDrop'
  <2> HIDE DEF j, b
  <2> QED BY <1>1, <1>3, <1>4, <1>5, <1>6, <1>7 DEF NoDrop, QueueHolds
<1>9. ASSUME NEW i \in Streams PROVE Missing(i)' = Missing(i)
  <2>1. /\ Queued("start", i)' = Queued("start", i) + (IF b /\ i = j THEN 1 ELSE 0)
        /\ Queued("stop", i)' = Queued("stop", i) + (IF ~b /\ i = j THEN 1 ELSE 0)
    <3>1. \A q \in {"start", "stop"} :
            Queued(q, i)' = Queued(q, i) + (IF Msg(op, j) = Msg(q, i) THEN 1 ELSE 0)
      BY <1>1, <1>2, <1>6, SendCount
    <3>2. Msg(op, j) = Msg("start", i) <=> b /\ i = j
      BY DEF Msg
    <3>3. Msg(op, j) = Msg("stop", i) <=> ~b /\ i = j
      BY DEF Msg
    <3> QED BY <3>1, <3>2, <3>3
  <2>2. /\ Opened(i) \in Nat /\ Opened(i)' \in Nat
        /\ Opened(i)' = IF i # j THEN Opened(i) ELSE IF b THEN Opened(i) + 1 ELSE Opened(i) - 1
    <3> DEFINE S == {q \in Readers : StreamOf[q] = i}
    <3>1. Opened(i) = Cardinality({q \in S : open[q]})
          /\ Opened(i)' = Cardinality({q \in S : open'[q]})
      <4>1. {q \in Readers : StreamOf[q] = i /\ open[q]} = {q \in S : open[q]}
        OBVIOUS
      <4>2. {q \in Readers : StreamOf[q] = i /\ open'[q]} = {q \in S : open'[q]}
        OBVIOUS
      <4> QED BY <4>1, <4>2 DEF Opened
    <3>2. r \in S <=> i = j
      OBVIOUS
    <3> QED BY <1>1, <1>2, <3>1, <3>2, OpenCount
  <2>3. /\ Queued("start", i) \in Nat /\ Queued("stop", i) \in Nat
        /\ timers[i] \in Nat /\ cnt[i] \in Int
    BY <1>1, PartsAreNumbers
  <2> HIDE DEF j, b
  <2>4. CASE i # j
    BY <2>1, <2>2, <2>3, <2>4, <1>2 DEF Missing, Wanted
  <2>5. CASE i = j /\ b
    BY <2>1, <2>2, <2>3, <2>5, <1>2 DEF Missing, Wanted
  <2>6. CASE i = j /\ ~b
    BY <2>1, <2>2, <2>3, <2>6, <1>2 DEF Missing, Wanted
  <2> QED BY <2>4, <2>5, <2>6
<1> QED BY <1>8, <1>9

\* The reader whose start was handled is counted.
LEMMA CountBalance ==
  ASSUME TypeOK, QueueHolds, NoDrop, CountReader
  PROVE  NoDrop' /\ \A i \in Streams : Missing(i)' = Missing(i)
<1>1. \A i \in Streams : /\ Opened(i) \in Nat
                         /\ Queued("start", i) \in Nat /\ Queued("stop", i) \in Nat
                         /\ timers[i] \in Nat /\ cnt[i] \in Int
  BY PartsAreNumbers DEF QueueHolds
<1>2. /\ avmsg \in Streams /\ avmsg' = NoStream
      /\ cnt' = [cnt EXCEPT ![avmsg] = @ + 1]
      /\ UNCHANGED <<msgs, timers, open>> /\ cnt \in [Streams -> Int]
  BY DEF CountReader, Count, TypeOK
<1>3. NoDrop'
  BY <1>2 DEF NoDrop, AllOpen
<1>4. ASSUME NEW i \in Streams PROVE Missing(i)' = Missing(i)
  <2>1. /\ Opened(i)' = Opened(i)
        /\ Queued("start", i)' = Queued("start", i) /\ Queued("stop", i)' = Queued("stop", i)
    BY <1>2 DEF Opened, Queued
  <2>2. cnt'[i] = cnt[i] + (IF avmsg = i THEN 1 ELSE 0)
    BY <1>1, <1>2
  <2>3. avmsg' # i /\ (IF avmsg' = i THEN 1 ELSE 0) = 0
    BY <1>2 DEF Streams, NoStream
  <2>4. Missing(i)' = Wanted(i)' - cnt'[i] /\ Missing(i) = Wanted(i) - cnt[i]
    BY DEF Missing
  <2>5. Wanted(i)' = (IF i = 0 THEN 1 ELSE 0) + Opened(i)' + Queued("stop", i)' + timers'[i]
                       - Queued("start", i)' - (IF avmsg' = i THEN 1 ELSE 0)
    BY DEF Wanted
  <2>6. Wanted(i)' = (IF i = 0 THEN 1 ELSE 0) + Opened(i) + Queued("stop", i) + timers[i]
                       - Queued("start", i)
    BY <1>1, <1>2, <2>1, <2>3, <2>5
  <2> QED BY <1>1, <2>2, <2>4, <2>6 DEF Wanted
<1> QED BY <1>3, <1>4

\* The parts of the sum are numbers, and so is the sum.
LEMMA WantedIsInt ==
  ASSUME TypeOK, QueueHolds, NEW i \in Streams
  PROVE  Wanted(i) \in Int /\ cnt[i] \in Int
<1>1. /\ Opened(i) \in Nat
      /\ Queued("start", i) \in Nat /\ Queued("stop", i) \in Nat
      /\ timers[i] \in Nat /\ cnt[i] \in Int
  BY PartsAreNumbers DEF QueueHolds
<1> QED BY <1>1 DEF Wanted

\* So is what a count misses.
LEMMA MissingIsInt ==
  ASSUME TypeOK, QueueHolds
  PROVE  /\ MaxMsgs \in Nat /\ AllOpen \in Nat
         /\ \A i \in Streams : Missing(i) \in Int
<1>1. MaxMsgs \in Nat /\ IsFiniteSet(Readers)
  BY ChannelAssumption DEF QueueHolds
<1>2. AllOpen \in Nat
  BY <1>1, FS_Subset, FS_CardinalityType DEF AllOpen
<1>3. ASSUME NEW i \in Streams PROVE Missing(i) \in Int
  BY WantedIsInt DEF Missing
<1> QED BY <1>1, <1>2, <1>3

\* A reader whose start finds the channel not logged on is the only one that is not
\* counted: it leaves the queue, and no part of the sum makes up for it.
LEMMA StartBalance ==
  ASSUME TypeOK, QueueHolds, NoDrop, HandleStart
  PROVE  /\ NoDrop' /\ \A i \in Streams : Missing(i)' >= Missing(i)
         /\ LoggedOn => \A i \in Streams : Missing(i)' = Missing(i)
<1>1. /\ Receive("start") /\ UNCHANGED <<cnt, timers, open>>
      /\ avmsg' = IF LoggedOn THEN Head(msgs).stream ELSE NoStream
  BY DEF HandleStart
<1>2. Len(msgs') = Len(msgs) - 1 /\ Len(msgs) \in Nat /\ avmsg = NoStream
      /\ Head(msgs).stream \in Streams
  BY <1>1, ReceiveLength
<1>3. NoDrop'
  BY <1>1, <1>2, MissingIsInt DEF NoDrop, AllOpen
<1>4. ASSUME NEW i \in Streams
      PROVE  Missing(i)' >= Missing(i) /\ (LoggedOn => Missing(i)' = Missing(i))
  <2>1. Queued("start", i)' = Queued("start", i) - (IF Head(msgs).stream = i THEN 1 ELSE 0)
    BY <1>1, ReceiveCount
  <2>2. Queued("stop", i)' = Queued("stop", i)
    <3>1. Queued("stop", i)' = Queued("stop", i) - 0
      BY <1>1, ReceiveCount
    <3> QED BY <3>1, PartsAreNumbers DEF QueueHolds
  <2>3. Opened(i)' = Opened(i)
    BY <1>1 DEF Opened
  <2>4. /\ Opened(i) \in Nat
        /\ Queued("start", i) \in Nat /\ Queued("stop", i) \in Nat
        /\ timers[i] \in Nat /\ cnt[i] \in Int
    BY PartsAreNumbers DEF QueueHolds
  <2>5. avmsg # i /\ (IF avmsg = i THEN 1 ELSE 0) = 0
    BY <1>2 DEF Streams, NoStream
  <2>6. (IF avmsg' = i THEN 1 ELSE 0) = IF LoggedOn /\ Head(msgs).stream = i THEN 1 ELSE 0
    BY <1>1 DEF Streams, NoStream
  <2>7. Missing(i)' = Wanted(i)' - cnt'[i] /\ Missing(i) = Wanted(i) - cnt[i]
    BY DEF Missing
  <2>8. Wanted(i)' = (IF i = 0 THEN 1 ELSE 0) + Opened(i)' + Queued("stop", i)' + timers'[i]
                       - Queued("start", i)' - (IF avmsg' = i THEN 1 ELSE 0)
    BY DEF Wanted
  <2>9. Wanted(i) = (IF i = 0 THEN 1 ELSE 0) + Opened(i) + Queued("stop", i) + timers[i]
                      - Queued("start", i)
    BY <2>4, <2>5 DEF Wanted
  <2>10. timers'[i] = timers[i] /\ cnt'[i] = cnt[i]
    BY <1>1
  <2>11. CASE LoggedOn
    BY <2>1, <2>2, <2>3, <2>4, <2>6, <2>7, <2>8, <2>9, <2>10, <2>11
  <2>12. CASE ~LoggedOn
    BY <2>1, <2>2, <2>3, <2>4, <2>6, <2>7, <2>8, <2>9, <2>10, <2>12
  <2> QED BY <2>11, <2>12
<1> QED BY <1>3, <1>4

\* The message of a stop becomes a timer.
LEMMA StopBalance ==
  ASSUME TypeOK, QueueHolds, NoDrop, HandleStop
  PROVE  NoDrop' /\ \A i \in Streams : Missing(i)' = Missing(i)
<1>1. /\ Receive("stop") /\ UNCHANGED <<cnt, avmsg, open>>
      /\ timers' = [timers EXCEPT ![Head(msgs).stream] = @ + 1]
      /\ timers \in [Streams -> Nat]
  BY DEF HandleStop, TypeOK
<1>2. Len(msgs') = Len(msgs) - 1 /\ Len(msgs) \in Nat /\ Head(msgs).stream \in Streams
  BY <1>1, ReceiveLength
<1>3. NoDrop'
  BY <1>1, <1>2, MissingIsInt DEF NoDrop, AllOpen
<1>4. ASSUME NEW i \in Streams PROVE Missing(i)' = Missing(i)
  <2>1. Queued("stop", i)' = Queued("stop", i) - (IF Head(msgs).stream = i THEN 1 ELSE 0)
    BY <1>1, ReceiveCount
  <2>2. Queued("start", i)' = Queued("start", i)
    <3>1. Queued("start", i)' = Queued("start", i) - 0
      BY <1>1, ReceiveCount
    <3> QED BY <3>1, PartsAreNumbers DEF QueueHolds
  <2>3. Opened(i)' = Opened(i)
    BY <1>1 DEF Opened
  <2>4. /\ Opened(i) \in Nat
        /\ Queued("start", i) \in Nat /\ Queued("stop", i) \in Nat
        /\ timers[i] \in Nat /\ cnt[i] \in Int
    BY PartsAreNumbers DEF QueueHolds
  <2>5. timers'[i] = timers[i] + (IF Head(msgs).stream = i THEN 1 ELSE 0)
    BY <1>1, <1>2, <2>4
  <2> QED BY <1>1, <2>1, <2>2, <2>3, <2>4, <2>5 DEF Missing, Wanted
<1> QED BY <1>3, <1>4

\* A stop timer that expires counts the reader out that waited for it.
LEMMA TimerBalance ==
  ASSUME TypeOK, QueueHolds, NoDrop, NEW j \in Streams, StopTimer(j)
  PROVE  NoDrop' /\ \A i \in Streams : Missing(i)' = Missing(i)
<1>1. \A i \in Streams : /\ Opened(i) \in Nat
                         /\ Queued("start", i) \in Nat /\ Queued("stop", i) \in Nat
                         /\ timers[i] \in Nat /\ cnt[i] \in Int
  BY PartsAreNumbers DEF QueueHolds
<1>2. /\ timers' = [timers EXCEPT ![j] = @ - 1] /\ cnt' = [cnt EXCEPT ![j] = @ + -1]
      /\ UNCHANGED <<msgs, avmsg, open>>
      /\ timers \in [Streams -> Nat] /\ cnt \in [Streams -> Int]
  BY DEF StopTimer, Count, TypeOK
<1>3. NoDrop'
  BY <1>2 DEF NoDrop, AllOpen
<1>4. ASSUME NEW i \in Streams PROVE Missing(i)' = Missing(i)
  <2>1. /\ Opened(i)' = Opened(i)
        /\ Queued("start", i)' = Queued("start", i) /\ Queued("stop", i)' = Queued("stop", i)
    BY <1>2 DEF Opened, Queued
  <2>2. /\ timers'[i] = timers[i] - (IF i = j THEN 1 ELSE 0)
        /\ cnt'[i] = cnt[i] - (IF i = j THEN 1 ELSE 0)
    BY <1>1, <1>2
  <2> QED BY <1>1, <1>2, <2>1, <2>2 DEF Missing, Wanted
<1> QED BY <1>3, <1>4

\* Nothing else touches the parts of the sum.
LEMMA OthersBalance ==
  ASSUME UNCHANGED counts, NoDrop
  PROVE  NoDrop' /\ \A i \in Streams : Missing(i)' = Missing(i)
<1>1. UNCHANGED <<cnt, msgs, avmsg, timers, open>>
  BY DEF counts
<1>2. NoDrop'
  BY <1>1 DEF NoDrop, AllOpen
<1>3. ASSUME NEW i \in Streams PROVE Missing(i)' = Missing(i)
  <2>1. /\ Opened(i)' = Opened(i)
        /\ Queued("start", i)' = Queued("start", i) /\ Queued("stop", i)' = Queued("stop", i)
    BY <1>1 DEF Opened, Queued
  <2> QED BY <1>1, <2>1 DEF Missing, Wanted
<1> QED BY <1>2, <1>3

\* Which steps may touch them.
LEMMA Balance ==
  ASSUME TypeOK, QueueHolds, NoDrop, [Next]_vars
  PROVE  /\ NoDrop' /\ \A i \in Streams : Missing(i)' >= Missing(i)
         /\ LoggedOn \/ UNCHANGED msgs => \A i \in Streams : Missing(i)' = Missing(i)
<1>1. \A i \in Streams : Missing(i) \in Int
  BY MissingIsInt
<1>2. CASE AvMsgThread
  <2>1. CASE HandleStart
    <3>1. msgs' # msgs
      <4>1. Len(msgs') = Len(msgs) - 1 /\ Len(msgs) \in Nat
        BY <2>1, ReceiveLength DEF HandleStart
      <4> QED BY <4>1
    <3> QED BY <2>1, <3>1, StartBalance
  <2>2. CASE CountReader
    BY <1>1, <2>2, CountBalance
  <2>3. CASE HandleStop
    BY <1>1, <2>3, StopBalance
  <2> QED BY <1>2, <2>1, <2>2, <2>3 DEF AvMsgThread
<1>3. CASE \E i \in Streams : StopTimer(i)
  BY <1>1, <1>3, TimerBalance
<1>4. CASE \E r \in Readers : OpenReader(r) \/ CloseReader(r)
  BY <1>1, <1>4, ReaderBalance
<1>5. CASE Check \/ RequestFails \/ (\E c \in Cameras \cup {Off} : SetCfg(c)) \/ UNCHANGED vars
  <2>1. UNCHANGED counts
    BY <1>5 DEF Check, CheckRead, CheckBegin, CheckSave, CheckStep, CheckServer, CheckIpnc,
                CheckLogin, CheckStream, RequestFails, SetCfg, vars
  <2> QED BY <1>1, <2>1, OthersBalance
<1> QED BY <1>2, <1>3, <1>4, <1>5 DEF Next

-----------------------------------------------------------------------------
MissingType == \A i \in Streams : Missing(i) \in Int

CountInv == ChainInv /\ NoDrop /\ \A i \in Streams : Missing(i) >= 0

\* At the start nobody reads, and the first stream is counted once.
LEMMA CountInit ==
  ASSUME Init, QueueHolds
  PROVE  NoDrop /\ \A i \in Streams : Missing(i) = 0
<1>1. msgs = <<>> /\ Len(msgs) = 0 /\ DOMAIN msgs = {} /\ \A r \in Readers : ~open[r]
  BY DEF Init
<1>2. AllOpen = 0 /\ \A i \in Streams : Opened(i) = 0
  <2>1. {r \in Readers : open[r]} = {} /\ \A i : {r \in Readers : StreamOf[r] = i /\ open[r]} = {}
    BY <1>1
  <2> QED BY <2>1, FS_EmptySet DEF AllOpen, Opened
<1>3. \A op, i : Queued(op, i) = 0
  <2>1. \A op, i : {k \in DOMAIN msgs : msgs[k] = [op |-> op, stream |-> i]} = {}
    BY <1>1
  <2> QED BY <2>1, FS_EmptySet DEF Queued
<1>4. NoDrop
  BY <1>1, <1>2, ChannelAssumption DEF NoDrop
<1>5. ASSUME NEW i \in Streams PROVE Missing(i) = 0
  <2>1. avmsg # i /\ timers[i] = 0 /\ cnt[i] = IF i = 0 THEN 1 ELSE 0
    BY DEF Init, Streams, NoStream
  <2> QED BY <1>2, <1>3, <2>1 DEF Missing, Wanted
<1> QED BY <1>4, <1>5

\* With room in the queue for every reader, a stream is never counted for more readers
\* than it has, through all messages, timers, checks and failures, and whoever starts
\* when (nOpenStreamCnt): what readers release is released.
THEOREM NeverOvercountedAlways ==
  ASSUME QueueHolds
  PROVE  Spec => []NeverOvercounted
<1>1. Init => CountInv
  BY CountInit, ChainInit DEF CountInv
<1>2. TypeOK => MissingType
  BY MissingIsInt DEF MissingType
<1>3. TypeOK' => MissingType'
  BY <1>2, PTL
<1>4. CountInv /\ [Next]_vars => CountInv'
  <2> SUFFICES ASSUME CountInv, [Next]_vars PROVE CountInv'
    OBVIOUS
  <2>1. ChainInv'
    BY ChainStep DEF CountInv
  <2>2. TypeOK /\ TypeOK'
    BY <2>1 DEF CountInv, ChainInv
  <2>3. NoDrop' /\ \A i \in Streams : Missing(i)' >= Missing(i)
    BY <2>2, Balance DEF CountInv
  <2>4. \A i \in Streams : Missing(i) \in Int /\ Missing(i)' \in Int
    BY <2>2, <1>2, <1>3 DEF MissingType
  <2>5. \A i \in Streams : Missing(i)' >= 0
    BY <2>3, <2>4 DEF CountInv
  <2> QED BY <2>1, <2>3, <2>5 DEF CountInv
<1>5. CountInv => NeverOvercounted
  <2> SUFFICES ASSUME CountInv, NEW i \in Streams PROVE cnt[i] <= Wanted(i)
    BY DEF NeverOvercounted
  <2>1. Wanted(i) \in Int /\ cnt[i] \in Int
    BY WantedIsInt DEF CountInv, ChainInv
  <2> QED BY <2>1 DEF CountInv, Missing
<1> QED BY <1>1, <1>4, <1>5, PTL DEF Spec

-----------------------------------------------------------------------------
\* Readers start on a connected channel, and nothing changes that.
Quiet == ~EarlyReaders /\ Changes = "none" /\ ~Flaky

\* As long as anyone reads or waits to be counted, the channel is connected.
QuietInv ==
  /\ ~At("idle") => check.cfg = cfg
  /\ server # None => cfg # Off
  /\ (msgs # <<>> \/ \E r \in Readers : open[r]) => Settled

\* A check leaves a settled channel settled.
LEMMA CheckSettled ==
  ASSUME ChainInv, QuietInv, Settled, Check
  PROVE  Settled'
<1>1. server # None /\ ipnc # None /\ login /\ saved = cfg /\ cfg # Off
  BY DEF Settled, LoggedOn, QuietInv
<1>2. ~At("idle") => check.cfg = cfg
  BY DEF QuietInv
<1>3. CASE CheckRead \/ CheckBegin \/ CheckSave
  BY <1>1, <1>2, <1>3
  DEF CheckRead, CheckBegin, CheckSave, Settled, LoggedOn, At, handles
<1>4. ASSUME NEW ok \in BOOLEAN, CheckStep(ok) PROVE Settled'
  BY <1>1, <1>2, <1>4
  DEF CheckStep, CheckServer, CheckIpnc, SameIpnc, CheckLogin, CheckStream, Settled, LoggedOn,
      At, handles
<1> QED BY <1>3, <1>4 DEF Check

\* What a check works on is the configuration, and it connects enabled channels only.
LEMMA CheckQuiet ==
  ASSUME ChainInv, QuietInv, Check
  PROVE  QuietInv'
<1>1. cfg' = cfg /\ msgs' = msgs /\ open' = open
  BY DEF Check, CheckRead, CheckBegin, CheckSave, CheckStep, CheckServer, CheckIpnc,
         CheckLogin, CheckStream, counts
<1>2. ~At("idle")' => check'.cfg = cfg'
  <2>1. check \in CheckStates
    BY DEF ChainInv, TypeOK
  <2>2. CASE CheckRead
    BY <2>2 DEF CheckRead
  <2>3. CASE ~CheckRead
    <3>1. ~At("idle")
      BY <2>3 DEF Check, CheckBegin, CheckSave, CheckStep, CheckServer, CheckIpnc,
                  CheckLogin, CheckStream, At
    <3>2. check'.cfg = check.cfg \/ check' = Idle
      BY <2>1, <2>3 DEF Check, CheckBegin, CheckSave, CheckStep, CheckServer, CheckIpnc,
                        CheckLogin, CheckStream, GoTo, Stop, CheckStates
    <3> QED BY <1>1, <3>1, <3>2 DEF QuietInv, At, Idle
  <2> QED BY <2>2, <2>3
<1>3. server' # None => cfg' # Off
  <2>1. ASSUME NEW ok \in BOOLEAN, CheckServer(ok) PROVE cfg # Off
    <3>1. check.cfg \in Cameras /\ check.cfg = cfg
      BY <2>1 DEF CheckServer, ChainInv, StepsInOrder, MutexFree, At, QuietInv
    <3> QED BY <3>1, OffIsNoCamera
  <2>2. CASE ~ \E ok \in BOOLEAN : CheckServer(ok)
    <3>1. server' = server \/ server' = None
      BY <2>2 DEF Check, CheckRead, CheckBegin, CheckSave, CheckStep, CheckIpnc, CheckLogin,
                  CheckStream, handles
    <3> QED BY <1>1, <3>1 DEF QuietInv
  <2> QED BY <1>1, <2>1, <2>2
<1>4. Settled => Settled'
  BY CheckSettled
<1> QED BY <1>1, <1>2, <1>3, <1>4 DEF QuietInv

\* Readers, messages and timers.
LEMMA QuietStep ==
  ASSUME Quiet, ChainInv, QuietInv, [Next]_vars
  PROVE  QuietInv'
<1>1. CASE Check
  BY <1>1, CheckQuiet
<1>2. CASE AvMsgThread
  <2>1. UNCHANGED <<cfg, check, handles, open>>
    BY <1>2 DEF AvMsgThread, HandleStart, CountReader, HandleStop
  <2>2. msgs' # <<>> => msgs # <<>>
    BY <1>2 DEF AvMsgThread, HandleStart, CountReader, HandleStop, Receive
  <2> QED BY <2>1, <2>2 DEF QuietInv, Settled, LoggedOn, At, handles
<1>3. ASSUME NEW i \in Streams, StopTimer(i) PROVE QuietInv'
  BY <1>3 DEF StopTimer, QuietInv, Settled, LoggedOn, At, handles
<1>4. ASSUME NEW r \in Readers, OpenReader(r) \/ CloseReader(r) PROVE QuietInv'
  <2>1. UNCHANGED <<cfg, check, handles>>
    BY <1>4 DEF OpenReader, CloseReader
  <2>2. Settled
    BY <1>4 DEF OpenReader, CloseReader, Quiet, QuietInv
  <2> QED BY <2>1, <2>2 DEF QuietInv, Settled, LoggedOn, At, handles
<1>5. CASE RequestFails \/ \E c \in Cameras \cup {Off} : SetCfg(c)
  BY <1>5 DEF Quiet, RequestFails, SetCfg
<1>6. CASE UNCHANGED vars
  BY <1>6 DEF vars, counts, QuietInv, Settled, LoggedOn, At, handles
<1> QED BY <1>1, <1>2, <1>3, <1>4, <1>5, <1>6 DEF Next

ExactInv == ChainInv /\ NoDrop /\ QuietInv /\ \A i \in Streams : Missing(i) = 0

\* When readers start on a channel that is connected for good, every one of them is
\* counted, however their starts and stops overtake each other
\* (nvr_channel_start_stream, nvr_channel_stop_stream).
THEOREM CountIsExactAlways ==
  ASSUME QueueHolds, Quiet
  PROVE  Spec => []CountIsExact
<1>1. Init => ExactInv
  <2> SUFFICES ASSUME Init PROVE ExactInv
    OBVIOUS
  <2>1. QuietInv
    BY DEF Init, QuietInv, At, Idle
  <2> QED BY <2>1, CountInit, ChainInit DEF ExactInv
<1>2. ExactInv /\ [Next]_vars => ExactInv'
  <2> SUFFICES ASSUME ExactInv, [Next]_vars PROVE ExactInv'
    OBVIOUS
  <2>1. ChainInv' /\ QuietInv'
    BY ChainStep, QuietStep DEF ExactInv
  <2>2. TypeOK
    BY DEF ExactInv, ChainInv
  <2>3. LoggedOn \/ UNCHANGED msgs
    <3>1. CASE msgs # <<>> \/ \E r \in Readers : open[r]
      BY <3>1 DEF ExactInv, QuietInv, Settled
    <3>2. CASE msgs = <<>> /\ \A r \in Readers : ~open[r]
      <4>1. CASE \E r \in Readers : OpenReader(r) \/ CloseReader(r)
        BY <4>1, <3>2 DEF OpenReader, CloseReader, Quiet, Settled
      <4>2. CASE AvMsgThread
        BY <4>2, <3>2 DEF AvMsgThread, HandleStart, CountReader, HandleStop, Receive
      <4>3. CASE \E i \in Streams : StopTimer(i)
        BY <4>3 DEF StopTimer
      <4>4. CASE Check \/ RequestFails \/ (\E c \in Cameras \cup {Off} : SetCfg(c)) \/ UNCHANGED vars
        BY <4>4 DEF Check, CheckRead, CheckBegin, CheckSave, CheckStep, CheckServer, CheckIpnc,
                    CheckLogin, CheckStream, RequestFails, SetCfg, vars, counts
      <4> QED BY <4>1, <4>2, <4>3, <4>4 DEF Next
    <3> QED BY <3>1, <3>2
  <2>4. NoDrop' /\ \A i \in Streams : Missing(i)' = Missing(i)
    BY <2>2, <2>3, Balance DEF ExactInv
  <2> QED BY <2>1, <2>4 DEF ExactInv
<1>3. ExactInv => CountIsExact
  <2> SUFFICES ASSUME ExactInv, NEW i \in Streams PROVE cnt[i] = Wanted(i)
    BY DEF CountIsExact
  <2>1. Wanted(i) \in Int /\ cnt[i] \in Int
    BY WantedIsInt DEF ExactInv, ChainInv
  <2> QED BY <2>1 DEF ExactInv, Missing
<1> QED BY <1>1, <1>2, <1>3, PTL DEF Spec
=============================================================================
