---------------------------- MODULE NvrRecProofs ----------------------------
(***************************************************************************)
(* What TLAPS proves of NvrRec, for any length of the tail, any debouncing *)
(* of alarms and any set of recording types: what nvr_server takes for     *)
(* recording is recorded, with the type it takes it for, and an alarm      *)
(* recording outlasts the alarm by its tail.                               *)
(***************************************************************************)
EXTENDS NvrRec, TLAPS

\* An alarm recording that goes on has not used up its tail.
TailLeft == started /\ "alarm" \in rtype => sec < Tail

\* A recording is held by the storage process, or, while a format has closed it, by
\* the mask from which the way the format goes on will restart it.
Held ==
  started /\ ~forgot =>
    /\ format.stage \in {"no", "begun"} => store.on
    /\ format.stage \in {"begun", "running"} => format.bak
    /\ format.stage = "begun" => format.was
    /\ format.stage = "failed" => format.was \/ store.on

\* Between the two requests of a decision nothing is taken for recording.
Between == pc # "idle" => ~started

RecInv == TypeOK /\ TailLeft /\ Held /\ Between

\* The parts of TypeOK that requests and formats change, and those that count.
Stores  == [on : BOOLEAN, type : Types]
Formats == [stage : {"no", "begun", "running", "failed"}, bak : BOOLEAN, was : BOOLEAN]

-----------------------------------------------------------------------------
\* A recorder that starts believes in no recording.
LEMMA RecInit == Init => RecInv
<1> SUFFICES ASSUME Init PROVE RecInv
  OBVIOUS
<1>1. store \in Stores /\ format \in Formats
  BY DEF Init, Off, NoFormat, Stores, Formats, Types
<1>2. alarm \in [state : 0 .. 2, time : 0 .. Debounce] /\ sec \in 0 .. Tail /\ quiet \in -1 .. Tail
  BY RecAssumption DEF Init
<1>3. TypeOK
  BY <1>1, <1>2 DEF Init, TypeOK, Stores, Formats, Types
<1> QED
  BY <1>3 DEF Init, RecInv, TailLeft, Held, Between

\* A storage process that died records nothing, and formats nothing.
LEMMA DeadType == ASSUME Dead PROVE store' \in Stores /\ format' \in Formats /\ apart' \in BOOLEAN
BY DEF Dead, Off, NoFormat, Stores, Formats, Types

\* A start request changes the recording, and what is believed of it, to one of the
\* type requested, or not at all.
LEMMA StartType ==
  ASSUME TypeOK, NEW t \in Types, NEW answer \in Answers, Start(t, answer)
  PROVE  /\ store' \in Stores /\ format' \in Formats
         /\ started' \in BOOLEAN /\ rtype' \in Types
         /\ forgot' \in BOOLEAN /\ apart' \in BOOLEAN
         /\ (started' = TRUE /\ rtype' = t) \/ UNCHANGED <<started, rtype>>
<1>1. store' \in Stores /\ format' \in Formats /\ apart' \in BOOLEAN
  <2>1. CASE answer = "died" /\ Dead
    BY <2>1, DeadType
  <2>2. CASE ~(answer = "died" /\ Dead)
    <3>1. format' = format /\ (store' = [on |-> TRUE, type |-> t] \/ store' = store)
      BY <2>2 DEF Start
    <3>2. apart' = (answer # "ok") \/ apart' = apart
      BY <2>2 DEF Start
    <3>3. apart' \in BOOLEAN
      BY <3>2 DEF TypeOK
    <3>4. [on |-> TRUE, type |-> t] \in Stores
      BY DEF Stores
    <3> QED BY <3>1, <3>3, <3>4 DEF TypeOK, Stores, Formats
  <2> QED BY <2>1, <2>2
<1>2. started' \in BOOLEAN /\ rtype' \in Types
      /\ ((started' = TRUE /\ rtype' = t) \/ UNCHANGED <<started, rtype>>)
  BY DEF Start, TypeOK
<1>3. forgot' \in BOOLEAN
  BY DEF Start
<1> QED BY <1>1, <1>2, <1>3

\* A recording that is begun with success is held.
LEMMA StartHeld ==
  ASSUME TypeOK, ~started, NEW t, NEW answer \in Answers, Start(t, answer)
  PROVE  Held'
<1>1. CASE answer = "died"
  BY <1>1 DEF Start, Held
<1>2. CASE answer # "died" /\ ~Granted(answer)
  BY <1>2 DEF Start, Held
<1>3. CASE answer # "died" /\ Granted(answer)
  <2>1. answer = "ok" /\ ~Formatting
    BY <1>3 DEF Granted
  <2>2. UNCHANGED format /\ (store' = [on |-> TRUE, type |-> t] \/ (store' = store /\ store.on))
    BY <1>3, <2>1 DEF Start
  <2>3. format.stage \in {"no", "failed"}
    BY <2>1 DEF TypeOK, Formatting
  <2> QED BY <2>2, <2>3 DEF Held
<1> QED BY <1>1, <1>2, <1>3

\* After a stop request nothing is taken for recording.
LEMMA StopType ==
  ASSUME TypeOK, NEW answer \in Answers, Stop(answer)
  PROVE  /\ store' \in Stores /\ format' \in Formats /\ apart' \in BOOLEAN
         /\ started' = FALSE /\ rtype' = {} /\ forgot' = FALSE
<1>1. CASE answer = "died" /\ Dead
  BY <1>1, DeadType DEF Stop
<1>2. CASE ~(answer = "died" /\ Dead)
  <2>1. store' \in {store, [store EXCEPT !.on = FALSE]}
    BY <1>2 DEF Stop, storage
  <2>2. format' = format \/ \E b \in BOOLEAN : format' = [format EXCEPT !.bak = b]
    BY <1>2 DEF Stop, storage
  <2>3. apart' \in BOOLEAN /\ started' = FALSE /\ rtype' = {} /\ forgot' = FALSE
    BY <1>2 DEF Stop
  <2> QED BY <2>1, <2>2, <2>3 DEF TypeOK, Stores, Formats
<1> QED BY <1>1, <1>2

-----------------------------------------------------------------------------
\* A decision, by the requests it makes.
LEMMA StopWrongKindStep ==
  ASSUME RecInv, NEW answer \in Answers, StopWrongKind(answer)
  PROVE  RecInv'
<1>1. TypeOK
  BY DEF RecInv
<1>2. /\ store' \in Stores /\ format' \in Formats /\ apart' \in BOOLEAN
      /\ started' = FALSE /\ rtype' = {} /\ forgot' = FALSE
  BY <1>1, StopType DEF StopWrongKind
<1>3. TypeOK'
  BY <1>1, <1>2 DEF StopWrongKind, TypeOK, Stores, Formats, Types
<1> QED
  BY <1>2, <1>3 DEF RecInv, TailLeft, Held, Between

\* A manual recording begins, after the other one was stopped or at once.
LEMMA StartManualStep ==
  ASSUME RecInv, NEW answer \in Answers, StartManual(answer)
  PROVE  RecInv'
<1>1. TypeOK /\ ~started
  BY DEF RecInv, StartManual, Between
<1>2. Start({"manual"}, answer) /\ {"manual"} \in Types
  BY DEF StartManual, Types
<1>3. /\ store' \in Stores /\ format' \in Formats
      /\ started' \in BOOLEAN /\ rtype' \in Types
      /\ forgot' \in BOOLEAN /\ apart' \in BOOLEAN
      /\ (started' = TRUE /\ rtype' = {"manual"}) \/ UNCHANGED <<started, rtype>>
  BY <1>1, <1>2, StartType
<1>4. TypeOK'
  BY <1>1, <1>3 DEF StartManual, TypeOK, Stores, Formats
<1>5. TailLeft'
  <2>1. CASE rtype' = {"manual"}
    BY <2>1 DEF TailLeft
  <2>2. CASE UNCHANGED <<started, rtype>>
    BY <1>1, <2>2 DEF TailLeft
  <2> QED BY <1>3, <2>1, <2>2
<1>6. Held'
  BY <1>1, <1>2, StartHeld
<1>7. Between'
  BY DEF StartManual, Between
<1> QED
  BY <1>4, <1>5, <1>6, <1>7 DEF RecInv

\* A recording begins that is due.
LEMMA BeginsStep ==
  ASSUME RecInv, NEW answer \in Answers, Begins(answer)
  PROVE  /\ store' \in Stores /\ format' \in Formats
         /\ started' \in BOOLEAN /\ rtype' \in Types /\ sec' \in 0 .. Tail
         /\ forgot' \in BOOLEAN /\ apart' \in BOOLEAN
         /\ TailLeft' /\ Held'
<1>1. TypeOK /\ ~started
  BY DEF RecInv, Begins
<1>2. Start(Due, answer) /\ Due \in Types
  BY DEF Begins, Due, Types
<1>3. /\ store' \in Stores /\ format' \in Formats
      /\ started' \in BOOLEAN /\ rtype' \in Types
      /\ forgot' \in BOOLEAN /\ apart' \in BOOLEAN
      /\ (started' = TRUE /\ rtype' = Due) \/ UNCHANGED <<started, rtype>>
  BY <1>1, <1>2, StartType
<1>4. sec' \in 0 .. Tail /\ ("alarm" \in Due => sec' = 0)
  BY <1>1, RecAssumption DEF Begins, FirstSec, TypeOK
<1>5. TailLeft'
  <2>1. CASE rtype' = Due
    BY <1>4, <2>1, RecAssumption DEF TailLeft
  <2>2. CASE UNCHANGED <<started, rtype>>
    BY <1>1, <2>2 DEF TailLeft
  <2> QED BY <1>3, <2>1, <2>2
<1>6. Held'
  BY <1>1, <1>2, StartHeld
<1> QED
  BY <1>3, <1>4, <1>5, <1>6

\* A recording ends that is not due any more.
LEMMA EndsStep ==
  ASSUME RecInv, NEW answer \in Answers, Ends(answer)
  PROVE  /\ store' \in Stores /\ format' \in Formats
         /\ started' \in BOOLEAN /\ rtype' \in Types /\ sec' \in 0 .. Tail
         /\ forgot' \in BOOLEAN /\ apart' \in BOOLEAN
         /\ TailLeft' /\ Held'
<1>1. TypeOK /\ TailLeft /\ started
  BY DEF RecInv, Ends
<1>2. /\ store' \in Stores /\ format' \in Formats /\ apart' \in BOOLEAN
      /\ started' = FALSE /\ rtype' = {} /\ forgot' = FALSE
  BY <1>1, StopType DEF Ends
<1>3. sec' \in 0 .. Tail
  BY <1>1, RecAssumption DEF Ends, InTail, TailLeft, TypeOK
<1> QED
  BY <1>2, <1>3 DEF TailLeft, Held, Types

\* A recording goes on, and counts its tail.
LEMMA GoesOnStep ==
  ASSUME RecInv, GoesOn
  PROVE  /\ store' \in Stores /\ format' \in Formats
         /\ started' \in BOOLEAN /\ rtype' \in Types /\ sec' \in 0 .. Tail
         /\ forgot' \in BOOLEAN /\ apart' \in BOOLEAN
         /\ TailLeft' /\ Held'
<1>1. UNCHANGED <<started, rtype, store, format, forgot, apart>>
  BY DEF GoesOn, storage
<1>2. TypeOK /\ TailLeft /\ Held
  BY DEF RecInv
<1>3. \/ sec' \in {0, sec}
      \/ sec' = sec + 1 /\ sec + 1 < Tail
  BY <1>2, RecAssumption DEF GoesOn, NextSec, InTail, TypeOK
<1>4. sec' \in 0 .. Tail /\ TailLeft'
  BY <1>1, <1>2, <1>3, RecAssumption DEF TailLeft, TypeOK
<1>5. Held'
  BY <1>1, <1>2 DEF Held
<1> QED
  BY <1>1, <1>2, <1>4, <1>5 DEF TypeOK, Stores, Formats

\* The three outcomes of a decision for the configured type.
LEMMA DecideStep ==
  ASSUME RecInv, NEW answer \in Answers, Decide(answer)
  PROVE  RecInv'
<1>1. /\ store' \in Stores /\ format' \in Formats
      /\ started' \in BOOLEAN /\ rtype' \in Types /\ sec' \in 0 .. Tail
      /\ forgot' \in BOOLEAN /\ apart' \in BOOLEAN
      /\ TailLeft' /\ Held'
  BY BeginsStep, EndsStep, GoesOnStep DEF Decide
<1>2. quiet' \in -1 .. Tail
  BY RecAssumption DEF Decide, RecInv, TypeOK
<1>3. TypeOK'
  BY <1>1, <1>2 DEF Decide, RecInv, TypeOK, Stores, Formats
<1>4. Between'
  BY DEF Decide, Between
<1> QED
  BY <1>1, <1>3, <1>4 DEF RecInv

-----------------------------------------------------------------------------
\* An alarm comes or goes, and the decision that follows it.
LEMMA AlarmCheckStep ==
  ASSUME RecInv, NEW reported \in BOOLEAN, AlarmCheck(reported)
  PROVE  RecInv'
<1>1. alarm' \in [state : 0 .. 2, time : 0 .. Debounce]
  <2>1. TypeOK
    BY DEF RecInv
  <2>2. \/ alarm' \in {[state |-> 0, time |-> 0], [state |-> 1, time |-> 0],
                       [state |-> 2, time |-> Debounce]}
        \/ alarm' = [alarm EXCEPT !.time = @ - 1] /\ alarm.time > 1
    BY DEF AlarmCheck
  <2> QED BY <2>1, <2>2, RecAssumption DEF TypeOK
<1>2. happen' \in BOOLEAN
  BY DEF AlarmCheck
<1> QED
  BY <1>1, <1>2 DEF AlarmCheck, storage, ghosts, RecInv, TypeOK, TailLeft, Held, Between

\* The storage process, and what it does with the recordings at a format.
LEMMA FormatStartStep == ASSUME RecInv, FormatStart PROVE RecInv'
<1>1. format' \in Formats
  BY DEF FormatStart, RecInv, TypeOK, Formats
<1>2. TypeOK'
  BY <1>1 DEF FormatStart, decision, ghosts, RecInv, TypeOK, Formats
<1> QED
  BY <1>2 DEF FormatStart, decision, ghosts, RecInv, TailLeft, Held, Between

\* The thread of a format closes the recordings; the format then succeeds or fails.
LEMMA FormatClosesStep ==
  ASSUME RecInv, NEW ok \in BOOLEAN, FormatCloses(ok)
  PROVE  RecInv'
<1>1. store' \in Stores /\ format' \in Formats
  BY DEF FormatCloses, RecInv, TypeOK, Stores, Formats
<1>2. TypeOK'
  BY <1>1 DEF FormatCloses, decision, ghosts, RecInv, TypeOK, Stores, Formats
<1>3. /\ format.stage = "begun" /\ format'.stage \in {"running", "failed"}
      /\ format'.bak = format.bak /\ format'.was = format.was
  BY DEF FormatCloses, RecInv, TypeOK
<1> QED
  BY <1>2, <1>3 DEF FormatCloses, decision, ghosts, RecInv, TailLeft, Held, Between

\* A format that failed restarts the recordings it closed.
LEMMA FormatRestartStep == ASSUME RecInv, FormatRestart PROVE RecInv'
<1>1. /\ format' = NoFormat /\ format.stage = "failed"
      /\ store'.on = (store.on \/ format.was) /\ store' \in Stores
  BY DEF FormatRestart, RecInv, TypeOK, Stores
<1>2. apart' \in BOOLEAN
  BY DEF FormatRestart, RecInv, TypeOK
<1>3. TypeOK'
  BY <1>1, <1>2 DEF FormatRestart, decision, NoFormat, RecInv, TypeOK, Stores
<1>4. UNCHANGED <<started, rtype, sec, pc, forgot>>
  BY DEF FormatRestart, decision
<1>5. Held'
  <2>1. format'.stage = "no"
    BY <1>1 DEF NoFormat
  <2>2. started /\ ~forgot => store'.on
    BY <1>1 DEF RecInv, Held
  <2> QED BY <1>4, <2>1, <2>2 DEF Held
<1> QED
  BY <1>3, <1>4, <1>5 DEF RecInv, TailLeft, Between

\* The main loop restarts the recordings of the mask after a format.
LEMMA FormatEndStep == ASSUME RecInv, FormatEnd PROVE RecInv'
<1>1. /\ format' = NoFormat /\ format.stage = "running"
      /\ store'.on = format.bak /\ store' \in Stores
  BY DEF FormatEnd, Restarted, RecInv, TypeOK, Stores
<1>2. apart' \in BOOLEAN
  BY DEF FormatEnd, RecInv, TypeOK
<1>3. TypeOK'
  BY <1>1, <1>2 DEF FormatEnd, decision, NoFormat, RecInv, TypeOK, Stores
<1> QED
  BY <1>1, <1>3 DEF FormatEnd, decision, NoFormat, RecInv, TailLeft, Held, Between

\* What may lose a recording is remembered as having done so.
LEMMA OtherStopStep == ASSUME RecInv, OtherStop PROVE RecInv'
<1>1. format' \in Formats /\ forgot' \in BOOLEAN
  BY DEF OtherStop, RecInv, TypeOK, Formats
<1>2. TypeOK'
  BY <1>1 DEF OtherStop, decision, RecInv, TypeOK, Formats
<1> QED
  BY <1>2 DEF OtherStop, decision, RecInv, TailLeft, Held, Between

\* A storage process that dies forgets the recording, which is recorded in forgot.
LEMMA StorageDiesStep == ASSUME RecInv, StorageDies PROVE RecInv'
<1>1. /\ store' \in Stores /\ format' \in Formats /\ apart' \in BOOLEAN
      /\ forgot' \in BOOLEAN
  BY DeadType DEF StorageDies, RecInv, TypeOK
<1>2. TypeOK'
  BY <1>1 DEF StorageDies, decision, RecInv, TypeOK, Stores, Formats
<1> QED
  BY <1>2 DEF StorageDies, decision, RecInv, TailLeft, Held, Between

-----------------------------------------------------------------------------
\* Every step keeps the invariant.
LEMMA RecStep == RecInv /\ [Next]_vars => RecInv'
<1> SUFFICES ASSUME RecInv, [Next]_vars PROVE RecInv'
  OBVIOUS
<1>1. ASSUME NEW answer \in Answers, Ctrl(answer) PROVE RecInv'
  BY <1>1, StopWrongKindStep, StartManualStep, DecideStep DEF Ctrl
<1>2. ASSUME NEW b \in BOOLEAN, AlarmCheck(b) PROVE RecInv'
  BY <1>2, AlarmCheckStep
<1>3. ASSUME NEW b \in BOOLEAN, SetManual(b) PROVE RecInv'
  BY <1>3 DEF SetManual, storage, ghosts, RecInv, TypeOK, TailLeft, Held, Between
<1>4. ASSUME NEW c \in Configs, SetCfg(c) PROVE RecInv'
  BY <1>4 DEF SetCfg, decision, storage, ghosts, RecInv, TypeOK, TailLeft, Held, Between
<1>5. CASE Clock
  BY <1>5 DEF Clock, decision, storage, ghosts, RecInv, TypeOK, TailLeft, Held, Between
<1>6. CASE ServerDies
  <2>1. /\ alarm' \in [state : 0 .. 2, time : 0 .. Debounce]
        /\ sec' \in 0 .. Tail /\ quiet' \in -1 .. Tail
    BY <1>6, RecAssumption DEF ServerDies
  <2>2. apart' \in BOOLEAN /\ rtype' \in Types
    BY <1>6 DEF ServerDies, Types
  <2>3. /\ happen' = FALSE /\ manual' = FALSE /\ started' = FALSE /\ forgot' = FALSE
        /\ pc' = "idle" /\ UNCHANGED <<cfg, inSeg, store, format>>
    BY <1>6 DEF ServerDies, storage
  <2>4. TypeOK'
    BY <2>1, <2>2, <2>3 DEF RecInv, TypeOK
  <2> QED BY <1>6, <2>4 DEF ServerDies, RecInv, TailLeft, Held, Between
<1>7. CASE Format
  BY <1>7, FormatStartStep, FormatClosesStep, FormatRestartStep, FormatEndStep DEF Format
<1>8. CASE OtherStop
  BY <1>8, OtherStopStep
<1>9. CASE StorageDies
  BY <1>9, StorageDiesStep
<1>10. CASE UNCHANGED vars
  BY <1>10 DEF vars, decision, storage, ghosts, RecInv, TypeOK, TailLeft, Held, Between
<1> QED
  BY <1>1, <1>2, <1>3, <1>4, <1>5, <1>6, <1>7, <1>8, <1>9, <1>10 DEF Next

\* The invariant holds throughout.
LEMMA RecAlways == Spec => []RecInv
BY RecInit, RecStep, PTL DEF Spec

-----------------------------------------------------------------------------
\* The state of a recording is well formed: the tail of an alarm is never counted
\* beyond its end, however configurations and kinds of recording change (gAlarmSec).
THEOREM TypeCorrect == Spec => []TypeOK
<1>1. RecInv => TypeOK
  BY DEF RecInv
<1> QED
  BY <1>1, RecAlways, PTL

\* What nvr_server takes for recording is recorded, but for the time of a format,
\* whatever requests and answers are lost, refused and put off (gStartRec against
\* write_info.enable).
THEOREM RecordingHolds == Spec => []BelievedIsRecorded
<1>1. RecInv => BelievedIsRecorded
  BY DEF RecInv, Held, BelievedIsRecorded
<1> QED
  BY <1>1, RecAlways, PTL

-----------------------------------------------------------------------------
(***************************************************************************)
(* The type of what is recorded.                                           *)
(***************************************************************************)

\* What is recorded is of the type believed, and what nobody believes in is not
\* recorded, unless a request did not end the way nvr_server assumed.
KindInv ==
  /\ started /\ ~forgot /\ ~apart => store.type = rtype
  /\ ~started /\ ~apart => ~store.on

\* A start that is granted has the type asked for; of one that is not nobody believes in a
\* recording.
LEMMA StartKind ==
  ASSUME RecInv, KindInv, ~started, NEW t, NEW answer \in Answers, Start(t, answer)
  PROVE  KindInv'
<1>1. CASE answer = "died"
  <2>1. forgot' /\ store' = Off
    BY <1>1 DEF Start, Dead
  <2> QED BY <2>1 DEF Off, KindInv
<1>2. CASE answer # "died" /\ Granted(answer)
  <2>1. started' /\ rtype' = t /\ answer = "ok" /\ ~Formatting
    BY <1>2 DEF Start, Granted
  <2>2. CASE store.on
    <3>1. apart' = apart /\ store' = store
      BY <1>2, <2>2 DEF Start
    <3> QED BY <2>1, <2>2, <3>1 DEF KindInv
  <2>3. CASE ~store.on
    BY <1>2, <2>1, <2>3 DEF Start, KindInv
  <2> QED BY <2>2, <2>3
<1>3. CASE answer # "died" /\ ~Granted(answer)
  <2>1. started' = started
    BY <1>3 DEF Start
  <2>2. (store' = store /\ apart' = apart) \/ apart' = (answer # "ok")
    BY <1>3 DEF Start
  <2>3. answer = "ok" => store' = store /\ apart' = apart
    BY <1>3 DEF Start, Granted
  <2> QED BY <2>1, <2>2, <2>3 DEF KindInv
<1> QED BY <1>1, <1>2, <1>3

\* A stop leaves nothing recorded, unless it did not end as nvr_server assumed.
LEMMA StopKind ==
  ASSUME RecInv, NEW answer \in Answers, Stop(answer)
  PROVE  KindInv'
<1>1. ~started'
  BY DEF Stop
<1>2. apart' \/ store' = Off \/ store' = [store EXCEPT !.on = FALSE]
  BY DEF Stop, Dead
<1>3. store \in [on : BOOLEAN, type : Types]
  BY DEF RecInv, TypeOK
<1> QED BY <1>1, <1>2, <1>3 DEF KindInv, Off

\* Every step keeps the type.
LEMMA KindStep ==
  ASSUME RecInv, KindInv, [Next]_vars
  PROVE  KindInv'
<1> USE DEF KindInv
<1>1. ASSUME NEW answer \in Answers, Ctrl(answer) PROVE KindInv'
  <2>1. CASE StopWrongKind(answer)
    BY <2>1, StopKind DEF StopWrongKind
  <2>2. CASE StartManual(answer)
    BY <2>2, StartKind DEF StartManual, RecInv, Between
  <2>3. CASE Decide(answer)
    <3>1. CASE Begins(answer)
      BY <3>1, StartKind DEF Begins
    <3>2. CASE Ends(answer)
      BY <3>2, StopKind DEF Ends
    <3>3. CASE GoesOn
      BY <3>3 DEF GoesOn, storage
    <3> QED BY <2>3, <3>1, <3>2, <3>3 DEF Decide
  <2> QED BY <1>1, <2>1, <2>2, <2>3 DEF Ctrl
<1>2. ASSUME NEW b \in BOOLEAN, AlarmCheck(b) \/ SetManual(b) PROVE KindInv'
  BY <1>2 DEF AlarmCheck, SetManual, storage, ghosts
<1>3. CASE Clock \/ \E c \in Configs : SetCfg(c)
  BY <1>3 DEF Clock, SetCfg, decision, storage, ghosts
<1>4. CASE ServerDies
  BY <1>4 DEF ServerDies, storage
<1>5. CASE FormatStart
  BY <1>5 DEF FormatStart, decision, ghosts
<1>6. ASSUME NEW ok \in BOOLEAN, FormatCloses(ok) PROVE KindInv'
  BY <1>6 DEF FormatCloses, decision, ghosts, RecInv, TypeOK
<1>7. CASE FormatRestart
  <2>1. /\ store'.type = store.type /\ store'.on = (store.on \/ format.was)
        /\ apart' = (apart \/ (format.was /\ ~store.on /\ ~started))
        /\ UNCHANGED <<started, rtype, forgot>>
    BY <1>7 DEF FormatRestart, decision, RecInv, TypeOK
  <2> QED BY <2>1
<1>8. CASE FormatEnd
  <2>1. /\ store'.type = store.type /\ store'.on = format.bak
        /\ apart' = (apart \/ (format.bak /\ ~started))
        /\ UNCHANGED <<started, rtype, forgot>>
    BY <1>8 DEF FormatEnd, Restarted, decision, RecInv, TypeOK
  <2> QED BY <2>1
<1>9. CASE OtherStop
  BY <1>9 DEF OtherStop, decision
<1>10. CASE StorageDies
  BY <1>10 DEF StorageDies, Dead, Off, decision
<1>11. CASE UNCHANGED vars
  BY <1>11 DEF vars, decision, storage, ghosts
<1> QED
  BY <1>1, <1>2, <1>3, <1>4, <1>5, <1>6, <1>7, <1>8, <1>9, <1>10, <1>11 DEF Next, Format

\* It is recorded with the type nvr_server takes it for, through busy starts, stops
\* put off and formats that restart recordings, unless a request did not end the way
\* nvr_server assumed (gRecType against record_type).
THEOREM TypeIsAsBelievedAlways == Spec => []TypeIsAsBelieved
<1>1. Init => KindInv
  BY DEF Init, Off, KindInv
<1>2. KindInv => TypeIsAsBelieved
  BY DEF KindInv, TypeIsAsBelieved
<1> QED BY <1>1, <1>2, KindStep, RecAlways, PTL DEF Spec

-----------------------------------------------------------------------------
(***************************************************************************)
(* The tail of an alarm.                                                   *)
(***************************************************************************)

\* A plain alarm recording has not counted further than there has been no alarm, though
\* other modes count with the same counter; and a manual recording is nothing else.
TailInv ==
  /\ started /\ "alarm" \in rtype /\ quiet # -1 => sec <= quiet
  /\ "manual" \in rtype => rtype = {"manual"}

\* A recording that goes on counts a decision without an alarm, as the clock of the last
\* alarm does, and none while there is one.
LEMMA CountsAlong ==
  ASSUME RecInv, TailInv, GoesOn, quiet' = IF ~(cfg.enable /\ cfg.mode = 2) THEN -1
                                           ELSE IF happen THEN 0
                                           ELSE IF quiet \in {-1, Tail} THEN quiet
                                           ELSE quiet + 1
  PROVE  TailInv'
<1>1. UNCHANGED <<started, rtype>> /\ sec' = NextSec
  BY DEF GoesOn
<1>2. sec \in Nat /\ quiet \in -1 .. Tail /\ Tail \in Nat
  BY RecAssumption DEF RecInv, TypeOK
<1>3. ASSUME started, "alarm" \in rtype, quiet' # -1 PROVE sec' <= quiet'
  <2>1. cfg.enable /\ cfg.mode = 2
    BY <1>3
  <2>2. CASE happen
    <3>1. Due = {"alarm"}
      BY <2>1, <2>2 DEF Due
    <3> QED BY <1>1, <2>1, <2>2, <3>1 DEF NextSec
  <2>3. CASE ~happen
    <3>1. Due = {}
      BY <2>1, <2>3 DEF Due
    <3>2. sec' = sec + 1 /\ sec < Tail
      BY <1>1, <1>3, <3>1 DEF NextSec, RecInv, TailLeft
    <3>3. quiet # -1 /\ sec <= quiet
      BY <1>3, <2>1, <2>3 DEF TailInv
    <3> QED BY <1>2, <2>1, <2>3, <3>2, <3>3
  <2> QED BY <2>2, <2>3
<1> QED BY <1>1, <1>3 DEF TailInv

\* Every step.
LEMMA TailStep ==
  ASSUME RecInv, TailInv, [Next]_vars
  PROVE  TailInv'
<1>1. ASSUME NEW answer \in Answers, Ctrl(answer) PROVE TailInv'
  <2>1. CASE StopWrongKind(answer)
    BY <2>1 DEF StopWrongKind, Stop, TailInv
  <2>2. CASE StartManual(answer)
    <3>1. ~started /\ UNCHANGED <<sec, quiet>>
      BY <2>2 DEF StartManual, RecInv, Between
    <3>2. (started' /\ rtype' = {"manual"}) \/ UNCHANGED <<started, rtype>>
      BY <2>2 DEF StartManual, Start
    <3> QED BY <3>1, <3>2 DEF TailInv
  <2>3. CASE Decide(answer)
    <3>1. CASE Begins(answer)
      <4>1. ~started /\ sec' = FirstSec
            /\ ((started' /\ rtype' = Due) \/ UNCHANGED <<started, rtype>>)
        BY <3>1 DEF Begins, Start
      <4>2. "manual" \notin Due
        BY DEF Due
      <4>3. "alarm" \in Due => sec' = 0
        BY <4>1 DEF FirstSec
      <4>4. quiet' \in -1 .. Tail
        BY <2>3, RecAssumption DEF Decide, RecInv, TypeOK
      <4>5. quiet' # -1 => 0 <= quiet'
        BY <4>4, RecAssumption
      <4> QED BY <4>1, <4>2, <4>3, <4>5 DEF TailInv
    <3>2. CASE Ends(answer)
      BY <3>2 DEF Ends, Stop, TailInv
    <3>3. CASE GoesOn
      BY <2>3, <3>3, CountsAlong DEF Decide
    <3> QED BY <2>3, <3>1, <3>2, <3>3 DEF Decide
  <2> QED BY <1>1, <2>1, <2>2, <2>3 DEF Ctrl
<1>2. CASE ServerDies
  BY <1>2 DEF ServerDies, TailInv
<1>3. ASSUME UNCHANGED <<started, rtype, sec, quiet>> PROVE TailInv'
  BY <1>3 DEF TailInv
<1>4. ASSUME NEW b \in BOOLEAN, AlarmCheck(b) \/ SetManual(b) PROVE TailInv'
  BY <1>3, <1>4 DEF AlarmCheck, SetManual, ghosts
<1>5. CASE Clock \/ \E c \in Configs : SetCfg(c)
  BY <1>3, <1>5 DEF Clock, SetCfg, decision, ghosts
<1>6. CASE Format \/ OtherStop \/ StorageDies
  BY <1>3, <1>6 DEF Format, FormatStart, FormatCloses, FormatRestart, FormatEnd, OtherStop,
                    StorageDies, decision, ghosts
<1>7. CASE UNCHANGED vars
  BY <1>3, <1>7 DEF vars, decision, ghosts
<1> QED BY <1>1, <1>2, <1>4, <1>5, <1>6, <1>7 DEF Next

\* Only a decision ends a plain alarm recording, and not before its tail is over.
LEMMA TailEnds ==
  ASSUME RecInv, TailInv, [Next]_vars, started, ~started', "alarm" \in rtype, ~manual, quiet' # -1
  PROVE  quiet' = Tail
<1>1. ~WrongKind
  <2>1. "manual" \notin rtype
    BY DEF TailInv
  <2> QED BY <2>1 DEF WrongKind, RecInv, TypeOK
<1>2. PICK answer \in Answers : Decide(answer) /\ Ends(answer)
  <2>1. ~UNCHANGED started
    OBVIOUS
  <2>2. ~ServerDies
    BY DEF ServerDies
  <2>3. \E answer \in Answers : Ctrl(answer)
    BY <2>1, <2>2 DEF Next, AlarmCheck, SetManual, SetCfg, Clock, Format, FormatStart, FormatCloses,
                      FormatRestart, FormatEnd, OtherStop, StorageDies, decision, vars
  <2>4. PICK answer \in Answers : Ctrl(answer)
    BY <2>3
  <2>5. Decide(answer)
    BY <1>1, <2>4 DEF Ctrl, StopWrongKind, StartManual, RecInv, Between
  <2> QED BY <2>1, <2>5 DEF Decide, Begins, GoesOn
<1>3. Due = {} /\ (InTail => sec + 1 >= Tail)
  BY <1>2 DEF Ends
<1>4. cfg.enable /\ cfg.mode = 2 /\ ~happen
  <2>1. cfg.enable /\ cfg.mode = 2
    BY <1>2 DEF Decide
  <2> QED BY <1>3, <2>1 DEF Due
<1>5. sec + 1 >= Tail
  BY <1>3, <1>4 DEF InTail
<1>6. quiet' = IF quiet \in {-1, Tail} THEN quiet ELSE quiet + 1
  BY <1>2, <1>4 DEF Decide
<1>7. quiet # -1 /\ sec <= quiet
  BY <1>6 DEF TailInv
<1>8. sec \in Nat /\ quiet \in -1 .. Tail /\ Tail \in Nat
  BY RecAssumption DEF RecInv, TypeOK
<1> QED BY <1>5, <1>6, <1>7, <1>8

\* A plain alarm recording outlasts the alarm by the whole tail, whatever the configuration
\* was in between, whatever requests got lost and with whatever counter it began (gAlarmSec).
THEOREM TailIsWholeAlways == Spec => TailIsWhole
<1>1. Init => TailInv
  BY DEF Init, TailInv
<1>2. RecInv /\ TailInv /\ [Next]_vars
        => [started /\ ~started' /\ "alarm" \in rtype /\ pc = "idle" /\ ~manual /\ quiet' # -1
              => quiet' = Tail]_vars
  BY TailEnds
<1> QED BY <1>1, <1>2, TailStep, RecAlways, PTL DEF Spec, TailIsWhole
=============================================================================
