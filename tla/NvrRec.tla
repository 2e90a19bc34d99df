------------------------------- MODULE NvrRec -------------------------------
(***************************************************************************)
(* The recording of one channel: nvr_server decides (server/app/src/       *)
(* nvr_rec.c, nvr_alarm.c), the storage process records (storage/app/src/  *)
(* strg_record.c), and a request over a local socket is all they share.    *)
(* nvr_server never asks what the storage process does: it remembers the   *)
(* answer to its last request.                                             *)
(*                                                                         *)
(* nvr_server decides every ten seconds, and whenever an alarm, a command  *)
(* or a new configuration asks for it, on its main loop and with a lock:   *)
(* one decision at a time, of one or two requests.  Between them, as       *)
(* between two decisions, the storage process may begin or end to format a *)
(* disk, for which it stops every recording and later starts it again.     *)
(*                                                                         *)
(* Left out: the stream recorded, the overwrite flag, and the length of    *)
(* fragments, which are arguments of requests that decide nothing here;    *)
(* the other channels, which share no state of this module but the bits    *)
(* that one borrows from the next (OtherStop); the recording of channel 0  *)
(* that the end of a format begins in place of one of a channel that has   *)
(* never recorded; and a second format that begins while the thread of one *)
(* that failed restarts recordings.                                        *)
(***************************************************************************)
EXTENDS Integers

CONSTANTS
  Tail,      \* 60: decisions for which a recording outlasts its alarm
  Debounce,  \* 10: checks for which a pool must report no alarm
  Modes      \* recording types configured: 0 always, 1 timed, 2 alarm, 3 both

ASSUME RecAssumption ==
  /\ Tail \in Nat \ {0} /\ Debounce \in Nat \ {0}
  /\ Modes \subseteq 0 .. 3

VARIABLES
  cfg,       \* u8Enable, u8RecType
  inSeg,     \* the time of day is in a timer segment of the configuration
  alarm,     \* ipncAlarmStatus, ipncAlarmTime: the alarm check
  happen,    \* gAlarmHappen
  manual,    \* gManualRec
  started,   \* gStartRec
  rtype,     \* gRecType, as a set
  sec,       \* gAlarmSec
  pc,        \* where a decision stands that has made its first request
  store,     \* write_info of the channel in the storage process
  format,    \* formatting: its stage, and the channel's bits of the two masks
  \* History.
  forgot,    \* the storage process lost the recording nvr_server takes for granted:
             \* it died, or another channel's stop took its bit of a mask
  apart,     \* a request did not end the way nvr_server assumed, since the
             \* recording began that the storage process makes
  quiet      \* decisions without an alarm since the last with one, all of them
             \* for alarm recording; -1 if others came between

decision == <<happen, manual, started, rtype, sec, pc>>
storage  == <<store, format>>
ghosts   == <<forgot, apart, quiet>>
vars     == <<cfg, inSeg, alarm, decision, storage, ghosts>>

-----------------------------------------------------------------------------
Types  == SUBSET {"startup", "time", "alarm", "manual"}

\* A request is answered; it does not reach the storage process; it does, and the
\* wait for the answer is interrupted; or the storage process dies with it.  The
\* end of the connection is no error then: the header of the request stays where
\* the answer should be, with a result of 0 (storage_lib_send_and_recv_packet).
Answers == {"ok", "lost", "unanswered", "died"}

Off == [on |-> FALSE, type |-> {}]
NoFormat == [stage |-> "no", bak |-> FALSE, was |-> FALSE]

\* g_format_status: start requests are refused and stop requests put off.
Formatting == format.stage \in {"begun", "running"}

\* The storage process is gone, and the watchdog starts it again.
Dead == store' = Off /\ format' = NoFormat /\ apart' = FALSE

-----------------------------------------------------------------------------
(***************************************************************************)
(* The two requests, with what both processes do.                          *)
(***************************************************************************)

\* What nvr_server takes for a success.
GrantedMutant(answer) == answer \in {"ok", "died"}   \* the result is not looked at
Granted(answer) == answer = "died" \/ (answer = "ok" /\ ~Formatting)

\* storage_lib_record_start, strg_record_start.  A channel that records already
\* is "busy": it goes on with the type it has, and the answer is a success.
Start(t, answer) ==
  LET heard == answer \in {"ok", "unanswered"} /\ ~Formatting
      new   == heard /\ ~store.on
  IN /\ IF Granted(answer)
        THEN started' = TRUE /\ rtype' = t
        ELSE UNCHANGED <<started, rtype>>
     /\ forgot' = (answer = "died")
     /\ \/ answer = "died" /\ Dead
        \/ /\ answer # "died"
           /\ store' = IF new THEN [on |-> TRUE, type |-> t] ELSE store
           /\ apart' = IF new THEN answer # "ok" ELSE apart
           /\ UNCHANGED format

\* storage_lib_record_stop, strg_record_stop, and the caller, who ignores the
\* answer.  During formatting ~(1 << chn) is added to the mask of the channels to
\* restart, which leaves the channel's bit at anything.
Stop(answer) ==
  LET heard == answer \in {"ok", "unanswered"}
  IN /\ started' = FALSE /\ rtype' = {} /\ forgot' = FALSE
     /\ \/ answer = "died" /\ Dead
        \/ /\ heard /\ ~Formatting
           /\ store' = [store EXCEPT !.on = FALSE] /\ apart' = FALSE
           /\ UNCHANGED format
        \/ /\ heard /\ Formatting
           /\ \E b \in BOOLEAN : format' = [format EXCEPT !.bak = b]
           /\ apart' = TRUE
           /\ UNCHANGED store
        \/ /\ answer = "lost"
           /\ apart' = TRUE
           /\ UNCHANGED storage

-----------------------------------------------------------------------------
(***************************************************************************)
(* The decision: nvr_rec_ctrl.                                             *)
(***************************************************************************)

\* The types that the configuration asks for now; none if it asks for nothing.
Due ==
  {t \in {"startup", "time", "alarm"} :
     /\ cfg.enable
     /\ \/ t = "startup" /\ cfg.mode = 0
        \/ t = "time"    /\ cfg.mode \in {1, 3} /\ inSeg
        \/ t = "alarm"   /\ cfg.mode \in {2, 3} /\ happen}

Wanted == manual \/ Due # {}

\* The recording is of the wrong kind, manual or not: it is stopped first.
WrongKind == started /\ (("manual" \in rtype) # manual)

StopWrongKind(answer) ==
  /\ pc = "idle" /\ WrongKind
  /\ Stop(answer)
  /\ pc' = IF manual THEN "manual" ELSE "decide"
  /\ UNCHANGED <<cfg, inSeg, alarm, happen, manual, sec, quiet>>

StartManual(answer) ==
  /\ pc = "manual" \/ (pc = "idle" /\ manual /\ ~started)
  /\ Start({"manual"}, answer)
  /\ pc' = "idle"
  /\ UNCHANGED <<cfg, inSeg, alarm, happen, manual, sec, quiet>>

\* An alarm recording whose alarm is over goes on for Tail decisions.
InTail == cfg.enable /\ cfg.mode \in {2, 3} /\ "alarm" \in rtype

\* gAlarmSec when a recording begins; and when it goes on: only plain alarm
\* recording counts the tail from the last alarm.
FirstSecMutant == sec   \* a missing reset
FirstSec == IF "alarm" \in Due THEN 0 ELSE sec

NextSecThroughAlarm == IF started /\ Due = {} THEN sec + 1 ELSE sec   \* no reset
NextSecUncounted == IF Due = {"alarm"} /\ cfg.mode = 2 THEN 0 ELSE sec  \* no count
NextSec == IF Due = {"alarm"} /\ cfg.mode = 2 THEN 0
           ELSE IF started /\ Due = {} THEN sec + 1 ELSE sec

Begins(answer) ==
  /\ ~started /\ Due # {}
  /\ Start(Due, answer)
  /\ sec' = FirstSec

Ends(answer) ==
  /\ started /\ Due = {} /\ (InTail => sec + 1 >= Tail)
  /\ Stop(answer)
  /\ sec' = IF InTail THEN sec + 1 ELSE sec

GoesOn ==
  /\ started \/ Due = {}
  /\ ~(started /\ Due = {} /\ (InTail => sec + 1 >= Tail))
  /\ sec' = NextSec
  /\ UNCHANGED <<started, rtype, storage, forgot, apart>>

Decide(answer) ==
  /\ pc = "decide" \/ (pc = "idle" /\ ~manual /\ ~WrongKind)
  /\ Begins(answer) \/ Ends(answer) \/ GoesOn
  /\ pc' = "idle"
  /\ quiet' = IF ~(cfg.enable /\ cfg.mode = 2) THEN -1
              ELSE IF happen THEN 0
              ELSE IF quiet \in {-1, Tail} THEN quiet
              ELSE quiet + 1
  /\ UNCHANGED <<cfg, inSeg, alarm, happen, manual>>

Ctrl(answer) == StopWrongKind(answer) \/ StartManual(answer) \/ Decide(answer)

-----------------------------------------------------------------------------
(***************************************************************************)
(* What asks for recordings.                                               *)
(***************************************************************************)

\* nvr_alarm_check_timeout, every second on the main loop: an alarm counts at once,
\* its end after Debounce checks more.
AlarmCheck(reported) ==
  /\ pc = "idle"
  /\ alarm' = IF reported THEN [state |-> 1, time |-> 0]
              ELSE IF alarm.state = 1 THEN [state |-> 2, time |-> Debounce]
              ELSE IF alarm.state = 2 /\ alarm.time > 1
                   THEN [alarm EXCEPT !.time = @ - 1]
              ELSE [state |-> 0, time |-> 0]
  /\ happen' = (alarm'.state # 0)
  /\ UNCHANGED <<cfg, inSeg, manual, started, rtype, sec, pc, storage, ghosts>>

\* nvr_rec_manual
SetManual(start) ==
  /\ manual' = start
  /\ UNCHANGED <<cfg, inSeg, alarm, happen, started, rtype, sec, pc, storage, ghosts>>

\* nvr_rec_update.  A decision under way has its copy of the configuration, and
\* nothing else of this module reads it: a change waits for the end of it.
SetCfg(c) ==
  /\ pc = "idle"
  /\ cfg' = c
  /\ UNCHANGED <<inSeg, alarm, decision, storage, ghosts>>

\* The clock enters or leaves a timer segment (nvr_rec_is_in_segment).
Clock ==
  /\ inSeg' = ~inSeg
  /\ UNCHANGED <<cfg, alarm, decision, storage, ghosts>>

\* nvr_server ends without nvr_rec_uninit, and starts again.
ServerDies ==
  /\ alarm' = [state |-> 0, time |-> 0]
  /\ happen' = FALSE /\ manual' = FALSE
  /\ started' = FALSE /\ rtype' = {} /\ sec' = 0 /\ pc' = "idle"
  /\ forgot' = FALSE /\ apart' = (store.on \/ format.stage # "no") /\ quiet' = -1
  /\ UNCHANGED <<cfg, inSeg, storage>>

-----------------------------------------------------------------------------
(***************************************************************************)
(* The storage process.                                                    *)
(***************************************************************************)

\* strg_record_format_disk_start
FormatStart ==
  /\ format.stage = "no"
  /\ format' = [stage |-> "begun", bak |-> store.on, was |-> store.on]
  /\ UNCHANGED <<cfg, inSeg, alarm, decision, store, ghosts>>

\* __strg_record_format_disk_func stops every recording, then begins to format; or
\* that fails, and it lets requests in again before it restarts the recordings.
FormatCloses(ok) ==
  /\ format.stage = "begun"
  /\ store' = [store EXCEPT !.on = FALSE]
  /\ format' = [format EXCEPT !.stage = IF ok THEN "running" ELSE "failed"]
  /\ UNCHANGED <<cfg, inSeg, alarm, decision, ghosts>>

\* The recordings there were when the format began are started again, with their
\* types, unless requests have done so.
FormatRestart ==
  /\ format.stage = "failed"
  /\ store' = [store EXCEPT !.on = @ \/ format.was]
  /\ apart' = (apart \/ (format.was /\ ~store.on /\ ~started))
  /\ format' = NoFormat
  /\ UNCHANGED <<cfg, inSeg, alarm, decision, forgot, quiet>>

RestartedUntyped == [on |-> format.bak, type |-> {"startup"}]   \* the default type
RestartedRefused == store   \* g_format_status is set back only afterwards
Restarted == [store EXCEPT !.on = format.bak]

\* strg_record_format_disk_stop
FormatEnd ==
  /\ format.stage = "running"
  /\ store' = Restarted
  /\ apart' = (apart \/ (format.bak /\ ~started))
  /\ format' = NoFormat
  /\ UNCHANGED <<cfg, inSeg, alarm, decision, forgot, quiet>>

\* A stop of another channel borrows from this one's bit.
OtherStop ==
  /\ Formatting
  /\ \E b \in BOOLEAN : format' = [format EXCEPT !.bak = b]
  /\ forgot' = (forgot \/ started)
  /\ UNCHANGED <<cfg, inSeg, alarm, decision, store, apart, quiet>>

\* The storage process dies between two requests.
StorageDies ==
  /\ Dead
  /\ forgot' = (forgot \/ started)
  /\ UNCHANGED <<cfg, inSeg, alarm, decision, quiet>>

-----------------------------------------------------------------------------
Configs == [enable : BOOLEAN, mode : Modes]

\* nvr_rec_init
Init ==
  /\ cfg \in Configs /\ inSeg \in BOOLEAN
  /\ alarm = [state |-> 0, time |-> 0]
  /\ happen = FALSE /\ manual = FALSE
  /\ started = FALSE /\ rtype = {} /\ sec = 0 /\ pc = "idle"
  /\ store = Off /\ format = NoFormat
  /\ forgot = FALSE /\ apart = FALSE /\ quiet = -1

Format == FormatStart \/ FormatRestart \/ FormatEnd \/ \E ok \in BOOLEAN : FormatCloses(ok)

Next ==
  \/ \E answer \in Answers : Ctrl(answer)
  \/ \E b \in BOOLEAN : AlarmCheck(b) \/ SetManual(b)
  \/ \E c \in Configs : SetCfg(c)
  \/ Clock
  \/ ServerDies
  \/ Format
  \/ OtherStop
  \/ StorageDies

\* The ten-second timer goes on, and of the requests it makes again and again not
\* all get lost.
Fairness == SF_vars(Ctrl("ok"))

Spec == Init /\ [][Next]_vars
FairSpec == Spec /\ Fairness

-----------------------------------------------------------------------------
(***************************************************************************)
(* Properties.                                                             *)
(***************************************************************************)

TypeOK ==
  /\ cfg \in Configs /\ inSeg \in BOOLEAN
  /\ alarm \in [state : 0 .. 2, time : 0 .. Debounce]
  /\ happen \in BOOLEAN /\ manual \in BOOLEAN
  /\ started \in BOOLEAN /\ rtype \in Types /\ sec \in 0 .. Tail
  /\ pc \in {"idle", "manual", "decide"}
  /\ store \in [on : BOOLEAN, type : Types]
  /\ format \in [stage : {"no", "begun", "running", "failed"}, bak : BOOLEAN, was : BOOLEAN]
  /\ forgot \in BOOLEAN /\ apart \in BOOLEAN /\ quiet \in -1 .. Tail

\* What nvr_server takes for recording is recorded, but for the time of a format:
\* through lost requests and answers, refused starts and formats that fail, and
\* although nobody ever asks, as long as the storage process lives and no other
\* channel is stopped during a format (gStartRec against write_info.enable).
BelievedIsRecorded == started /\ ~forgot /\ format.stage = "no" => store.on

\* It is recorded with the type nvr_server takes it for, unless a request since
\* did not end the way nvr_server assumed (gRecType against record_type).
TypeIsAsBelieved ==
  started /\ ~forgot /\ format.stage = "no" /\ ~apart => store.type = rtype

\* nvr_rec.c:118, "if recording has begun, but not manual recording, stop the
\* recording first and then start manual recording": the start that follows that
\* stop and succeeds leaves the channel with a manual recording.  It does not, if
\* the stop was lost and the start finds the channel busy.
ManualIsManual ==
  [][pc = "manual" /\ started' /\ store'.on => store'.type = {"manual"}]_vars

\* An alarm recording outlasts the alarm by the whole tail (gAlarmSec).
TailIsWhole ==
  [][started /\ ~started' /\ "alarm" \in rtype /\ pc = "idle" /\ ~manual /\ quiet' # -1
     => quiet' = Tail]_vars

\* From some moment on both processes live and nobody formats, nor asks for
\* anything else: the configuration, the command, the alarm and the clock rest.
Steady ==
  /\ <>[](format.stage = "no")
  /\ <>[][UNCHANGED <<cfg, inSeg, manual, happen>> /\ ~ServerDies /\ ~StorageDies]_vars

\* What is wanted then is recorded in the end, however many requests were lost.
WantedIsRecorded == Steady /\ <>[](Wanted /\ ~forgot) => <>[](store.on)

\* What is not ends, the tail of an alarm included, unless a stop failed unnoticed.
UnwantedIsStopped == Steady /\ <>[](~Wanted /\ ~apart) => <>[](~store.on)
=============================================================================
