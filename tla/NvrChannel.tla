----------------------------- MODULE NvrChannel -----------------------------
(***************************************************************************)
(* One camera channel of the NVR server (server/app/src/nvr_channel.c):    *)
(* the chain of handles that leads from a protocol server to a camera, a   *)
(* login and two streams, and the number of readers of each stream.        *)
(*                                                                         *)
(* Who acts:                                                               *)
(*  - the only thread of gChPool walks the chain every five seconds, and   *)
(*    whenever it is asked to, holding the channel's mutex;                *)
(*  - the av-message thread handles, in order, the messages by which the   *)
(*    readers of the frame pools say that they start and stop;             *)
(*  - the main loop runs the timers that count a reader out 30 s after it  *)
(*    stopped, and the queued parameter settings;                          *)
(*  - other threads read parameters and control the camera.                *)
(* The channels share nothing but the pool thread, which serves them one   *)
(* after the other, so that one channel is modelled.                       *)
(*                                                                         *)
(* Every call of the ipnc client library is a request to another process,  *)
(* which may fail.  A user, a password, a port and the channel of a camera *)
(* are part of its protocol or of its address, whichever check they enter. *)
(* The five-second timer makes a check possible at any time; the checks    *)
(* that an update or a first reader queue are among those.  Left out is    *)
(* that no check is made while the file system is the default one (line    *)
(* 297), as if the timer had not run.                                      *)
(***************************************************************************)
EXTENDS Integers, Sequences, FiniteSets

CONSTANTS
  Protocols,    \* protocol servers (szProtocolName, szUser, szPasswd)
  Addrs,        \* cameras behind one (u32IpAddr, ports, u8UseChn)
  Readers,      \* readers of the channel's pools, in any process
  StreamOf,     \* the stream each reader reads
  EarlyReaders, \* may a reader start before the channel is connected for good?
  Changes,      \* configuration changes: "none", to "new" cameras, or to "any"
  Flaky,        \* may requests on a login fail, which ends it?
  MaxMsgs,      \* messages the message queue holds
  MaxTimers,    \* bound: messages and stop timers pending when a reader starts
  MaxDrift      \* bound: how far below zero a count is when a reader starts

Streams == {0, 1}
Cameras == [proto : Protocols, addr : Addrs]
Messages == [op : {"start", "stop"}, stream : Streams]

\* No camera: of the configuration, that the channel is disabled or has no address;
\* of a stream handle, that it is 0.
Off == [proto |-> "off", addr |-> "off"]
\* The other handles that are 0.
None == "none"
NoStream == -1

ASSUME ChannelAssumption ==
  /\ "off" \notin Protocols \cup Addrs /\ None \notin Protocols \cup Addrs
  /\ StreamOf \in [Readers -> Streams]
  /\ EarlyReaders \in BOOLEAN /\ Flaky \in BOOLEAN
  /\ Changes \in {"none", "new", "any"}
  /\ MaxMsgs \in Nat \ {0} /\ MaxTimers \in Nat \ {0}
  /\ MaxDrift \in Nat

VARIABLES
  cfg,      \* the channel's entry in the configuration of the recorder
  check,    \* the check thread: the step it is at, the configuration it read,
            \* and whether its last stream request succeeded
  server,   \* lHandle: protocol server connected to
  ipnc,     \* lIpncHandle: camera connected to
  login,    \* lLongonHandle # 0
  stream,   \* lStreamHandle: the camera each stream is pulled from
  saved,    \* struChannelCfg: configuration of the last check that succeeded
  cnt,      \* nOpenStreamCnt
  msgs,     \* the System V message queue
  avmsg,    \* the av-message thread: the stream it is about to count a reader
            \* of, NoStream between messages
  timers,   \* stop timers running, per stream
  open,     \* open[r]: reader r is open
  past      \* history, for "new" changes: the configurations chosen before

handles == <<server, ipnc, login, stream, saved>>
counts  == <<cnt, msgs, avmsg, timers, open>>
vars    == <<cfg, check, handles, counts, past>>

-----------------------------------------------------------------------------
NoStreams == [i \in Streams |-> Off]

\* The camera the handles lead to.
Connected == [proto |-> server, addr |-> ipnc]

\* The channel's mutex is free: the check thread holds it to the end of a check;
\* nobody else keeps it.
MutexFree == check.pc \in {"idle", "begin"}

LoggedOn == server # None /\ ipnc # None /\ login

\* A check went through with the present configuration, and nothing failed since.
Settled == LoggedOn /\ saved = cfg

Idle == [pc |-> "idle", cfg |-> Off, ok |-> TRUE]
At(pc) == check.pc = pc
GoTo(pc) == check' = [check EXCEPT !.pc = pc]
Stop == check' = Idle

-----------------------------------------------------------------------------
(***************************************************************************)
(* The check of a channel: nvr_channel_check_status.  A step that fails    *)
(* ends the check; the configuration is saved at the end of the chain.     *)
(***************************************************************************)

\* nvr_get_channel_cfg, before the mutex is taken.
CheckRead ==
  /\ At("idle")
  /\ check' = [pc |-> "begin", cfg |-> cfg, ok |-> TRUE]
  /\ UNCHANGED <<cfg, handles, counts, past>>

\* Mutant: a disabled channel is passed over.
CheckBeginPassesOver ==
  /\ At("begin")
  /\ IF check.cfg = Off THEN Stop ELSE GoTo("server")
  /\ UNCHANGED <<cfg, handles, counts, past>>

\* The mutex is taken, and a disabled channel is closed
\* (nvr_channel_close_all_handle), its saved configuration with it.
CheckBegin ==
  /\ At("begin")
  /\ IF check.cfg = Off
     THEN /\ server' = None /\ ipnc' = None /\ login' = FALSE
          /\ stream' = NoStreams /\ saved' = Off
          /\ Stop
     ELSE GoTo("server") /\ UNCHANGED handles
  /\ UNCHANGED <<cfg, counts, past>>

\* nvr_check_handle: a change of protocol closes everything, and the protocol
\* server is connected to if it is not.
CheckServer(ok) ==
  /\ At("server")
  /\ IF server # None /\ saved.proto = check.cfg.proto
     THEN GoTo("ipnc") /\ UNCHANGED handles
     ELSE /\ IF server = None
             THEN UNCHANGED <<ipnc, login, stream>>
             ELSE ipnc' = None /\ login' = FALSE /\ stream' = NoStreams
          /\ server' = IF ok THEN check.cfg.proto ELSE None
          /\ IF ok THEN GoTo("ipnc") ELSE Stop
          /\ UNCHANGED saved
  /\ UNCHANGED <<cfg, counts, past>>

\* The camera is still the one that is configured.
SameIpncMutant == ipnc # None   \* a change of address alone makes no difference
SameIpnc == ipnc # None /\ saved.addr = check.cfg.addr

\* What hangs on the connection to the camera is closed.
LeaveIpncMutant == login' = FALSE /\ UNCHANGED stream   \* the streams are forgotten
LeaveIpnc ==
  IF ipnc = None THEN UNCHANGED <<login, stream>>
                 ELSE login' = FALSE /\ stream' = NoStreams

\* nvr_check_ipnc_handle: likewise for the camera.
CheckIpnc(ok) ==
  /\ At("ipnc")
  /\ IF SameIpnc
     THEN GoTo("login") /\ UNCHANGED handles
     ELSE /\ LeaveIpnc
          /\ ipnc' = IF ok THEN check.cfg.addr ELSE None
          /\ IF ok THEN GoTo("login") ELSE Stop
          /\ UNCHANGED <<server, saved>>
  /\ UNCHANGED <<cfg, counts, past>>

\* A login is asked for whenever there is none.
LogsOnMutant == ~login /\ saved # check.cfg   \* but not for a known camera
LogsOn == ~login

\* nvr_check_logon_handle
CheckLogin(ok) ==
  /\ At("login")
  /\ login' = (login \/ (LogsOn /\ ok))
  /\ IF login' THEN GoTo("stream0") ELSE Stop
  /\ UNCHANGED <<cfg, server, ipnc, stream, saved, counts, past>>

\* A stream that has readers is started, one that has none any more is stopped,
\* and a negative count does neither.
StartsMutant(i) == stream[i] = Off /\ cnt[i] > 1   \* one reader is taken for none
StopsMutant(i) == FALSE                            \* a stream is never stopped
Starts(i) == stream[i] = Off /\ cnt[i] > 0
Stops(i) == stream[i] # Off /\ cnt[i] = 0

\* One turn of the loop of nvr_check_stream_handle.  The result of the last
\* request is that of the function.
CheckStream(i, ok) ==
  /\ At(IF i = 0 THEN "stream0" ELSE "stream1")
  /\ stream' = [stream EXCEPT ![i] = IF Starts(i) /\ ok THEN Connected
                                     ELSE IF Stops(i) THEN Off ELSE @]
  /\ check' = [check EXCEPT !.pc = IF i = 0 THEN "stream1" ELSE "save",
                            !.ok = IF Starts(i) \/ Stops(i) THEN ok ELSE @]
  /\ UNCHANGED <<cfg, server, ipnc, login, saved, counts, past>>

\* memcpy of the configuration, unless the streams failed.
CheckSave ==
  /\ At("save")
  /\ saved' = IF check.ok THEN check.cfg ELSE saved
  /\ Stop
  /\ UNCHANGED <<cfg, server, ipnc, login, stream, counts, past>>

CheckStep(ok) ==
  CheckServer(ok) \/ CheckIpnc(ok) \/ CheckLogin(ok) \/ \E i \in Streams : CheckStream(i, ok)

Check == CheckRead \/ CheckBegin \/ CheckSave \/ \E ok \in BOOLEAN : CheckStep(ok)

-----------------------------------------------------------------------------
(***************************************************************************)
(* Readers and the counts.                                                 *)
(***************************************************************************)

\* av_pool_send_msg: a message the queue has no room for is dropped, and the
\* callers ignore that (IPC_NOWAIT).
Send(m) == msgs' = IF Len(msgs) < MaxMsgs THEN Append(msgs, m) ELSE msgs

\* av_pool_start_read_frame
OpenReader(r) ==
  /\ ~open[r]
  /\ EarlyReaders \/ Settled
  /\ Len(msgs) + timers[StreamOf[r]] < MaxTimers
  /\ cnt[StreamOf[r]] >= -MaxDrift
  /\ open' = [open EXCEPT ![r] = TRUE]
  /\ Send([op |-> "start", stream |-> StreamOf[r]])
  /\ UNCHANGED <<cfg, check, handles, cnt, avmsg, timers, past>>

\* av_pool_stop_read_frame
CloseReader(r) ==
  /\ open[r]
  /\ open' = [open EXCEPT ![r] = FALSE]
  /\ Send([op |-> "stop", stream |-> StreamOf[r]])
  /\ UNCHANGED <<cfg, check, handles, cnt, avmsg, timers, past>>

\* The av-message thread takes the next message of kind op.
Receive(op) ==
  /\ avmsg = NoStream /\ msgs # <<>> /\ Head(msgs).op = op
  /\ msgs' = Tail(msgs)

\* nvr_channel_start_stream, with the mutex: a reader of a channel that is not
\* logged on is turned away.
HandleStart ==
  /\ Receive("start") /\ MutexFree
  /\ avmsg' = IF LoggedOn THEN Head(msgs).stream ELSE NoStream
  /\ UNCHANGED <<cfg, check, handles, cnt, timers, open, past>>

\* g_atomic_int_add, and g_atomic_int_dec_and_test
CountMutant(i, n) == cnt' = [cnt EXCEPT ![i] = @ + 1]   \* in, where out is due
Count(i, n) == cnt' = [cnt EXCEPT ![i] = @ + n]

\* nvr_channel_start_stream, after the mutex is released: the reader is counted.
CountReader ==
  /\ avmsg # NoStream
  /\ Count(avmsg, 1)
  /\ avmsg' = NoStream
  /\ UNCHANGED <<cfg, check, handles, msgs, timers, open, past>>

\* nvr_channel_stop_stream: a timer of 30 s is started.
HandleStop ==
  /\ Receive("stop")
  /\ timers' = [timers EXCEPT ![Head(msgs).stream] = @ + 1]
  /\ UNCHANGED <<cfg, check, handles, cnt, avmsg, open, past>>

\* nvr_channel_stop_stream_timeout
RunsMutant(i) == TRUE   \* the callback runs for a timer that is not there
Runs(i) == timers[i] > 0
StopTimer(i) ==
  /\ Runs(i)
  /\ timers' = [timers EXCEPT ![i] = @ - 1]
  /\ Count(i, -1)
  /\ UNCHANGED <<cfg, check, handles, msgs, avmsg, open, past>>

AvMsgThread == HandleStart \/ CountReader \/ HandleStop

-----------------------------------------------------------------------------
\* nvr_channel_set_param_timeout, nvr_channel_get_param, nvr_channel_ptz: a
\* request that fails ends the login.
RequestFails ==
  /\ Flaky /\ MutexFree /\ LoggedOn
  /\ login' = FALSE
  /\ UNCHANGED <<cfg, check, server, ipnc, stream, saved, counts, past>>

\* The configuration of the recorder changes; nvr_channel_update_cfg then queues
\* a check.
SetCfg(c) ==
  /\ c # cfg
  /\ Changes = "any" \/ (Changes = "new" /\ (c = Off \/ c \notin past))
  /\ cfg' = c
  /\ past' = IF Changes = "new" THEN past \cup {cfg} ELSE past
  /\ UNCHANGED <<check, handles, counts>>

\* nvr_channel_init: the first stream of a channel is always wanted.
Init ==
  /\ cfg \in Cameras \cup {Off}
  /\ check = Idle
  /\ server = None /\ ipnc = None /\ login = FALSE
  /\ stream = NoStreams /\ saved = Off
  /\ cnt = [i \in Streams |-> IF i = 0 THEN 1 ELSE 0]
  /\ msgs = <<>> /\ avmsg = NoStream
  /\ timers = [i \in Streams |-> 0]
  /\ open = [r \in Readers |-> FALSE]
  /\ past = {}

Next ==
  \/ Check
  \/ AvMsgThread
  \/ \E i \in Streams : StopTimer(i)
  \/ RequestFails
  \/ \E r \in Readers : OpenReader(r) \/ CloseReader(r)
  \/ \E c \in Cameras \cup {Off} : SetCfg(c)

\* The threads and the main loop run: the five-second timer goes on, and the
\* mutex, which is free between two checks, is not withheld from the av-message
\* thread for ever.  Requests that are made again and again do not all fail.
\* Nobody has to start or stop a reader or to change anything.
Fairness ==
  /\ WF_vars(Check)
  /\ SF_vars(AvMsgThread)
  /\ \A i \in Streams : WF_vars(StopTimer(i))
  /\ SF_vars(CheckServer(TRUE)) /\ SF_vars(CheckIpnc(TRUE)) /\ SF_vars(CheckLogin(TRUE))
  /\ \A i \in Streams : SF_vars(CheckStream(i, TRUE))

Spec == Init /\ [][Next]_vars
FairSpec == Spec /\ Fairness

-----------------------------------------------------------------------------
(***************************************************************************)
(* Properties.                                                             *)
(***************************************************************************)

CheckStates ==
  [pc : {"idle", "begin", "server", "ipnc", "login", "stream0", "stream1", "save"},
   cfg : Cameras \cup {Off}, ok : BOOLEAN]

TypeOK ==
  /\ cfg \in Cameras \cup {Off}
  /\ check \in CheckStates
  /\ server \in Protocols \cup {None} /\ ipnc \in Addrs \cup {None}
  /\ login \in BOOLEAN
  /\ stream \in [Streams -> Cameras \cup {Off}]
  /\ saved \in Cameras \cup {Off}
  /\ cnt \in [Streams -> Int]
  /\ msgs \in Seq(Messages)
  /\ avmsg \in Streams \cup {NoStream}
  /\ timers \in [Streams -> Nat]
  /\ open \in [Readers -> BOOLEAN]
  /\ past \subseteq Cameras \cup {Off}

\* The handles form a chain: no camera without a protocol server, no login and no
\* stream without a camera, and a stream that is pulled is one of the camera the
\* channel is connected to, never of the one before (nvr_check_handle,
\* nvr_check_ipnc_handle, nvr_channel_close_all_handle).
HandlesFormChain ==
  /\ ipnc # None => server # None
  /\ login => ipnc # None
  /\ \A i \in Streams : stream[i] # Off => stream[i] = Connected

\* A check that reaches its end leaves the channel connected to the camera it was
\* configured for (nvr_channel_check_status, "check whether it is still this
\* camera that is connected; if not, pull the streams again").
CheckedIsConfigured ==
  [][At("save") => Connected = check.cfg]_vars

Opened(i)  == Cardinality({r \in Readers : StreamOf[r] = i /\ open[r]})
Queued(op, i) == Cardinality({k \in DOMAIN msgs : msgs[k] = [op |-> op, stream |-> i]})

\* The readers of stream i whose start was or will be handled and whose stop timer
\* has not expired, and the constant one of stream 0.
Wanted(i) ==
  (IF i = 0 THEN 1 ELSE 0) + Opened(i) + Queued("stop", i) + timers[i]
    - Queued("start", i) - (IF avmsg = i THEN 1 ELSE 0)

\* A stream is never counted for more readers than it has: what its readers
\* release is released (nOpenStreamCnt, through messages, threads and timers).
NeverOvercounted == \A i \in Streams : cnt[i] <= Wanted(i)

\* When readers start only on a channel that is connected for good, every one is
\* counted (nvr_channel_start_stream, nvr_channel_stop_stream).
CountIsExact == \A i \in Streams : cnt[i] = Wanted(i)

\* A stream somebody reads is pulled in the end.
ReadersServed ==
  \A r \in Readers : open[r] ~> (stream[StreamOf[r]] # Off \/ ~open[r])

\* The second stream, once nobody reads it any more, is given back.
UnreadIsReleased ==
  <>[](\A r \in Readers : StreamOf[r] = 1 => ~open[r]) => <>[](stream[1] = Off)

\* A channel that is disabled ends with every handle closed, whatever fails.
DisabledIsClosed ==
  (cfg = Off) ~> (cfg # Off \/ (server = None /\ ipnc = None /\ ~login /\ stream = NoStreams))

\* An enabled channel is logged on again and again, however often requests fail.
LoggedOnAgain == <>[](cfg # Off) => []<>LoggedOn
=============================================================================
