-------------------------- MODULE NvrChannelProofs --------------------------
(***************************************************************************)
(* What TLAPS proves of NvrChannel, for any protocols, cameras, readers,   *)
(* bounds and changes of the configuration: the handles of a channel       *)
(* always form a chain.  And, for changes that do not return to a camera:  *)
(* a check ends with the camera it was begun for.                          *)
(***************************************************************************)
EXTENDS NvrChannel, TLAPS

\* The steps of a check are taken in order, for a channel that is enabled: each is
\* reached with the handle the one before it obtained, and nobody else drops that
\* handle meanwhile.
StepsInOrder ==
  /\ ~MutexFree => check.cfg \in Cameras
  /\ At("ipnc") => server # None
  /\ At("login") => ipnc # None
  /\ (At("stream0") \/ At("stream1") \/ At("save")) => login

\* A pulled stream is a stream of a camera.
ChainInv == TypeOK /\ HandlesFormChain /\ StepsInOrder

USE DEF None, NoStream, Streams

-----------------------------------------------------------------------------
\* "off" is no camera.
LEMMA OffIsNoCamera == Off \notin Cameras
BY ChannelAssumption DEF Off, Cameras

\* A queue of messages stays one, whether or not the queue has room.
LEMMA SendType ==
  ASSUME NEW m \in Messages, msgs \in Seq(Messages), Send(m)
  PROVE  msgs' \in Seq(Messages)
BY DEF Send

\* What the thread takes from the queue is a message.
LEMMA ReceiveType ==
  ASSUME NEW op, msgs \in Seq(Messages), Receive(op)
  PROVE  Head(msgs) \in Messages /\ msgs' \in Seq(Messages)
BY DEF Receive

-----------------------------------------------------------------------------
\* A channel starts with no handle.
LEMMA ChainInit == Init => ChainInv
<1> SUFFICES ASSUME Init PROVE ChainInv
  OBVIOUS
<1>1. TypeOK
  <2>1. check \in CheckStates
    BY DEF Init, Idle, CheckStates
  <2>2. cnt \in [Streams -> Int] /\ timers \in [Streams -> Nat]
    BY DEF Init
  <2>3. msgs \in Seq(Messages)
    BY DEF Init
  <2> QED BY <2>1, <2>2, <2>3 DEF Init, TypeOK, NoStreams
<1>2. check.pc = "idle" /\ \A i \in Streams : stream[i] = Off
  BY DEF Init, Idle, NoStreams
<1> QED
  BY <1>1, <1>2 DEF Init, ChainInv, HandlesFormChain, StepsInOrder, At, MutexFree

\* Steps that leave the handles and the check thread alone.
LEMMA ChainKept ==
  ASSUME ChainInv, UNCHANGED <<check, handles>>, TypeOK'
  PROVE  ChainInv'
BY DEF ChainInv, HandlesFormChain, StepsInOrder, At, MutexFree, Connected, handles

\* Where the check thread goes next is one of its steps, with the same
\* configuration.
LEMMA GoToType ==
  ASSUME TypeOK, NEW pc \in {"server", "ipnc", "login", "stream0", "stream1", "save"}, GoTo(pc)
  PROVE  check' \in CheckStates /\ check'.pc = pc /\ check'.cfg = check.cfg
BY DEF TypeOK, GoTo, CheckStates

\* A check that ends leaves the thread idle.
LEMMA StopType == ASSUME Stop PROVE check' \in CheckStates /\ check'.pc = "idle"
BY DEF Stop, Idle, CheckStates

\* What is known of the state before a step of a check.
LEMMA ChainFacts ==
  ASSUME ChainInv
  PROVE  /\ TypeOK /\ HandlesFormChain /\ StepsInOrder
         /\ server = None => ipnc = None
         /\ ipnc = None => login = FALSE /\ \A i \in Streams : stream[i] = Off
<1>1. ipnc = None => \A i \in Streams : stream[i] = Off
  <2> SUFFICES ASSUME ipnc = None, NEW i \in Streams, stream[i] # Off PROVE FALSE
    OBVIOUS
  <2>1. stream[i].addr = None
    BY DEF ChainInv, HandlesFormChain, Connected
  <2>2. stream[i] \in Cameras
    BY DEF ChainInv, TypeOK
  <2> QED BY <2>1, <2>2, ChannelAssumption DEF Cameras
<1> QED
  BY <1>1 DEF ChainInv, HandlesFormChain, TypeOK

\* A channel whose streams were all closed has none.
LEMMA NoStreamsType ==
  NoStreams \in [Streams -> Cameras \cup {Off}] /\ \A i \in Streams : NoStreams[i] = Off
BY DEF NoStreams

\* nvr_check_handle
LEMMA ChainServer == ASSUME ChainInv, NEW ok \in BOOLEAN, CheckServer(ok) PROVE ChainInv'
<1>1. CASE server # None /\ saved.proto = check.cfg.proto
  <2>1. GoTo("ipnc") /\ UNCHANGED <<handles, cfg, counts, past>>
    BY <1>1 DEF CheckServer
  <2>2. check' \in CheckStates /\ check'.pc = "ipnc" /\ check'.cfg = check.cfg
    BY <2>1, ChainFacts, GoToType
  <2>3. TypeOK'
    BY <2>1, <2>2, ChainFacts DEF TypeOK, handles, counts
  <2>4. HandlesFormChain'
    BY <2>1, ChainFacts DEF HandlesFormChain, Connected, handles
  <2>5. StepsInOrder'
    BY <2>1, <2>2, <1>1, ChainFacts DEF CheckServer, StepsInOrder, At, MutexFree, handles
  <2> QED BY <2>3, <2>4, <2>5 DEF ChainInv
<1>2. CASE ~(server # None /\ saved.proto = check.cfg.proto)
  <2>1. /\ UNCHANGED <<saved, cfg, counts, past>>
        /\ server' = IF ok THEN check.cfg.proto ELSE None
        /\ IF ok THEN GoTo("ipnc") ELSE Stop
        /\ \/ server = None /\ UNCHANGED <<ipnc, login, stream>>
           \/ ipnc' = None /\ login' = FALSE /\ stream' = NoStreams
    BY <1>2 DEF CheckServer
  <2>2. ipnc' = None /\ login' = FALSE /\ \A i \in Streams : stream'[i] = Off
    <3>1. CASE server = None /\ UNCHANGED <<ipnc, login, stream>>
      <4>1. ipnc = None
        BY <3>1, ChainFacts
      <4>2. login = FALSE /\ \A i \in Streams : stream[i] = Off
        BY <4>1, ChainFacts
      <4> QED BY <3>1, <4>1, <4>2
    <3>2. CASE ipnc' = None /\ login' = FALSE /\ stream' = NoStreams
      BY <3>2, NoStreamsType
    <3> QED BY <2>1, <3>1, <3>2
  <2>3. stream' \in [Streams -> Cameras \cup {Off}]
    BY <2>1, ChainFacts, NoStreamsType DEF TypeOK
  <2>4. check.cfg \in Cameras /\ check.cfg.proto \in Protocols
    BY ChainFacts DEF CheckServer, At, MutexFree, StepsInOrder, Cameras
  <2>5. /\ check' \in CheckStates
        /\ \/ ok /\ check'.pc = "ipnc" /\ check'.cfg = check.cfg
           \/ ~ok /\ check'.pc = "idle"
    BY <2>1, ChainFacts, GoToType, StopType
  <2>6. TypeOK'
    BY <2>1, <2>2, <2>3, <2>4, <2>5, ChainFacts DEF TypeOK, counts
  <2>7. HandlesFormChain'
    BY <2>2 DEF HandlesFormChain
  <2>8. StepsInOrder'
    BY <2>1, <2>4, <2>5, ChannelAssumption DEF StepsInOrder, At, MutexFree
  <2> QED BY <2>6, <2>7, <2>8 DEF ChainInv
<1> QED BY <1>1, <1>2

\* nvr_check_ipnc_handle
LEMMA ChainIpnc == ASSUME ChainInv, NEW ok \in BOOLEAN, CheckIpnc(ok) PROVE ChainInv'
<1>1. CASE SameIpnc
  <2>1. GoTo("login") /\ UNCHANGED <<handles, cfg, counts, past>>
    BY <1>1 DEF CheckIpnc
  <2>2. check' \in CheckStates /\ check'.pc = "login" /\ check'.cfg = check.cfg
    BY <2>1, ChainFacts, GoToType
  <2>3. TypeOK'
    BY <2>1, <2>2, ChainFacts DEF TypeOK, handles, counts
  <2>4. HandlesFormChain'
    BY <2>1, ChainFacts DEF HandlesFormChain, Connected, handles
  <2>5. StepsInOrder'
    BY <2>1, <2>2, <1>1, ChainFacts DEF CheckIpnc, SameIpnc, StepsInOrder, At, MutexFree, handles
  <2> QED BY <2>3, <2>4, <2>5 DEF ChainInv
<1>2. CASE ~SameIpnc
  <2>1. /\ UNCHANGED <<server, saved, cfg, counts, past>>
        /\ ipnc' = IF ok THEN check.cfg.addr ELSE None
        /\ IF ok THEN GoTo("login") ELSE Stop
        /\ \/ ipnc = None /\ UNCHANGED <<login, stream>>
           \/ login' = FALSE /\ stream' = NoStreams
    BY <1>2 DEF CheckIpnc, LeaveIpnc
  <2>2. login' = FALSE /\ \A i \in Streams : stream'[i] = Off
    <3>1. CASE ipnc = None /\ UNCHANGED <<login, stream>>
      <4>1. login = FALSE /\ \A i \in Streams : stream[i] = Off
        BY <3>1, ChainFacts
      <4> QED BY <3>1, <4>1
    <3>2. CASE login' = FALSE /\ stream' = NoStreams
      BY <3>2, NoStreamsType
    <3> QED BY <2>1, <3>1, <3>2
  <2>3. stream' \in [Streams -> Cameras \cup {Off}]
    BY <2>1, ChainFacts, NoStreamsType DEF TypeOK
  <2>4. server # None /\ check.cfg \in Cameras /\ check.cfg.addr \in Addrs
    BY ChainFacts DEF CheckIpnc, At, MutexFree, StepsInOrder, Cameras
  <2>5. /\ check' \in CheckStates
        /\ \/ ok /\ check'.pc = "login" /\ check'.cfg = check.cfg
           \/ ~ok /\ check'.pc = "idle"
    BY <2>1, ChainFacts, GoToType, StopType
  <2>6. TypeOK'
    BY <2>1, <2>2, <2>3, <2>4, <2>5, ChainFacts DEF TypeOK, counts
  <2>7. HandlesFormChain'
    BY <2>1, <2>2, <2>4 DEF HandlesFormChain
  <2>8. StepsInOrder'
    BY <2>1, <2>4, <2>5, ChannelAssumption DEF StepsInOrder, At, MutexFree
  <2> QED BY <2>6, <2>7, <2>8 DEF ChainInv
<1> QED BY <1>1, <1>2

\* nvr_check_logon_handle
LEMMA ChainLogin == ASSUME ChainInv, NEW ok \in BOOLEAN, CheckLogin(ok) PROVE ChainInv'
<1>1. /\ UNCHANGED <<cfg, server, ipnc, stream, saved, counts, past>>
      /\ login' \in BOOLEAN
      /\ IF login' THEN GoTo("stream0") ELSE Stop
  BY ChainFacts DEF CheckLogin, TypeOK
<1>2. ipnc # None /\ check.cfg \in Cameras
  BY ChainFacts DEF CheckLogin, At, MutexFree, StepsInOrder
<1>3. /\ check' \in CheckStates
      /\ \/ login' /\ check'.pc = "stream0" /\ check'.cfg = check.cfg
         \/ check'.pc = "idle"
  BY <1>1, ChainFacts, GoToType, StopType
<1>4. TypeOK'
  BY <1>1, <1>3, ChainFacts DEF TypeOK, counts
<1>5. HandlesFormChain'
  BY <1>1, <1>2, ChainFacts DEF HandlesFormChain, Connected
<1>6. StepsInOrder'
  BY <1>2, <1>3 DEF StepsInOrder, At, MutexFree
<1> QED BY <1>4, <1>5, <1>6 DEF ChainInv

\* nvr_check_stream_handle
LEMMA ChainStream ==
  ASSUME ChainInv, NEW ok \in BOOLEAN, NEW i \in Streams, CheckStream(i, ok)
  PROVE  ChainInv'
<1>1. login /\ check.cfg \in Cameras
  BY ChainFacts DEF CheckStream, At, MutexFree, StepsInOrder
<1>2. Connected \in Cameras
  BY <1>1, ChainFacts DEF HandlesFormChain, TypeOK, Connected, Cameras
<1>3. /\ UNCHANGED <<cfg, server, ipnc, login, saved, counts, past>>
      /\ stream' \in [Streams -> Cameras \cup {Off}]
      /\ \A j \in Streams : stream'[j] \in {stream[j], Connected, Off}
  BY <1>2, ChainFacts DEF CheckStream, TypeOK
<1>4. check' \in CheckStates /\ check'.pc \in {"stream1", "save"} /\ check'.cfg = check.cfg
  <2>1. check \in CheckStates
    BY ChainFacts DEF TypeOK
  <2>2. \E pc \in {"stream1", "save"}, r \in BOOLEAN :
          check' = [check EXCEPT !.pc = pc, !.ok = r]
    BY <2>1 DEF CheckStream, CheckStates
  <2> QED BY <2>1, <2>2 DEF CheckStates
<1>5. TypeOK'
  BY <1>3, <1>4, ChainFacts DEF TypeOK, counts
<1>6. HandlesFormChain'
  BY <1>3, ChainFacts DEF HandlesFormChain, Connected
<1>7. StepsInOrder'
  BY <1>1, <1>3, <1>4 DEF StepsInOrder, At, MutexFree
<1> QED BY <1>5, <1>6, <1>7 DEF ChainInv

\* The beginning and the end of a check, and the steps between.
LEMMA ChainCheck == ASSUME ChainInv, Check PROVE ChainInv'
<1>1. CASE CheckBegin
  <2>1. CASE check.cfg = Off
    <3>1. check' \in CheckStates /\ check'.pc = "idle"
      BY <1>1, <2>1, StopType DEF CheckBegin
    <3>2. TypeOK'
      BY <1>1, <2>1, <3>1, ChainFacts, NoStreamsType DEF CheckBegin, TypeOK, counts
    <3>3. HandlesFormChain' /\ StepsInOrder'
      BY <1>1, <2>1, <3>1, NoStreamsType
      DEF CheckBegin, HandlesFormChain, StepsInOrder, At, MutexFree
    <3> QED BY <3>2, <3>3 DEF ChainInv
  <2>2. CASE check.cfg # Off
    <3>1. GoTo("server") /\ UNCHANGED <<cfg, handles, counts, past>>
      BY <1>1, <2>2 DEF CheckBegin
    <3>2. check.cfg \in Cameras
      BY <2>2, ChainFacts DEF TypeOK, CheckStates
    <3>3. check' \in CheckStates /\ check'.pc = "server" /\ check'.cfg = check.cfg
      BY <3>1, ChainFacts, GoToType
    <3>4. TypeOK' /\ HandlesFormChain'
      BY <3>1, <3>3, ChainFacts DEF TypeOK, counts, handles, HandlesFormChain, Connected
    <3>5. StepsInOrder'
      BY <3>2, <3>3 DEF StepsInOrder, At, MutexFree
    <3> QED BY <3>4, <3>5 DEF ChainInv
  <2> QED BY <2>1, <2>2
<1>3. CASE CheckRead
  <2>1. check' \in CheckStates /\ check'.pc = "begin"
    BY <1>3, ChainFacts DEF CheckRead, CheckStates, TypeOK
  <2>2. TypeOK' /\ HandlesFormChain'
    BY <1>3, <2>1, ChainFacts
    DEF CheckRead, TypeOK, counts, handles, HandlesFormChain, Connected
  <2>3. StepsInOrder'
    BY <2>1 DEF StepsInOrder, At, MutexFree
  <2> QED BY <2>2, <2>3 DEF ChainInv
<1>2. CASE CheckSave
  <2>1. check' \in CheckStates /\ check'.pc = "idle"
    BY <1>2, StopType DEF CheckSave
  <2>2. saved' \in Cameras \cup {Off}
    BY <1>2, ChainFacts DEF CheckSave, TypeOK, CheckStates
  <2>3. TypeOK'
    BY <1>2, ChainFacts, <2>1, <2>2 DEF CheckSave, TypeOK, counts
  <2>4. HandlesFormChain' /\ StepsInOrder'
    BY <1>2, ChainFacts, <2>1
    DEF CheckSave, HandlesFormChain, StepsInOrder, At, MutexFree, Connected
  <2> QED BY <2>3, <2>4 DEF ChainInv
<1> QED
  BY <1>1, <1>2, <1>3, ChainServer, ChainIpnc, ChainLogin, ChainStream DEF Check, CheckStep

\* The messages and timers: the counts stay integers.
LEMMA ChainMessages ==
  ASSUME ChainInv, AvMsgThread \/ \E i \in Streams : StopTimer(i)
  PROVE  ChainInv'
<1> USE DEF ChainInv, counts, handles
<1>1. CASE HandleStart
  <2>1. msgs' \in Seq(Messages) /\ avmsg' \in Streams \cup {NoStream}
    BY <1>1, ReceiveType DEF HandleStart, TypeOK, Messages
  <2>9. TypeOK'
    BY <1>1, <2>1 DEF HandleStart, TypeOK
  <2> QED BY <1>1, <2>9, ChainKept DEF HandleStart
<1>2. CASE CountReader
  <2>1. cnt' \in [Streams -> Int]
    BY <1>2 DEF CountReader, Count, TypeOK
  <2>9. TypeOK'
    BY <1>2, <2>1 DEF CountReader, TypeOK
  <2> QED BY <1>2, <2>9, ChainKept DEF CountReader
<1>3. CASE HandleStop
  <2>1. msgs' \in Seq(Messages) /\ Head(msgs).stream \in Streams
    BY <1>3, ReceiveType DEF HandleStop, TypeOK, Messages
  <2>2. timers' \in [Streams -> Nat]
    BY <1>3, <2>1 DEF HandleStop, TypeOK
  <2>9. TypeOK'
    BY <1>3, <2>1, <2>2 DEF HandleStop, TypeOK
  <2> QED BY <1>3, <2>9, ChainKept DEF HandleStop
<1>4. ASSUME NEW i \in Streams, StopTimer(i) PROVE ChainInv'
  <2>1. cnt' \in [Streams -> Int] /\ timers' \in [Streams -> Nat]
    BY <1>4 DEF StopTimer, Count, Runs, TypeOK
  <2>9. TypeOK'
    BY <1>4, <2>1 DEF StopTimer, TypeOK
  <2> QED BY <1>4, <2>9, ChainKept DEF StopTimer
<1> QED
  BY <1>1, <1>2, <1>3, <1>4 DEF AvMsgThread

\* Readers, failing requests and changes of the configuration.
LEMMA ChainOthers ==
  ASSUME ChainInv,
         \/ RequestFails
         \/ \E r \in Readers : OpenReader(r) \/ CloseReader(r)
         \/ \E c \in Cameras \cup {Off} : SetCfg(c)
  PROVE  ChainInv'
<1> USE DEF ChainInv, counts, handles
<1>1. CASE RequestFails
  BY <1>1 DEF RequestFails, TypeOK, HandlesFormChain, StepsInOrder, At, MutexFree, Connected
<1>2. ASSUME NEW r \in Readers, OpenReader(r) \/ CloseReader(r) PROVE ChainInv'
  <2>1. StreamOf[r] \in Streams
    BY ChannelAssumption
  <2>2. msgs' \in Seq(Messages)
    BY <1>2, <2>1, SendType DEF OpenReader, CloseReader, Messages, TypeOK
  <2>9. TypeOK'
    BY <1>2, <2>2 DEF OpenReader, CloseReader, TypeOK
  <2> QED BY <1>2, <2>9, ChainKept DEF OpenReader, CloseReader
<1>3. ASSUME NEW c \in Cameras \cup {Off}, SetCfg(c) PROVE ChainInv'
  <2>1. past' \subseteq Cameras \cup {Off}
    BY <1>3 DEF SetCfg, TypeOK
  <2>9. TypeOK'
    BY <1>3, <2>1 DEF SetCfg, TypeOK
  <2> QED BY <1>3, <2>9, ChainKept DEF SetCfg
<1> QED
  BY <1>1, <1>2, <1>3

-----------------------------------------------------------------------------
\* Every step.
LEMMA ChainStep == ASSUME ChainInv, [Next]_vars PROVE ChainInv'
<1>1. CASE Next
  BY <1>1, ChainCheck, ChainMessages, ChainOthers DEF Next
<1>2. CASE UNCHANGED vars
  BY <1>2, ChainKept DEF vars, handles, counts, ChainInv, TypeOK
<1> QED BY <1>1, <1>2

\* The chain of handles, for the whole of a behaviour.
LEMMA ChainInductive == Spec => []ChainInv
BY ChainInit, ChainStep, PTL DEF Spec

\* The state of a channel is always well formed; in particular a stream handle is
\* never one of no camera (NVR_CHANNEL_INFO_S).
THEOREM TypeCorrect == Spec => []TypeOK
<1>1. ChainInv => TypeOK
  BY DEF ChainInv
<1> QED BY <1>1, ChainInductive, PTL

\* Whatever fails and whatever is configured in whatever order, a channel has no
\* login or stream without the connection it was made through, and pulls no
\* stream of a camera it is no longer connected to (nvr_check_handle,
\* nvr_check_ipnc_handle, nvr_check_stream_handle).
THEOREM ChainHolds == Spec => []HandlesFormChain
<1>1. ChainInv => HandlesFormChain
  BY DEF ChainInv
<1> QED BY <1>1, ChainInductive, PTL

-----------------------------------------------------------------------------
(***************************************************************************)
(* Which camera a check ends with, when no camera is configured again      *)
(* after another one was.                                                  *)
(***************************************************************************)

OneProtocol == \A p, q \in Protocols : p = q

\* The configuration c is over: another one is set, and c does not come again.
Gone(c) == c \in past /\ cfg # c

\* The camera that a check which is not over was begun for.
Checked == IF At("idle") THEN Off ELSE check.cfg

\* Configurations are checked, and then saved, in the order in which they were set, and
\* the connection is to a later camera than the one saved only if that one is gone.
InTurn ==
  /\ cfg \notin past \/ cfg = Off
  /\ Checked \notin {Off, cfg} => Checked \in past
  /\ saved \notin {Off, cfg} => saved \in past
  /\ saved # Off /\ Checked \notin {Off, saved} => Gone(saved)
  /\ saved # Off /\ ipnc \notin {None, saved.addr} => Gone(saved) /\ Checked # saved
  /\ At("login") \/ At("stream0") \/ At("stream1") \/ At("save") => ipnc = check.cfg.addr

\* What stays as it was when the thread, the connection and the configuration do.
LEMMA TurnKept == ASSUME InTurn, UNCHANGED <<cfg, check, ipnc, saved, past>> PROVE InTurn'
BY DEF InTurn, Gone, Checked, At

\* A change of the configuration, to one that was never set before, or none.
LEMMA TurnChange ==
  ASSUME Changes = "new", InTurn, NEW c, SetCfg(c)
  PROVE  InTurn'
<1>1. /\ cfg' = c /\ past' = past \cup {cfg} /\ c # cfg /\ (c = Off \/ c \notin past)
      /\ UNCHANGED <<check, ipnc, saved>>
  BY DEF SetCfg, handles
<1>2. ASSUME NEW d, Gone(d) \/ d = cfg, d # Off PROVE Gone(d)'
  BY <1>1, <1>2 DEF Gone
<1>3. Checked' = Checked /\ \A pc \in {"login", "stream0", "stream1", "save"} : At(pc)' = At(pc)
  BY <1>1 DEF Checked, At
<1> QED BY <1>1, <1>2, <1>3 DEF InTurn, Gone

\* A step of a check.
LEMMA TurnCheck ==
  ASSUME OneProtocol, ChainInv, InTurn, Check
  PROVE  InTurn'
<1>1. TypeOK /\ StepsInOrder
  BY DEF ChainInv
<1>2. ASSUME At("ipnc"), SameIpnc PROVE saved = check.cfg /\ ipnc = check.cfg.addr
  <2>1. check.cfg \in Cameras /\ saved \in Cameras \cup {Off} /\ ~At("idle")
    BY <1>1, <1>2 DEF At, StepsInOrder, MutexFree, TypeOK
  <2>2. saved # Off
    BY <2>1, <1>2, ChannelAssumption DEF SameIpnc, Off, Cameras
  <2>3. saved = check.cfg
    BY <2>1, <2>2, <1>2 DEF SameIpnc, Cameras, OneProtocol
  <2>4. Checked = saved
    BY <2>1, <2>3 DEF Checked
  <2>5. ipnc = saved.addr
    BY <2>2, <2>4, <1>2 DEF InTurn, SameIpnc
  <2> QED BY <2>3, <2>5
<1>3. ASSUME UNCHANGED <<cfg, saved, past>>,
             check'.cfg = check.cfg /\ ~At("idle") /\ check'.pc # "idle",
             ipnc' \in {ipnc, None} \/ (ipnc' = check.cfg.addr /\ check.cfg # Off),
             check'.pc \in {"login", "stream0", "stream1", "save"} => ipnc' = check.cfg.addr
      PROVE  InTurn'
  <2>1. Checked' = Checked /\ Checked = check.cfg
    BY <1>3 DEF Checked, At
  <2>2. \A c : Gone(c)' = Gone(c)
    BY <1>3 DEF Gone
  <2>3. ASSUME saved # Off, ipnc' \notin {None, saved.addr} PROVE Gone(saved) /\ Checked # saved
    BY <1>3, <2>1, <2>3 DEF InTurn
  <2> QED BY <1>3, <2>1, <2>2, <2>3 DEF InTurn, At
<1>4. ASSUME UNCHANGED <<cfg, saved, past>>, Stop, ipnc' \in {ipnc, None} PROVE InTurn'
  <2>1. Checked' = Off /\ check'.pc = "idle"
    BY <1>4 DEF Stop, Idle, Checked, At
  <2>2. \A c : Gone(c)' = Gone(c)
    BY <1>4 DEF Gone
  <2> QED BY <1>4, <2>1, <2>2 DEF InTurn, At
<1>5. CASE CheckRead
  <2>1. Checked' = cfg /\ check'.pc = "begin" /\ UNCHANGED <<cfg, ipnc, saved, past>>
    BY <1>5 DEF CheckRead, Checked, At, handles
  <2>2. \A c : Gone(c)' = Gone(c)
    BY <2>1 DEF Gone
  <2> QED BY <2>1, <2>2 DEF InTurn, Gone, At
<1>6. CASE CheckBegin
  <2>1. CASE check.cfg = Off
    <3>1. saved' = Off /\ Checked' = Off /\ check'.pc = "idle" /\ UNCHANGED <<cfg, past>>
      BY <1>6, <2>1 DEF CheckBegin, Stop, Idle, Checked, At
    <3> QED BY <3>1 DEF InTurn, At
  <2>2. CASE check.cfg # Off
    <3>1. GoTo("server") /\ UNCHANGED <<cfg, ipnc, saved, past>> /\ At("begin")
      BY <1>6, <2>2 DEF CheckBegin, handles
    <3>2. check'.cfg = check.cfg /\ check'.pc = "server"
      BY <3>1, <1>1, GoToType
    <3> QED BY <3>1, <3>2, <1>3 DEF At
  <2> QED BY <2>1, <2>2
<1>7. ASSUME NEW ok \in BOOLEAN, CheckServer(ok) PROVE InTurn'
  <2>1. At("server") /\ UNCHANGED <<cfg, saved, past>> /\ ipnc' \in {ipnc, None}
    BY <1>7 DEF CheckServer, handles
  <2>2. GoTo("ipnc") \/ Stop
    BY <1>7 DEF CheckServer
  <2>3. CASE GoTo("ipnc")
    <3>1. check'.cfg = check.cfg /\ check'.pc = "ipnc"
      BY <2>3, <1>1, GoToType
    <3> QED BY <2>1, <3>1, <1>3 DEF At
  <2> QED BY <2>1, <2>2, <2>3, <1>4
<1>8. ASSUME NEW ok \in BOOLEAN, CheckIpnc(ok) PROVE InTurn'
  <2>1. At("ipnc") /\ UNCHANGED <<cfg, saved, past>> /\ check.cfg # Off
    BY <1>8, <1>1, OffIsNoCamera DEF CheckIpnc, handles, StepsInOrder, At, MutexFree
  <2>2. CASE SameIpnc \/ ok
    <3>1. GoTo("login") /\ ipnc' = check.cfg.addr
      BY <1>8, <2>1, <2>2, <1>2 DEF CheckIpnc, handles
    <3>2. check'.cfg = check.cfg /\ check'.pc = "login"
      BY <3>1, <1>1, GoToType
    <3> QED BY <2>1, <3>1, <3>2, <1>3 DEF At
  <2>3. CASE ~SameIpnc /\ ~ok
    BY <1>8, <2>1, <2>3, <1>4 DEF CheckIpnc
  <2> QED BY <2>2, <2>3
<1>9. ASSUME NEW ok \in BOOLEAN, CheckLogin(ok) PROVE InTurn'
  <2>1. At("login") /\ UNCHANGED <<cfg, ipnc, saved, past>> /\ ipnc = check.cfg.addr
    BY <1>9 DEF CheckLogin, InTurn
  <2>2. GoTo("stream0") \/ Stop
    BY <1>9 DEF CheckLogin
  <2>3. CASE GoTo("stream0")
    <3>1. check'.cfg = check.cfg /\ check'.pc = "stream0"
      BY <2>3, <1>1, GoToType
    <3> QED BY <2>1, <3>1, <1>3 DEF At
  <2> QED BY <2>1, <2>2, <2>3, <1>4
<1>10. ASSUME NEW ok \in BOOLEAN, NEW i \in Streams, CheckStream(i, ok) PROVE InTurn'
  <2>1. UNCHANGED <<cfg, ipnc, saved, past>> /\ ipnc = check.cfg.addr /\ ~At("idle")
    BY <1>10 DEF CheckStream, InTurn, At
  <2>2. \E pc \in {"stream1", "save"}, r \in BOOLEAN :
          check' = [check EXCEPT !.pc = pc, !.ok = r]
    BY <1>10, <1>1 DEF CheckStream, TypeOK, CheckStates
  <2>3. check'.cfg = check.cfg /\ check'.pc \in {"stream1", "save"}
    BY <2>2, <1>1 DEF TypeOK, CheckStates
  <2> QED BY <2>1, <2>3, <1>3
<1>11. CASE CheckSave
  <2>1. At("save") /\ UNCHANGED <<cfg, ipnc, past>> /\ saved' \in {saved, check.cfg} /\ Stop
    BY <1>11 DEF CheckSave
  <2>2. Checked' = Off /\ check'.pc = "idle" /\ Checked = check.cfg /\ ipnc = check.cfg.addr
    BY <2>1 DEF Stop, Idle, Checked, At, InTurn
  <2>3. \A c : Gone(c)' = Gone(c)
    BY <2>1 DEF Gone
  <2>4. CASE saved' = saved
    BY <2>1, <2>4, <1>4
  <2>5. CASE saved' = check.cfg
    BY <2>1, <2>2, <2>3, <2>5 DEF InTurn, At
  <2> QED BY <2>1, <2>4, <2>5
<1> QED
  BY <1>5, <1>6, <1>7, <1>8, <1>9, <1>10, <1>11 DEF Check, CheckStep

\* Every step.
LEMMA TurnStep ==
  ASSUME OneProtocol, Changes = "new", ChainInv, InTurn, [Next]_vars
  PROVE  InTurn'
<1>1. CASE AvMsgThread \/ (\E i \in Streams : StopTimer(i)) \/ RequestFails
  BY <1>1, TurnKept
  DEF AvMsgThread, HandleStart, CountReader, HandleStop, StopTimer, RequestFails, handles
<1>2. CASE \E r \in Readers : OpenReader(r) \/ CloseReader(r)
  BY <1>2, TurnKept DEF OpenReader, CloseReader, handles
<1>3. CASE UNCHANGED vars
  BY <1>3, TurnKept DEF vars, handles
<1> QED BY <1>1, <1>2, <1>3, TurnCheck, TurnChange DEF Next

\* If no camera is configured a second time and all speak one protocol, a check that reaches
\* its end has connected the channel to the camera it was begun for, however many checks
\* before it failed half-way (nvr_channel_check_status).
THEOREM CheckedIsConfiguredAlways ==
  ASSUME OneProtocol, Changes = "new"
  PROVE  Spec => CheckedIsConfigured
<1>1. Init => InTurn
  BY DEF Init, InTurn, Checked, At, Idle
<1>2. ChainInv /\ InTurn /\ [Next]_vars => InTurn'
  BY TurnStep
<1>3. ChainInv /\ InTurn => (At("save") => Connected = check.cfg)
  <2> SUFFICES ASSUME ChainInv, InTurn, At("save") PROVE Connected = check.cfg
    OBVIOUS
  <2>1. check.cfg \in Cameras /\ ipnc = check.cfg.addr
    BY DEF ChainInv, StepsInOrder, InTurn, At, MutexFree
  <2>2. server \in Protocols
    <3>1. login /\ ipnc # None /\ server # None
      BY DEF ChainInv, StepsInOrder, HandlesFormChain, At
    <3> QED BY <3>1 DEF ChainInv, TypeOK
  <2>3. server = check.cfg.proto
    BY <2>1, <2>2 DEF Cameras, OneProtocol
  <2> QED BY <2>1, <2>3 DEF Connected, Cameras
<1> QED BY <1>1, <1>2, <1>3, ChainInductive, PTL DEF Spec, CheckedIsConfigured
=============================================================================
