------------------------ MODULE OpenvpnManager_proofs ------------------------
(***************************************************************************)
(* Proofs about the service's manager, for any servers, port classes,      *)
(* faults, commands and bounds, in four parts:                             *)
(*   1. types, templates and launches;                                     *)
(*   2. the manager implements VpnContract: every handler tells the        *)
(*      clients what one action of the contract tells them, and the other  *)
(*      steps tell nothing;                                                *)
(*   3. what a timeout leaves of an attempt;                               *)
(*   4. while clients are told Connected, the supervision runs.            *)
(***************************************************************************)
EXTENDS OpenvpnManager, SequenceTheorems, TLAPS

(***************************************************************************)
(* Part 1: types, templates and launches                                   *)
(***************************************************************************)
-----------------------------------------------------------------------------
(* Every method of the manager maps objects to objects.                    *)

LEMMA BeginType == ASSUME NEW n \in Manager PROVE Begin(n) \in Manager
<1>1. <<>> \in Seq(Notifications) OBVIOUS
<1>2. QED BY <1>1 DEF Begin, Manager

LEMMA EmitType ==
    ASSUME NEW n \in Manager, NEW e \in Notifications
    PROVE  Emit(n, e) \in Manager
<1>1. n.emits \in Seq(Notifications) BY DEF Manager
<1>2. Append(n.emits, e) \in Seq(Notifications) BY <1>1
<1>3. QED BY <1>2 DEF Emit, Manager

LEMMA SetStateType ==
    ASSUME NEW n \in Manager, NEW st \in VpnStates
    PROVE  setState(n, st) \in Manager
<1>1. n.emits \in Seq(Notifications) /\ n.timer \in BOOLEAN BY DEF Manager
<1>2. st \in Notifications BY DEF Notifications
<1>3. Append(n.emits, st) \in Seq(Notifications) BY <1>1, <1>2
<1>4. QED BY <1>1, <1>3 DEF setState, Manager

LEMMA SocketType ==
    ASSUME NEW n \in Manager
    PROVE  /\ connectToOpenvpnSocket(n) \in Manager
           /\ disconnectFromOpenvpnSocket(n) \in Manager
           /\ setupFileWatcher(n) \in Manager
BY DEF connectToOpenvpnSocket, disconnectFromOpenvpnSocket, setupFileWatcher, Manager

LEMMA StopType == ASSUME NEW n \in Manager PROVE stop(n) \in Manager
<1>1. [n EXCEPT !.term = @ \/ n.socket = "up", !.socket = "none", !.watcher = FALSE]
        \in Manager
  BY DEF Manager
<1>2. QED BY <1>1, SetStateType DEF stop, VpnStates

LEMMA StartConnectingType ==
    ASSUME NEW n \in Manager
    PROVE  startConnecting(n) \in Manager
<1>1. setState(n, "Connecting") \in Manager BY SetStateType DEF VpnStates
<1>2. QED BY <1>1 DEF startConnecting, Manager

LEMMA CancelType == ASSUME NEW n \in Manager PROVE cancel(n) \in Manager
BY StopType, EmitType DEF cancel, Notifications

LEMMA GotConnectedType ==
    ASSUME NEW n \in Manager, NEW l
    PROVE  gotConnected(n, l) \in Manager
BY EmitType, SetStateType DEF gotConnected, Notifications, VpnStates

LEMMA GotTunErrType == ASSUME NEW n \in Manager PROVE gotTunErr(n) \in Manager
BY StartConnectingType DEF gotTunErr

LEMMA CleanupType ==
    ASSUME NEW n \in Manager
    PROVE  showErrorMessageCleanup(n) \in Manager
BY SocketType, SetStateType, EmitType
   DEF showErrorMessageCleanup, Notifications, VpnStates

LEMMA StartReconnectTimerType ==
    ASSUME NEW n \in Manager
    PROVE  startReconnectTimer(n) \in Manager
<1>1. PICK k \in 0..MaxShots : startReconnectTimer(n) = [n EXCEPT !.shots = k]
  <2>1. n.shots \in 0..MaxShots BY DEF Manager
  <2>2. (IF n.shots < MaxShots THEN n.shots + 1 ELSE n.shots) \in 0..MaxShots
    BY <2>1, ConstantsAssumption
  <2>3. QED BY <2>2 DEF startReconnectTimer
<1>2. QED BY <1>1 DEF Manager

LEMMA StateWordType ==
    ASSUME NEW n \in Manager, NEW w \in StateWords
    PROVE  StateWord(n, w) \in Manager
<1>1. CASE w = "EXITING" /\ n.mReconnect
  <2>1. startReconnectTimer(n) \in Manager BY StartReconnectTimerType
  <2>2. setState(startReconnectTimer(n), "Connecting") \in Manager
    BY <2>1, SetStateType DEF VpnStates
  <2>3. QED BY <1>1, <2>2 DEF StateWord, ConnectingWords
<1>2. CASE ~(w = "EXITING" /\ n.mReconnect)
  <2>1. gotConnected(n, w) \in Manager BY GotConnectedType
  <2>2. Emit(setState(n, "Connecting"), "word") \in Manager
    BY SetStateType, EmitType DEF Notifications, VpnStates
  <2>3. setState(n, "Disconnected") \in Manager BY SetStateType DEF VpnStates
  <2>4. Emit(n, "word") \in Manager BY EmitType DEF Notifications
  <2>5. Emit(stop(Emit(n, "word")), "error") \in Manager
    BY <2>4, StopType, EmitType DEF Notifications
  <2>6. QED BY <1>2, <2>1, <2>2, <2>3, <2>4, <2>5 DEF StateWord
<1>3. QED BY <1>1, <1>2

LEMMA StateLineType ==
    ASSUME NEW n \in Manager, NEW w \in StateWords
    PROVE  [StateWord(n, w) EXCEPT !.prev = w] \in Manager
<1>1. StateWord(n, w) \in Manager BY StateWordType
<1>2. w \in Lines BY DEF Lines
<1>3. QED BY <1>1, <1>2 DEF Manager

LEMMA OtherLineType ==
    ASSUME NEW n \in Manager, NEW l
    PROVE  OtherLine(n, l) \in Manager
<1>1. [n EXCEPT !.mError = TRUE] \in Manager BY DEF Manager
<1>2. [n EXCEPT !.target = <<n.target[1], NextClass>>] \in Manager
  BY DEF Manager, Keys, NextClass
<1>3. QED
  BY <1>1, <1>2, CleanupType, CancelType, GotTunErrType, EmitType, SocketType,
     StartConnectingType, GotConnectedType
     DEF OtherLine, parseNewIp, Notifications

LEMMA SuperviseType ==
    ASSUME NEW n \in Manager, NEW seen
    PROVE  Supervise(n, seen) \in Manager
BY SocketType, StartConnectingType, SetStateType DEF Supervise, VpnStates

LEMMA NewManagerType ==
    ASSUME NEW r \in BOOLEAN
    PROVE  NewManager(r) \in Manager
<1>1. (CHOOSE j \in Keys : TRUE) \in Keys
  <2>1. PICK s \in Servers : TRUE BY ConstantsAssumption
  <2>2. <<s, 1>> \in Keys BY DEF Keys
  <2>3. QED BY <2>2
<1>2. <<>> \in Seq(Notifications) OBVIOUS
<1>3. QED
  BY <1>1, <1>2, ConstantsAssumption
     DEF NewManager, Manager, VpnStates, G_Max_Reconnect, Lines

\* How a handler ends: the queues keep their types.
LEMMA SettleType ==
    ASSUME TypeOK, NEW n \in Manager, Settle(n)
    PROVE  /\ m' \in Manager
           /\ requests' \subseteq Requests
           /\ daemon' \in [phase : Phases, cfg : Keys \cup {NoTemplate}]
           /\ pipe' \in Seq(Lines)
<1>1. m' \in Manager BY DEF Settle
<1>2. requests' \subseteq Requests
  <2>1. ASSUME NEW c \in 1..MaxCopies
        PROVE  [key |-> n.target, url |-> n.url, copy |-> c] \in Requests
    BY DEF Requests, Manager
  <2>2. QED BY <2>1 DEF Settle, Fetch, TypeOK
<1>3. daemon' \in [phase : Phases, cfg : Keys \cup {NoTemplate}]
  BY DEF Settle, TypeOK, Phases
<1>4. pipe' \in Seq(Lines)
  <2>1. <<>> \in Seq(Lines) OBVIOUS
  <2>2. QED BY <2>1 DEF Settle, TypeOK
<1>5. QED BY <1>1, <1>2, <1>3, <1>4

-----------------------------------------------------------------------------
(* Type correctness.                                                       *)

\* Most handlers change no more than Settle does.
LEMMA SettleTypeOK ==
    ASSUME TypeOK, NEW n \in Manager, Settle(n),
           alive' \in BOOLEAN, batch' \in Seq(Lines), elapsed' \in BOOLEAN,
           log' \in Seq(Lines)
    PROVE  TypeOK'
BY SettleType DEF TypeOK

\* The assignments the handlers make themselves.
LEMMA AssignType ==
    ASSUME NEW n \in Manager, NEW b \in BOOLEAN
    PROVE  /\ [n EXCEPT !.attempt = 0] \in Manager
           /\ [n EXCEPT !.timer = TRUE] \in Manager
           /\ [n EXCEPT !.mNetDown = @ \/ b] \in Manager
           /\ \A s \in {"none", "opening", "up"} :
                 [n EXCEPT !.socket = s] \in Manager
           /\ \A k \in Keys : SetParameters(n, k) \in Manager
           /\ \A k \in Keys, l \in Keys :
                 [n EXCEPT !.templates[k] = l] \in Manager
<1>1. 0 \in 0..G_Max_Reconnect BY DEF G_Max_Reconnect
<1>2. [n EXCEPT !.attempt = 0] \in Manager BY <1>1 DEF Manager
<1>3. [n EXCEPT !.timer = TRUE] \in Manager BY DEF Manager
<1>4. [n EXCEPT !.mNetDown = @ \/ b] \in Manager
  <2>1. PICK c \in BOOLEAN : c = (n.mNetDown \/ b) OBVIOUS
  <2>2. [n EXCEPT !.mNetDown = c] \in Manager BY DEF Manager
  <2>3. QED BY <2>1, <2>2
<1>5. ASSUME NEW s \in {"none", "opening", "up"}
      PROVE  [n EXCEPT !.socket = s] \in Manager
  BY DEF Manager
<1>6. ASSUME NEW k \in Keys PROVE SetParameters(n, k) \in Manager
  BY DEF SetParameters, Manager
<1>7. ASSUME NEW k \in Keys, NEW l \in Keys
      PROVE  [n EXCEPT !.templates[k] = l] \in Manager
  <2>1. n.templates \in [Keys -> Keys \cup {NoTemplate}] BY DEF Manager
  <2>2. PICK t \in [Keys -> Keys \cup {NoTemplate}] :
          t = [n.templates EXCEPT ![k] = l]
    BY <2>1
  <2>3. [n EXCEPT !.templates = t] \in Manager BY DEF Manager
  <2>4. QED BY <2>2, <2>3
<1>8. QED BY <1>2, <1>3, <1>4, <1>5, <1>6, <1>7

LEMMA CommandsType ==
    ASSUME TypeOK, Commands PROVE TypeOK'
<1>0. m \in Manager /\ Begin(m) \in Manager BY BeginType DEF TypeOK
<1>1. ASSUME NEW k \in Servers \X PortClasses, Start(k) PROVE TypeOK'
  <2>1. k \in Keys BY ConstantsAssumption DEF Keys
  <2>2. [Begin(m) EXCEPT !.attempt = 0] \in Manager
    BY <1>0, AssignType
  <2>3. stop([Begin(m) EXCEPT !.attempt = 0]) \in Manager BY <2>2, StopType
  <2>4. SetParameters(stop([Begin(m) EXCEPT !.attempt = 0]), k) \in Manager
    BY <2>1, <2>3, AssignType
  <2>5. startConnecting(SetParameters(stop([Begin(m) EXCEPT !.attempt = 0]), k))
          \in Manager
    BY <2>4, StartConnectingType
  <2>6. QED BY <1>1, <2>5, SettleTypeOK DEF Start, TypeOK
<1>2. ASSUME Stop PROVE TypeOK'
  BY <1>0, <1>2, StopType, SettleTypeOK DEF Stop, TypeOK
<1>3. ASSUME NetDown PROVE TypeOK'
  <2>1. PICK ok \in BOOLEAN : Settle([Begin(m) EXCEPT !.mNetDown = @ \/ ok])
    BY <1>3 DEF NetDown
  <2>2. [Begin(m) EXCEPT !.mNetDown = @ \/ ok] \in Manager BY <1>0, AssignType
  <2>3. QED BY <1>3, <2>1, <2>2, SettleTypeOK DEF NetDown, TypeOK
<1>4. ASSUME KillRunningOpenvpn PROVE TypeOK'
  <2>1. ASSUME NEW s \in {"none", "opening", "up"}
        PROVE  stop([Begin(m) EXCEPT !.socket = s]) \in Manager
    <3>1. [Begin(m) EXCEPT !.socket = s] \in Manager BY <1>0, AssignType
    <3>2. QED BY <3>1, StopType
  <2>2. \E n \in Manager : Settle(n)
    BY <1>0, <1>4, <2>1 DEF KillRunningOpenvpn
  <2>3. QED BY <1>4, <2>2, SettleTypeOK DEF KillRunningOpenvpn, TypeOK
<1>5. QED BY <1>1, <1>2, <1>3, <1>4 DEF Commands

LEMMA TemplateReplyType ==
    ASSUME TypeOK, NEW r \in requests, TemplateFailed(r) \/ TemplateFinished(r)
    PROVE  TypeOK'
<1>0. /\ m \in Manager /\ Begin(m) \in Manager
      /\ r \in Requests /\ requests \subseteq Requests
      /\ <<>> \in Seq(Lines)
  BY BeginType DEF TypeOK
<1>1. ASSUME TemplateFailed(r) PROVE TypeOK'
  <2>1. m' \in Manager
    BY <1>0, <1>1, EmitType, StopType DEF TemplateFailed, Notifications
  <2>2. daemon' \in [phase : Phases, cfg : Keys \cup {NoTemplate}]
    BY <1>1 DEF TemplateFailed, TypeOK, Phases
  <2>3. QED BY <1>0, <1>1, <2>1, <2>2 DEF TemplateFailed, TypeOK
<1>2. ASSUME TemplateFinished(r) PROVE TypeOK'
  <2> DEFINE n   == StoreTemplate(Begin(m), r)
             cfg == n.templates[n.target]
  <2>1. n \in Manager
    <3>1. r.key \in Keys /\ r.url \in Keys BY <1>0 DEF Requests
    <3>2. QED BY <1>0, <3>1, AssignType DEF StoreTemplate
  <2>2. cfg \in Keys \cup {NoTemplate} BY <2>1 DEF Manager
  <2>3. requests' \subseteq Requests BY <1>0, <1>2 DEF TemplateFinished
  <2>4. CASE m' = Emit(n, "error") /\ UNCHANGED <<daemon, pipe, log, elapsed>>
    <3>1. m' \in Manager BY <2>1, <2>4, EmitType DEF Notifications
    <3>2. QED BY <1>2, <2>3, <2>4, <3>1 DEF TemplateFinished, TypeOK
  <2>5. CASE /\ m' = setState(Emit(n, "error"), "Disconnected")
             /\ UNCHANGED <<daemon, pipe, log, elapsed>>
    <3>1. Emit(n, "error") \in Manager BY <2>1, EmitType DEF Notifications
    <3>2. m' \in Manager BY <2>5, <3>1, SetStateType DEF VpnStates
    <3>3. QED BY <1>2, <2>3, <2>5, <3>2 DEF TemplateFinished, TypeOK
  <2>6. CASE /\ LaunchDaemon(cfg)
             /\ m' = [setupFileWatcher(connectToOpenvpnSocket(n)) EXCEPT !.timer = TRUE]
             /\ pipe' = <<>> /\ elapsed' = FALSE
    <3>1. setupFileWatcher(connectToOpenvpnSocket(n)) \in Manager
      BY <2>1, SocketType
    <3>2. m' \in Manager BY <2>6, <3>1, AssignType
    <3>3. daemon' \in [phase : Phases, cfg : Keys \cup {NoTemplate}]
      BY <2>2, <2>6 DEF LaunchDaemon, TypeOK, Phases
    <3>4. log' \in Seq(Lines)
      <4>1. "BIND_FAILED" \in Lines BY DEF Lines, AllLogLines
      <4>2. <<"BIND_FAILED">> \in Seq(Lines) BY <4>1
      <4>3. QED BY <1>0, <2>6, <4>2 DEF LaunchDaemon, TypeOK
    <3>5. QED BY <1>0, <1>2, <2>3, <2>6, <3>2, <3>3, <3>4 DEF TemplateFinished, TypeOK
  <2>7. QED BY <1>2, <2>4, <2>5, <2>6 DEF TemplateFinished
<1>3. QED BY <1>1, <1>2

LEMMA ReconnectObjectsType ==
    ASSUME m \in Manager, ReconnectTimeout
    PROVE  LET next == IF m.attempt < G_Max_Reconnect
                       THEN m.attempt + 1 ELSE m.attempt
               n    == [Begin(m) EXCEPT !.attempt = next]
           IN  n \in Manager /\ [n EXCEPT !.shots = @ - 1] \in Manager
<1> DEFINE next == IF m.attempt < G_Max_Reconnect THEN m.attempt + 1 ELSE m.attempt
           n    == [Begin(m) EXCEPT !.attempt = next]
<1>1. n \in Manager
  <2>1. next \in 0..G_Max_Reconnect
    <3>1. m.attempt \in 0..G_Max_Reconnect BY DEF Manager
    <3>2. QED BY <3>1 DEF G_Max_Reconnect
  <2>2. ASSUME NEW o \in Manager, NEW i \in 0..G_Max_Reconnect
        PROVE  [o EXCEPT !.attempt = i] \in Manager
    BY DEF Manager
  <2>3. QED BY <2>1, <2>2, BeginType
<1>2. n.shots - 1 \in 0..MaxShots
  <2>1. n.shots = m.shots BY DEF Begin, Manager
  <2>2. m.shots \in 0..MaxShots BY DEF Manager
  <2>3. m.shots > 0 BY DEF ReconnectTimeout
  <2>4. QED BY <2>1, <2>2, <2>3, ConstantsAssumption
<1>3. ASSUME NEW o \in Manager, NEW i \in 0..MaxShots
      PROVE  [o EXCEPT !.shots = i] \in Manager
  BY DEF Manager
<1>4. [n EXCEPT !.shots = @ - 1] \in Manager BY <1>1, <1>2, <1>3
<1>5. QED BY <1>1, <1>4

LEMMA TimersType ==
    ASSUME TypeOK, CheckState \/ ReconnectTimeout
    PROVE  TypeOK'
<1>0. /\ m \in Manager /\ Begin(m) \in Manager
      /\ pipe \in Seq(Lines)
  BY BeginType DEF TypeOK
<1>1. ASSUME CheckState PROVE TypeOK'
  <2>1. PICK seen \in Sightings :
          LET n == Supervise(Begin(m), seen)
          IN \/ Settle(Emit(stop(n), "timedOut")) /\ elapsed' = FALSE
             \/ /\ m' = n /\ UNCHANGED <<requests, daemon, elapsed>>
                /\ \/ \E w \in ReplyWords : pipe' = Append(pipe, w)
                   \/ UNCHANGED pipe
             \/ Settle(n) /\ UNCHANGED elapsed
    BY <1>1 DEF CheckState
  <2> DEFINE n == Supervise(Begin(m), seen)
  <2>2. n \in Manager BY <1>0, SuperviseType
  <2>3. CASE Settle(Emit(stop(n), "timedOut")) /\ elapsed' = FALSE
    <3>1. Emit(stop(n), "timedOut") \in Manager
      BY <2>2, StopType, EmitType DEF Notifications
    <3>2. QED BY <1>1, <2>3, <3>1, SettleTypeOK DEF CheckState, TypeOK
  <2>4. CASE /\ m' = n /\ UNCHANGED <<requests, daemon, elapsed>>
             /\ \/ \E w \in ReplyWords : pipe' = Append(pipe, w)
                \/ UNCHANGED pipe
    <3>1. \A w \in ReplyWords : w \in Lines
      BY ConstantsAssumption DEF ReplyWords, Lines, StateWords, ConnectingWords
    <3>2. pipe' \in Seq(Lines)
      <4>1. CASE UNCHANGED pipe BY <1>0, <4>1
      <4>2. ASSUME NEW w \in ReplyWords, pipe' = Append(pipe, w)
            PROVE  pipe' \in Seq(Lines)
        <5>1. w \in Lines BY <3>1
        <5>2. QED BY <1>0, <4>2, <5>1
      <4>3. QED BY <2>4, <4>1, <4>2
    <3>3. QED BY <1>1, <2>2, <2>4, <3>2 DEF CheckState, TypeOK
  <2>5. CASE Settle(n) /\ UNCHANGED elapsed
    BY <1>1, <2>2, <2>5, SettleTypeOK DEF CheckState, TypeOK
  <2>6. QED BY <2>1, <2>3, <2>4, <2>5
<1>2. ASSUME ReconnectTimeout PROVE TypeOK'
  <2> DEFINE next == IF m.attempt < G_Max_Reconnect THEN m.attempt + 1 ELSE m.attempt
             n    == [Begin(m) EXCEPT !.attempt = next]
             done == [n EXCEPT !.shots = @ - 1]
  <2>1. n \in Manager /\ done \in Manager BY <1>0, <1>2, ReconnectObjectsType
  <2>2. startConnecting(done) \in Manager /\ startConnecting(stop(done)) \in Manager
    BY <2>1, StartConnectingType, StopType
  <2>3. \E o \in Manager : Settle(o)
    <3>1. Settle(startConnecting(done)) \/ Settle(n) \/ Settle(startConnecting(stop(done)))
      BY <1>2 DEF ReconnectTimeout
    <3>2. QED BY <2>1, <2>2, <3>1
  <2>4. QED BY <1>2, <2>3, SettleTypeOK DEF ReconnectTimeout, TypeOK
<1>3. QED BY <1>1, <1>2

LEMMA SocketActionsType ==
    ASSUME TypeOK,
           SocketConnected \/ SocketError \/ SocketReadyRead \/ OpenvpnLogfileChanged
    PROVE  TypeOK'
<1>0. /\ m \in Manager /\ Begin(m) \in Manager
      /\ <<>> \in Seq(Lines)
  BY BeginType DEF TypeOK
<1>1. CASE SocketConnected
  <2>1. m' \in Manager BY <1>0, <1>1, AssignType DEF SocketConnected
  <2>2. <<"HOLD">> \in Seq(Lines) /\ <<"PASSWORD">> \in Seq(Lines)
    <3>1. "HOLD" \in Lines /\ "PASSWORD" \in Lines BY DEF Lines, QueryLines
    <3>2. QED BY <3>1
  <2>3. pipe' \in Seq(Lines) BY <1>0, <1>1, <2>2 DEF SocketConnected
  <2>4. QED BY <1>1, <2>1, <2>3 DEF SocketConnected, TypeOK
<1>2. CASE SocketError
  BY <1>0, <1>2, SocketType, SettleTypeOK DEF SocketError, TypeOK
<1>3. CASE SocketReadyRead BY <1>0, <1>3 DEF SocketReadyRead, TypeOK
<1>4. CASE OpenvpnLogfileChanged BY <1>0, <1>4 DEF OpenvpnLogfileChanged, TypeOK
<1>5. QED BY <1>1, <1>2, <1>3, <1>4

LEMMA ParseLineType == ASSUME TypeOK, ParseLine PROVE TypeOK'
<1>0. /\ m \in Manager /\ Begin(m) \in Manager
      /\ batch \in Seq(Lines) /\ <<>> \in Seq(Lines)
  BY BeginType DEF TypeOK
<1>1. batch # <<>> => Tail(batch) \in Seq(Lines)
  <2>1. SUFFICES ASSUME batch # <<>> PROVE Tail(batch) \in Seq(Lines) OBVIOUS
  <2>2. QED BY <1>0, <2>1, HeadTailProperties
<1>2. CASE ParseStateWord
  <2>1. [StateWord(Begin(m), Head(batch)) EXCEPT !.prev = Head(batch)] \in Manager
    BY <1>0, <1>2, StateLineType DEF ParseStateWord
  <2>2. QED BY <1>1, <1>2, <2>1, SettleTypeOK DEF ParseStateWord, TypeOK
<1>3. CASE ParseOtherLine
  <2>1. OtherLine(Begin(m), Head(batch)) \in Manager BY <1>0, OtherLineType
  <2>2. QED BY <1>1, <1>3, <2>1, SettleTypeOK DEF ParseOtherLine, TypeOK
<1>4. CASE AnswerQuery
  <2>1. daemon' \in [phase : Phases, cfg : Keys \cup {NoTemplate}]
    BY <1>4 DEF AnswerQuery, TypeOK, Phases
  <2>2. QED BY <1>0, <1>1, <1>4, <2>1 DEF AnswerQuery, TypeOK
<1>5. CASE Crash
  <2>1. m.mReconnect \in BOOLEAN BY <1>0 DEF Manager
  <2>2. m' \in Manager BY <1>5, <2>1, NewManagerType DEF Crash
  <2>3. QED BY <1>0, <1>5, <2>2 DEF Crash, TypeOK
<1>6. QED BY <1>2, <1>3, <1>4, <1>5 DEF ParseLine

LEMMA SayType ==
    ASSUME TypeOK, NEW line \in Lines, Say(line)
    PROVE  pipe' \in Seq(Lines)
<1>1. Append(pipe, line) \in Seq(Lines) BY DEF TypeOK
<1>2. QED BY <1>1 DEF Say, TypeOK

LEMMA BecomeType ==
    ASSUME TypeOK, NEW p \in Phases, Become(p)
    PROVE  daemon' \in [phase : Phases, cfg : Keys \cup {NoTemplate}]
BY DEF Become, TypeOK

LEMMA EnvironmentType == ASSUME TypeOK, Environment PROVE TypeOK'
<1>0. log \in Seq(Lines) /\ <<>> \in Seq(Lines) BY DEF TypeOK
<1>1. {"PASSWORD", "VERIFICATION_FAILED", "ERROR", "FATAL", "FATAL_TUN",
       "LINK_REMOTE", "COMPLETED", "TUN_ERROR"} \subseteq Lines
  BY DEF Lines, QueryLines, DaemonLines, AllLogLines
<1>2. CASE Elapse BY <1>2 DEF Elapse, TypeOK
<1>3. CASE Restart
  <2>1. PICK r \in Reconnects : m' = NewManager(r) BY <1>3 DEF Restart
  <2>2. r \in BOOLEAN BY ConstantsAssumption
  <2>3. m' \in Manager BY <2>1, <2>2, NewManagerType
  <2>4. QED BY <1>3, <2>3 DEF Restart, TypeOK
<1>4. CASE DaemonAsks
  BY <1>1, <1>4, SayType, BecomeType DEF DaemonAsks, Phases, TypeOK
<1>5. CASE DaemonConnects
  <2>1. LinkLines \in Seq(Lines) /\ CompletionLines \in Seq(Lines)
    BY <1>1 DEF LinkLines, CompletionLines
  <2>2. log' \in Seq(Lines) BY <1>0, <1>5, <2>1 DEF DaemonConnects
  <2>3. QED BY <1>5, <2>2, BecomeType DEF DaemonConnects, Phases, TypeOK
<1>6. CASE DaemonLosesTunnel
  BY <1>6, BecomeType DEF DaemonLosesTunnel, Phases, TypeOK
<1>7. CASE DaemonRefused
  BY <1>1, <1>7, SayType, BecomeType DEF DaemonRefused, Phases, TypeOK
<1>8. CASE DaemonComplains
  BY <1>1, <1>8, SayType DEF DaemonComplains, TypeOK
<1>9. CASE DaemonFatal
  <2>1. <<"TUN_ERROR">> \in Seq(Lines) BY <1>1
  <2>2. log' \in Seq(Lines) /\ pipe' \in Seq(Lines)
    BY <1>0, <1>1, <1>9, <2>1, SayType DEF DaemonFatal, TypeOK
  <2>3. QED BY <1>9, <2>2, BecomeType DEF DaemonFatal, Phases, TypeOK
<1>10. CASE DaemonExits BY <1>10 DEF DaemonExits, Phases, TypeOK
<1>11. QED
  BY <1>2, <1>3, <1>4, <1>5, <1>6, <1>7, <1>8, <1>9, <1>10 DEF Environment

LEMMA InitType == Init => TypeOK
<1> SUFFICES ASSUME Init PROVE TypeOK OBVIOUS
<1>1. PICK r \in Reconnects : m = NewManager(r) BY DEF Init
<1>2. r \in BOOLEAN BY ConstantsAssumption
<1>3. m \in Manager BY <1>1, <1>2, NewManagerType
<1>4. <<>> \in Seq(Lines) OBVIOUS
<1>5. QED BY <1>3, <1>4 DEF Init, TypeOK, Phases

LEMMA NextType == TypeOK /\ [Next]_vars => TypeOK'
<1> SUFFICES ASSUME TypeOK, [Next]_vars PROVE TypeOK' OBVIOUS
<1>1. CASE UNCHANGED vars BY <1>1 DEF vars, TypeOK
<1>2. CASE Commands BY <1>2, CommandsType
<1>3. CASE Handlers
  BY <1>3, TemplateReplyType, TimersType, SocketActionsType, ParseLineType
     DEF Handlers, TemplateReply
<1>4. CASE Environment BY <1>4, EnvironmentType
<1>5. QED BY <1>1, <1>2, <1>3, <1>4 DEF Next

\* Whatever the interleaving of commands, replies, timers and lines, the
\* members of the OpenvpnManager object and the queues between the service
\* and the daemon keep their types.
THEOREM TypeCorrect == Spec => []TypeOK
BY InitType, NextType, PTL DEF Spec

-----------------------------------------------------------------------------
(* Templates and servers.  TemplateOfServer is not inductive: a reply files *)
(* what its url points to under its key, both taken from the object when    *)
(* the request was made.  Only a bound daemon ("Change to next port") makes *)
(* the object's key differ from its url, and then in the port alone.        *)

ServersAgree ==
    /\ m.url[1] = m.target[1]
    /\ \A r \in requests : r.url[1] = r.key[1]
    /\ TemplateOfServer

\* n and o are after the same server and hold the same templates.
SameServer(n, o) ==
    /\ o.target[1] = n.target[1]
    /\ o.url = n.url
    /\ o.templates = n.templates

LEMMA SameServerTransitive ==
    ASSUME NEW n, NEW o, NEW p, SameServer(n, o), SameServer(o, p)
    PROVE  SameServer(n, p)
BY DEF SameServer

\* Each method by itself.
LEMMA MethodsSameServer ==
    ASSUME NEW n \in Manager, NEW e, NEW st
    PROVE  /\ SameServer(n, Begin(n))
           /\ SameServer(n, Emit(n, e))
           /\ SameServer(n, setState(n, st))
           /\ SameServer(n, connectToOpenvpnSocket(n))
           /\ SameServer(n, disconnectFromOpenvpnSocket(n))
           /\ SameServer(n, setupFileWatcher(n))
           /\ SameServer(n, stop(n))
           /\ SameServer(n, startConnecting(n))
           /\ SameServer(n, startReconnectTimer(n))
           /\ SameServer(n, gotConnected(n, e))
           /\ SameServer(n, gotTunErr(n))
BY DEF SameServer, Begin, Emit, setState, connectToOpenvpnSocket,
       disconnectFromOpenvpnSocket, setupFileWatcher, stop, startConnecting,
       startReconnectTimer, gotConnected, gotTunErr, Manager

LEMMA SuperviseSameServer ==
    ASSUME NEW n \in Manager, NEW seen
    PROVE  SameServer(n, Supervise(n, seen))
<1>1. SameServer(n, n) BY DEF SameServer
<1>2. QED BY <1>1, MethodsSameServer DEF Supervise

LEMMA StateWordSameServer ==
    ASSUME NEW n \in Manager, NEW w \in StateWords
    PROVE  SameServer(n, [StateWord(n, w) EXCEPT !.prev = w])
<1>1. SameServer(n, StateWord(n, w))
  <2>1. SameServer(n, n) BY DEF SameServer
  <2>2. SameServer(n, gotConnected(n, w)) BY MethodsSameServer
  <2>3. SameServer(n, Emit(setState(n, "Connecting"), "word"))
    BY MethodsSameServer, SameServerTransitive, SetStateType DEF VpnStates
  <2>4. SameServer(n, setState(startReconnectTimer(n), "Connecting"))
    BY MethodsSameServer, SameServerTransitive, StartReconnectTimerType
  <2>5. SameServer(n, setState(n, "Disconnected")) BY MethodsSameServer
  <2>6. SameServer(n, Emit(n, "word")) BY MethodsSameServer
  <2>7. SameServer(n, Emit(stop(Emit(n, "word")), "error"))
    <3>1. Emit(n, "word") \in Manager BY EmitType DEF Notifications
    <3>2. stop(Emit(n, "word")) \in Manager BY <3>1, StopType
    <3>3. QED BY <3>1, <3>2, MethodsSameServer, SameServerTransitive
  <2>8. QED BY <2>1, <2>2, <2>3, <2>4, <2>5, <2>6, <2>7 DEF StateWord
<1>2. SameServer(StateWord(n, w), [StateWord(n, w) EXCEPT !.prev = w])
  <2>1. StateWord(n, w) \in Manager BY StateWordType
  <2>2. ASSUME NEW o \in Manager PROVE SameServer(o, [o EXCEPT !.prev = w])
    BY DEF SameServer, Manager
  <2>3. QED BY <2>1, <2>2
<1>3. QED BY <1>1, <1>2, SameServerTransitive

LEMMA OtherLineSameServer ==
    ASSUME NEW n \in Manager, NEW l
    PROVE  SameServer(n, OtherLine(n, l))
<1>1. SameServer(n, n) BY DEF SameServer
<1>2. DEFINE e == [n EXCEPT !.mError = TRUE]
             b == [n EXCEPT !.target = <<n.target[1], NextClass>>]
<1>3. e \in Manager /\ SameServer(n, e) BY DEF SameServer, Manager
<1>4. b \in Manager /\ SameServer(n, b)
  BY DEF SameServer, Manager, Keys, NextClass
<1>5. SameServer(e, showErrorMessageCleanup(e))
  <2>1. disconnectFromOpenvpnSocket(e) \in Manager BY <1>3, SocketType
  <2>2. setState(disconnectFromOpenvpnSocket(e), "Disconnected") \in Manager
    BY <2>1, SetStateType DEF VpnStates
  <2>3. QED
    BY <1>3, <2>1, <2>2, MethodsSameServer, SameServerTransitive
       DEF showErrorMessageCleanup
<1>6. SameServer(e, cancel(e))
  BY <1>3, StopType, MethodsSameServer, SameServerTransitive DEF cancel
<1>7. SameServer(n, Emit(disconnectFromOpenvpnSocket(n), "error"))
  BY SocketType, MethodsSameServer, SameServerTransitive
<1>8. SameServer(b, startConnecting(b)) BY <1>4, MethodsSameServer
<1>9. /\ SameServer(n, gotTunErr(n)) /\ SameServer(n, Emit(n, "ip"))
      /\ SameServer(n, gotConnected(n, l))
  BY MethodsSameServer
<1>10. QED
  BY <1>1, <1>3, <1>4, <1>5, <1>6, <1>7, <1>8, <1>9, SameServerTransitive
     DEF OtherLine, parseNewIp

\* A handler that ends in Settle keeps the agreement when the object it
\* leaves agrees with itself and files no template.
LEMMA SettleAgrees ==
    ASSUME TypeOK, ServersAgree, NEW n \in Manager, Settle(n),
           n.url[1] = n.target[1], n.templates = m.templates
    PROVE  ServersAgree'
<1>1. m' = n BY DEF Settle
<1>2. ASSUME NEW r \in requests' PROVE r.url[1] = r.key[1]
  <2> DEFINE R(c) == [key |-> n.target, url |-> n.url, copy |-> c]
  <2>1. r \in requests \/ \E c \in 1..MaxCopies : r = R(c)
    BY <1>2 DEF Settle, Fetch
  <2>2. \A c \in 1..MaxCopies : R(c).url[1] = R(c).key[1] OBVIOUS
  <2>3. QED BY <2>1, <2>2 DEF ServersAgree
<1>3. QED BY <1>1, <1>2 DEF ServersAgree, TemplateOfServer

LEMMA SettleSameServer ==
    ASSUME TypeOK, ServersAgree, NEW n \in Manager, Settle(n), SameServer(m, n)
    PROVE  ServersAgree'
BY SettleAgrees DEF SameServer, ServersAgree

LEMMA CommandsAgree ==
    ASSUME TypeOK, ServersAgree, Commands
    PROVE  ServersAgree'
<1>0. /\ m \in Manager /\ Begin(m) \in Manager /\ SameServer(m, Begin(m))
  BY BeginType, MethodsSameServer DEF TypeOK
<1>1. ASSUME NEW k \in Servers \X PortClasses, Start(k) PROVE ServersAgree'
  <2> DEFINE o == stop([Begin(m) EXCEPT !.attempt = 0])
             p == SetParameters(o, k)
  <2>1. k \in Keys BY ConstantsAssumption DEF Keys
  <2>2. [Begin(m) EXCEPT !.attempt = 0] \in Manager BY <1>0, AssignType
  <2>3. SameServer(Begin(m), [Begin(m) EXCEPT !.attempt = 0])
    <3>1. ASSUME NEW q \in Manager PROVE SameServer(q, [q EXCEPT !.attempt = 0])
      BY DEF SameServer, Manager
    <3>2. QED BY <1>0, <3>1
  <2>4. o \in Manager /\ SameServer(m, o)
    BY <1>0, <2>2, <2>3, StopType, MethodsSameServer, SameServerTransitive
  <2>5. p \in Manager BY <2>1, <2>4, AssignType
  <2>6. p.url[1] = p.target[1] /\ p.templates = m.templates
    <3>1. ASSUME NEW q \in Manager
          PROVE  LET s == SetParameters(q, k)
                 IN  s.url = k /\ s.target = k /\ s.templates = q.templates
      BY DEF SetParameters, Manager
    <3>2. QED BY <2>4, <3>1 DEF SameServer
  <2>7. startConnecting(p) \in Manager /\ SameServer(p, startConnecting(p))
    BY <2>5, StartConnectingType, MethodsSameServer
  <2>8. Settle(startConnecting(p)) BY <1>1 DEF Start
  <2>9. QED BY <2>6, <2>7, <2>8, SettleAgrees DEF SameServer
<1>2. ASSUME Stop PROVE ServersAgree'
  <2>1. stop(Begin(m)) \in Manager /\ SameServer(m, stop(Begin(m)))
    BY <1>0, StopType, MethodsSameServer, SameServerTransitive
  <2>2. QED BY <1>2, <2>1, SettleSameServer DEF Stop
<1>3. ASSUME NetDown PROVE ServersAgree'
  <2>1. PICK ok \in BOOLEAN : Settle([Begin(m) EXCEPT !.mNetDown = @ \/ ok])
    BY <1>3 DEF NetDown
  <2>2. [Begin(m) EXCEPT !.mNetDown = @ \/ ok] \in Manager BY <1>0, AssignType
  <2>3. SameServer(Begin(m), [Begin(m) EXCEPT !.mNetDown = @ \/ ok])
    <3>1. ASSUME NEW q \in Manager
          PROVE  SameServer(q, [q EXCEPT !.mNetDown = @ \/ ok])
      BY DEF SameServer, Manager
    <3>2. QED BY <1>0, <3>1
  <2>4. QED BY <1>0, <2>1, <2>2, <2>3, SameServerTransitive, SettleSameServer
<1>4. ASSUME KillRunningOpenvpn PROVE ServersAgree'
  <2>1. ASSUME NEW s \in {"none", "opening", "up"}
        PROVE  LET n == stop([Begin(m) EXCEPT !.socket = s])
               IN  n \in Manager /\ SameServer(m, n)
    <3>1. [Begin(m) EXCEPT !.socket = s] \in Manager BY <1>0, AssignType
    <3>2. SameServer(Begin(m), [Begin(m) EXCEPT !.socket = s])
      <4>1. ASSUME NEW q \in Manager PROVE SameServer(q, [q EXCEPT !.socket = s])
        BY DEF SameServer, Manager
      <4>2. QED BY <1>0, <4>1
    <3>3. QED BY <1>0, <3>1, <3>2, StopType, MethodsSameServer, SameServerTransitive
  <2>2. \E n \in Manager : Settle(n) /\ SameServer(m, n)
    BY <1>0, <1>4, <2>1 DEF KillRunningOpenvpn
  <2>3. QED BY <2>2, SettleSameServer
<1>5. QED BY <1>1, <1>2, <1>3, <1>4 DEF Commands

LEMMA TemplateReplyAgrees ==
    ASSUME TypeOK, ServersAgree, NEW r \in requests,
           TemplateFailed(r) \/ TemplateFinished(r)
    PROVE  ServersAgree'
<1>0. /\ m \in Manager /\ Begin(m) \in Manager /\ SameServer(m, Begin(m))
      /\ requests' = requests \ {r}
  BY BeginType, MethodsSameServer DEF TypeOK, TemplateFailed, TemplateFinished
<1>1. CASE TemplateFailed(r)
  <2>1. Emit(Begin(m), "error") \in Manager BY <1>0, EmitType DEF Notifications
  <2>2. SameServer(m, m')
    BY <1>0, <1>1, <2>1, MethodsSameServer, SameServerTransitive DEF TemplateFailed
  <2>3. QED BY <1>0, <2>2 DEF SameServer, ServersAgree, TemplateOfServer
<1>2. CASE TemplateFinished(r)
  <2> DEFINE n == StoreTemplate(Begin(m), r)
  <2>1. r.key \in Keys /\ r.url \in Keys /\ r.url[1] = r.key[1]
    BY DEF TypeOK, Requests, ServersAgree
  <2>2. n \in Manager BY <1>0, <2>1, AssignType DEF StoreTemplate
  <2>3. /\ n.url = m.url /\ n.target[1] = m.target[1]
        /\ n.templates = [m.templates EXCEPT ![r.key] = r.url]
    <3>1. ASSUME NEW q \in Manager
          PROVE  LET s == StoreTemplate(q, r)
                 IN  /\ s.url = q.url /\ s.target = q.target
                     /\ s.templates = [q.templates EXCEPT ![r.key] = r.url]
      BY DEF StoreTemplate, Manager
    <3>2. QED BY <1>0, <3>1 DEF SameServer
  <2>4. SameServer(n, m')
    <3>1. CASE m' = Emit(n, "error") BY <2>2, <3>1, MethodsSameServer
    <3>2. CASE m' = setState(Emit(n, "error"), "Disconnected")
      <4>1. Emit(n, "error") \in Manager BY <2>2, EmitType DEF Notifications
      <4>2. QED BY <2>2, <3>2, <4>1, MethodsSameServer, SameServerTransitive
    <3>3. CASE m' = [setupFileWatcher(connectToOpenvpnSocket(n)) EXCEPT !.timer = TRUE]
      <4> DEFINE o == connectToOpenvpnSocket(n)
                 p == setupFileWatcher(o)
      <4>1. o \in Manager /\ p \in Manager BY <2>2, SocketType
      <4>2. SameServer(n, p) BY <2>2, <4>1, MethodsSameServer, SameServerTransitive
      <4>3. ASSUME NEW q \in Manager
            PROVE  SameServer(q, [q EXCEPT !.timer = TRUE])
        BY DEF SameServer, Manager
      <4>4. QED BY <3>3, <4>1, <4>2, <4>3, SameServerTransitive
    <3>4. QED BY <1>2, <3>1, <3>2, <3>3 DEF TemplateFinished
  <2>5. m'.templates = [m.templates EXCEPT ![r.key] = r.url]
    BY <2>3, <2>4 DEF SameServer
  <2>6. m.templates \in [Keys -> Keys \cup {NoTemplate}] BY <1>0 DEF Manager
  <2>7. ASSUME NEW k \in Keys, m'.templates[k] # NoTemplate
        PROVE  m'.templates[k][1] = k[1]
    <3>1. CASE k = r.key BY <2>1, <2>5, <2>6, <3>1
    <3>2. CASE k # r.key
      <4>1. m'.templates[k] = m.templates[k] BY <2>1, <2>5, <2>6, <3>2
      <4>2. QED BY <2>7, <4>1 DEF ServersAgree, TemplateOfServer
    <3>3. QED BY <3>1, <3>2
  <2>8. m'.url[1] = m'.target[1]
    BY <2>3, <2>4 DEF SameServer, ServersAgree
  <2>9. QED BY <1>0, <2>7, <2>8 DEF ServersAgree, TemplateOfServer
<1>3. QED BY <1>1, <1>2

LEMMA TimersAgree ==
    ASSUME TypeOK, ServersAgree, CheckState \/ ReconnectTimeout
    PROVE  ServersAgree'
<1>0. /\ m \in Manager /\ Begin(m) \in Manager /\ SameServer(m, Begin(m))
  BY BeginType, MethodsSameServer DEF TypeOK
<1>1. CASE CheckState
  <2>1. PICK seen \in Sightings :
          LET n == Supervise(Begin(m), seen)
          IN \/ Settle(Emit(stop(n), "timedOut"))
             \/ m' = n /\ UNCHANGED requests
             \/ Settle(n)
    BY <1>1 DEF CheckState
  <2> DEFINE n == Supervise(Begin(m), seen)
  <2>2. n \in Manager /\ SameServer(m, n)
    BY <1>0, SuperviseType, SuperviseSameServer, SameServerTransitive
  <2>3. CASE Settle(Emit(stop(n), "timedOut"))
    <3>1. stop(n) \in Manager BY <2>2, StopType
    <3>2. /\ Emit(stop(n), "timedOut") \in Manager
          /\ SameServer(m, Emit(stop(n), "timedOut"))
      BY <2>2, <3>1, EmitType, MethodsSameServer, SameServerTransitive DEF Notifications
    <3>3. QED BY <2>3, <3>2, SettleSameServer
  <2>4. CASE m' = n /\ UNCHANGED requests
    BY <2>2, <2>4 DEF SameServer, ServersAgree, TemplateOfServer
  <2>5. CASE Settle(n) BY <2>2, <2>5, SettleSameServer
  <2>6. QED BY <2>1, <2>3, <2>4, <2>5
<1>2. CASE ReconnectTimeout
  <2> DEFINE next == IF m.attempt < G_Max_Reconnect THEN m.attempt + 1 ELSE m.attempt
             n    == [Begin(m) EXCEPT !.attempt = next]
             done == [n EXCEPT !.shots = @ - 1]
  <2>1. n \in Manager /\ done \in Manager BY <1>0, <1>2, ReconnectObjectsType
  <2>2. SameServer(m, n) /\ SameServer(m, done)
    <3>1. ASSUME NEW q \in Manager, NEW i
          PROVE  /\ SameServer(q, [q EXCEPT !.attempt = i])
                 /\ SameServer(q, [q EXCEPT !.shots = @ - 1])
      BY DEF SameServer, Manager
    <3>2. QED BY <1>0, <2>1, <3>1, SameServerTransitive
  <2>3. /\ stop(done) \in Manager
        /\ startConnecting(done) \in Manager /\ startConnecting(stop(done)) \in Manager
    BY <2>1, StartConnectingType, StopType
  <2>4. SameServer(m, startConnecting(done)) /\ SameServer(m, startConnecting(stop(done)))
    BY <2>1, <2>2, <2>3, MethodsSameServer, SameServerTransitive
  <2>5. Settle(startConnecting(done)) \/ Settle(n) \/ Settle(startConnecting(stop(done)))
    BY <1>2 DEF ReconnectTimeout
  <2>6. QED BY <2>1, <2>2, <2>3, <2>4, <2>5, SettleSameServer
<1>3. QED BY <1>1, <1>2

LEMMA SocketActionsAgree ==
    ASSUME TypeOK, ServersAgree,
           SocketConnected \/ SocketError \/ SocketReadyRead \/ OpenvpnLogfileChanged
    PROVE  ServersAgree'
<1>0. /\ m \in Manager /\ Begin(m) \in Manager /\ SameServer(m, Begin(m))
  BY BeginType, MethodsSameServer DEF TypeOK
<1>1. CASE SocketError
  BY <1>0, <1>1, SocketType, MethodsSameServer, SameServerTransitive,
     SettleSameServer
     DEF SocketError
<1>2. CASE SocketConnected \/ SocketReadyRead \/ OpenvpnLogfileChanged
  <2>1. ASSUME NEW q \in Manager PROVE SameServer(q, [q EXCEPT !.socket = "up"])
    BY DEF SameServer, Manager
  <2>2. SameServer(m, m') /\ UNCHANGED requests
    BY <1>0, <1>2, <2>1, SameServerTransitive
       DEF SocketConnected, SocketReadyRead, OpenvpnLogfileChanged
  <2>3. QED BY <2>2 DEF SameServer, ServersAgree, TemplateOfServer
<1>3. QED BY <1>1, <1>2

LEMMA NewManagerEmpty ==
    ASSUME NEW r
    PROVE  LET n == NewManager(r)
           IN  n.url = n.target /\ \A k \in Keys : n.templates[k] = NoTemplate
<1>1. NewManager(r).templates = [k \in Keys |-> NoTemplate] BY DEF NewManager
<1>2. NewManager(r).url = NewManager(r).target BY DEF NewManager
<1>3. QED BY <1>1, <1>2

LEMMA NewManagerAgrees ==
    ASSUME NEW r, m' = NewManager(r), requests' = {}
    PROVE  ServersAgree'
BY NewManagerEmpty DEF ServersAgree, TemplateOfServer

LEMMA ParseLineAgrees ==
    ASSUME TypeOK, ServersAgree, ParseLine
    PROVE  ServersAgree'
<1>0. /\ m \in Manager /\ Begin(m) \in Manager /\ SameServer(m, Begin(m))
  BY BeginType, MethodsSameServer DEF TypeOK
<1>1. CASE ParseStateWord
  <2> DEFINE n == [StateWord(Begin(m), Head(batch)) EXCEPT !.prev = Head(batch)]
  <2>1. n \in Manager /\ SameServer(m, n)
    BY <1>0, <1>1, StateLineType, StateWordSameServer, SameServerTransitive
       DEF ParseStateWord
  <2>2. QED BY <1>1, <2>1, SettleSameServer DEF ParseStateWord
<1>2. CASE ParseOtherLine
  BY <1>0, <1>2, OtherLineType, OtherLineSameServer, SameServerTransitive,
     SettleSameServer
     DEF ParseOtherLine
<1>3. CASE AnswerQuery
  BY <1>0, <1>3 DEF AnswerQuery, SameServer, ServersAgree, TemplateOfServer
<1>4. CASE Crash BY <1>4, NewManagerAgrees DEF Crash
<1>5. QED BY <1>1, <1>2, <1>3, <1>4 DEF ParseLine

LEMMA InitAgrees == Init => ServersAgree
BY NewManagerEmpty DEF Init, ServersAgree, TemplateOfServer

\* A service that is down has no request in flight.
DownIsEmpty == ~alive => requests = {}

LEMMA NextAgrees ==
    TypeOK /\ ServersAgree /\ DownIsEmpty /\ [Next]_vars => ServersAgree' /\ DownIsEmpty'
<1> SUFFICES ASSUME TypeOK, ServersAgree, DownIsEmpty, [Next]_vars
             PROVE  ServersAgree' /\ DownIsEmpty'
  OBVIOUS
<1>1. ServersAgree'
  <2>1. CASE UNCHANGED <<m, requests>>
    BY <2>1 DEF ServersAgree, TemplateOfServer
  <2>2. CASE Commands BY <2>2, CommandsAgree
  <2>3. CASE Handlers
    BY <2>3, TemplateReplyAgrees, TimersAgree, SocketActionsAgree, ParseLineAgrees
       DEF Handlers, TemplateReply
  <2>4. CASE Restart BY <2>4, NewManagerAgrees DEF Restart, DownIsEmpty
  <2>5. CASE Environment /\ ~Restart
    <3>1. UNCHANGED <<m, requests>>
      BY <2>5 DEF Environment, Elapse, DaemonAsks, DaemonConnects,
         DaemonLosesTunnel, DaemonRefused, DaemonComplains, DaemonFatal, DaemonExits
    <3>2. QED BY <2>1, <3>1
  <2>6. QED BY <2>1, <2>2, <2>3, <2>4, <2>5 DEF Next, vars
<1>2. DownIsEmpty'
  <2>1. CASE UNCHANGED <<alive, requests>> BY <2>1 DEF DownIsEmpty
  <2>2. CASE alive' BY <2>2 DEF DownIsEmpty
  <2>3. CASE Crash BY <2>3 DEF DownIsEmpty, Crash
  <2>4. Commands \/ Handlers => alive
    BY DEF Commands, Start, Stop, NetDown, KillRunningOpenvpn, Handlers, Idle,
       TemplateReply, TemplateFailed, TemplateFinished, CheckState, ReconnectTimeout,
       SocketConnected, SocketError, SocketReadyRead, OpenvpnLogfileChanged,
       ParseLine, ParseStateWord, ParseOtherLine, AnswerQuery, Crash
  <2>5. Commands \/ (Handlers /\ ~Crash) => UNCHANGED alive
    BY DEF Commands, Start, Stop, NetDown, KillRunningOpenvpn, Handlers,
       TemplateReply, TemplateFailed, TemplateFinished, CheckState, ReconnectTimeout,
       SocketConnected, SocketError, SocketReadyRead, OpenvpnLogfileChanged,
       ParseLine, ParseStateWord, ParseOtherLine, AnswerQuery
  <2>6. Environment => Restart \/ UNCHANGED <<alive, requests>>
    BY DEF Environment, Elapse, DaemonAsks, DaemonConnects, DaemonLosesTunnel,
       DaemonRefused, DaemonComplains, DaemonFatal, DaemonExits
  <2>7. Restart => alive' BY DEF Restart
  <2>8. QED BY <2>1, <2>2, <2>3, <2>4, <2>5, <2>6, <2>7 DEF Next, vars
<1>3. QED BY <1>1, <1>2

\* The inductive invariant of the following theorems: the object, the requests
\* in flight and the stored templates agree on servers (see getTemplate).
THEOREM Agreement == Spec => [](TypeOK /\ ServersAgree /\ DownIsEmpty)
<1>1. Init => DownIsEmpty BY DEF Init, DownIsEmpty
<1>2. QED BY <1>1, InitType, NextType, InitAgrees, NextAgrees, PTL DEF Spec

\* A template is never filed under another server's key, whatever commands
\* are served between the request and the reply (getTemplateFinished).
THEOREM TemplatesOfServer == Spec => []TemplateOfServer
<1>1. ServersAgree => TemplateOfServer BY DEF ServersAgree
<1>2. QED BY <1>1, Agreement, PTL

\* The daemon is started nowhere else than in TemplateFinished.
LEMMA OnlyTemplatesLaunch ==
    ASSUME Next, daemon.phase = "none", daemon'.phase # "none"
    PROVE  \E r \in requests : TemplateFinished(r)
<1>1. ASSUME NEW n, Settle(n) PROVE daemon' = daemon BY <1>1 DEF Settle
<1>2. CASE Commands
  BY <1>1, <1>2 DEF Commands, Start, Stop, NetDown, KillRunningOpenvpn
<1>3. CASE Environment
  BY <1>3 DEF Environment, Elapse, Restart, DaemonAsks, DaemonConnects,
     DaemonLosesTunnel, DaemonRefused, DaemonComplains, DaemonFatal, DaemonExits,
     Become
<1>4. CASE Handlers
  <2>1. CASE TemplateReply BY <2>1 DEF TemplateReply, TemplateFailed
  <2>2. CASE CheckState BY <1>1, <2>2 DEF CheckState
  <2>3. CASE ReconnectTimeout BY <1>1, <2>3 DEF ReconnectTimeout
  <2>4. CASE SocketConnected \/ SocketError \/ SocketReadyRead \/ OpenvpnLogfileChanged
    BY <1>1, <2>4 DEF SocketConnected, SocketError, SocketReadyRead, OpenvpnLogfileChanged
  <2>5. CASE ParseLine
    BY <1>1, <2>5 DEF ParseLine, ParseStateWord, ParseOtherLine, AnswerQuery, Crash
  <2>6. QED BY <1>4, <2>1, <2>2, <2>3, <2>4, <2>5 DEF Handlers
<1>5. QED BY <1>2, <1>3, <1>4 DEF Next

LEMMA LaunchStep ==
    ASSUME TypeOK, TypeOK', ServersAgree', [Next]_vars,
           daemon.phase = "none", daemon'.phase # "none"
    PROVE  daemon'.cfg[1] = m'.target[1]
<1>1. PICK r \in requests : TemplateFinished(r)
  BY OnlyTemplatesLaunch DEF vars
<1> DEFINE n   == StoreTemplate(Begin(m), r)
           cfg == n.templates[n.target]
<1>2. /\ cfg # NoTemplate
      /\ daemon' = [phase |-> "hold", cfg |-> cfg]
      /\ m' = [setupFileWatcher(connectToOpenvpnSocket(n)) EXCEPT !.timer = TRUE]
  BY <1>1 DEF TemplateFinished, LaunchDaemon
<1>3. m'.templates = n.templates /\ m'.target = n.target
  <2>1. n \in Manager
    <3>1. m \in Manager /\ r.key \in Keys /\ r.url \in Keys
      BY DEF TypeOK, Requests
    <3>2. QED BY <3>1, BeginType, AssignType DEF StoreTemplate
  <2>2. ASSUME NEW q \in Manager
        PROVE  LET s == [setupFileWatcher(connectToOpenvpnSocket(q)) EXCEPT !.timer = TRUE]
               IN  s.templates = q.templates /\ s.target = q.target
    BY DEF setupFileWatcher, connectToOpenvpnSocket, Manager
  <2>3. QED BY <1>2, <2>1, <2>2
<1>4. m'.target \in Keys BY DEF TypeOK, Manager
<1>5. m'.templates[m'.target] = cfg /\ daemon'.cfg = cfg BY <1>2, <1>3
<1>6. QED BY <1>2, <1>4, <1>5 DEF ServersAgree, TemplateOfServer

\* Every daemon started runs a configuration of the server selected last,
\* even when the reply that starts it answers an earlier command
\* (continueConnecting after getTemplateFinished).
THEOREM LaunchesServeTarget == Spec => LaunchServesTarget
<1> DEFINE Launch == daemon.phase = "none" /\ daemon'.phase # "none"
                     => daemon'.cfg[1] = m'.target[1]
<1>1. TypeOK /\ TypeOK' /\ ServersAgree' /\ [Next]_vars => [Launch]_vars
  BY LaunchStep
<1>2. QED BY <1>1, Agreement, PTL DEF Spec, LaunchServesTarget

(***************************************************************************)
(* Part 2: the manager implements VpnContract                              *)
(***************************************************************************)
-----------------------------------------------------------------------------
(* What each method tells: the state it ends in and the signals it adds.   *)

\* n differs from o in nothing a client is told.
Quiet(o, n) == n.mState = o.mState /\ n.emits = o.emits

\* The state is entered, and announced unless the object is in it already.
Enters(o, n, st) ==
    /\ n.mState = st
    /\ n.emits = IF o.mState = st THEN o.emits ELSE Append(o.emits, st)

LEMMA BeginTells ==
    ASSUME NEW n \in Manager
    PROVE  Begin(n).mState = n.mState /\ Begin(n).emits = <<>>
BY DEF Begin, Manager

LEMMA EmitTells ==
    ASSUME NEW n \in Manager, NEW e
    PROVE  Emit(n, e).mState = n.mState /\ Emit(n, e).emits = Append(n.emits, e)
BY DEF Emit, Manager

LEMMA SetStateTells ==
    ASSUME NEW n \in Manager, NEW st
    PROVE  Enters(n, setState(n, st), st)
BY DEF setState, Enters, Manager

LEMMA QuietMethods ==
    ASSUME NEW n \in Manager
    PROVE  /\ Quiet(n, connectToOpenvpnSocket(n))
           /\ Quiet(n, disconnectFromOpenvpnSocket(n))
           /\ Quiet(n, setupFileWatcher(n))
           /\ Quiet(n, startReconnectTimer(n))
           /\ \A k : Quiet(n, SetParameters(n, k))
           /\ \A r : Quiet(n, StoreTemplate(n, r))
BY DEF Quiet, Manager, connectToOpenvpnSocket, disconnectFromOpenvpnSocket,
       setupFileWatcher, startReconnectTimer, SetParameters, StoreTemplate

\* The members that handlers assign and clients are not told of.
LEMMA QuietAssignments ==
    ASSUME NEW n \in Manager, NEW v
    PROVE  /\ Quiet(n, [n EXCEPT !.attempt = v])
           /\ Quiet(n, [n EXCEPT !.socket = v])
           /\ Quiet(n, [n EXCEPT !.timer = v])
           /\ Quiet(n, [n EXCEPT !.mError = v])
           /\ Quiet(n, [n EXCEPT !.target = v])
           /\ Quiet(n, [n EXCEPT !.prev = v])
           /\ Quiet(n, [n EXCEPT !.mNetDown = v])
           /\ Quiet(n, [n EXCEPT !.shots = v])
BY DEF Quiet, Manager

LEMMA StopTells == ASSUME NEW n \in Manager PROVE Enters(n, stop(n), "Disconnected")
<1> DEFINE o == [n EXCEPT !.term = @ \/ n.socket = "up", !.socket = "none",
                          !.watcher = FALSE]
<1>1. o \in Manager /\ Quiet(n, o) BY DEF Manager, Quiet
<1>2. Enters(o, setState(o, "Disconnected"), "Disconnected") BY <1>1, SetStateTells
<1>3. QED BY <1>1, <1>2 DEF stop, Enters, Quiet

LEMMA StartConnectingTells ==
    ASSUME NEW n \in Manager
    PROVE  Enters(n, startConnecting(n), "Connecting")
<1>1. setState(n, "Connecting") \in Manager BY SetStateType DEF VpnStates
<1>2. Enters(n, setState(n, "Connecting"), "Connecting") BY SetStateTells
<1>3. \A o \in Manager : Quiet(o, [o EXCEPT !.mError = FALSE, !.fetch = TRUE])
  BY DEF Manager, Quiet
<1>4. QED BY <1>1, <1>2, <1>3 DEF startConnecting, Enters, Quiet

-----------------------------------------------------------------------------
(* Signals one after the other.                                            *)

LEMMA AppendOne == ASSUME NEW x PROVE Append(<<>>, x) = <<x>>
OBVIOUS

LEMMA AppendTwo == ASSUME NEW x, NEW y PROVE Append(<<x>>, y) = <<x, y>>
<1> DEFINE S == {x, y}
<1>1. <<x>> \in Seq(S) /\ y \in S /\ <<x, y>> \in Seq(S) OBVIOUS
<1>2. Append(<<x>>, y) \in Seq(S) BY <1>1
<1>3. Len(Append(<<x>>, y)) = 2 /\ Append(<<x>>, y)[1] = x /\ Append(<<x>>, y)[2] = y
  BY <1>1, AppendProperties
<1>4. Len(<<x, y>>) = 2 /\ <<x, y>>[1] = x /\ <<x, y>>[2] = y OBVIOUS
<1>5. 1..2 = {1, 2} OBVIOUS
<1>6. QED BY <1>1, <1>2, <1>3, <1>4, <1>5, SeqEqual

LEMMA Concatenations ==
    ASSUME NEW x, NEW y, NEW z
    PROVE  /\ <<>> \o <<>> = <<>>
           /\ <<>> \o <<x>> = <<x>>
           /\ <<x>> \o <<>> = <<x>>
           /\ <<>> \o <<x, y>> = <<x, y>>
           /\ <<x>> \o <<y>> = <<x, y>>
           /\ <<x, y>> \o <<z>> = Append(<<x, y>>, z)
           /\ <<x>> \o <<y, z>> = Append(<<x, y>>, z)
<1> DEFINE S == {x, y, z}
<1>1. /\ <<>> \in Seq(S) /\ <<x>> \in Seq(S) /\ <<x, y>> \in Seq(S)
      /\ <<y>> \in Seq(S) /\ <<z>> \in Seq(S) /\ y \in S /\ z \in S
  OBVIOUS
<1>2. <<x>> \o <<y>> = <<x, y>> BY <1>1, AppendIsConcat, AppendTwo
<1>3. <<y>> \o <<z>> = <<y, z>>
  <2>1. Append(<<y>>, z) = <<y>> \o <<z>> BY <1>1, AppendIsConcat
  <2>2. QED BY <2>1, AppendTwo
<1>4. <<x, y>> \o <<z>> = Append(<<x, y>>, z) BY <1>1, AppendIsConcat
<1>5. <<x>> \o <<y, z>> = <<x, y>> \o <<z>>
  <2>1. (<<x>> \o <<y>>) \o <<z>> = <<x>> \o (<<y>> \o <<z>>)
    BY <1>1, ConcatAssociative
  <2>2. QED BY <2>1, <1>2, <1>3
<1>6. QED BY <1>1, <1>2, <1>4, <1>5, ConcatEmptySeq

-----------------------------------------------------------------------------
(* The actions of the contract, by what the clients are told.              *)

Tells(st, signals) == m'.mState = st /\ m'.emits = signals

LEMMA ContractReport ==
    ASSUME NEW e \in {<<>>, <<"word">>, <<"ip">>, <<"error">>}, Tells(m.mState, e)
    PROVE  Contract!Next
BY DEF Contract!Next, Contract!Spontaneous, Contract!Report, Contract!Says, Tells

LEMMA ContractStop ==
    ASSUME m'.mState = "Disconnected",
           m'.emits = IF m.mState = "Disconnected" THEN <<>> ELSE <<"Disconnected">>
    PROVE  Contract!Stop /\ Contract!Next
BY DEF Contract!Next, Contract!Spontaneous, Contract!Stop, Contract!Says, Contract!Enter

LEMMA ContractStart ==
    ASSUME m'.mState = "Connecting",
           m'.emits = IF m.mState = "Disconnected" THEN <<"Connecting">>
                      ELSE <<"Disconnected", "Connecting">>
    PROVE  Contract!Start /\ Contract!Next
<1>1. Contract!Enter("Disconnected") \o <<"Connecting">> = m'.emits
  <2>1. <<>> \o <<"Connecting">> = <<"Connecting">> BY Concatenations
  <2>2. <<"Disconnected">> \o <<"Connecting">> = <<"Disconnected", "Connecting">>
    BY Concatenations
  <2>3. CASE m.mState = "Disconnected" BY <2>1, <2>3 DEF Contract!Enter
  <2>4. CASE m.mState # "Disconnected" BY <2>2, <2>4 DEF Contract!Enter
  <2>5. QED BY <2>3, <2>4
<1>2. QED BY <1>1 DEF Contract!Next, Contract!Spontaneous, Contract!Start, Contract!Says

LEMMA ContractRetry ==
    ASSUME m'.mState = "Connecting",
           \/ m'.emits = IF m.mState = "Connecting" THEN <<>> ELSE <<"Connecting">>
           \/ m'.emits = IF m.mState = "Connecting" THEN <<"word">>
                         ELSE <<"Connecting", "word">>
    PROVE  Contract!Next
<1>1. \E report \in {<<>>, <<"word">>} :
         m'.emits = Contract!Enter("Connecting") \o report
  <2>1. /\ <<>> \o <<>> = <<>>
        /\ <<>> \o <<"word">> = <<"word">>
        /\ <<"Connecting">> \o <<>> = <<"Connecting">>
        /\ <<"Connecting">> \o <<"word">> = <<"Connecting", "word">>
    BY Concatenations
  <2>2. CASE m.mState = "Connecting" BY <2>1, <2>2 DEF Contract!Enter
  <2>3. CASE m.mState # "Connecting" BY <2>1, <2>3 DEF Contract!Enter
  <2>4. QED BY <2>2, <2>3
<1>2. QED BY <1>1 DEF Contract!Next, Contract!Spontaneous, Contract!Retry, Contract!Says

LEMMA ContractConnect ==
    ASSUME m'.mState = "Connected",
           \/ m'.emits = IF m.mState = "Connected" THEN <<"ip">> ELSE <<"ip", "Connected">>
           \/ m'.emits = IF m.mState = "Connected" THEN <<>> ELSE <<"Connected">>
    PROVE  Contract!Next
<1>1. \E address \in {<<>>, <<"ip">>} :
         m'.emits = address \o Contract!Enter("Connected")
  <2>1. /\ <<"ip">> \o <<>> = <<"ip">>
        /\ <<"ip">> \o <<"Connected">> = <<"ip", "Connected">>
        /\ <<>> \o <<>> = <<>>
        /\ <<>> \o <<"Connected">> = <<"Connected">>
    BY Concatenations
  <2>2. CASE m.mState = "Connected" BY <2>1, <2>2 DEF Contract!Enter
  <2>3. CASE m.mState # "Connected" BY <2>1, <2>3 DEF Contract!Enter
  <2>4. QED BY <2>2, <2>3
<1>2. QED BY <1>1 DEF Contract!Next, Contract!Spontaneous, Contract!Connect, Contract!Says

LEMMA ContractFail ==
    ASSUME m'.mState = "Disconnected",
           \/ m'.emits = IF m.mState = "Disconnected" THEN <<"error">>
                         ELSE <<"error", "Disconnected">>
           \/ m'.emits = IF m.mState = "Disconnected" THEN <<"error">>
                         ELSE <<"Disconnected", "error">>
           \/ m'.emits = IF m.mState = "Disconnected" THEN <<"word", "error">>
                         ELSE Append(<<"word", "Disconnected">>, "error")
    PROVE  Contract!Next
<1> DEFINE left == Contract!Enter("Disconnected")
<1>1. \/ m'.emits = <<"error">> \o left
      \/ m'.emits = left \o <<"error">>
      \/ m'.emits = (<<"word">> \o left) \o <<"error">>
  <2>1. /\ <<"error">> \o <<>> = <<"error">>
        /\ <<"error">> \o <<"Disconnected">> = <<"error", "Disconnected">>
        /\ <<>> \o <<"error">> = <<"error">>
        /\ <<"Disconnected">> \o <<"error">> = <<"Disconnected", "error">>
        /\ <<"word">> \o <<>> = <<"word">>
        /\ <<"word">> \o <<"error">> = <<"word", "error">>
        /\ <<"word">> \o <<"Disconnected">> = <<"word", "Disconnected">>
        /\ <<"word", "Disconnected">> \o <<"error">>
             = Append(<<"word", "Disconnected">>, "error")
    BY Concatenations
  <2>2. CASE m.mState = "Disconnected" BY <2>1, <2>2 DEF Contract!Enter
  <2>3. CASE m.mState # "Disconnected" BY <2>1, <2>3 DEF Contract!Enter
  <2>4. QED BY <2>2, <2>3
<1>2. QED BY <1>1 DEF Contract!Next, Contract!Spontaneous, Contract!Fail, Contract!Says

LEMMA ContractTimeOut ==
    ASSUME m.mState # "Disconnected", m'.mState = "Disconnected",
           m'.emits = IF m.mState = "Connecting" THEN <<"Disconnected", "timedOut">>
                      ELSE Append(<<"Connecting", "Disconnected">>, "timedOut")
    PROVE  Contract!Next
<1>1. m'.emits = Contract!Enter("Connecting") \o <<"Disconnected", "timedOut">>
  <2>1. /\ <<>> \o <<"Disconnected", "timedOut">> = <<"Disconnected", "timedOut">>
        /\ <<"Connecting">> \o <<"Disconnected", "timedOut">>
             = Append(<<"Connecting", "Disconnected">>, "timedOut")
    BY Concatenations
  <2>2. CASE m.mState = "Connecting" BY <2>1, <2>2 DEF Contract!Enter
  <2>3. CASE m.mState # "Connecting" BY <2>1, <2>3 DEF Contract!Enter
  <2>4. QED BY <2>2, <2>3
<1>2. QED BY <1>1 DEF Contract!Next, Contract!Spontaneous, Contract!TimeOut, Contract!Says

LEMMA ContractDie ==
    ASSUME m'.mState = "Disconnected", m'.emits = <<>>
    PROVE  Contract!Next
BY DEF Contract!Next, Contract!Die, Contract!Says


-----------------------------------------------------------------------------
(* Every step of the manager is a step of the contract or tells nothing.   *)

LEMMA SettleTells == ASSUME NEW n, Settle(n) PROVE m' = n
BY DEF Settle

\* A handler that ends quietly, having begun with nothing said.
LEMMA QuietReports ==
    ASSUME m \in Manager, m'.mState = m.mState, m'.emits = <<>>
    PROVE  Contract!Next
BY ContractReport DEF Tells

LEMMA QuietStops ==
    ASSUME NEW n \in Manager, n.mState = m.mState, n.emits = <<>>, m' = stop(n)
    PROVE  Contract!Stop /\ Contract!Next
<1>1. Enters(n, m', "Disconnected") BY StopTells
<1>2. Append(<<>>, "Disconnected") = <<"Disconnected">> BY AppendOne
<1>3. QED BY <1>1, <1>2, ContractStop DEF Enters

LEMMA QuietRetries ==
    ASSUME NEW n \in Manager, n.mState = m.mState, n.emits = <<>>,
           m' = startConnecting(n)
    PROVE  Contract!Next
<1>1. Enters(n, m', "Connecting") BY StartConnectingTells
<1>2. Append(<<>>, "Connecting") = <<"Connecting">> BY AppendOne
<1>3. QED BY <1>1, <1>2, ContractRetry DEF Enters

LEMMA QuietStarts ==
    ASSUME NEW n \in Manager, n.mState = m.mState, n.emits = <<>>,
           NEW o \in Manager, Quiet(stop(n), o), m' = startConnecting(o)
    PROVE  Contract!Start /\ Contract!Next
<1>1. Enters(n, stop(n), "Disconnected") BY StopTells
<1>2. Enters(o, m', "Connecting") BY StartConnectingTells
<1>3. o.mState = "Disconnected"
      /\ o.emits = IF m.mState = "Disconnected" THEN <<>> ELSE <<"Disconnected">>
  BY <1>1, AppendOne DEF Enters, Quiet
<1>4. /\ Append(<<>>, "Connecting") = <<"Connecting">>
      /\ Append(<<"Disconnected">>, "Connecting") = <<"Disconnected", "Connecting">>
  BY AppendOne, AppendTwo
<1>5. m'.emits = IF m.mState = "Disconnected" THEN <<"Connecting">>
                 ELSE <<"Disconnected", "Connecting">>
  BY <1>2, <1>3, <1>4 DEF Enters
<1>6. m'.mState = "Connecting" BY <1>2 DEF Enters
<1>7. QED BY <1>5, <1>6, ContractStart

LEMMA StartRefines ==
    ASSUME TypeOK, NEW k \in Keys, Start(k) PROVE Contract!Start /\ Contract!Next
<1>1. Begin(m) \in Manager /\ Begin(m).mState = m.mState /\ Begin(m).emits = <<>>
  BY BeginType, BeginTells DEF TypeOK
<1> DEFINE b == [Begin(m) EXCEPT !.attempt = 0]
           o == SetParameters(stop(b), k)
<1>2. \A n \in Manager : [n EXCEPT !.attempt = 0] \in Manager
                         /\ Quiet(n, [n EXCEPT !.attempt = 0])
  BY AssignType, QuietAssignments
<1>3. b \in Manager /\ b.mState = m.mState /\ b.emits = <<>>
  BY <1>1, <1>2 DEF Quiet
<1>4. stop(b) \in Manager BY <1>3, StopType
<1>5. o \in Manager BY <1>4, AssignType
<1>6. Quiet(stop(b), o) BY <1>4, QuietMethods
<1>7. m' = startConnecting(o) BY SettleTells DEF Start
<1> HIDE DEF b, o
<1>8. QED BY <1>3, <1>5, <1>6, <1>7, QuietStarts

LEMMA StopRefines == ASSUME TypeOK, Stop PROVE Contract!Stop /\ Contract!Next
<1>1. Begin(m) \in Manager /\ Begin(m).mState = m.mState /\ Begin(m).emits = <<>>
  BY BeginType, BeginTells DEF TypeOK
<1>2. m' = stop(Begin(m)) BY SettleTells DEF Stop
<1>3. QED BY <1>1, <1>2, QuietStops

LEMMA CommandsRefine == ASSUME TypeOK, Commands PROVE Contract!Next
<1>1. /\ m \in Manager /\ Begin(m) \in Manager
      /\ Begin(m).mState = m.mState /\ Begin(m).emits = <<>>
  BY BeginType, BeginTells DEF TypeOK
<1>2. ASSUME NEW k \in Keys, Start(k) PROVE Contract!Next BY <1>2, StartRefines
<1>3. CASE Stop BY <1>3, StopRefines
<1>4. CASE NetDown
  <2>1. PICK ok \in BOOLEAN : m' = [Begin(m) EXCEPT !.mNetDown = @ \/ ok]
    BY <1>4, SettleTells DEF NetDown
  <2>2. \A n \in Manager : Quiet(n, [n EXCEPT !.mNetDown = @ \/ ok])
    BY DEF Manager, Quiet
  <2>3. QED BY <1>1, <2>1, <2>2, QuietReports DEF Quiet
<1>5. CASE KillRunningOpenvpn
  <2>1. \/ m' = Begin(m)
        \/ \E s \in {"none", "opening", "up"} : m' = stop([Begin(m) EXCEPT !.socket = s])
    BY <1>5, SettleTells DEF KillRunningOpenvpn
  <2>2. CASE m' = Begin(m) BY <1>1, <2>2, QuietReports
  <2>3. ASSUME NEW s \in {"none", "opening", "up"},
               m' = stop([Begin(m) EXCEPT !.socket = s])
        PROVE  Contract!Next
    <3>1. \A n \in Manager : [n EXCEPT !.socket = s] \in Manager
                             /\ Quiet(n, [n EXCEPT !.socket = s])
      BY AssignType, QuietAssignments
    <3>2. QED BY <1>1, <2>3, <3>1, QuietStops DEF Quiet
  <2>4. QED BY <2>1, <2>2, <2>3
<1>6. Servers \X PortClasses \subseteq Keys BY ConstantsAssumption DEF Keys
<1>7. QED BY <1>2, <1>3, <1>4, <1>5, <1>6 DEF Commands


LEMMA TemplateReplyRefines ==
    ASSUME TypeOK, NEW r \in requests, TemplateFailed(r) \/ TemplateFinished(r)
    PROVE  Contract!Next
<1>1. /\ m \in Manager /\ Begin(m) \in Manager /\ r \in Requests
      /\ Begin(m).mState = m.mState /\ Begin(m).emits = <<>>
  BY BeginType, BeginTells DEF TypeOK
<1>2. CASE TemplateFailed(r)
  <2> DEFINE o == Emit(Begin(m), "error")
  <2>1. o \in Manager BY <1>1, EmitType DEF Notifications
  <2>2. o.mState = m.mState /\ o.emits = <<"error">> BY <1>1, EmitTells, AppendOne
  <2>3. m' = stop(o) BY <1>2 DEF TemplateFailed
  <2> HIDE DEF o
  <2>4. Enters(o, m', "Disconnected") BY <2>1, <2>3, StopTells
  <2>5. QED BY <2>2, <2>4, AppendTwo, ContractFail DEF Enters
<1>3. CASE TemplateFinished(r)
  <2> DEFINE n == StoreTemplate(Begin(m), r)
  <2>1. n \in Manager
    <3>1. \A o \in Manager : StoreTemplate(o, r) \in Manager
      BY <1>1 DEF StoreTemplate, Manager, Requests
    <3>2. QED BY <1>1, <3>1
  <2>2. n.mState = m.mState /\ n.emits = <<>>
    BY <1>1, QuietMethods DEF Quiet
  <2>3. \/ m' = Emit(n, "error")
        \/ m' = setState(Emit(n, "error"), "Disconnected")
        \/ m' = [setupFileWatcher(connectToOpenvpnSocket(n)) EXCEPT !.timer = TRUE]
    BY <1>3 DEF TemplateFinished
  <2> HIDE DEF n
  <2>4. /\ Emit(n, "error") \in Manager
        /\ Emit(n, "error").mState = m.mState
        /\ Emit(n, "error").emits = <<"error">>
    <3>1. Emit(n, "error") \in Manager BY <2>1, EmitType DEF Notifications
    <3>2. QED BY <2>1, <2>2, <3>1, EmitTells, AppendOne
  <2>5. CASE m' = Emit(n, "error") BY <2>4, <2>5, ContractReport DEF Tells
  <2>6. CASE m' = setState(Emit(n, "error"), "Disconnected")
    <3>1. Enters(Emit(n, "error"), m', "Disconnected") BY <2>4, <2>6, SetStateTells
    <3>2. QED BY <2>4, <3>1, AppendTwo, ContractFail DEF Enters
  <2>7. CASE m' = [setupFileWatcher(connectToOpenvpnSocket(n)) EXCEPT !.timer = TRUE]
    <3> DEFINE o == setupFileWatcher(connectToOpenvpnSocket(n))
    <3>1. connectToOpenvpnSocket(n) \in Manager /\ Quiet(n, connectToOpenvpnSocket(n))
      BY <2>1, SocketType, QuietMethods
    <3>2. o \in Manager /\ Quiet(connectToOpenvpnSocket(n), o)
      BY <3>1, SocketType, QuietMethods
    <3>3. \A p \in Manager : Quiet(p, [p EXCEPT !.timer = TRUE]) BY QuietAssignments
    <3>4. Quiet(o, m') BY <2>7, <3>2, <3>3
    <3>5. QED BY <1>1, <2>2, <3>1, <3>2, <3>4, QuietReports DEF Quiet
  <2>8. QED BY <2>3, <2>5, <2>6, <2>7
<1>4. QED BY <1>2, <1>3

\* What checkState does before it looks at the time.
LEMMA SuperviseTells ==
    ASSUME NEW n \in Manager, NEW seen
    PROVE  \/ Quiet(n, Supervise(n, seen))
           \/ Supervise(n, seen) = startConnecting(n) /\ n.mState = "Connected"
           \/ Supervise(n, seen) = setState(n, "Disconnected") /\ n.mState = "Connected"
<1>1. Quiet(n, connectToOpenvpnSocket(n)) /\ Quiet(n, n)
  BY QuietMethods DEF Quiet
<1>2. QED BY <1>1 DEF Supervise

LEMMA CheckStateRefines == ASSUME TypeOK, CheckState PROVE Contract!Next
<1>1. /\ m \in Manager /\ Begin(m) \in Manager
      /\ Begin(m).mState = m.mState /\ Begin(m).emits = <<>>
  BY BeginType, BeginTells DEF TypeOK
<1>2. PICK seen \in Sightings :
         LET n == Supervise(Begin(m), seen)
         IN  IF TimedOut(n) THEN m' = Emit(stop(n), "timedOut") ELSE m' = n
  BY SettleTells DEF CheckState
<1> DEFINE n == Supervise(Begin(m), seen)
<1>3. n \in Manager BY <1>1, SuperviseType
<1>4. \/ n.mState = m.mState /\ n.emits = <<>>
      \/ n = startConnecting(Begin(m)) /\ m.mState = "Connected"
      \/ n = setState(Begin(m), "Disconnected") /\ m.mState = "Connected"
  BY <1>1, SuperviseTells DEF Quiet
<1>5. IF TimedOut(n) THEN m' = Emit(stop(n), "timedOut") ELSE m' = n BY <1>2
<1> HIDE DEF n
<1>6. ASSUME n = startConnecting(Begin(m)), m.mState = "Connected"
      PROVE  n.mState = "Connecting" /\ n.emits = <<"Connecting">>
  <2>1. Enters(Begin(m), n, "Connecting") BY <1>1, <1>6, StartConnectingTells
  <2>2. QED BY <1>1, <1>6, <2>1, AppendOne DEF Enters
<1>7. ASSUME n = setState(Begin(m), "Disconnected"), m.mState = "Connected"
      PROVE  n.mState = "Disconnected" /\ n.emits = <<"Disconnected">>
  <2>1. Enters(Begin(m), n, "Disconnected") BY <1>1, <1>7, SetStateTells
  <2>2. QED BY <1>1, <1>7, <2>1, AppendOne DEF Enters
<1>8. CASE TimedOut(n)
  <2>1. n.mState = "Connecting" BY <1>8 DEF TimedOut
  <2>2. stop(n) \in Manager BY <1>3, StopType
  <2>3. stop(n).mState = "Disconnected" /\ stop(n).emits = Append(n.emits, "Disconnected")
    BY <1>3, <2>1, StopTells DEF Enters
  <2>4. m'.mState = "Disconnected" /\ m'.emits = Append(stop(n).emits, "timedOut")
    BY <1>5, <1>8, <2>2, <2>3, EmitTells
  <2>5. CASE n.mState = m.mState /\ n.emits = <<>>
    <3>1. stop(n).emits = <<"Disconnected">> BY <2>3, <2>5, AppendOne
    <3>2. m'.emits = <<"Disconnected", "timedOut">> BY <2>4, <3>1, AppendTwo
    <3>3. QED BY <2>1, <2>4, <2>5, <3>2, ContractTimeOut
  <2>6. CASE n = startConnecting(Begin(m)) /\ m.mState = "Connected"
    <3>1. stop(n).emits = <<"Connecting", "Disconnected">>
      BY <1>6, <2>3, <2>6, AppendTwo
    <3>2. m'.emits = Append(<<"Connecting", "Disconnected">>, "timedOut")
      BY <2>4, <3>1
    <3>3. QED BY <2>4, <2>6, <3>2, ContractTimeOut
  <2>7. QED BY <1>4, <1>7, <2>1, <2>5, <2>6
<1>9. CASE ~TimedOut(n)
  <2>1. m' = n BY <1>5, <1>9
  <2>2. CASE n.mState = m.mState /\ n.emits = <<>> BY <1>1, <2>1, <2>2, QuietReports
  <2>3. CASE n = startConnecting(Begin(m)) /\ m.mState = "Connected"
    BY <1>6, <2>1, <2>3, ContractRetry
  <2>4. CASE n = setState(Begin(m), "Disconnected") /\ m.mState = "Connected"
    BY <1>7, <2>1, <2>4, ContractStop
  <2>5. QED BY <1>4, <2>2, <2>3, <2>4
<1>10. QED BY <1>8, <1>9

LEMMA ReconnectRefines == ASSUME TypeOK, ReconnectTimeout PROVE Contract!Next
<1> DEFINE next == IF m.attempt < G_Max_Reconnect THEN m.attempt + 1 ELSE m.attempt
           n    == [Begin(m) EXCEPT !.attempt = next]
           done == [n EXCEPT !.shots = @ - 1]
<1>1. /\ m \in Manager /\ Begin(m) \in Manager
      /\ Begin(m).mState = m.mState /\ Begin(m).emits = <<>>
  BY BeginType, BeginTells DEF TypeOK
<1>2. n \in Manager /\ done \in Manager BY <1>1, ReconnectObjectsType
<1>3. n.mState = m.mState /\ n.emits = <<>>
  <2>1. \A o \in Manager : Quiet(o, [o EXCEPT !.attempt = next]) BY QuietAssignments
  <2>2. QED BY <1>1, <2>1 DEF Quiet
<1>4. m' = n \/ m' = startConnecting(done) \/ m' = startConnecting(stop(done))
  BY SettleTells DEF ReconnectTimeout
<1>5. done.mState = m.mState /\ done.emits = <<>>
  <2>1. \A o \in Manager : Quiet(o, [o EXCEPT !.shots = @ - 1]) BY DEF Manager, Quiet
  <2>2. QED BY <1>2, <1>3, <2>1 DEF Quiet
<1> HIDE DEF n, done, next
<1>6. CASE m' = n BY <1>1, <1>3, <1>6, QuietReports
<1>7. CASE m' = startConnecting(done) BY <1>2, <1>5, <1>7, QuietRetries
<1>8. CASE m' = startConnecting(stop(done))
  BY <1>2, <1>5, <1>8, StopType, QuietStarts DEF Quiet
<1>9. QED BY <1>4, <1>6, <1>7, <1>8

LEMMA SocketActionsRefine ==
    ASSUME TypeOK,
           SocketConnected \/ SocketError \/ SocketReadyRead \/ OpenvpnLogfileChanged
    PROVE  Contract!Next
<1>1. /\ m \in Manager /\ Begin(m) \in Manager
      /\ Begin(m).mState = m.mState /\ Begin(m).emits = <<>>
  BY BeginType, BeginTells DEF TypeOK
<1>2. CASE SocketConnected
  <2>1. m' = [Begin(m) EXCEPT !.socket = "up"] BY <1>2 DEF SocketConnected
  <2>2. \A o \in Manager : Quiet(o, [o EXCEPT !.socket = "up"]) BY QuietAssignments
  <2>3. QED BY <1>1, <2>1, <2>2, QuietReports DEF Quiet
<1>3. CASE SocketError
  <2>1. m' = disconnectFromOpenvpnSocket(Begin(m)) BY <1>3, SettleTells DEF SocketError
  <2>2. QED BY <1>1, <2>1, QuietMethods, QuietReports DEF Quiet
<1>4. CASE SocketReadyRead \/ OpenvpnLogfileChanged
  <2>1. m' = Begin(m) BY <1>4 DEF SocketReadyRead, OpenvpnLogfileChanged
  <2>2. QED BY <1>1, <2>1, QuietReports
<1>5. QED BY <1>2, <1>3, <1>4


\* Connected is entered, with an address or without one.
LEMMA GotConnectedRefines ==
    ASSUME NEW n \in Manager, n.mState = m.mState, n.emits = <<>>, NEW l,
           Quiet(gotConnected(n, l), m')
    PROVE  Contract!Next
<1>1. CASE Addressed(l)
  <2> DEFINE o == Emit(n, "ip")
  <2>1. o \in Manager BY EmitType DEF Notifications
  <2>2. o.mState = m.mState /\ o.emits = <<"ip">> BY EmitTells, AppendOne
  <2>3. Quiet(setState(o, "Connected"), m') BY <1>1 DEF gotConnected
  <2> HIDE DEF o
  <2>4. Enters(o, setState(o, "Connected"), "Connected") BY <2>1, SetStateTells
  <2>5. QED BY <2>2, <2>3, <2>4, AppendTwo, ContractConnect DEF Enters, Quiet
<1>2. CASE ~Addressed(l)
  <2>1. Quiet(setState(n, "Connected"), m') BY <1>2 DEF gotConnected
  <2>2. Enters(n, setState(n, "Connected"), "Connected") BY SetStateTells
  <2>3. QED BY <2>1, <2>2, AppendOne, ContractConnect DEF Enters, Quiet
<1>3. QED BY <1>1, <1>2

\* A state word, in an object that has told nothing yet.
LEMMA StateWordRefines ==
    ASSUME NEW n \in Manager, n.mState = m.mState, n.emits = <<>>, NEW w \in StateWords,
           Quiet(StateWord(n, w), m')
    PROVE  Contract!Next
<1> DEFINE r == startReconnectTimer(n)
           word == Emit(n, "word")
<1>1. /\ r \in Manager /\ word \in Manager
      /\ r.mState = m.mState /\ r.emits = <<>>
      /\ word.mState = m.mState /\ word.emits = <<"word">>
  <2>1. r \in Manager /\ word \in Manager
    BY StartReconnectTimerType, EmitType DEF Notifications
  <2>2. r.mState = m.mState /\ r.emits = <<>> BY QuietMethods DEF Quiet
  <2>3. QED BY <2>1, <2>2, EmitTells, AppendOne
<1>2. CASE StateWord(n, w) = n BY <1>2, ContractReport DEF Tells, Quiet
<1>3. CASE StateWord(n, w) = gotConnected(n, w) BY <1>3, GotConnectedRefines
<1>4. CASE StateWord(n, w) = Emit(setState(n, "Connecting"), "word")
  <2> DEFINE o == setState(n, "Connecting")
  <2>1. o \in Manager BY SetStateType DEF VpnStates
  <2>2. Enters(n, o, "Connecting") BY SetStateTells
  <2>3. Quiet(Emit(o, "word"), m') BY <1>4
  <2> HIDE DEF o
  <2>4. m'.mState = o.mState /\ m'.emits = Append(o.emits, "word")
    BY <2>1, <2>3, EmitTells DEF Quiet
  <2>5. o.emits = IF m.mState = "Connecting" THEN <<>> ELSE <<"Connecting">>
    BY <2>2, AppendOne DEF Enters
  <2>6. m'.emits = IF m.mState = "Connecting" THEN <<"word">>
                   ELSE <<"Connecting", "word">>
    BY <2>4, <2>5, AppendOne, AppendTwo
  <2>7. QED BY <2>2, <2>4, <2>6, ContractRetry DEF Enters
<1>5. CASE StateWord(n, w) = setState(r, "Connecting")
  <2>1. Enters(r, setState(r, "Connecting"), "Connecting") BY <1>1, SetStateTells
  <2>2. QED BY <1>1, <1>5, <2>1, AppendOne, ContractRetry DEF Enters, Quiet
<1>6. CASE StateWord(n, w) = setState(n, "Disconnected")
  <2>1. Enters(n, setState(n, "Disconnected"), "Disconnected") BY SetStateTells
  <2>2. QED BY <1>6, <2>1, AppendOne, ContractStop DEF Enters, Quiet
<1>7. CASE StateWord(n, w) = Emit(stop(word), "error")
  <2>1. stop(word) \in Manager BY <1>1, StopType
  <2>2. Enters(word, stop(word), "Disconnected") BY <1>1, StopTells
  <2>3. m'.mState = stop(word).mState /\ m'.emits = Append(stop(word).emits, "error")
    BY <1>7, <2>1, EmitTells DEF Quiet
  <2>4. stop(word).emits = IF m.mState = "Disconnected" THEN <<"word">>
                           ELSE <<"word", "Disconnected">>
    BY <1>1, <2>2, AppendTwo DEF Enters
  <2>5. m'.emits = IF m.mState = "Disconnected" THEN <<"word", "error">>
                   ELSE Append(<<"word", "Disconnected">>, "error")
    BY <2>3, <2>4, AppendTwo
  <2>6. QED BY <2>2, <2>3, <2>5, ContractFail DEF Enters
<1>8. CASE StateWord(n, w) = word BY <1>1, <1>8, ContractReport DEF Tells, Quiet
<1>9. \/ StateWord(n, w) = n
      \/ StateWord(n, w) = gotConnected(n, w)
      \/ StateWord(n, w) = Emit(setState(n, "Connecting"), "word")
      \/ StateWord(n, w) = setState(r, "Connecting")
      \/ StateWord(n, w) = setState(n, "Disconnected")
      \/ StateWord(n, w) = Emit(stop(word), "error")
      \/ StateWord(n, w) = word
  BY DEF StateWord
<1>10. QED BY <1>2, <1>3, <1>4, <1>5, <1>6, <1>7, <1>8, <1>9

\* Any other line.
LEMMA OtherLineRefines ==
    ASSUME NEW n \in Manager, n.mState = m.mState, n.emits = <<>>, NEW l,
           m' = OtherLine(n, l)
    PROVE  Contract!Next
<1> DEFINE e == [n EXCEPT !.mError = TRUE]
           b == [n EXCEPT !.target = <<n.target[1], NextClass>>]
<1>1. /\ e \in Manager /\ e.mState = m.mState /\ e.emits = <<>>
      /\ b \in Manager /\ b.mState = m.mState /\ b.emits = <<>>
  <2>1. e \in Manager /\ b \in Manager BY DEF Manager, Keys, NextClass
  <2>2. Quiet(n, e) /\ Quiet(n, b) BY QuietAssignments
  <2>3. QED BY <2>1, <2>2 DEF Quiet
<1>2. \/ m' = showErrorMessageCleanup(e)
      \/ m' = cancel(e)
      \/ m' = gotTunErr(n)
      \/ m' = Emit(disconnectFromOpenvpnSocket(n), "error")
      \/ m' = startConnecting(b)
      \/ m' = Emit(n, "ip")
      \/ m' = gotConnected(n, l)
      \/ m' = n
  BY DEF OtherLine, parseNewIp
<1> HIDE DEF e, b
<1>3. ASSUME NEW o \in Manager, Enters(e, o, "Disconnected"), m' = Emit(o, "error")
      PROVE  Contract!Next
  <2>1. m'.mState = "Disconnected" /\ m'.emits = Append(o.emits, "error")
    <3>1. o.mState = "Disconnected" BY <1>3 DEF Enters
    <3>2. Emit(o, "error").mState = o.mState
          /\ Emit(o, "error").emits = Append(o.emits, "error")
      BY EmitTells
    <3>3. QED BY <1>3, <3>1, <3>2
  <2>2. o.emits = IF m.mState = "Disconnected" THEN <<>> ELSE <<"Disconnected">>
    BY <1>1, <1>3, AppendOne DEF Enters
  <2>3. m'.emits = IF m.mState = "Disconnected" THEN <<"error">>
                   ELSE <<"Disconnected", "error">>
    BY <2>1, <2>2, AppendOne, AppendTwo
  <2>4. QED BY <2>1, <2>3, ContractFail
<1>4. CASE m' = showErrorMessageCleanup(e)
  <2> DEFINE d == disconnectFromOpenvpnSocket(e)
  <2>1. d \in Manager /\ Quiet(e, d) BY <1>1, SocketType, QuietMethods
  <2>2. m' = Emit(setState(d, "Disconnected"), "error")
    BY <1>4 DEF showErrorMessageCleanup
  <2> HIDE DEF d
  <2>3. setState(d, "Disconnected") \in Manager BY <2>1, SetStateType DEF VpnStates
  <2>4. Enters(d, setState(d, "Disconnected"), "Disconnected") BY <2>1, SetStateTells
  <2>5. QED BY <1>3, <2>1, <2>2, <2>3, <2>4 DEF Enters, Quiet
<1>5. CASE m' = cancel(e) BY <1>1, <1>3, <1>5, StopType, StopTells DEF cancel
<1>6. CASE m' = gotTunErr(n)
  <2>1. m' = n \/ m' = startConnecting(n) BY <1>6 DEF gotTunErr
  <2>2. QED BY <2>1, QuietRetries, ContractReport DEF Tells
<1>7. CASE m' = Emit(disconnectFromOpenvpnSocket(n), "error")
  <2>1. disconnectFromOpenvpnSocket(n) \in Manager
        /\ Quiet(n, disconnectFromOpenvpnSocket(n))
    BY SocketType, QuietMethods
  <2>2. m'.mState = m.mState /\ m'.emits = <<"error">>
    BY <1>7, <2>1, EmitTells, AppendOne DEF Quiet
  <2>3. QED BY <2>2, ContractReport DEF Tells
<1>8. CASE m' = startConnecting(b) BY <1>1, <1>8, QuietRetries
<1>9. CASE m' = Emit(n, "ip") BY <1>9, EmitTells, AppendOne, ContractReport DEF Tells
<1>10. CASE m' = n BY <1>10, ContractReport DEF Tells
<1>11. CASE m' = gotConnected(n, l) BY <1>11, GotConnectedRefines DEF Quiet
<1>12. QED BY <1>2, <1>4, <1>5, <1>6, <1>7, <1>8, <1>9, <1>10, <1>11

LEMMA NewManagerTells ==
    ASSUME NEW r
    PROVE  NewManager(r).mState = "Disconnected" /\ NewManager(r).emits = <<>>
BY DEF NewManager

LEMMA NewManagerRefines == ASSUME NEW r, m' = NewManager(r) PROVE Contract!Next
<1>1. NewManager(r).mState = "Disconnected" /\ NewManager(r).emits = <<>>
  BY NewManagerTells
<1>2. m'.mState = "Disconnected" /\ m'.emits = <<>> BY <1>1
<1>3. QED BY <1>2, ContractDie

LEMMA ParseLineRefines == ASSUME TypeOK, ParseLine PROVE Contract!Next
<1>1. /\ m \in Manager /\ Begin(m) \in Manager
      /\ Begin(m).mState = m.mState /\ Begin(m).emits = <<>>
  BY BeginType, BeginTells DEF TypeOK
<1>2. CASE ParseStateWord
  <2> DEFINE w == Head(batch)
  <2>1. w \in StateWords BY <1>2 DEF ParseStateWord
  <2>2. m' = [StateWord(Begin(m), w) EXCEPT !.prev = w]
    BY <1>2, SettleTells DEF ParseStateWord
  <2>3. StateWord(Begin(m), w) \in Manager BY <1>1, <2>1, StateWordType
  <2>4. \A o \in Manager : Quiet(o, [o EXCEPT !.prev = w]) BY QuietAssignments
  <2>5. Quiet(StateWord(Begin(m), w), m') BY <2>2, <2>3, <2>4
  <2> HIDE DEF w
  <2>6. QED BY <1>1, <2>1, <2>5, StateWordRefines
<1>3. CASE ParseOtherLine
  <2>1. m' = OtherLine(Begin(m), Head(batch)) BY <1>3, SettleTells DEF ParseOtherLine
  <2>2. QED BY <1>1, <2>1, OtherLineRefines
<1>4. CASE AnswerQuery
  <2>1. m' = Begin(m) BY <1>4 DEF AnswerQuery
  <2>2. QED BY <1>1, <2>1, QuietReports
<1>5. CASE Crash BY <1>5, NewManagerRefines DEF Crash
<1>6. QED BY <1>2, <1>3, <1>4, <1>5 DEF ParseLine

LEMMA EnvironmentRefines ==
    ASSUME TypeOK, Environment PROVE Contract!Next \/ UNCHANGED m
<1>1. CASE Restart BY <1>1, NewManagerRefines DEF Restart
<1>2. CASE ~Restart
  BY <1>2 DEF Environment, Elapse, DaemonAsks, DaemonConnects, DaemonLosesTunnel,
     DaemonRefused, DaemonComplains, DaemonFatal, DaemonExits
<1>3. QED BY <1>1, <1>2

LEMMA StepRefines ==
    TypeOK /\ [Next]_vars => [Contract!Next]_<<m.mState, m.emits>>
<1> SUFFICES ASSUME TypeOK, [Next]_vars PROVE Contract!Next \/ UNCHANGED m
  OBVIOUS
<1>1. CASE Commands BY <1>1, CommandsRefine
<1>2. CASE Handlers
  <2>1. CASE TemplateReply
    <3>1. PICK r \in requests : TemplateFailed(r) \/ TemplateFinished(r)
      BY <2>1 DEF TemplateReply
    <3>2. QED BY <3>1, TemplateReplyRefines
  <2>2. CASE CheckState \/ ReconnectTimeout BY <2>2, CheckStateRefines, ReconnectRefines
  <2>3. CASE SocketConnected \/ SocketError \/ SocketReadyRead \/ OpenvpnLogfileChanged
    BY <2>3, SocketActionsRefine
  <2>4. CASE ParseLine BY <2>4, ParseLineRefines
  <2>5. QED BY <1>2, <2>1, <2>2, <2>3, <2>4 DEF Handlers
<1>3. CASE Environment BY <1>3, EnvironmentRefines
<1>4. CASE UNCHANGED vars BY <1>4 DEF vars
<1>5. QED BY <1>1, <1>2, <1>3, <1>4 DEF Next

\* Whatever OpenVPN, the network, the timers and the clients do, the clients
\* are told what the contract says: states as they are entered, the address,
\* if any, before Connected, and Disconnected before timedOut (setState, gotConnected,
\* checkState, cancel).
THEOREM KeepsContract == Spec => ImplementsContract
<1>1. Init => Contract!Init BY NewManagerTells DEF Init, Contract!Init
<1>2. TypeOK /\ [Next]_vars => [Contract!Next]_<<m.mState, m.emits>> BY StepRefines
<1>3. QED
  BY <1>1, <1>2, TypeCorrect, PTL DEF Spec, ImplementsContract, Contract!Spec

\* The two commands of the GUI are answered as the contract says they are, so
\* that what is proved of the clients of any such manager holds of these
\* (socket_readyRead of QVPNClientConnection, start, stop).
THEOREM AnswersCommands == Spec => CommandsAnswered
<1>1. TypeOK /\ [Next]_vars =>
        [/\ \A k \in Servers \X PortClasses : Start(k) => Contract!Start
         /\ Stop => Contract!Stop]_vars
  <2> SUFFICES ASSUME TypeOK
               PROVE  /\ \A k \in Servers \X PortClasses : Start(k) => Contract!Start
                      /\ Stop => Contract!Stop
    OBVIOUS
  <2>1. Servers \X PortClasses \subseteq Keys BY ConstantsAssumption DEF Keys
  <2>2. QED BY <2>1, StartRefines, StopRefines
<1>2. QED BY <1>1, TypeCorrect, PTL DEF Spec, CommandsAnswered

(***************************************************************************)
(* Part 3: what a timeout leaves of an attempt                             *)
(***************************************************************************)
-----------------------------------------------------------------------------
(* Who tells of a timeout: checkState alone.                               *)

Untimed(n) == \A i \in 1..Len(n.emits) : n.emits[i] # "timedOut"

LEMMA UntimedBegin == ASSUME NEW n, n.emits = <<>> PROVE Untimed(n)
<1>1. Len(n.emits) = 0 OBVIOUS
<1>2. QED BY <1>1 DEF Untimed

LEMMA UntimedQuiet ==
    ASSUME NEW o, NEW n, Untimed(o), Quiet(o, n) PROVE Untimed(n)
BY DEF Untimed, Quiet

LEMMA UntimedEmit ==
    ASSUME NEW n \in Manager, Untimed(n), NEW e \in Notifications \ {"timedOut"}
    PROVE  Untimed(Emit(n, e))
<1>1. n.emits \in Seq(Notifications) BY DEF Manager
<1>2. Emit(n, e).emits = Append(n.emits, e) BY EmitTells
<1>3. /\ Len(Append(n.emits, e)) = Len(n.emits) + 1
      /\ \A i \in 1..Len(n.emits) : Append(n.emits, e)[i] = n.emits[i]
      /\ Append(n.emits, e)[Len(n.emits) + 1] = e
  BY <1>1, AppendProperties
<1>4. Len(n.emits) \in Nat BY <1>1, LenProperties
<1>5. QED BY <1>2, <1>3, <1>4 DEF Untimed

LEMMA UntimedEnters ==
    ASSUME NEW o \in Manager, NEW n \in Manager, Untimed(o),
           NEW st \in VpnStates, Enters(o, n, st)
    PROVE  Untimed(n)
<1>1. CASE o.mState = st BY <1>1 DEF Enters, Untimed
<1>2. CASE o.mState # st
  <2>1. n.emits = Append(o.emits, st) BY <1>2 DEF Enters
  <2>2. Emit(o, st).emits = Append(o.emits, st) BY EmitTells
  <2>3. Untimed(Emit(o, st)) BY UntimedEmit DEF VpnStates, Notifications
  <2>4. QED BY <2>1, <2>2, <2>3 DEF Untimed
<1>3. QED BY <1>1, <1>2

LEMMA UntimedMethods ==
    ASSUME NEW n \in Manager, Untimed(n)
    PROVE  /\ \A st \in VpnStates : Untimed(setState(n, st))
           /\ Untimed(stop(n))
           /\ Untimed(startConnecting(n))
           /\ Untimed(cancel(n))
           /\ \A l : Untimed(gotConnected(n, l))
           /\ Untimed(gotTunErr(n))
           /\ Untimed(showErrorMessageCleanup(n))
<1>1. ASSUME NEW o \in Manager, Untimed(o), NEW st \in VpnStates
      PROVE  setState(o, st) \in Manager /\ Untimed(setState(o, st))
  BY <1>1, SetStateType, SetStateTells, UntimedEnters
<1>2. stop(n) \in Manager /\ Untimed(stop(n))
  BY StopType, StopTells, UntimedEnters DEF VpnStates
<1>3. Untimed(startConnecting(n))
  BY StartConnectingType, StartConnectingTells, UntimedEnters DEF VpnStates
<1>4. Untimed(cancel(n)) BY <1>2, UntimedEmit DEF cancel, Notifications
<1>5. ASSUME NEW l PROVE Untimed(gotConnected(n, l))
  <2>1. Emit(n, "ip") \in Manager /\ Untimed(Emit(n, "ip"))
    BY EmitType, UntimedEmit DEF Notifications
  <2>2. QED BY <1>1, <2>1 DEF gotConnected, VpnStates
<1>6. Untimed(gotTunErr(n)) BY <1>3 DEF gotTunErr
<1>7. Untimed(showErrorMessageCleanup(n))
  <2> DEFINE d == disconnectFromOpenvpnSocket(n)
  <2>1. d \in Manager /\ Untimed(d) BY SocketType, QuietMethods, UntimedQuiet
  <2> HIDE DEF d
  <2>2. setState(d, "Disconnected") \in Manager /\ Untimed(setState(d, "Disconnected"))
    BY <1>1, <2>1 DEF VpnStates
  <2>3. Untimed(Emit(setState(d, "Disconnected"), "error"))
    BY <2>2, UntimedEmit DEF Notifications
  <2>4. QED BY <2>3 DEF showErrorMessageCleanup, d
<1>8. QED BY <1>1, <1>2, <1>3, <1>4, <1>5, <1>6, <1>7

LEMMA UntimedStateWord ==
    ASSUME NEW n \in Manager, Untimed(n), NEW w \in StateWords
    PROVE  Untimed(StateWord(n, w))
<1>1. ASSUME NEW o \in Manager, Untimed(o)
      PROVE  Emit(o, "word") \in Manager /\ Untimed(Emit(o, "word"))
  BY <1>1, EmitType, UntimedEmit DEF Notifications
<1>2. setState(n, "Connecting") \in Manager /\ Untimed(setState(n, "Connecting"))
  BY SetStateType, UntimedMethods DEF VpnStates
<1>3. Untimed(setState(startReconnectTimer(n), "Connecting"))
  <2>1. startReconnectTimer(n) \in Manager /\ Untimed(startReconnectTimer(n))
    BY StartReconnectTimerType, QuietMethods, UntimedQuiet
  <2>2. QED BY <2>1, UntimedMethods DEF VpnStates
<1>4. Untimed(Emit(stop(Emit(n, "word")), "error"))
  <2>1. stop(Emit(n, "word")) \in Manager /\ Untimed(stop(Emit(n, "word")))
    BY <1>1, StopType, UntimedMethods
  <2>2. QED BY <2>1, UntimedEmit DEF Notifications
<1>5. Untimed(setState(n, "Disconnected")) /\ Untimed(gotConnected(n, w))
  BY UntimedMethods DEF VpnStates
<1>6. Untimed(Emit(setState(n, "Connecting"), "word")) /\ Untimed(Emit(n, "word"))
  BY <1>1, <1>2
<1>7. \/ StateWord(n, w) = n
      \/ StateWord(n, w) = gotConnected(n, w)
      \/ StateWord(n, w) = Emit(setState(n, "Connecting"), "word")
      \/ StateWord(n, w) = setState(startReconnectTimer(n), "Connecting")
      \/ StateWord(n, w) = setState(n, "Disconnected")
      \/ StateWord(n, w) = Emit(stop(Emit(n, "word")), "error")
      \/ StateWord(n, w) = Emit(n, "word")
  BY DEF StateWord
<1>8. QED BY <1>3, <1>4, <1>5, <1>6, <1>7

LEMMA UntimedOtherLine ==
    ASSUME NEW n \in Manager, Untimed(n), NEW l
    PROVE  Untimed(OtherLine(n, l))
<1> DEFINE e == [n EXCEPT !.mError = TRUE]
           b == [n EXCEPT !.target = <<n.target[1], NextClass>>]
<1>1. e \in Manager /\ b \in Manager BY DEF Manager, Keys, NextClass
<1>2. Untimed(e) /\ Untimed(b) BY QuietAssignments, UntimedQuiet
<1>3. \/ OtherLine(n, l) = showErrorMessageCleanup(e)
      \/ OtherLine(n, l) = cancel(e)
      \/ OtherLine(n, l) = gotTunErr(n)
      \/ OtherLine(n, l) = Emit(disconnectFromOpenvpnSocket(n), "error")
      \/ OtherLine(n, l) = startConnecting(b)
      \/ OtherLine(n, l) = Emit(n, "ip")
      \/ OtherLine(n, l) = gotConnected(n, l)
      \/ OtherLine(n, l) = n
  BY DEF OtherLine, parseNewIp
<1> HIDE DEF e, b
<1>4. Untimed(Emit(disconnectFromOpenvpnSocket(n), "error"))
  <2>1. disconnectFromOpenvpnSocket(n) \in Manager
        /\ Untimed(disconnectFromOpenvpnSocket(n))
    BY SocketType, QuietMethods, UntimedQuiet
  <2>2. QED BY <2>1, UntimedEmit DEF Notifications
<1>5. Untimed(Emit(n, "ip")) BY UntimedEmit DEF Notifications
<1>6. QED BY <1>1, <1>2, <1>3, <1>4, <1>5, UntimedMethods

-----------------------------------------------------------------------------
(* What each handler tells of timeouts.                                    *)

LEMMA BeginUntimed ==
    ASSUME TypeOK
    PROVE  m \in Manager /\ Begin(m) \in Manager /\ Untimed(Begin(m))
BY BeginType, BeginTells, UntimedBegin DEF TypeOK

LEMMA CommandsUntimed == ASSUME TypeOK, Commands PROVE Untimed(m')
<1>1. m \in Manager /\ Begin(m) \in Manager /\ Untimed(Begin(m)) BY BeginUntimed
<1>2. ASSUME NEW k \in Keys, Start(k) PROVE Untimed(m')
  <2> DEFINE b == [Begin(m) EXCEPT !.attempt = 0]
             o == SetParameters(stop(b), k)
  <2>1. \A n \in Manager : [n EXCEPT !.attempt = 0] \in Manager
                           /\ Quiet(n, [n EXCEPT !.attempt = 0])
    BY AssignType, QuietAssignments
  <2>2. b \in Manager /\ Untimed(b) BY <1>1, <2>1, UntimedQuiet
  <2>3. m' = startConnecting(SetParameters(stop(b), k)) BY <1>2, SettleTells DEF Start
  <2> HIDE DEF b
  <2>4. stop(b) \in Manager /\ Untimed(stop(b)) BY <2>2, StopType, UntimedMethods
  <2>5. o \in Manager /\ Untimed(o) BY <2>4, AssignType, QuietMethods, UntimedQuiet
  <2> HIDE DEF o
  <2>6. m' = startConnecting(o) BY <2>3 DEF o
  <2>7. QED BY <2>5, <2>6, UntimedMethods
<1>3. CASE Stop BY <1>1, <1>3, SettleTells, UntimedMethods DEF Stop
<1>4. CASE NetDown
  <2>1. PICK ok \in BOOLEAN : m' = [Begin(m) EXCEPT !.mNetDown = @ \/ ok]
    BY <1>4, SettleTells DEF NetDown
  <2>2. \A n \in Manager : Quiet(n, [n EXCEPT !.mNetDown = @ \/ ok])
    BY DEF Manager, Quiet
  <2>3. QED BY <1>1, <2>1, <2>2, UntimedQuiet
<1>5. CASE KillRunningOpenvpn
  <2>1. \/ m' = Begin(m)
        \/ \E s \in {"none", "opening", "up"} : m' = stop([Begin(m) EXCEPT !.socket = s])
    BY <1>5, SettleTells DEF KillRunningOpenvpn
  <2>2. ASSUME NEW s \in {"none", "opening", "up"},
               m' = stop([Begin(m) EXCEPT !.socket = s])
        PROVE  Untimed(m')
    <3>1. \A n \in Manager : [n EXCEPT !.socket = s] \in Manager
                             /\ Quiet(n, [n EXCEPT !.socket = s])
      BY AssignType, QuietAssignments
    <3>2. [Begin(m) EXCEPT !.socket = s] \in Manager
          /\ Untimed([Begin(m) EXCEPT !.socket = s])
      BY <1>1, <3>1, UntimedQuiet
    <3>3. QED BY <2>2, <3>2, UntimedMethods
  <2>3. QED BY <1>1, <2>1, <2>2
<1>6. Servers \X PortClasses \subseteq Keys BY ConstantsAssumption DEF Keys
<1>7. QED BY <1>2, <1>3, <1>4, <1>5, <1>6 DEF Commands

LEMMA TemplateReplyUntimed ==
    ASSUME TypeOK, NEW r \in requests, TemplateFailed(r) \/ TemplateFinished(r)
    PROVE  Untimed(m')
<1>1. /\ m \in Manager /\ Begin(m) \in Manager /\ Untimed(Begin(m)) /\ r \in Requests
  BY BeginUntimed DEF TypeOK
<1>2. CASE TemplateFailed(r)
  <2>1. Emit(Begin(m), "error") \in Manager /\ Untimed(Emit(Begin(m), "error"))
    BY <1>1, EmitType, UntimedEmit DEF Notifications
  <2>2. QED BY <1>2, <2>1, UntimedMethods DEF TemplateFailed
<1>3. CASE TemplateFinished(r)
  <2> DEFINE n == StoreTemplate(Begin(m), r)
             o == setupFileWatcher(connectToOpenvpnSocket(n))
  <2>1. n \in Manager
    <3>1. \A p \in Manager : StoreTemplate(p, r) \in Manager
      BY <1>1 DEF StoreTemplate, Manager, Requests
    <3>2. QED BY <1>1, <3>1
  <2>2. Untimed(n) BY <1>1, QuietMethods, UntimedQuiet
  <2>3. \/ m' = Emit(n, "error")
        \/ m' = setState(Emit(n, "error"), "Disconnected")
        \/ m' = [o EXCEPT !.timer = TRUE]
    BY <1>3 DEF TemplateFinished
  <2> HIDE DEF n
  <2>4. Emit(n, "error") \in Manager /\ Untimed(Emit(n, "error"))
    BY <2>1, <2>2, EmitType, UntimedEmit DEF Notifications
  <2>5. Untimed(setState(Emit(n, "error"), "Disconnected"))
    BY <2>4, UntimedMethods DEF VpnStates
  <2>6. Untimed([o EXCEPT !.timer = TRUE])
    <3>1. connectToOpenvpnSocket(n) \in Manager /\ Untimed(connectToOpenvpnSocket(n))
      BY <2>1, <2>2, SocketType, QuietMethods, UntimedQuiet
    <3>2. o \in Manager /\ Untimed(o) BY <3>1, SocketType, QuietMethods, UntimedQuiet
    <3> HIDE DEF o
    <3>3. QED BY <3>2, QuietAssignments, UntimedQuiet
  <2>7. QED BY <2>3, <2>4, <2>5, <2>6
<1>4. QED BY <1>2, <1>3

LEMMA ReconnectUntimed == ASSUME TypeOK, ReconnectTimeout PROVE Untimed(m')
<1> DEFINE next == IF m.attempt < G_Max_Reconnect THEN m.attempt + 1 ELSE m.attempt
           n    == [Begin(m) EXCEPT !.attempt = next]
           done == [n EXCEPT !.shots = @ - 1]
<1>1. m \in Manager /\ Begin(m) \in Manager /\ Untimed(Begin(m)) BY BeginUntimed
<1>2. n \in Manager /\ done \in Manager BY <1>1, ReconnectObjectsType
<1>3. Untimed(n)
  <2>1. \A o \in Manager : Quiet(o, [o EXCEPT !.attempt = next]) BY QuietAssignments
  <2>2. QED BY <1>1, <2>1, UntimedQuiet
<1>4. Untimed(done)
  <2>1. \A o \in Manager : Quiet(o, [o EXCEPT !.shots = @ - 1]) BY DEF Manager, Quiet
  <2>2. QED BY <1>2, <1>3, <2>1, UntimedQuiet
<1>5. m' = n \/ m' = startConnecting(done) \/ m' = startConnecting(stop(done))
  BY SettleTells DEF ReconnectTimeout
<1> HIDE DEF n, done, next
<1>6. stop(done) \in Manager /\ Untimed(stop(done)) BY <1>2, <1>4, StopType, UntimedMethods
<1>7. QED BY <1>2, <1>3, <1>4, <1>5, <1>6, UntimedMethods

LEMMA SocketActionsUntimed ==
    ASSUME TypeOK,
           SocketConnected \/ SocketError \/ SocketReadyRead \/ OpenvpnLogfileChanged
    PROVE  Untimed(m')
<1>1. m \in Manager /\ Begin(m) \in Manager /\ Untimed(Begin(m)) BY BeginUntimed
<1>2. \/ m' = [Begin(m) EXCEPT !.socket = "up"]
      \/ m' = disconnectFromOpenvpnSocket(Begin(m))
      \/ m' = Begin(m)
  BY SettleTells DEF SocketConnected, SocketError, SocketReadyRead, OpenvpnLogfileChanged
<1>3. \A o \in Manager : Quiet(o, [o EXCEPT !.socket = "up"]) BY QuietAssignments
<1>4. QED BY <1>1, <1>2, <1>3, QuietMethods, UntimedQuiet

LEMMA NewManagerUntimed == ASSUME NEW r PROVE Untimed(NewManager(r))
BY NewManagerTells, UntimedBegin

LEMMA ParseLineUntimed == ASSUME TypeOK, ParseLine PROVE Untimed(m')
<1>1. m \in Manager /\ Begin(m) \in Manager /\ Untimed(Begin(m)) BY BeginUntimed
<1>2. CASE ParseStateWord
  <2> DEFINE w == Head(batch)
             o == StateWord(Begin(m), w)
  <2>1. w \in StateWords BY <1>2 DEF ParseStateWord
  <2>2. m' = [o EXCEPT !.prev = w] BY <1>2, SettleTells DEF ParseStateWord
  <2> HIDE DEF w
  <2>3. o \in Manager /\ Untimed(o) BY <1>1, <2>1, StateWordType, UntimedStateWord
  <2> HIDE DEF o
  <2>4. QED BY <2>2, <2>3, QuietAssignments, UntimedQuiet
<1>3. CASE ParseOtherLine
  <2>1. m' = OtherLine(Begin(m), Head(batch)) BY <1>3, SettleTells DEF ParseOtherLine
  <2>2. QED BY <1>1, <2>1, UntimedOtherLine
<1>4. CASE AnswerQuery BY <1>1, <1>4 DEF AnswerQuery
<1>5. CASE Crash BY <1>5, NewManagerUntimed DEF Crash
<1>6. QED BY <1>2, <1>3, <1>4, <1>5 DEF ParseLine

-----------------------------------------------------------------------------
(* The timeout itself.                                                     *)

LEMMA StopLeaves ==
    ASSUME NEW n \in Manager, n.mState = "Connecting"
    PROVE  /\ stop(n).mState = "Disconnected" /\ ~stop(n).timer
           /\ stop(n).socket = "none" /\ ~stop(n).watcher
           /\ stop(n).emits = Append(n.emits, "Disconnected")
<1> DEFINE o == [n EXCEPT !.term = @ \/ n.socket = "up", !.socket = "none",
                          !.watcher = FALSE]
<1>1. /\ o \in Manager /\ o.mState = "Connecting" /\ o.socket = "none" /\ ~o.watcher
      /\ o.emits = n.emits
  BY DEF Manager
<1>2. stop(n) = setState(o, "Disconnected") BY DEF stop
<1> HIDE DEF o
<1>3. stop(n) = [o EXCEPT !.mState = "Disconnected", !.timer = FALSE,
                          !.emits = Append(o.emits, "Disconnected")]
  BY <1>1, <1>2 DEF setState
<1>4. QED BY <1>1, <1>3 DEF Manager

LEMMA CheckStateLeavesNothing ==
    ASSUME TypeOK, CheckState PROVE TimeoutLeavesNothing'
<1>1. m \in Manager /\ Begin(m) \in Manager /\ Untimed(Begin(m)) BY BeginUntimed
<1>2. PICK seen \in Sightings :
         LET n == Supervise(Begin(m), seen)
         IN  IF TimedOut(n) THEN m' = Emit(stop(n), "timedOut") ELSE m' = n
  BY SettleTells DEF CheckState
<1> DEFINE n == Supervise(Begin(m), seen)
<1>3. n \in Manager BY <1>1, SuperviseType
<1>4. Untimed(n)
  <2>1. \/ Quiet(Begin(m), n)
        \/ n = startConnecting(Begin(m))
        \/ n = setState(Begin(m), "Disconnected")
    BY <1>1, SuperviseTells
  <2>2. QED BY <1>1, <2>1, UntimedQuiet, UntimedMethods DEF VpnStates
<1>5. IF TimedOut(n) THEN m' = Emit(stop(n), "timedOut") ELSE m' = n BY <1>2
<1> HIDE DEF n
<1>6. CASE ~TimedOut(n) BY <1>4, <1>5, <1>6 DEF Untimed, TimeoutLeavesNothing
<1>7. CASE TimedOut(n)
  <2> DEFINE s == stop(n)
  <2>1. n.mState = "Connecting" BY <1>7 DEF TimedOut
  <2>2. s \in Manager BY <1>3, StopType
  <2>3. /\ s.mState = "Disconnected" /\ ~s.timer /\ s.socket = "none" /\ ~s.watcher
        /\ s.emits = Append(n.emits, "Disconnected")
    BY <1>3, <2>1, StopLeaves
  <2>4. Untimed(s) BY <1>3, <1>4, UntimedMethods
  <2>5. m' = Emit(s, "timedOut") BY <1>5, <1>7
  <2> HIDE DEF s
  <2>6. /\ m'.mState = "Disconnected" /\ ~m'.timer /\ m'.socket = "none" /\ ~m'.watcher
        /\ m'.emits = Append(s.emits, "timedOut")
    BY <2>2, <2>3, <2>5 DEF Emit, Manager
  <2>7. n.emits \in Seq(Notifications) /\ s.emits \in Seq(Notifications)
    BY <1>3, <2>2 DEF Manager
  <2>8. Len(n.emits) \in Nat /\ Len(s.emits) = Len(n.emits) + 1
        /\ s.emits[Len(s.emits)] = "Disconnected"
    BY <2>3, <2>7, AppendProperties, LenProperties DEF Notifications, VpnStates
  <2>9. /\ Len(m'.emits) = Len(s.emits) + 1
        /\ \A i \in 1..Len(s.emits) : m'.emits[i] = s.emits[i]
    BY <2>6, <2>7, AppendProperties DEF Notifications
  <2>10. \A i \in 1..Len(s.emits) : m'.emits[i] # "timedOut"
    BY <2>4, <2>9 DEF Untimed
  <2>11. m'.emits[Len(s.emits)] = "Disconnected" BY <2>8, <2>9
  <2>12. QED BY <2>6, <2>8, <2>9, <2>10, <2>11 DEF TimeoutLeavesNothing
<1>8. QED BY <1>6, <1>7

LEMMA TimeoutsLeaveNothingStep ==
    TypeOK /\ TimeoutLeavesNothing /\ [Next]_vars => TimeoutLeavesNothing'
<1> SUFFICES ASSUME TypeOK, TimeoutLeavesNothing, [Next]_vars
             PROVE  TimeoutLeavesNothing'
  OBVIOUS
<1>1. ASSUME Untimed(m') PROVE TimeoutLeavesNothing'
  BY <1>1 DEF Untimed, TimeoutLeavesNothing
<1>2. CASE Commands BY <1>1, <1>2, CommandsUntimed
<1>3. CASE Handlers
  <2>1. CASE TemplateReply
    <3>1. PICK r \in requests : TemplateFailed(r) \/ TemplateFinished(r)
      BY <2>1 DEF TemplateReply
    <3>2. QED BY <1>1, <3>1, TemplateReplyUntimed
  <2>2. CASE CheckState BY <2>2, CheckStateLeavesNothing
  <2>3. CASE ReconnectTimeout BY <1>1, <2>3, ReconnectUntimed
  <2>4. CASE SocketConnected \/ SocketError \/ SocketReadyRead \/ OpenvpnLogfileChanged
    BY <1>1, <2>4, SocketActionsUntimed
  <2>5. CASE ParseLine BY <1>1, <2>5, ParseLineUntimed
  <2>6. QED BY <1>3, <2>1, <2>2, <2>3, <2>4, <2>5 DEF Handlers
<1>4. CASE Environment
  <2>1. CASE Restart BY <1>1, <2>1, NewManagerUntimed DEF Restart
  <2>2. CASE ~Restart
    <3>1. UNCHANGED m
      BY <1>4, <2>2 DEF Environment, Elapse, DaemonAsks, DaemonConnects,
         DaemonLosesTunnel, DaemonRefused, DaemonComplains, DaemonFatal, DaemonExits
    <3>2. QED BY <3>1 DEF TimeoutLeavesNothing
  <2>3. QED BY <2>1, <2>2
<1>5. CASE UNCHANGED vars BY <1>5 DEF vars, TimeoutLeavesNothing
<1>6. QED BY <1>2, <1>3, <1>4, <1>5 DEF Next

\* Clients that are told of a timeout answer with cmdStart: nothing of the
\* attempt that failed is left when they hear of it, neither the supervision
\* nor the socket nor the log watcher (checkState, stop).
THEOREM TimeoutsLeaveNothing == Spec => []TimeoutLeavesNothing
<1>1. Init => TimeoutLeavesNothing
  <2>1. ASSUME Init PROVE Untimed(m) BY <2>1, NewManagerUntimed DEF Init
  <2>2. QED BY <2>1 DEF Untimed, TimeoutLeavesNothing
<1>2. TypeOK /\ TimeoutLeavesNothing /\ [Next]_vars => TimeoutLeavesNothing'
  BY TimeoutsLeaveNothingStep
<1>3. QED BY <1>1, <1>2, TypeCorrect, PTL DEF Spec

(***************************************************************************)
(* Part 4: while Connected is told, the supervision runs                   *)
(***************************************************************************)

\* What an instance leaves out: setRights throwing, a daemon that says EXITING and
\* goes on, and, once the net may be down, a daemon that looks up a name after all.
\* Without any one of the three ConnectedIsWatched fails.
Supervisable ==
    /\ "RIGHTS" \notin Faults
    /\ "EXITING" \notin TryingWords
    /\ "cmdNetdown" \in CommandSet => "RESOLVE" \notin TryingWords

-----------------------------------------------------------------------------
(* Lines of one read, in the order they are parsed.                        *)

\* The lines that end the attempt and drop the socket.
Drops == {"VERIFICATION_FAILED", "FATAL"}

Has(q, line) == \E i \in 1..Len(q) : q[i] = line

Unheard(q) == ~Has(q, "CONNECTED")

\* A query between i and j: without a socket the service dies of it before j.
Queried(q, i, j) == \E k \in (i + 1) .. (j - 1) : q[k] \in QueryLines

\* Without a socket the service dies before it reads CONNECTED.
Barred(q) == \A j \in 1..Len(q) : q[j] = "CONNECTED" => Queried(q, 0, j)

\* Before CONNECTED comes no EXITING, and no line that drops the socket unless
\* the daemon asked a question in between.
Ordered(q) ==
    \A j \in 1..Len(q) : q[j] = "CONNECTED" =>
        \A i \in 1 .. (j - 1) : /\ q[i] # "EXITING"
                                /\ q[i] \in Drops => Queried(q, i, j)

\* The socket will be dropped, and no question follows.
Doomed(q) == \E i \in 1..Len(q) : q[i] \in Drops /\ ~Queried(q, i, Len(q) + 1)

LEMMA EmptyRead ==
    /\ Unheard(<<>>) /\ Barred(<<>>) /\ Ordered(<<>>) /\ ~Doomed(<<>>)
    /\ \A line : ~Has(<<>>, line)
<1>1. Len(<<>>) = 0 OBVIOUS
<1>2. 1..Len(<<>>) = {} BY <1>1
<1>3. QED BY <1>2 DEF Unheard, Has, Barred, Ordered, Doomed

LEMMA TailLines ==
    ASSUME NEW q \in Seq(Lines), q # <<>>
    PROVE  /\ Tail(q) \in Seq(Lines)
           /\ Len(q) \in Nat /\ Len(q) >= 1 /\ Len(Tail(q)) = Len(q) - 1
           /\ \A i \in 1..Len(Tail(q)) : Tail(q)[i] = q[i + 1]
           /\ Head(q) = q[1]
OBVIOUS

LEMMA HasTail ==
    ASSUME NEW q \in Seq(Lines), q # <<>>, NEW line, Has(Tail(q), line)
    PROVE  Has(q, line)
BY TailLines DEF Has

LEMMA HasHead ==
    ASSUME NEW q \in Seq(Lines), q # <<>>
    PROVE  Has(q, Head(q))
BY TailLines DEF Has

LEMMA QueriedTail ==
    ASSUME NEW q \in Seq(Lines), q # <<>>, NEW i \in 0..Len(Tail(q)),
           NEW j \in 1..Len(Tail(q)), i = 0 => Head(q) \notin QueryLines
    PROVE  /\ Queried(q, i + 1, j + 1) => Queried(Tail(q), i, j)
           /\ i = 0 /\ Queried(q, 0, j + 1) => Queried(Tail(q), 0, j)
<1>0. /\ Len(q) \in Nat /\ Len(q) >= 1 /\ Len(Tail(q)) = Len(q) - 1
      /\ \A k \in 1..Len(Tail(q)) : Tail(q)[k] = q[k + 1]
      /\ Head(q) = q[1]
  BY TailLines
<1>1. ASSUME Queried(q, i + 1, j + 1) PROVE Queried(Tail(q), i, j)
  <2>1. PICK k \in (i + 2) .. j : q[k] \in QueryLines BY <1>0, <1>1 DEF Queried
  <2>2. /\ k - 1 \in (i + 1) .. (j - 1) /\ k - 1 \in 1..Len(Tail(q))
        /\ (k - 1) + 1 = k
    BY <1>0, <2>1
  <2>3. Tail(q)[k - 1] \in QueryLines BY <1>0, <2>1, <2>2
  <2>4. QED BY <2>2, <2>3 DEF Queried
<1>2. ASSUME i = 0, Queried(q, 0, j + 1) PROVE Queried(Tail(q), 0, j)
  <2>1. PICK k \in 1 .. j : q[k] \in QueryLines BY <1>0, <1>2 DEF Queried
  <2>2. k # 1 BY <1>0, <1>2, <2>1
  <2>3. k \in 2 .. j BY <2>1, <2>2
  <2>4. Queried(q, 1, j + 1) BY <1>0, <2>1, <2>3 DEF Queried
  <2>5. QED BY <1>1, <1>2, <2>4
<1>3. QED BY <1>1, <1>2

LEMMA OrderedTail ==
    ASSUME NEW q \in Seq(Lines), q # <<>>, Ordered(q)
    PROVE  /\ Ordered(Tail(q))
           /\ Head(q) = "EXITING" => Unheard(Tail(q))
           /\ Head(q) \in Drops => Barred(Tail(q))
<1>0. /\ Len(q) \in Nat /\ Len(q) >= 1 /\ Len(Tail(q)) = Len(q) - 1
      /\ \A k \in 1..Len(Tail(q)) : Tail(q)[k] = q[k + 1]
      /\ Head(q) = q[1]
  BY TailLines
<1>1. ASSUME NEW j \in 1..Len(Tail(q)), Tail(q)[j] = "CONNECTED"
      PROVE  /\ j + 1 \in 1..Len(q) /\ q[j + 1] = "CONNECTED" /\ 1 \in 1 .. ((j + 1) - 1)
             /\ q[1] # "EXITING"
             /\ q[1] \in Drops => Queried(q, 1, j + 1)
  <2>1. j + 1 \in 1..Len(q) /\ q[j + 1] = "CONNECTED" /\ 1 \in 1 .. ((j + 1) - 1)
    BY <1>0, <1>1
  <2>2. QED BY <2>1 DEF Ordered
<1>2. ASSUME NEW j \in 1..Len(Tail(q)), Tail(q)[j] = "CONNECTED",
             NEW i \in 1 .. (j - 1)
      PROVE  /\ Tail(q)[i] # "EXITING"
             /\ Tail(q)[i] \in Drops => Queried(Tail(q), i, j)
  <2>1. j + 1 \in 1..Len(q) /\ q[j + 1] = "CONNECTED" BY <1>1, <1>2
  <2>2. i + 1 \in 1 .. ((j + 1) - 1) /\ i \in 1..Len(Tail(q)) BY <1>0, <1>2
  <2>3. q[i + 1] # "EXITING" /\ (q[i + 1] \in Drops => Queried(q, i + 1, j + 1))
    BY <2>1, <2>2 DEF Ordered
  <2>4. Tail(q)[i] = q[i + 1] BY <1>0, <2>2
  <2>5. i \in 0..Len(Tail(q)) /\ i # 0 BY <1>0, <2>2
  <2>6. Queried(q, i + 1, j + 1) => Queried(Tail(q), i, j) BY <2>5, QueriedTail
  <2>7. QED BY <2>3, <2>4, <2>6
<1>3. Ordered(Tail(q)) BY <1>2 DEF Ordered
<1>4. Head(q) = "EXITING" => Unheard(Tail(q)) BY <1>0, <1>1 DEF Unheard, Has
<1>5. ASSUME Head(q) \in Drops PROVE Barred(Tail(q))
  <2>1. Head(q) \notin QueryLines BY <1>5 DEF Drops, QueryLines
  <2>2. 0 \in 0..Len(Tail(q)) /\ 0 + 1 = 1 BY <1>0
  <2>3. ASSUME NEW j \in 1..Len(Tail(q)), Queried(q, 1, j + 1)
        PROVE  Queried(Tail(q), 0, j)
    <3>1. Queried(q, 0 + 1, j + 1) BY <2>2, <2>3
    <3>2. QED BY <2>1, <2>2, <3>1, QueriedTail
  <2>4. QED BY <1>0, <1>1, <1>5, <2>3 DEF Barred
<1>6. QED BY <1>3, <1>4, <1>5

LEMMA BarredTail ==
    ASSUME NEW q \in Seq(Lines), q # <<>>, Barred(q)
    PROVE  /\ Head(q) # "CONNECTED"
           /\ Head(q) \notin QueryLines => Barred(Tail(q))
<1>0. /\ Len(q) \in Nat /\ Len(q) >= 1 /\ Len(Tail(q)) = Len(q) - 1
      /\ \A k \in 1..Len(Tail(q)) : Tail(q)[k] = q[k + 1]
      /\ Head(q) = q[1]
  BY TailLines
<1>1. Head(q) # "CONNECTED" BY <1>0 DEF Barred, Queried
<1>2. ASSUME Head(q) \notin QueryLines, NEW j \in 1..Len(Tail(q)),
             Tail(q)[j] = "CONNECTED"
      PROVE  Queried(Tail(q), 0, j)
  <2>1. j + 1 \in 1..Len(q) /\ q[j + 1] = "CONNECTED" BY <1>0, <1>2
  <2>2. Queried(q, 0, j + 1) BY <2>1 DEF Barred
  <2>3. 0 \in 0..Len(Tail(q)) BY <1>0
  <2>4. QED BY <1>2, <2>2, <2>3, QueriedTail
<1>3. QED BY <1>1, <1>2 DEF Barred

LEMMA UnheardRead ==
    ASSUME NEW q, Unheard(q)
    PROVE  Ordered(q) /\ Barred(q)
BY DEF Unheard, Has, Ordered, Barred

LEMMA UnheardTail ==
    ASSUME NEW q \in Seq(Lines), q # <<>>, Unheard(q)
    PROVE  Unheard(Tail(q)) /\ Head(q) # "CONNECTED"
BY HasTail, HasHead DEF Unheard

-----------------------------------------------------------------------------
(* A line more on the socket.                                              *)

LEMMA AppendLine ==
    ASSUME NEW q \in Seq(Lines), NEW e \in Lines
    PROVE  /\ Append(q, e) \in Seq(Lines)
           /\ Len(q) \in Nat /\ Len(Append(q, e)) = Len(q) + 1
           /\ \A i \in 1..Len(q) : Append(q, e)[i] = q[i]
           /\ Append(q, e)[Len(q) + 1] = e
BY AppendProperties, LenProperties

LEMMA HasAppend ==
    ASSUME NEW q \in Seq(Lines), NEW e \in Lines, NEW line, Has(Append(q, e), line)
    PROVE  Has(q, line) \/ line = e
BY AppendLine DEF Has

LEMMA QueriedAppend ==
    ASSUME NEW q \in Seq(Lines), NEW e \in Lines,
           NEW i \in Nat, NEW j \in 1 .. (Len(q) + 1)
    PROVE  Queried(Append(q, e), i, j) <=> Queried(q, i, j)
<1>1. \A k \in (i + 1) .. (j - 1) : Append(q, e)[k] = q[k]
  <2>1. \A k \in (i + 1) .. (j - 1) : k \in 1..Len(q) BY AppendLine
  <2>2. QED BY <2>1, AppendLine
<1>2. QED BY <1>1 DEF Queried

LEMMA DoomedAppend ==
    ASSUME NEW q \in Seq(Lines), NEW e \in Lines, Doomed(Append(q, e))
    PROVE  e \in Drops \/ (e \notin QueryLines /\ Doomed(q))
<1>0. /\ Len(q) \in Nat /\ Len(Append(q, e)) = Len(q) + 1
      /\ \A k \in 1..Len(q) : Append(q, e)[k] = q[k]
      /\ Append(q, e)[Len(q) + 1] = e
  BY AppendLine
<1>1. PICK i \in 1 .. (Len(q) + 1) :
        /\ Append(q, e)[i] \in Drops
        /\ ~Queried(Append(q, e), i, (Len(q) + 1) + 1)
  BY <1>0 DEF Doomed
<1>2. CASE i = Len(q) + 1 BY <1>0, <1>1, <1>2
<1>3. CASE i # Len(q) + 1
  <2>1. i \in 1..Len(q) /\ q[i] \in Drops BY <1>0, <1>1, <1>3
  <2>2. Len(q) + 1 \in (i + 1) .. (((Len(q) + 1) + 1) - 1) BY <1>0, <2>1
  <2>3. e \notin QueryLines BY <1>0, <1>1, <2>2 DEF Queried
  <2>4. ~Queried(Append(q, e), i, Len(q) + 1)
    <3>1. \A k \in (i + 1) .. ((Len(q) + 1) - 1) :
             k \in (i + 1) .. (((Len(q) + 1) + 1) - 1)
      BY <1>0, <2>1
    <3>2. QED BY <1>1, <3>1 DEF Queried
  <2>5. i \in Nat /\ Len(q) + 1 \in 1 .. (Len(q) + 1) BY <1>0, <2>1
  <2>6. ~Queried(q, i, Len(q) + 1) BY <2>4, <2>5, QueriedAppend
  <2>7. QED BY <2>1, <2>3, <2>6 DEF Doomed
<1>4. QED BY <1>2, <1>3

LEMMA OrderedAppend ==
    ASSUME NEW q \in Seq(Lines), NEW e \in Lines, Ordered(q),
           e = "CONNECTED" => ~Has(q, "EXITING") /\ ~Doomed(q)
    PROVE  Ordered(Append(q, e))
<1>0. /\ Len(q) \in Nat /\ Len(Append(q, e)) = Len(q) + 1
      /\ \A k \in 1..Len(q) : Append(q, e)[k] = q[k]
      /\ Append(q, e)[Len(q) + 1] = e
  BY AppendLine
<1> SUFFICES ASSUME NEW j \in 1 .. (Len(q) + 1), Append(q, e)[j] = "CONNECTED",
                    NEW i \in 1 .. (j - 1)
             PROVE  /\ Append(q, e)[i] # "EXITING"
                    /\ Append(q, e)[i] \in Drops => Queried(Append(q, e), i, j)
  BY <1>0 DEF Ordered
<1>1. i \in Nat /\ i \in 1..Len(q) /\ Append(q, e)[i] = q[i] BY <1>0
<1>2. Queried(Append(q, e), i, j) <=> Queried(q, i, j) BY <1>1, QueriedAppend
<1>3. CASE j = Len(q) + 1
  <2>1. ~Has(q, "EXITING") /\ ~Doomed(q) BY <1>0, <1>3
  <2>2. QED BY <1>1, <1>2, <1>3, <2>1 DEF Has, Doomed
<1>4. CASE j # Len(q) + 1
  <2>1. j \in 1..Len(q) /\ q[j] = "CONNECTED" BY <1>0, <1>4
  <2>2. QED BY <1>1, <1>2, <2>1 DEF Ordered
<1>5. QED BY <1>3, <1>4

-----------------------------------------------------------------------------
(* What the methods do to supervision and socket.                          *)

\* Supervision goes on or stays off, the socket may be dropped.
Kept(o, n) ==
    /\ n.timer = o.timer /\ n.mNetDown = o.mNetDown
    /\ n.socket \in {o.socket, "none"}
    /\ n.mState \in {o.mState, "Connecting"}

\* The attempt has ended, or the next one has begun.
Stopped(o, n) ==
    /\ n.socket = "none" /\ n.mNetDown = o.mNetDown
    /\ n.mState # "Connected"

\* Connected is told, nothing else changes.
Connects(o, n) ==
    n.timer = o.timer /\ n.mNetDown = o.mNetDown /\ n.socket = o.socket

LEMMA KeptOnwards ==
    ASSUME NEW o, NEW p, NEW n, Kept(o, p)
    PROVE  /\ Kept(p, n) => Kept(o, n)
           /\ Stopped(p, n) => Stopped(o, n)
BY DEF Kept, Stopped

LEMMA StoppedOnwards ==
    ASSUME NEW o, NEW p, NEW n, Stopped(o, p), Kept(p, n)
    PROVE  Stopped(o, n)
BY DEF Kept, Stopped

\* The members that have nothing to do with supervision.
LEMMA KeptAssignments ==
    ASSUME NEW n \in Manager, NEW v
    PROVE  /\ Kept(n, Emit(n, v))
           /\ Kept(n, SetParameters(n, v))
           /\ Kept(n, StoreTemplate(n, v))
           /\ Kept(n, [n EXCEPT !.attempt = v])
           /\ Kept(n, [n EXCEPT !.shots = v])
           /\ Kept(n, [n EXCEPT !.prev = v])
           /\ Kept(n, [n EXCEPT !.mError = v])
           /\ Kept(n, [n EXCEPT !.target = v])
BY DEF Kept, Manager, Emit, SetParameters, StoreTemplate

LEMMA KeptMethods ==
    ASSUME NEW n \in Manager
    PROVE  /\ Kept(n, n)
           /\ Kept(n, Begin(n))
           /\ Kept(n, startReconnectTimer(n))
           /\ Kept(n, disconnectFromOpenvpnSocket(n))
BY DEF Kept, Manager, Begin, startReconnectTimer, disconnectFromOpenvpnSocket

LEMMA SetStateSupervision ==
    ASSUME NEW n \in Manager, NEW st
    PROVE  /\ setState(n, st).mState = st
           /\ setState(n, st).socket = n.socket
           /\ setState(n, st).mNetDown = n.mNetDown
           /\ st # "Disconnected" => setState(n, st).timer = n.timer
BY DEF setState, Manager

LEMMA StartConnectingKept ==
    ASSUME NEW n \in Manager PROVE Kept(n, startConnecting(n))
<1> DEFINE o == setState(n, "Connecting")
<1>1. o \in Manager BY SetStateType DEF VpnStates
<1>2. Kept(n, o) BY SetStateSupervision DEF Kept
<1>3. startConnecting(n) = [o EXCEPT !.mError = FALSE, !.fetch = TRUE]
  BY DEF startConnecting
<1> HIDE DEF o
<1>4. Kept(o, [o EXCEPT !.mError = FALSE, !.fetch = TRUE]) BY <1>1 DEF Kept, Manager
<1>5. QED BY <1>2, <1>3, <1>4, KeptOnwards

LEMMA StopStops == ASSUME NEW n \in Manager PROVE Stopped(n, stop(n))
<1> DEFINE o == [n EXCEPT !.term = @ \/ n.socket = "up", !.socket = "none",
                          !.watcher = FALSE]
<1>1. o \in Manager BY DEF Manager
<1>2. o.socket = "none" /\ o.mNetDown = n.mNetDown BY DEF Manager
<1>3. stop(n) = setState(o, "Disconnected") BY DEF stop
<1> HIDE DEF o
<1>4. QED BY <1>1, <1>2, <1>3, SetStateSupervision DEF Stopped

LEMMA CleanupStops ==
    ASSUME NEW n \in Manager PROVE Stopped(n, showErrorMessageCleanup(n))
<1> DEFINE d == disconnectFromOpenvpnSocket(n)
<1>1. d \in Manager BY SocketType
<1>2. d.socket = "none" /\ d.mNetDown = n.mNetDown
  BY DEF disconnectFromOpenvpnSocket, Manager
<1>3. showErrorMessageCleanup(n) = Emit(setState(d, "Disconnected"), "error")
  BY DEF showErrorMessageCleanup
<1> HIDE DEF d
<1>4. setState(d, "Disconnected") \in Manager BY <1>1, SetStateType DEF VpnStates
<1>5. Stopped(n, setState(d, "Disconnected")) BY <1>1, <1>2, SetStateSupervision DEF Stopped
<1>6. QED BY <1>3, <1>4, <1>5, KeptAssignments, StoppedOnwards

LEMMA CancelStops == ASSUME NEW n \in Manager PROVE Stopped(n, cancel(n))
<1>1. Stopped(n, stop(n)) /\ stop(n) \in Manager BY StopType, StopStops
<1>2. Kept(stop(n), Emit(stop(n), "error")) BY <1>1, KeptAssignments
<1>3. QED BY <1>1, <1>2, StoppedOnwards DEF cancel

LEMMA GotConnectedConnects ==
    ASSUME NEW n \in Manager, NEW l PROVE Connects(n, gotConnected(n, l))
<1>1. Emit(n, "ip") \in Manager /\ Kept(n, Emit(n, "ip"))
  BY EmitType, KeptAssignments DEF Notifications
<1>2. Emit(n, "ip").socket = n.socket BY DEF Emit, Manager
<1>3. QED BY <1>1, <1>2, SetStateSupervision DEF gotConnected, Connects, Kept

\* A line that is not a word of the daemon's state: it ends the attempt and drops
\* the socket, tells Connected, or leaves the supervision alone.
LEMMA OtherLineSupervision ==
    ASSUME NEW n \in Manager, NEW l
    PROVE  \/ l \in Drops /\ Stopped(n, OtherLine(n, l))
           \/ l = "COMPLETED" /\ Connects(n, OtherLine(n, l))
           \/ Kept(n, OtherLine(n, l))
<1> DEFINE e == [n EXCEPT !.mError = TRUE]
           b == [n EXCEPT !.target = <<n.target[1], NextClass>>]
           d == disconnectFromOpenvpnSocket(n)
<1>1. e \in Manager /\ b \in Manager /\ d \in Manager
  <2>1. d \in Manager BY SocketType
  <2>2. e \in Manager /\ b \in Manager BY DEF Manager, Keys, NextClass
  <2>3. QED BY <2>1, <2>2
<1>2. Kept(n, e) /\ Kept(n, b) /\ Kept(n, d)
  <2>1. Kept(n, e) BY KeptAssignments
  <2>2. Kept(n, b) BY KeptAssignments
  <2>3. QED BY <2>1, <2>2, KeptMethods
<1>3. \/ l = "VERIFICATION_FAILED" /\ OtherLine(n, l) = showErrorMessageCleanup(e)
      \/ l = "FATAL" /\ OtherLine(n, l) = cancel(e)
      \/ OtherLine(n, l) = n
      \/ OtherLine(n, l) = startConnecting(n)
      \/ OtherLine(n, l) = Emit(d, "error")
      \/ OtherLine(n, l) = startConnecting(b)
      \/ OtherLine(n, l) = Emit(n, "ip")
      \/ l = "COMPLETED" /\ OtherLine(n, l) = gotConnected(n, l)
  BY DEF OtherLine, parseNewIp, gotTunErr
<1> HIDE DEF e, b, d
<1>4. Stopped(n, showErrorMessageCleanup(e)) /\ Stopped(n, cancel(e))
  BY <1>1, <1>2, CleanupStops, CancelStops, KeptOnwards
<1>5. Kept(n, startConnecting(n)) /\ Kept(n, Emit(n, "ip")) /\ Kept(n, n)
  BY StartConnectingKept, KeptAssignments, KeptMethods
<1>6. Kept(n, startConnecting(b)) /\ Kept(n, Emit(d, "error"))
  BY <1>1, <1>2, StartConnectingKept, KeptAssignments, KeptOnwards
<1>7. QED BY <1>3, <1>4, <1>5, <1>6, GotConnectedConnects DEF Drops

\* A word of the daemon's state: CONNECTED alone enters Connected, EXITING may end
\* the supervision and keep the socket.
LEMMA StateWordSupervision ==
    ASSUME NEW n \in Manager, NEW w \in StateWords, ~(w = "RESOLVE" /\ n.mNetDown)
    PROVE  \/ w = "CONNECTED" /\ Connects(n, StateWord(n, w))
           \/ /\ w = "EXITING"
              /\ StateWord(n, w).mState = "Disconnected"
              /\ StateWord(n, w).mNetDown = n.mNetDown
              /\ StateWord(n, w).socket = n.socket
           \/ w # "CONNECTED" /\ Kept(n, StateWord(n, w))
<1>1. CASE w = "CONNECTED"
  <2>1. StateWord(n, w) = n \/ StateWord(n, w) = gotConnected(n, w)
    BY <1>1 DEF StateWord, ConnectingWords
  <2>2. QED BY <1>1, <2>1, GotConnectedConnects DEF Connects
<1>2. CASE w = "EXITING" /\ ~n.mReconnect
  <2>1. StateWord(n, w) = setState(n, "Disconnected")
    BY <1>2 DEF StateWord, ConnectingWords
  <2>2. QED BY <1>2, <2>1, SetStateSupervision
<1>3. CASE w # "CONNECTED" /\ ~(w = "EXITING" /\ ~n.mReconnect)
  <2> DEFINE s == startReconnectTimer(n)
             c == setState(n, "Connecting")
  <2>1. \/ StateWord(n, w) = Emit(c, "word")
        \/ StateWord(n, w) = setState(s, "Connecting")
        \/ StateWord(n, w) = Emit(n, "word")
    BY <1>3 DEF StateWord
  <2>2. s \in Manager /\ Kept(n, s) BY StartReconnectTimerType, KeptMethods
  <2>3. c \in Manager /\ Kept(n, c) BY SetStateType, SetStateSupervision DEF VpnStates, Kept
  <2> HIDE DEF s, c
  <2>4. Kept(s, setState(s, "Connecting")) BY <2>2, SetStateSupervision DEF Kept
  <2>5. Kept(n, Emit(c, "word")) /\ Kept(n, Emit(n, "word"))
    BY <2>3, KeptAssignments, KeptOnwards
  <2>6. QED BY <1>3, <2>1, <2>2, <2>4, <2>5, KeptOnwards
<1>4. QED BY <1>1, <1>2, <1>3

-----------------------------------------------------------------------------
(* The invariant.                                                          *)

Leaving == daemon.phase \in {"exiting", "none"}

LinesInOrder == Ordered(pipe) /\ Ordered(batch)

\* Lines wait for a socket that is there, and for a process that parses them.
PipeIsHeard ==
    /\ pipe # <<>> => alive /\ m.socket = "up"
    /\ ~alive => batch = <<>>

\* After its last words a daemon says nothing more that would be heard, and one
\* that was refused asks again before it goes on.
LastWords ==
    /\ Has(pipe, "EXITING") => Leaving
    /\ Doomed(pipe) => Leaving \/ daemon.phase = "released"
    /\ Has(batch, "EXITING") =>
          /\ m.socket # "opening"
          /\ m.socket = "up" => Leaving /\ Unheard(pipe)

\* Without supervision CONNECTED is not parsed any more.
Unwatched ==
    ~m.timer =>
        \/ m.socket = "none" /\ Barred(batch)
        \/ m.socket = "up" /\ Leaving /\ Unheard(batch) /\ Unheard(pipe)

NoLookups ==
    /\ m.mNetDown => "cmdNetdown" \in CommandSet
    /\ Has(pipe, "RESOLVE") \/ Has(batch, "RESOLVE") => "RESOLVE" \in TryingWords

LogLinesOnly == \A i \in 1..Len(log) : log[i] \in AllLogLines

WatchInv ==
    /\ LinesInOrder /\ PipeIsHeard /\ LastWords
    /\ Unwatched /\ NoLookups /\ LogLinesOnly

\* What every step does but the one that parses COMPLETED.
StaysWatched == Watched => Watched'

StepWatched == WatchInv' /\ StaysWatched

Completes == batch # <<>> /\ Head(batch) = "COMPLETED"

-----------------------------------------------------------------------------
(* How a handler that ends in Settle keeps the invariant.                  *)

LEMMA SettledPipe ==
    ASSUME NEW n, Settle(n)
    PROVE  /\ m' = n
           /\ pipe' = <<>> \/ (pipe' = pipe /\ n.socket = "up")
           /\ Leaving => Leaving'
           /\ daemon.phase = "released" => Leaving' \/ daemon'.phase = "released"
BY DEF Settle, Leaving

LEMMA SettleWatched ==
    ASSUME WatchInv, NEW n, Settle(n), NEW b, batch' = b,
           alive, alive' = alive, log' = log,
           n.mNetDown => "cmdNetdown" \in CommandSet,
           Ordered(b),
           Has(b, "RESOLVE") => "RESOLVE" \in TryingWords,
           Has(b, "EXITING") =>
              n.socket # "opening" /\ (n.socket = "up" => Leaving /\ Unheard(pipe)),
           ~n.timer =>
              \/ n.socket = "none" /\ Barred(b)
              \/ n.socket = "up" /\ Leaving /\ Unheard(b) /\ Unheard(pipe)
    PROVE  WatchInv'
<1>1. /\ m' = n /\ (Leaving => Leaving')
      /\ pipe' = <<>> \/ (pipe' = pipe /\ n.socket = "up")
      /\ daemon.phase = "released" => Leaving' \/ daemon'.phase = "released"
  BY SettledPipe
<1>3. LinesInOrder'
  <2>1. Ordered(pipe') BY <1>1, EmptyRead DEF WatchInv, LinesInOrder
  <2>2. QED BY <2>1 DEF LinesInOrder
<1>4. PipeIsHeard' BY <1>1 DEF PipeIsHeard
<1>5. Unheard(pipe) => Unheard(pipe') BY <1>1, EmptyRead
<1>6. LastWords'
  <2>1. Has(pipe', "EXITING") => Leaving' BY <1>1, EmptyRead DEF WatchInv, LastWords
  <2>2. Doomed(pipe') => Leaving' \/ daemon'.phase = "released"
    BY <1>1, EmptyRead DEF WatchInv, LastWords
  <2>3. QED BY <1>1, <1>5, <2>1, <2>2 DEF LastWords
<1>7. Unwatched' BY <1>1, <1>5 DEF Unwatched
<1>8. NoLookups'
  <2>1. Has(pipe', "RESOLVE") => "RESOLVE" \in TryingWords
    BY <1>1, EmptyRead DEF WatchInv, NoLookups
  <2>2. QED BY <1>1, <2>1 DEF NoLookups
<1>9. LogLinesOnly' BY DEF WatchInv, LogLinesOnly
<1>10. QED BY <1>3, <1>4, <1>6, <1>7, <1>8, <1>9 DEF WatchInv

LEMMA SettleStays ==
    ASSUME NEW n, Settle(n), Watched => (n.mState = "Connected" => n.timer)
    PROVE  StaysWatched
BY SettledPipe DEF StaysWatched, Watched

\* A handler outside the loop over lines.
LEMMA IdleWatched ==
    ASSUME WatchInv, NEW n, Settle(n), Idle, UNCHANGED <<alive, batch, log>>,
           Kept(m, n) \/ Stopped(m, n) \/ (n.timer /\ n.mNetDown = m.mNetDown)
    PROVE  StepWatched
<1>1. /\ alive /\ batch = <<>> /\ batch' = <<>> BY DEF Idle
<1>2. n.mNetDown => "cmdNetdown" \in CommandSet
  BY DEF WatchInv, NoLookups, Kept, Stopped
<1>3. StaysWatched BY SettleStays DEF Watched, Kept, Stopped
<1>4. ~n.timer =>
        \/ n.socket = "none" /\ Barred(<<>>)
        \/ n.socket = "up" /\ Leaving /\ Unheard(<<>>) /\ Unheard(pipe)
  BY <1>1, EmptyRead DEF WatchInv, Unwatched, Kept, Stopped
<1>5. WatchInv' BY <1>1, <1>2, <1>4, EmptyRead, SettleWatched
<1>6. QED BY <1>3, <1>5 DEF StepWatched

LEMMA CommandsWatched ==
    ASSUME TypeOK, WatchInv, Commands PROVE StepWatched
<1>1. m \in Manager /\ Begin(m) \in Manager /\ Kept(m, Begin(m))
  BY BeginType, KeptMethods DEF TypeOK
<1>2. ASSUME NEW k \in Keys, Start(k) PROVE StepWatched
  <2> DEFINE b == [Begin(m) EXCEPT !.attempt = 0]
             o == SetParameters(stop(b), k)
  <2>1. b \in Manager BY <1>1, AssignType
  <2>2. Kept(m, b)
    <3>1. Kept(Begin(m), b) BY <1>1, KeptAssignments
    <3>2. QED BY <1>1, <3>1, KeptOnwards
  <2>3. Settle(startConnecting(SetParameters(stop(b), k))) BY <1>2 DEF Start
  <2> HIDE DEF b
  <2>4. stop(b) \in Manager /\ Stopped(m, stop(b))
    BY <2>1, <2>2, StopType, StopStops, KeptOnwards
  <2>5. o \in Manager /\ Stopped(m, o)
    BY <2>4, AssignType, KeptAssignments, StoppedOnwards
  <2>6. Settle(startConnecting(o)) BY <2>3
  <2> HIDE DEF o
  <2>7. Stopped(m, startConnecting(o)) BY <2>5, StartConnectingKept, StoppedOnwards
  <2>8. QED BY <1>2, <2>6, <2>7, IdleWatched DEF Start
<1>3. CASE Stop
  <2>1. Stopped(m, stop(Begin(m))) BY <1>1, StopStops, KeptOnwards
  <2>2. QED BY <1>3, <2>1, IdleWatched DEF Stop
<1>4. ASSUME "cmdNetdown" \in CommandSet, NetDown PROVE StepWatched
  <2>1. PICK ok \in BOOLEAN : Settle([Begin(m) EXCEPT !.mNetDown = @ \/ ok])
    BY <1>4 DEF NetDown
  <2> DEFINE n == [Begin(m) EXCEPT !.mNetDown = @ \/ ok]
  <2>2. n.timer = m.timer /\ n.mState = m.mState /\ n.socket = m.socket
    BY DEF TypeOK, Begin, Manager
  <2>3. Settle(n) /\ alive /\ batch = <<>> /\ batch' = <<>> /\ log' = log
        /\ alive' = alive
    BY <1>4, <2>1 DEF NetDown, Idle
  <2> HIDE DEF n
  <2>4. StaysWatched BY <2>2, <2>3, SettleStays DEF Watched
  <2>5. ~n.timer =>
          \/ n.socket = "none" /\ Barred(<<>>)
          \/ n.socket = "up" /\ Leaving /\ Unheard(<<>>) /\ Unheard(pipe)
    BY <2>2, <2>3, EmptyRead DEF WatchInv, Unwatched
  <2>6. WatchInv' BY <1>4, <2>3, <2>5, EmptyRead, SettleWatched
  <2>7. QED BY <2>4, <2>6 DEF StepWatched
<1>5. CASE KillRunningOpenvpn
  <2>1. \/ Settle(Begin(m))
        \/ \E s \in {"none", "opening", "up"} : Settle(stop([Begin(m) EXCEPT !.socket = s]))
    BY <1>5 DEF KillRunningOpenvpn
  <2>2. ASSUME NEW s \in {"none", "opening", "up"}
        PROVE  Stopped(m, stop([Begin(m) EXCEPT !.socket = s]))
    <3> DEFINE o == [Begin(m) EXCEPT !.socket = s]
    <3>1. o \in Manager BY <1>1, AssignType
    <3>2. o.mNetDown = m.mNetDown BY DEF TypeOK, Begin, Manager
    <3> HIDE DEF o
    <3>3. Stopped(o, stop(o)) BY <3>1, StopStops
    <3>4. Stopped(m, stop(o)) BY <3>2, <3>3 DEF Stopped
    <3>5. QED BY <3>4 DEF o
  <2>3. Idle /\ UNCHANGED <<alive, batch, log>> BY <1>5 DEF KillRunningOpenvpn
  <2>4. CASE Settle(Begin(m)) BY <1>1, <2>3, <2>4, IdleWatched
  <2>5. ASSUME NEW s \in {"none", "opening", "up"},
               Settle(stop([Begin(m) EXCEPT !.socket = s]))
        PROVE  StepWatched
    BY <2>2, <2>3, <2>5, IdleWatched
  <2>6. QED BY <2>1, <2>4, <2>5
<1>6. Servers \X PortClasses \subseteq Keys BY ConstantsAssumption DEF Keys
<1>7. QED BY <1>2, <1>3, <1>4, <1>5, <1>6 DEF Commands

-----------------------------------------------------------------------------
(* Handlers that leave nothing to parse, and steps that leave the manager. *)

LEMMA SilentWatched ==
    ASSUME pipe' = <<>>, batch' = <<>>, LogLinesOnly',
           m'.mState = "Connected" => m'.timer,
           m'.timer \/ m'.socket = "none",
           m'.mNetDown => "cmdNetdown" \in CommandSet
    PROVE  StepWatched
<1>1. StaysWatched BY DEF StaysWatched, Watched
<1>2. LinesInOrder' BY EmptyRead DEF LinesInOrder
<1>3. PipeIsHeard' BY DEF PipeIsHeard
<1>4. LastWords' BY EmptyRead DEF LastWords
<1>5. Unwatched' BY EmptyRead DEF Unwatched
<1>6. NoLookups' BY EmptyRead DEF NoLookups
<1>7. QED BY <1>1, <1>2, <1>3, <1>4, <1>5, <1>6 DEF WatchInv, StepWatched

\* n differs from o in nothing the supervision depends on.
Unmoved(o, n) ==
    /\ n.mState = o.mState /\ n.timer = o.timer
    /\ n.socket = o.socket /\ n.mNetDown = o.mNetDown

LEMMA UnmovedMethods ==
    ASSUME NEW n \in Manager
    PROVE  /\ Unmoved(n, Begin(n))
           /\ \A r : Unmoved(n, StoreTemplate(n, r))
           /\ \A e : Unmoved(n, Emit(n, e))
BY DEF Unmoved, Manager, Begin, StoreTemplate, Emit

\* Nothing is said, or nobody hears it.
LEMMA QuietWatched ==
    ASSUME WatchInv, Unmoved(m, m'), UNCHANGED <<alive, batch, pipe>>, LogLinesOnly',
           Leaving => Leaving',
           daemon.phase = "released" =>
              Leaving' \/ daemon'.phase = "released" \/ pipe = <<>>
    PROVE  StepWatched
<1>1. StaysWatched BY DEF StaysWatched, Watched, Unmoved
<1>2. LinesInOrder' BY DEF WatchInv, LinesInOrder
<1>3. PipeIsHeard' BY DEF WatchInv, PipeIsHeard, Unmoved
<1>4. LastWords' BY EmptyRead DEF WatchInv, LastWords, Unmoved
<1>5. Unwatched' BY DEF WatchInv, Unwatched, Unmoved
<1>6. NoLookups' BY DEF WatchInv, NoLookups, Unmoved
<1>7. QED BY <1>1, <1>2, <1>3, <1>4, <1>5, <1>6 DEF WatchInv, StepWatched

\* One more line waits on the socket.
LEMMA SaidWatched ==
    ASSUME TypeOK, WatchInv, NEW e \in Lines, pipe' = Append(pipe, e),
           Unmoved(m, m'), UNCHANGED <<alive, batch>>, LogLinesOnly',
           alive, m.socket = "up",
           e = "CONNECTED" =>
              m.timer /\ batch = <<>> /\ ~Leaving /\ daemon.phase # "released",
           e = "EXITING" => Leaving',
           e = "RESOLVE" => "RESOLVE" \in TryingWords,
           e \in Drops => Leaving' \/ daemon'.phase = "released",
           Leaving => Leaving',
           daemon.phase = "released" =>
              Leaving' \/ daemon'.phase = "released" \/ e \in QueryLines
    PROVE  StepWatched
<1>0. pipe \in Seq(Lines) BY DEF TypeOK
<1>1. StaysWatched BY DEF StaysWatched, Watched, Unmoved
<1>2. LinesInOrder'
  <2>1. e = "CONNECTED" => ~Has(pipe, "EXITING") /\ ~Doomed(pipe)
    BY DEF WatchInv, LastWords
  <2>2. Ordered(Append(pipe, e)) BY <1>0, <2>1, OrderedAppend DEF WatchInv, LinesInOrder
  <2>3. QED BY <2>2 DEF WatchInv, LinesInOrder
<1>3. PipeIsHeard' BY DEF WatchInv, PipeIsHeard, Unmoved
<1>4. e # "CONNECTED" /\ Unheard(pipe) => Unheard(pipe')
  BY <1>0, HasAppend DEF Unheard
<1>5. LastWords'
  <2>1. Has(pipe', "EXITING") => Leaving'
    BY <1>0, HasAppend DEF WatchInv, LastWords
  <2>2. Doomed(pipe') => Leaving' \/ daemon'.phase = "released"
    BY <1>0, DoomedAppend DEF WatchInv, LastWords
  <2>3. Has(batch, "EXITING") => Leaving /\ Unheard(pipe) /\ e # "CONNECTED"
    BY EmptyRead DEF WatchInv, LastWords
  <2>4. QED BY <1>4, <2>1, <2>2, <2>3 DEF LastWords, Unmoved
<1>6. Unwatched' BY <1>4 DEF WatchInv, Unwatched, Unmoved
<1>7. NoLookups'
  <2>1. Has(pipe', "RESOLVE") => "RESOLVE" \in TryingWords
    BY <1>0, HasAppend DEF WatchInv, NoLookups
  <2>2. QED BY <2>1 DEF WatchInv, NoLookups, Unmoved
<1>8. QED BY <1>1, <1>2, <1>3, <1>5, <1>6, <1>7 DEF WatchInv, StepWatched

-----------------------------------------------------------------------------
(* Replies and timers.                                                     *)

LEMMA TemplateReplyWatched ==
    ASSUME Supervisable, TypeOK, WatchInv,
           NEW r \in requests, TemplateFailed(r) \/ TemplateFinished(r)
    PROVE  StepWatched
<1>1. /\ m \in Manager /\ Begin(m) \in Manager /\ Kept(m, Begin(m))
      /\ Unmoved(m, Begin(m)) /\ r \in Requests
  BY BeginType, KeptMethods, UnmovedMethods DEF TypeOK
<1>2. CASE TemplateFailed(r)
  <2> DEFINE e == Emit(Begin(m), "error")
  <2>1. e \in Manager BY <1>1, EmitType DEF Notifications
  <2>2. Kept(m, e) BY <1>1, KeptAssignments, KeptOnwards
  <2>3. m' = stop(e) BY <1>2 DEF TemplateFailed
  <2> HIDE DEF e
  <2>4. Stopped(m, m') BY <2>1, <2>2, <2>3, StopStops, KeptOnwards
  <2>5. pipe' = <<>> /\ batch' = <<>> /\ log' = log BY <1>2 DEF TemplateFailed, Idle
  <2>6. LogLinesOnly' BY <2>5 DEF WatchInv, LogLinesOnly
  <2>7. m'.mNetDown => "cmdNetdown" \in CommandSet BY <2>4 DEF Stopped, WatchInv, NoLookups
  <2>8. QED BY <2>4, <2>5, <2>6, <2>7, SilentWatched DEF Stopped
<1>3. CASE TemplateFinished(r)
  <2> DEFINE n == StoreTemplate(Begin(m), r)
             o == setupFileWatcher(connectToOpenvpnSocket(n))
  <2>1. n \in Manager
    <3>1. \A p \in Manager : StoreTemplate(p, r) \in Manager
      BY <1>1 DEF StoreTemplate, Manager, Requests
    <3>2. QED BY <1>1, <3>1
  <2>2. Unmoved(m, n)
    <3>1. Unmoved(Begin(m), n) BY <1>1, UnmovedMethods
    <3>2. QED BY <1>1, <3>1 DEF Unmoved
  <2>3. /\ UNCHANGED <<alive, batch>> /\ batch = <<>>
        /\ \/ m' = Emit(n, "error") /\ UNCHANGED <<daemon, pipe, log>>
           \/ /\ m' = [o EXCEPT !.timer = TRUE]
              /\ pipe' = <<>>
              /\ LaunchDaemon(n.templates[n.target])
    BY <1>3 DEF TemplateFinished, Supervisable, Idle
  <2> HIDE DEF n
  <2>4. CASE m' = Emit(n, "error") /\ UNCHANGED <<daemon, pipe, log>>
    <3>1. Unmoved(m, m')
      <4>1. Unmoved(n, Emit(n, "error")) BY <2>1, UnmovedMethods
      <4>2. QED BY <2>2, <2>4, <4>1 DEF Unmoved
    <3>2. LogLinesOnly' BY <2>4 DEF WatchInv, LogLinesOnly
    <3>3. /\ Leaving => Leaving'
          /\ daemon.phase = "released" => daemon'.phase = "released"
      BY <2>4 DEF Leaving
    <3>4. QED BY <2>3, <2>4, <3>1, <3>2, <3>3, QuietWatched
  <2>5. CASE /\ m' = [o EXCEPT !.timer = TRUE] /\ pipe' = <<>>
             /\ LaunchDaemon(n.templates[n.target])
    <3>1. o \in Manager /\ o.mNetDown = n.mNetDown
      BY <2>1, SocketType DEF setupFileWatcher, connectToOpenvpnSocket, Manager
    <3> HIDE DEF o
    <3>2. m'.timer /\ m'.mNetDown = n.mNetDown BY <2>5, <3>1 DEF Manager
    <3>3. LogLinesOnly'
      <4>1. log' = <<>> \/ log' = <<"BIND_FAILED">> \/ log' = log
        BY <2>5 DEF LaunchDaemon
      <4>2. CASE log' = <<>>
        <5>1. Len(log') = 0 BY <4>2
        <5>2. QED BY <5>1 DEF LogLinesOnly
      <4>3. CASE log' = <<"BIND_FAILED">>
        <5>1. Len(log') = 1 /\ log'[1] = "BIND_FAILED" BY <4>3
        <5>2. QED BY <5>1 DEF LogLinesOnly, AllLogLines
      <4>4. CASE log' = log BY <4>4 DEF WatchInv, LogLinesOnly
      <4>5. QED BY <4>1, <4>2, <4>3, <4>4
    <3>4. m'.mNetDown => "cmdNetdown" \in CommandSet
      BY <2>2, <3>2 DEF Unmoved, WatchInv, NoLookups
    <3>5. QED BY <2>3, <2>5, <3>2, <3>3, <3>4, SilentWatched
  <2>6. QED BY <2>3, <2>4, <2>5
<1>4. QED BY <1>2, <1>3

\* What the daemon answers when it is polled.
LEMMA ReplyWordsSaid ==
    ASSUME Supervisable, TypeOK, NEW w \in ReplyWords
    PROVE  /\ w \in Lines \ Drops
           /\ w = "CONNECTED" => ~Leaving /\ daemon.phase # "released"
           /\ w = "EXITING" => Leaving
           /\ w = "RESOLVE" => "RESOLVE" \in TryingWords
BY ConstantsAssumption
   DEF ReplyWords, Supervisable, Leaving, Drops, Lines, StateWords, ConnectingWords,
       QuietWords, TypeOK, Phases

LEMMA CheckStateWatched ==
    ASSUME Supervisable, TypeOK, WatchInv, CheckState PROVE StepWatched
<1>1. /\ m \in Manager /\ Begin(m) \in Manager /\ Kept(m, Begin(m))
      /\ Unmoved(m, Begin(m)) /\ m.timer /\ Idle
      /\ UNCHANGED <<alive, batch, log>>
  BY BeginType, KeptMethods, UnmovedMethods DEF TypeOK, CheckState
<1>2. PICK seen \in Sightings :
         LET n == Supervise(Begin(m), seen)
         IN \/ Settle(Emit(stop(n), "timedOut"))
            \/ Settle(n)
            \/ /\ m.socket = "up" /\ m' = n /\ UNCHANGED daemon
               /\ \/ \E w \in ReplyWords : pipe' = Append(pipe, w)
                  \/ UNCHANGED pipe
  BY DEF CheckState
<1> DEFINE n == Supervise(Begin(m), seen)
<1>3. n \in Manager BY <1>1, SuperviseType
<1>4. \/ n.timer /\ n.mNetDown = m.mNetDown
      \/ Stopped(m, n)
  <2>1. \/ n = connectToOpenvpnSocket(Begin(m))
        \/ n = startConnecting(Begin(m))
        \/ Begin(m).socket = "none" /\ n = setState(Begin(m), "Disconnected")
        \/ n = Begin(m)
    BY <1>1 DEF Supervise, openvpnRunning
  <2> HIDE DEF n
  <2>2. CASE n = connectToOpenvpnSocket(Begin(m))
    BY <1>1, <2>2 DEF connectToOpenvpnSocket, Begin, Manager
  <2>3. CASE n = startConnecting(Begin(m))
    <3>1. Kept(m, n) BY <1>1, <2>3, StartConnectingKept, KeptOnwards
    <3>2. QED BY <1>1, <3>1 DEF Kept
  <2>4. CASE Begin(m).socket = "none" /\ n = setState(Begin(m), "Disconnected")
    BY <1>1, <2>4, SetStateSupervision DEF Stopped, Unmoved
  <2>5. CASE n = Begin(m) BY <1>1, <2>5 DEF Unmoved
  <2>6. QED BY <2>1, <2>2, <2>3, <2>4, <2>5
<1>5. m.socket = "up" => n = Begin(m)
  <2>1. Begin(m).socket = m.socket BY <1>1 DEF Unmoved
  <2>2. QED BY <2>1 DEF Supervise, openvpnRunning
<1>6. \/ Settle(Emit(stop(n), "timedOut"))
      \/ Settle(n)
      \/ /\ m.socket = "up" /\ m' = n /\ UNCHANGED daemon
         /\ \/ \E w \in ReplyWords : pipe' = Append(pipe, w)
            \/ UNCHANGED pipe
  BY <1>2
<1> HIDE DEF n
<1>7. CASE Settle(Emit(stop(n), "timedOut"))
  <2>1. stop(n) \in Manager /\ Stopped(n, stop(n)) BY <1>3, StopType, StopStops
  <2>2. Kept(stop(n), Emit(stop(n), "timedOut")) BY <2>1, KeptAssignments
  <2>3. Stopped(n, Emit(stop(n), "timedOut")) BY <2>1, <2>2, StoppedOnwards
  <2>4. n.mNetDown = m.mNetDown BY <1>4 DEF Stopped
  <2>5. Stopped(m, Emit(stop(n), "timedOut")) BY <2>3, <2>4 DEF Stopped
  <2>6. QED BY <1>1, <1>7, <2>5, IdleWatched
<1>8. CASE Settle(n) BY <1>1, <1>4, <1>8, IdleWatched
<1>9. CASE /\ m.socket = "up" /\ m' = n /\ UNCHANGED daemon
           /\ \/ \E w \in ReplyWords : pipe' = Append(pipe, w)
              \/ UNCHANGED pipe
  <2>1. Unmoved(m, m') BY <1>1, <1>5, <1>9
  <2>2. LogLinesOnly' BY <1>1 DEF WatchInv, LogLinesOnly
  <2>3. Leaving <=> Leaving' BY <1>9 DEF Leaving
  <2>4. ASSUME NEW w \in ReplyWords, pipe' = Append(pipe, w) PROVE StepWatched
    <3>1. /\ w \in Lines \ Drops
          /\ w = "CONNECTED" => ~Leaving /\ daemon.phase # "released"
          /\ w = "EXITING" => Leaving
          /\ w = "RESOLVE" => "RESOLVE" \in TryingWords
      BY ReplyWordsSaid
    <3>2. alive /\ batch = <<>> BY <1>1 DEF Idle
    <3>3. QED BY <1>1, <1>9, <2>1, <2>2, <2>3, <2>4, <3>1, <3>2, SaidWatched
  <2>5. CASE UNCHANGED pipe BY <1>1, <1>9, <2>1, <2>2, <2>3, <2>5, QuietWatched
  <2>6. QED BY <1>9, <2>4, <2>5
<1>10. QED BY <1>6, <1>7, <1>8, <1>9

LEMMA ReconnectWatched ==
    ASSUME TypeOK, WatchInv, ReconnectTimeout PROVE StepWatched
<1> DEFINE next == IF m.attempt < G_Max_Reconnect THEN m.attempt + 1 ELSE m.attempt
           n    == [Begin(m) EXCEPT !.attempt = next]
           done == [n EXCEPT !.shots = @ - 1]
<1>1. m \in Manager /\ Begin(m) \in Manager /\ Kept(m, Begin(m))
  BY BeginType, KeptMethods DEF TypeOK
<1>2. n \in Manager /\ done \in Manager BY <1>1, ReconnectObjectsType
<1>3. Kept(m, n)
  <2>1. Kept(Begin(m), n) BY <1>1, KeptAssignments
  <2>2. QED BY <1>1, <2>1, KeptOnwards
<1>4. Kept(m, done)
  <2>1. \A o \in Manager : Kept(o, [o EXCEPT !.shots = @ - 1]) BY DEF Manager, Kept
  <2>2. Kept(n, done) BY <1>2, <2>1
  <2>3. QED BY <1>3, <2>2, KeptOnwards
<1>5. /\ Settle(n) \/ Settle(startConnecting(done)) \/ Settle(startConnecting(stop(done)))
      /\ Idle /\ UNCHANGED <<alive, batch, log>>
  BY DEF ReconnectTimeout
<1> HIDE DEF n, done, next
<1>6. Kept(m, startConnecting(done)) BY <1>2, <1>4, StartConnectingKept, KeptOnwards
<1>7. Stopped(m, startConnecting(stop(done)))
  <2>1. stop(done) \in Manager /\ Stopped(m, stop(done))
    BY <1>2, <1>4, StopType, StopStops, KeptOnwards
  <2>2. QED BY <2>1, StartConnectingKept, StoppedOnwards
<1>8. QED BY <1>3, <1>5, <1>6, <1>7, IdleWatched

-----------------------------------------------------------------------------
(* The socket, the log and the lines read from them.                       *)

LEMMA GreetingRead ==
    ASSUME NEW e \in QueryLines
    PROVE  /\ Ordered(<<e>>) /\ Unheard(<<e>>) /\ ~Doomed(<<e>>)
           /\ ~Has(<<e>>, "EXITING") /\ ~Has(<<e>>, "RESOLVE")
<1>1. Len(<<e>>) = 1 /\ <<e>>[1] = e OBVIOUS
<1>2. \A i \in 1..Len(<<e>>) : <<e>>[i] \in {"HOLD", "PASSWORD"}
  BY <1>1 DEF QueryLines
<1>3. Unheard(<<e>>) /\ ~Has(<<e>>, "EXITING") /\ ~Has(<<e>>, "RESOLVE")
  BY <1>2 DEF Unheard, Has
<1>4. ~Doomed(<<e>>) BY <1>2 DEF Doomed, Drops
<1>5. QED BY <1>3, <1>4, UnheardRead

LEMMA LogRead ==
    ASSUME LogLinesOnly
    PROVE  Unheard(log) /\ ~Has(log, "EXITING") /\ ~Has(log, "RESOLVE")
BY DEF LogLinesOnly, AllLogLines, Unheard, Has

LEMMA SocketActionsWatched ==
    ASSUME TypeOK, WatchInv,
           SocketConnected \/ SocketError \/ SocketReadyRead \/ OpenvpnLogfileChanged
    PROVE  StepWatched
<1>1. /\ m \in Manager /\ Begin(m) \in Manager /\ Kept(m, Begin(m))
      /\ Unmoved(m, Begin(m)) /\ alive /\ batch = <<>>
  BY BeginType, KeptMethods, UnmovedMethods
     DEF TypeOK, SocketConnected, SocketError, SocketReadyRead, OpenvpnLogfileChanged, Idle
<1>2. CASE SocketConnected
  <2>1. m.timer BY <1>2 DEF SocketConnected, WatchInv, Unwatched
  <2>2. m' = [Begin(m) EXCEPT !.socket = "up"] BY <1>2 DEF SocketConnected
  <2>3. m'.timer /\ m'.socket = "up" /\ m'.mNetDown = m.mNetDown
    BY <1>1, <2>1, <2>2 DEF Unmoved, Manager
  <2>4. UNCHANGED <<alive, batch, daemon, log>> BY <1>2 DEF SocketConnected
  <2>5. pipe' = <<>> \/ \E e \in QueryLines : pipe' = <<e>>
    BY <1>2 DEF SocketConnected, QueryLines
  <2>6. /\ Ordered(pipe') /\ ~Doomed(pipe')
        /\ ~Has(pipe', "EXITING") /\ ~Has(pipe', "RESOLVE")
    BY <2>5, EmptyRead, GreetingRead
  <2>7. StaysWatched /\ Unwatched' BY <2>3 DEF StaysWatched, Watched, Unwatched
  <2>8. LinesInOrder' BY <2>4, <2>6 DEF WatchInv, LinesInOrder
  <2>9. PipeIsHeard' BY <1>1, <2>3, <2>4 DEF PipeIsHeard
  <2>10. LastWords' BY <1>1, <2>4, <2>6, EmptyRead DEF LastWords
  <2>11. NoLookups' BY <2>3, <2>4, <2>6 DEF WatchInv, NoLookups
  <2>12. LogLinesOnly' BY <2>4 DEF WatchInv, LogLinesOnly
  <2>13. QED BY <2>7, <2>8, <2>9, <2>10, <2>11, <2>12 DEF WatchInv, StepWatched
<1>3. CASE SocketError
  <2>1. Kept(m, disconnectFromOpenvpnSocket(Begin(m))) BY <1>1, KeptMethods, KeptOnwards
  <2>2. QED BY <1>3, <2>1, IdleWatched DEF SocketError
<1>4. CASE SocketReadyRead
  <2>1. /\ batch' = pipe /\ pipe' = <<>> /\ m' = Begin(m) /\ m.socket = "up"
        /\ UNCHANGED <<alive, daemon, log>>
    BY <1>4 DEF SocketReadyRead
  <2>2. Unmoved(m, m') /\ (Leaving <=> Leaving') BY <1>1, <2>1 DEF Leaving
  <2>3. StaysWatched BY <2>2 DEF StaysWatched, Watched, Unmoved
  <2>4. LinesInOrder' BY <2>1, EmptyRead DEF WatchInv, LinesInOrder
  <2>5. PipeIsHeard' BY <1>1, <2>1 DEF PipeIsHeard
  <2>6. LastWords' BY <2>1, <2>2, EmptyRead DEF WatchInv, LastWords, Unmoved
  <2>7. Unwatched' BY <2>1, <2>2, EmptyRead DEF WatchInv, Unwatched, Unmoved
  <2>8. NoLookups' BY <2>1, <2>2, EmptyRead DEF WatchInv, NoLookups, Unmoved
  <2>9. LogLinesOnly' BY <2>1 DEF WatchInv, LogLinesOnly
  <2>10. QED BY <2>3, <2>4, <2>5, <2>6, <2>7, <2>8, <2>9 DEF WatchInv, StepWatched
<1>5. CASE OpenvpnLogfileChanged
  <2>1. /\ batch' = log /\ log' = <<>> /\ m' = Begin(m)
        /\ UNCHANGED <<alive, daemon, pipe>>
    BY <1>5 DEF OpenvpnLogfileChanged
  <2>2. Unmoved(m, m') /\ (Leaving <=> Leaving') BY <1>1, <2>1 DEF Leaving
  <2>3. /\ Unheard(log) /\ ~Has(log, "EXITING") /\ ~Has(log, "RESOLVE")
        /\ Ordered(log) /\ Barred(log)
    BY LogRead, UnheardRead DEF WatchInv
  <2>4. StaysWatched BY <2>2 DEF StaysWatched, Watched, Unmoved
  <2>5. LinesInOrder' BY <2>1, <2>3 DEF WatchInv, LinesInOrder
  <2>6. PipeIsHeard' BY <1>1, <2>1, <2>2 DEF WatchInv, PipeIsHeard, Unmoved
  <2>7. LastWords' BY <2>1, <2>2, <2>3 DEF WatchInv, LastWords
  <2>8. Unwatched' BY <2>1, <2>2, <2>3 DEF WatchInv, Unwatched, Unmoved
  <2>9. NoLookups' BY <2>1, <2>2, <2>3 DEF WatchInv, NoLookups, Unmoved
  <2>10. LogLinesOnly'
    <3>1. Len(log') = 0 BY <2>1
    <3>2. QED BY <3>1 DEF LogLinesOnly
  <2>11. QED BY <2>4, <2>5, <2>6, <2>7, <2>8, <2>9, <2>10 DEF WatchInv, StepWatched
<1>6. QED BY <1>2, <1>3, <1>4, <1>5

\* What the lines behind a parsed one may be.
LEMMA RestOfRead ==
    ASSUME TypeOK, WatchInv, batch # <<>>
    PROVE  /\ Ordered(Tail(batch))
           /\ Has(Tail(batch), "RESOLVE") => "RESOLVE" \in TryingWords
           /\ Has(Tail(batch), "EXITING") => Has(batch, "EXITING")
           /\ ~m.timer /\ Head(batch) \notin QueryLines => Barred(Tail(batch))
           /\ ~m.timer /\ m.socket # "none" =>
                 m.socket = "up" /\ Leaving /\ Unheard(Tail(batch)) /\ Unheard(pipe)
           /\ Head(batch) = "CONNECTED" => m.timer
<1>1. batch \in Seq(Lines) BY DEF TypeOK
<1>2. Ordered(Tail(batch)) BY <1>1, OrderedTail DEF WatchInv, LinesInOrder
<1>3. Has(Tail(batch), "RESOLVE") => "RESOLVE" \in TryingWords
  BY <1>1, HasTail DEF WatchInv, NoLookups
<1>4. Has(Tail(batch), "EXITING") => Has(batch, "EXITING") BY <1>1, HasTail
<1>5. ~m.timer => Barred(batch) BY UnheardRead DEF WatchInv, Unwatched
<1>6. ~m.timer /\ Head(batch) \notin QueryLines => Barred(Tail(batch))
  BY <1>1, <1>5, BarredTail
<1>7. Head(batch) = "CONNECTED" => m.timer BY <1>1, <1>5, BarredTail
<1>8. ~m.timer /\ m.socket # "none" =>
         m.socket = "up" /\ Leaving /\ Unheard(Tail(batch)) /\ Unheard(pipe)
  BY <1>1, UnheardTail DEF WatchInv, Unwatched
<1>9. QED BY <1>2, <1>3, <1>4, <1>6, <1>7, <1>8

\* A line that leaves the supervision alone.
LEMMA KeptLineWatched ==
    ASSUME TypeOK, WatchInv, alive, batch # <<>>, Head(batch) \notin QueryLines,
           NEW n, Kept(m, n), Settle(n), batch' = Tail(batch), UNCHANGED <<alive, log>>
    PROVE  StepWatched
<1>1. /\ Ordered(Tail(batch))
      /\ Has(Tail(batch), "RESOLVE") => "RESOLVE" \in TryingWords
      /\ Has(Tail(batch), "EXITING") => Has(batch, "EXITING")
      /\ ~m.timer => Barred(Tail(batch))
      /\ ~m.timer /\ m.socket # "none" =>
            m.socket = "up" /\ Leaving /\ Unheard(Tail(batch)) /\ Unheard(pipe)
  BY RestOfRead
<1>2. StaysWatched BY SettleStays DEF Kept, Watched
<1>3. n.mNetDown => "cmdNetdown" \in CommandSet BY DEF Kept, WatchInv, NoLookups
<1>4. Has(Tail(batch), "EXITING") =>
         n.socket # "opening" /\ (n.socket = "up" => Leaving /\ Unheard(pipe))
  BY <1>1 DEF Kept, WatchInv, LastWords
<1>5. ~n.timer =>
         \/ n.socket = "none" /\ Barred(Tail(batch))
         \/ n.socket = "up" /\ Leaving /\ Unheard(Tail(batch)) /\ Unheard(pipe)
  BY <1>1 DEF Kept
<1>6. WatchInv' BY <1>1, <1>3, <1>4, <1>5, SettleWatched
<1>7. QED BY <1>2, <1>6 DEF StepWatched

LEMMA ParseStateWordWatched ==
    ASSUME Supervisable, TypeOK, WatchInv, ParseStateWord PROVE StepWatched
<1> DEFINE w == Head(batch)
           o == StateWord(Begin(m), w)
           n == [o EXCEPT !.prev = w]
<1>1. /\ m \in Manager /\ Begin(m) \in Manager /\ Kept(m, Begin(m))
      /\ Unmoved(m, Begin(m)) /\ batch \in Seq(Lines)
  BY BeginType, KeptMethods, UnmovedMethods DEF TypeOK
<1>2. /\ alive /\ batch # <<>> /\ w \in StateWords /\ Settle(n)
      /\ batch' = Tail(batch) /\ UNCHANGED <<alive, log>>
  BY DEF ParseStateWord
<1>3. w \notin QueryLines
  BY <1>2 DEF StateWords, ConnectingWords, QuietWords, QueryLines
<1>4. Has(batch, w) BY <1>1, <1>2, HasHead
<1>5. ~(w = "RESOLVE" /\ Begin(m).mNetDown)
  BY <1>1, <1>4 DEF Unmoved, WatchInv, NoLookups, Supervisable
<1>6. o \in Manager BY <1>1, <1>2, StateWordType
<1>7. /\ Ordered(Tail(batch))
      /\ Has(Tail(batch), "RESOLVE") => "RESOLVE" \in TryingWords
      /\ Has(Tail(batch), "EXITING") => Has(batch, "EXITING")
      /\ w = "CONNECTED" => m.timer
  BY <1>2, RestOfRead
<1>8. Has(batch, "EXITING") =>
         m.socket # "opening" /\ (m.socket = "up" => Leaving /\ Unheard(pipe))
  BY DEF WatchInv, LastWords
<1>9. w = "EXITING" => Unheard(Tail(batch))
  BY <1>1, <1>2, OrderedTail DEF WatchInv, LinesInOrder
<1>10. m.mNetDown => "cmdNetdown" \in CommandSet BY DEF WatchInv, NoLookups
<1>11. \/ w = "CONNECTED" /\ Connects(Begin(m), o)
       \/ /\ w = "EXITING" /\ o.mState = "Disconnected"
          /\ o.mNetDown = Begin(m).mNetDown /\ o.socket = Begin(m).socket
       \/ Kept(Begin(m), o)
  BY <1>1, <1>2, <1>5, StateWordSupervision
<1> HIDE DEF w, o
<1>12. /\ n.timer = o.timer /\ n.mState = o.mState
       /\ n.socket = o.socket /\ n.mNetDown = o.mNetDown
  BY <1>6 DEF Manager
<1>13. Kept(o, n) BY <1>12 DEF Kept
<1>14. CASE w = "CONNECTED" /\ Connects(Begin(m), o)
  <2>1. n.timer /\ n.socket = m.socket /\ n.mNetDown = m.mNetDown
    BY <1>1, <1>7, <1>12, <1>14 DEF Unmoved, Connects
  <2> HIDE DEF n
  <2>2. WatchInv' BY <1>2, <1>7, <1>8, <1>10, <2>1, SettleWatched
  <2>3. QED BY <1>2, <2>1, <2>2, SettleStays DEF StepWatched
<1>15. CASE w = "EXITING" /\ o.mState = "Disconnected"
            /\ o.mNetDown = Begin(m).mNetDown /\ o.socket = Begin(m).socket
  <2>1. n.mState = "Disconnected" /\ n.socket = m.socket /\ n.mNetDown = m.mNetDown
    BY <1>1, <1>12, <1>15 DEF Unmoved
  <2>2. m.socket \in {"none", "opening", "up"} BY <1>1 DEF Manager
  <2>3. Unheard(Tail(batch)) /\ Barred(Tail(batch)) BY <1>9, <1>15, UnheardRead
  <2>4. Has(batch, "EXITING") BY <1>4, <1>15
  <2> HIDE DEF n
  <2>5. WatchInv' BY <1>2, <1>7, <1>8, <1>10, <2>1, <2>2, <2>3, <2>4, SettleWatched
  <2>6. QED BY <1>2, <2>1, <2>5, SettleStays DEF StepWatched
<1>16. CASE Kept(Begin(m), o)
  <2>1. Kept(m, n) BY <1>1, <1>13, <1>16, KeptOnwards
  <2> HIDE DEF n
  <2>2. QED BY <1>2, <1>3, <2>1, KeptLineWatched DEF w
<1>17. QED BY <1>11, <1>14, <1>15, <1>16

LEMMA ParseOtherLineWatched ==
    ASSUME TypeOK, WatchInv, ParseOtherLine
    PROVE  WatchInv' /\ (StaysWatched \/ Completes)
<1> DEFINE l == Head(batch)
           n == OtherLine(Begin(m), l)
<1>1. m \in Manager /\ Begin(m) \in Manager /\ Kept(m, Begin(m)) /\ batch \in Seq(Lines)
  BY BeginType, KeptMethods DEF TypeOK
<1>2. /\ alive /\ batch # <<>> /\ l \notin QueryLines /\ Settle(n)
      /\ batch' = Tail(batch) /\ UNCHANGED <<alive, log>>
  BY DEF ParseOtherLine
<1>3. \/ l \in Drops /\ Stopped(Begin(m), n)
      \/ l = "COMPLETED" /\ Connects(Begin(m), n)
      \/ Kept(Begin(m), n)
  BY <1>1, OtherLineSupervision
<1> HIDE DEF n
<1>4. CASE l \in Drops /\ Stopped(Begin(m), n)
  <2>1. Stopped(m, n) BY <1>1, <1>4, KeptOnwards
  <2>2. Barred(Tail(batch)) BY <1>1, <1>2, <1>4, OrderedTail DEF WatchInv, LinesInOrder
  <2>3. /\ Ordered(Tail(batch))
        /\ Has(Tail(batch), "RESOLVE") => "RESOLVE" \in TryingWords
    BY <1>2, RestOfRead
  <2>4. n.mNetDown => "cmdNetdown" \in CommandSet
    BY <2>1 DEF Stopped, WatchInv, NoLookups
  <2>5. n.socket = "none" /\ n.mState # "Connected" BY <2>1 DEF Stopped
  <2>6. WatchInv' BY <1>2, <2>2, <2>3, <2>4, <2>5, SettleWatched
  <2>7. QED BY <1>2, <2>5, <2>6, SettleStays
<1>5. CASE Kept(Begin(m), n)
  <2>1. Kept(m, n) BY <1>1, <1>5, KeptOnwards
  <2>2. QED BY <1>2, <2>1, KeptLineWatched DEF StepWatched
<1>6. CASE l = "COMPLETED" /\ Connects(Begin(m), n)
  <2>1. /\ n.timer = m.timer /\ n.socket = m.socket /\ n.mNetDown = m.mNetDown
    BY <1>1, <1>6, UnmovedMethods DEF Unmoved, Connects
  <2>2. /\ Ordered(Tail(batch))
        /\ Has(Tail(batch), "RESOLVE") => "RESOLVE" \in TryingWords
        /\ Has(Tail(batch), "EXITING") => Has(batch, "EXITING")
        /\ ~m.timer => Barred(Tail(batch))
        /\ ~m.timer /\ m.socket # "none" =>
              m.socket = "up" /\ Leaving /\ Unheard(Tail(batch)) /\ Unheard(pipe)
    BY <1>2, RestOfRead
  <2>3. n.mNetDown => "cmdNetdown" \in CommandSet BY <2>1 DEF WatchInv, NoLookups
  <2>4. Has(Tail(batch), "EXITING") =>
           n.socket # "opening" /\ (n.socket = "up" => Leaving /\ Unheard(pipe))
    BY <2>1, <2>2 DEF WatchInv, LastWords
  <2>5. ~n.timer =>
           \/ n.socket = "none" /\ Barred(Tail(batch))
           \/ n.socket = "up" /\ Leaving /\ Unheard(Tail(batch)) /\ Unheard(pipe)
    BY <2>1, <2>2
  <2>6. WatchInv' BY <1>2, <2>2, <2>3, <2>4, <2>5, SettleWatched
  <2>7. QED BY <1>2, <1>6, <2>6 DEF Completes
<1>7. QED BY <1>3, <1>4, <1>5, <1>6

LEMMA AnswerQueryWatched ==
    ASSUME TypeOK, WatchInv, AnswerQuery PROVE StepWatched
<1>1. /\ alive /\ batch # <<>> /\ m.socket # "none" /\ batch' = Tail(batch)
      /\ m' = Begin(m) /\ UNCHANGED <<alive, pipe, log>>
  BY DEF AnswerQuery
<1>2. Unmoved(m, m') BY <1>1, UnmovedMethods DEF TypeOK
<1>3. /\ Leaving => Leaving'
      /\ daemon.phase = "released" => daemon'.phase = "released"
  BY DEF AnswerQuery, Leaving
<1>4. /\ Ordered(Tail(batch))
      /\ Has(Tail(batch), "RESOLVE") => "RESOLVE" \in TryingWords
      /\ Has(Tail(batch), "EXITING") => Has(batch, "EXITING")
      /\ ~m.timer =>
            m.socket = "up" /\ Leaving /\ Unheard(Tail(batch)) /\ Unheard(pipe)
  BY <1>1, RestOfRead
<1>5. StaysWatched BY <1>2 DEF StaysWatched, Watched, Unmoved
<1>6. LinesInOrder' BY <1>1, <1>4 DEF WatchInv, LinesInOrder
<1>7. PipeIsHeard' BY <1>1, <1>2 DEF WatchInv, PipeIsHeard, Unmoved
<1>8. LastWords' BY <1>1, <1>2, <1>3, <1>4 DEF WatchInv, LastWords, Unmoved
<1>9. Unwatched' BY <1>1, <1>2, <1>3, <1>4 DEF Unwatched, Unmoved
<1>10. NoLookups' BY <1>1, <1>2, <1>4 DEF WatchInv, NoLookups, Unmoved
<1>11. LogLinesOnly' BY <1>1 DEF WatchInv, LogLinesOnly
<1>12. QED BY <1>5, <1>6, <1>7, <1>8, <1>9, <1>10, <1>11 DEF WatchInv, StepWatched

\* A new process: nothing to parse and nobody to hear.
LEMMA NewManagerWatched ==
    ASSUME NEW r, m' = NewManager(r), pipe' = <<>>, batch' = <<>>, LogLinesOnly'
    PROVE  StepWatched
<1>1. m'.socket = "none" /\ m'.mState = "Disconnected" /\ ~m'.mNetDown
  BY DEF NewManager
<1>2. QED BY <1>1, SilentWatched

LEMMA ParseLineWatched ==
    ASSUME Supervisable, TypeOK, WatchInv, ParseLine
    PROVE  WatchInv' /\ (StaysWatched \/ Completes)
<1>1. CASE Crash
  <2>1. LogLinesOnly' BY <1>1 DEF Crash, WatchInv, LogLinesOnly
  <2>2. QED BY <1>1, <2>1, NewManagerWatched DEF Crash, StepWatched
<1>2. QED
  BY <1>1, ParseStateWordWatched, ParseOtherLineWatched, AnswerQueryWatched
     DEF ParseLine, StepWatched

-----------------------------------------------------------------------------
(* The daemon and the rest of the environment.                             *)

\* The daemon says a line that is no word of its state.
LEMMA SayWatched ==
    ASSUME TypeOK, WatchInv, NEW e \in QueryLines \cup DaemonLines, Say(e),
           UNCHANGED <<m, alive, batch, log>>,
           e \in Drops => Leaving' \/ daemon'.phase = "released",
           Leaving => Leaving',
           daemon.phase = "released" =>
              Leaving' \/ daemon'.phase = "released" \/ e \in QueryLines
    PROVE  StepWatched
<1>1. Unmoved(m, m') BY DEF Unmoved
<1>2. LogLinesOnly' BY DEF WatchInv, LogLinesOnly
<1>3. e \in Lines /\ e \notin {"CONNECTED", "EXITING", "RESOLVE"}
  BY DEF Lines, QueryLines, DaemonLines
<1>4. CASE alive /\ m.socket = "up"
  <2>1. pipe' = Append(pipe, e) BY <1>4 DEF Say
  <2>2. QED BY <1>1, <1>2, <1>3, <1>4, <2>1, SaidWatched
<1>5. CASE ~(alive /\ m.socket = "up")
  <2>1. pipe' = pipe BY <1>5 DEF Say
  <2>2. pipe = <<>> BY <1>5 DEF WatchInv, PipeIsHeard
  <2>3. QED BY <1>1, <1>2, <2>1, <2>2, QuietWatched
<1>6. QED BY <1>4, <1>5

LEMMA BecomePhase ==
    ASSUME TypeOK, NEW p, Become(p) PROVE daemon'.phase = p
BY DEF Become, TypeOK

LEMMA EnvironmentWatched ==
    ASSUME TypeOK, WatchInv, Environment PROVE StepWatched
<1>1. ASSUME log' = log PROVE LogLinesOnly'
  BY <1>1 DEF WatchInv, LogLinesOnly
<1>2. ASSUME NEW line \in AllLogLines, log' = <<line>> PROVE LogLinesOnly'
  <2>1. Len(log') = 1 /\ log'[1] = line BY <1>2
  <2>2. QED BY <2>1 DEF LogLinesOnly
<1>3. Unmoved(m, m) BY DEF Unmoved
<1>4. CASE Elapse
  <2>1. UNCHANGED <<m, alive, batch, daemon, pipe, log>> BY <1>4 DEF Elapse
  <2>2. QED BY <1>1, <1>3, <2>1, QuietWatched DEF Leaving
<1>5. CASE Restart
  <2>1. pipe = <<>> /\ batch = <<>> BY <1>5 DEF Restart, WatchInv, PipeIsHeard
  <2>2. QED BY <1>1, <1>5, <2>1, NewManagerWatched DEF Restart
<1>6. CASE DaemonAsks
  <2>1. daemon.phase = "released" /\ daemon'.phase = "auth"
    BY <1>6, BecomePhase DEF DaemonAsks
  <2>2. "PASSWORD" \in QueryLines /\ "PASSWORD" \notin Drops BY DEF QueryLines, Drops
  <2>3. QED BY <1>6, <2>1, <2>2, SayWatched DEF DaemonAsks, Leaving
<1>7. CASE DaemonConnects
  <2>1. daemon.phase = "trying" /\ UNCHANGED <<m, alive, batch, pipe>>
    BY <1>7 DEF DaemonConnects
  <2>2. log' = log \/ log' = LinkLines \o CompletionLines BY <1>7 DEF DaemonConnects
  <2>3. LogLinesOnly'
    <3>1. LinkLines \in Seq(AllLogLines) /\ CompletionLines \in Seq(AllLogLines)
      <4>1. "LINK_REMOTE" \in AllLogLines /\ "COMPLETED" \in AllLogLines
        BY DEF AllLogLines
      <4>2. QED BY <4>1 DEF LinkLines, CompletionLines
    <3>2. LinkLines \o CompletionLines \in Seq(AllLogLines) BY <3>1, ConcatProperties
    <3>3. \A q \in Seq(AllLogLines) : \A i \in 1..Len(q) : q[i] \in AllLogLines
      OBVIOUS
    <3>4. CASE log' = LinkLines \o CompletionLines BY <3>2, <3>3, <3>4 DEF LogLinesOnly
    <3>5. QED BY <1>1, <2>2, <3>4
  <2>4. QED BY <1>3, <2>1, <2>3, QuietWatched DEF Leaving
<1>8. CASE DaemonLosesTunnel
  <2>1. daemon.phase = "connected" /\ UNCHANGED <<m, alive, batch, pipe, log>>
    BY <1>8 DEF DaemonLosesTunnel
  <2>2. QED BY <1>1, <1>3, <2>1, QuietWatched DEF Leaving
<1>9. CASE DaemonRefused
  <2>1. daemon.phase = "trying" /\ daemon'.phase \in {"released", "exiting"}
    BY <1>9, BecomePhase DEF DaemonRefused
  <2>2. "VERIFICATION_FAILED" \in DaemonLines BY DEF DaemonLines
  <2>3. QED BY <1>9, <2>1, <2>2, SayWatched DEF DaemonRefused, Leaving
<1>10. CASE DaemonComplains
  <2>1. "ERROR" \in DaemonLines /\ "ERROR" \notin Drops BY DEF DaemonLines, Drops
  <2>2. QED BY <1>10, <2>1, SayWatched DEF DaemonComplains, Leaving
<1>11. CASE DaemonFatal
  <2>1. Leaving' BY <1>11, BecomePhase DEF DaemonFatal, Leaving
  <2>2. UNCHANGED <<m, alive, batch>> BY <1>11 DEF DaemonFatal
  <2>3. \/ \E line \in {"FATAL", "FATAL_TUN"} : Say(line) /\ log' = log
        \/ log' = <<"TUN_ERROR">> /\ pipe' = pipe
    BY <1>11 DEF DaemonFatal
  <2>4. ASSUME NEW line \in {"FATAL", "FATAL_TUN"}, Say(line), log' = log
        PROVE  StepWatched
    <3>1. line \in DaemonLines BY DEF DaemonLines
    <3>2. QED BY <2>1, <2>2, <2>4, <3>1, SayWatched
  <2>5. CASE log' = <<"TUN_ERROR">> /\ pipe' = pipe
    <3>1. LogLinesOnly' BY <1>2, <2>5 DEF AllLogLines
    <3>2. QED BY <1>3, <2>1, <2>2, <2>5, <3>1, QuietWatched
  <2>6. QED BY <2>3, <2>4, <2>5
<1>12. CASE DaemonExits
  <2>1. UNCHANGED <<m, alive, batch, pipe, log>> /\ daemon'.phase = "none"
    BY <1>12 DEF DaemonExits
  <2>2. QED BY <1>1, <1>3, <2>1, QuietWatched DEF Leaving
<1>13. QED
  BY <1>4, <1>5, <1>6, <1>7, <1>8, <1>9, <1>10, <1>11, <1>12 DEF Environment

-----------------------------------------------------------------------------
LEMMA InitWatched == Init => WatchInv
<1> SUFFICES ASSUME Init PROVE WatchInv OBVIOUS
<1>1. /\ m.socket = "none" /\ m.mState = "Disconnected" /\ ~m.mNetDown
      /\ alive /\ batch = <<>> /\ pipe = <<>> /\ log = <<>>
  <2>1. \A r : /\ NewManager(r).socket = "none" /\ ~NewManager(r).mNetDown
               /\ NewManager(r).mState = "Disconnected"
    BY DEF NewManager
  <2>2. \E r \in Reconnects : m = NewManager(r) BY DEF Init
  <2>3. m.socket = "none" /\ m.mState = "Disconnected" /\ ~m.mNetDown BY <2>1, <2>2
  <2>4. alive /\ batch = <<>> /\ pipe = <<>> /\ log = <<>> BY DEF Init
  <2>5. QED BY <2>3, <2>4
<1>2. Len(log) = 0 BY <1>1
<1>4. LinesInOrder /\ PipeIsHeard BY <1>1, EmptyRead DEF LinesInOrder, PipeIsHeard
<1>5. LastWords /\ Unwatched BY <1>1, EmptyRead DEF LastWords, Unwatched
<1>6. NoLookups BY <1>1, EmptyRead DEF NoLookups
<1>7. LogLinesOnly BY <1>2 DEF LogLinesOnly
<1>8. QED BY <1>4, <1>5, <1>6, <1>7 DEF WatchInv

LEMMA NextWatched ==
    ASSUME Supervisable, TypeOK, WatchInv, [Next]_vars
    PROVE  WatchInv' /\ (StaysWatched \/ Completes)
<1>1. CASE Commands BY <1>1, CommandsWatched DEF StepWatched
<1>2. CASE Handlers
  <2>1. CASE TemplateReply BY <2>1, TemplateReplyWatched DEF TemplateReply, StepWatched
  <2>2. CASE CheckState BY <2>2, CheckStateWatched DEF StepWatched
  <2>3. CASE ReconnectTimeout BY <2>3, ReconnectWatched DEF StepWatched
  <2>4. CASE SocketConnected \/ SocketError \/ SocketReadyRead \/ OpenvpnLogfileChanged
    BY <2>4, SocketActionsWatched DEF StepWatched
  <2>5. CASE ParseLine BY <2>5, ParseLineWatched
  <2>6. QED BY <1>2, <2>1, <2>2, <2>3, <2>4, <2>5 DEF Handlers, StepWatched
<1>3. CASE Environment BY <1>3, EnvironmentWatched DEF StepWatched
<1>4. CASE UNCHANGED vars
  <2>1. UNCHANGED <<m, alive, batch, pipe, daemon, log>> BY <1>4 DEF vars
  <2>2. Unmoved(m, m') BY <2>1 DEF Unmoved
  <2>3. LogLinesOnly' BY <2>1 DEF WatchInv, LogLinesOnly
  <2>4. QED BY <2>1, <2>2, <2>3, QuietWatched DEF Leaving, StepWatched
<1>5. QED BY <1>1, <1>2, <1>3, <1>4 DEF Next

\* While clients are told Connected checkState runs and would notice that the daemon
\* died ("handle crush"): no late reply, command or earlier line of the same read
\* turns the timer off and lets CONNECTED be parsed afterwards.  Only the line of the
\* log that calls gotConnected (parseOpenvpnLogLine) tells Connected unsupervised.
THEOREM ConnectionsAreWatched ==
    ASSUME Supervisable PROVE Spec => ConnectedIsWatched
<1>1. TypeOK /\ WatchInv /\ [Next]_vars => WatchInv' BY NextWatched
<1>2. TypeOK /\ WatchInv /\ [Next]_vars
        => [Watched /\ ~Watched' => batch # <<>> /\ Head(batch) = "COMPLETED"]_vars
  BY NextWatched DEF StaysWatched, Completes
<1>3. QED
  BY <1>1, <1>2, InitWatched, TypeCorrect, PTL DEF Spec, ConnectedIsWatched
==============================================================================
