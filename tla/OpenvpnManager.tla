--------------------------- MODULE OpenvpnManager ---------------------------
(***************************************************************************)
(* The privileged service's OpenvpnManager (src/service/openvpnmanager.cpp *)
(* and .h, built for Unix), the OpenVPN daemon it launches and the network *)
(* replies it waits for.                                                   *)
(*                                                                         *)
(* The service is one Qt event loop: a handler (slot, timer or command)    *)
(* runs to its end before the next one starts, so a handler is one action. *)
(* The members of the C++ object are the fields of the record m; the       *)
(* methods that other methods call (stop, setState, startConnecting...)    *)
(* are operators from records to records, composed in the order of the     *)
(* calls.  The one handler that is not one action is the loop over the     *)
(* lines read at once from the management socket or from the log: batch    *)
(* holds the lines still to be parsed and every other handler waits until  *)
(* it is empty.                                                            *)
(***************************************************************************)
EXTENDS Naturals, Sequences

CONSTANTS
    Servers,        \* the server ids a client may ask for
    PortClasses,    \* the port classes a client may ask for, see serverKey
    TryingWords,    \* state words the daemon reports while it connects
    CommandSet,     \* the commands the clients of this instance send
    Reconnects,     \* values the uninitialised mReconnect may have
    Faults,         \* what may go wrong: see Failures and DaemonLines
    LogLines,       \* the log lines the manager reacts to and the daemon writes
    MaxCopies,      \* bound: equal template requests in flight
    MaxPipe,        \* bound: lines in flight on the management socket
    MaxShots,       \* bound: reconnect single-shot timers pending
    NoTemplate      \* the absence of a template

ConnectingWords == {"CONNECTING", "TCP_CONNECT", "RECONNECTING", "AUTH", "ASSIGN_IP"}
QuietWords      == {"WAIT", "GET_CONFIG", "RESOLVE", "ADD_ROUTES"}
StateWords      == ConnectingWords \cup QuietWords \cup {"CONNECTED", "EXITING"}

QueryLines  == {"HOLD", "PASSWORD"}    \* the lines answered through mSocket
DaemonLines == {"VERIFICATION_FAILED", "FATAL", "FATAL_TUN", "ERROR"}
AllLogLines == {"BIND_FAILED", "LINK_REMOTE", "COMPLETED", "TUN_ERROR"}
Failures    == {"TEMPLATE",    \* a template cannot be downloaded
                "CONFIG",      \* the configuration file cannot be written
                "RIGHTS",      \* setRights() throws
                "EXEC",        \* the daemon cannot be executed
                "TUNNEL",      \* the daemon loses the tunnel
                "EXIT"}        \* the daemon exits without being told to
Lines       == StateWords \cup QueryLines \cup DaemonLines \cup AllLogLines
                          \cup {"CONNECTED_ERROR"}

\* A key of mOvpnTemplate: the server id and the class of the port (1194, 53
\* or any other).  A port that setSwitchingPort increments is never 1194 or 53.
Keys      == Servers \X {1, 2, 3}
NextClassM == 4                \* slip: a class of its own for other ports
NextClass == 3

G_Max_Reconnect == 3

ASSUME ConstantsAssumption ==
    /\ Servers # {}
    /\ PortClasses \subseteq {1, 2, 3}
    /\ TryingWords \subseteq StateWords \cup {"CONNECTED_ERROR"}
    /\ Faults \subseteq DaemonLines \cup Failures
    /\ Reconnects \subseteq BOOLEAN
    /\ LogLines \subseteq AllLogLines
    /\ MaxCopies \in Nat /\ MaxPipe \in Nat /\ MaxShots \in Nat
    /\ NoTemplate \notin Keys

VARIABLES
    m,          \* the OpenvpnManager object
    alive,      \* whether the service process runs
    batch,      \* lines of the current read that are still to be parsed
    requests,   \* template downloads in flight
    elapsed,    \* whether kTryNextPortSeconds passed since mStartDateTime
    daemon,     \* the OpenVPN process: its phase and the template it runs
    pipe,       \* lines the daemon sent on the management socket, not yet read
    log         \* lines of interest in the log file, not yet read

vars == <<m, alive, batch, requests, elapsed, daemon, pipe, log>>

VpnStates     == {"Disconnected", "Connecting", "Connected"}
Notifications == VpnStates \cup {"word", "ip", "error", "timedOut"}
Phases        == {"none", "hold", "released", "auth", "trying", "connected", "exiting"}
Requests      == [key : Keys, url : Keys, copy : 1..MaxCopies]

Manager ==
    [mState     : VpnStates,
     timer      : BOOLEAN,                        \* mStateTimer # NULL
     socket     : {"none", "opening", "up"},      \* mSocket
     watcher    : BOOLEAN,                        \* mFileSystemWatcher # NULL
     mError     : BOOLEAN,
     prev       : Lines \cup {""},                \* mPreviousStateWord
     mReconnect : BOOLEAN,
     attempt    : 0..G_Max_Reconnect,             \* mReconnectAttempt, saturated
     mNetDown   : BOOLEAN,
     target     : Keys,                           \* serverKey(mServerId, mPort)
     url        : Keys,                           \* what mTemplateUrl points to
     templates  : [Keys -> Keys \cup {NoTemplate}],   \* mOvpnTemplate
     shots      : 0..MaxShots,                    \* pending reconnectTimeout calls
     emits      : Seq(Notifications),             \* signals of the last handler
     term       : BOOLEAN,                        \* it wrote "signal SIGTERM"
     fetch      : BOOLEAN]                        \* it called getTemplate

TypeOK ==
    /\ m \in Manager
    /\ alive \in BOOLEAN
    /\ batch \in Seq(Lines)
    /\ requests \subseteq Requests
    /\ elapsed \in BOOLEAN
    /\ daemon \in [phase : Phases, cfg : Keys \cup {NoTemplate}]
    /\ pipe \in Seq(Lines)
    /\ log \in Seq(Lines)

-----------------------------------------------------------------------------
(* The methods of the manager.                                             *)

\* Every handler starts with no signal emitted and nothing written.
Begin(n) == [n EXCEPT !.emits = <<>>, !.term = FALSE, !.fetch = FALSE]

Emit(n, e) == [n EXCEPT !.emits = Append(@, e)]

\* slip: the supervision ends with the connecting phase
setStateM(n, st) ==
    IF st = n.mState
    THEN n
    ELSE [n EXCEPT !.mState = st,
                   !.timer  = IF st # "Connecting" THEN FALSE ELSE @,
                   !.emits  = Append(@, st)]

setState(n, st) ==
    IF st = n.mState
    THEN n
    ELSE [n EXCEPT !.mState = st,
                   !.timer  = IF st = "Disconnected" THEN FALSE ELSE @,
                   !.emits  = Append(@, st)]

\* The log exists from the first launch of a daemon on, so it can be watched.
connectToOpenvpnSocket(n)      == [n EXCEPT !.socket = "opening"]
disconnectFromOpenvpnSocket(n) == [n EXCEPT !.socket = "none"]
setupFileWatcher(n)            == [n EXCEPT !.watcher = TRUE]

\* slip: the log watcher is forgotten
stopM(n) ==
    setState([n EXCEPT !.term = @ \/ n.socket = "up", !.socket = "none"],
             "Disconnected")

\* SIGTERM is written only over a connected socket; any other socket is
\* dropped without a word to the daemon.
stop(n) ==
    setState([n EXCEPT !.term    = @ \/ n.socket = "up",
                       !.socket  = "none",
                       !.watcher = FALSE],
             "Disconnected")

cancel(n) == Emit(stop(n), "error")

startConnecting(n) ==
    [setState(n, "Connecting") EXCEPT !.mError = FALSE, !.fetch = TRUE]

\* The address stands behind the fourth comma: the word of the daemon's state
\* has one, the line of the log has none.
Addressed(line) == line = "CONNECTED"

\* slip: the state is reported before the address
gotConnectedM(n, line) ==
    LET o == setState(n, "Connected")
    IN  IF Addressed(line) THEN Emit(o, "ip") ELSE o

gotConnected(n, line) ==
    setState(IF Addressed(line) THEN Emit(n, "ip") ELSE n, "Connected")

\* The address in the line, whatever it is.
parseNewIp(n) == Emit(n, "ip")

\* mTunError and mError are set here and reset by the startConnecting call.
gotTunErr(n) == IF n.mError THEN n ELSE startConnecting(n)

showErrorMessageCleanup(n) ==
    Emit(setState(disconnectFromOpenvpnSocket(n), "Disconnected"), "error")

\* The reply to the "state" command carries the word of the daemon's phase.
ReplyWords ==
    CASE daemon.phase \in {"hold", "released", "auth"} -> {"CONNECTING"}
      [] daemon.phase = "trying"           -> TryingWords
      [] daemon.phase = "connected"        -> {"CONNECTED"}
      [] daemon.phase = "exiting"          -> {"EXITING"}
      [] OTHER                             -> {}

\* openvpnRunning() looks at the socket first, then asks a script that runs
\* ps; the script is given 500 ms and an empty answer counts as not running.
openvpnRunning(n, seen) == n.socket # "none" \/ seen
Sightings == IF daemon.phase = "none" THEN {FALSE} ELSE BOOLEAN

-----------------------------------------------------------------------------
(* How a handler ends: n is the object it leaves.                          *)

\* getTemplate() records the key of the moment of the request in the reply.
\* Beyond MaxCopies equal requests in flight, one more is not told apart.
Fetch(n) ==
    LET R(c) == [key |-> n.target, url |-> n.url, copy |-> c]
        free == {c \in 1..MaxCopies : R(c) \notin requests}
    IN  IF n.fetch /\ free # {}
        THEN \E c \in free : /\ \A d \in free : c <= d
                             /\ requests' = requests \cup {R(c)}
        ELSE UNCHANGED requests

\* Dropping or replacing the socket drops the unread lines with it.
Settle(n) ==
    /\ m' = n
    /\ Fetch(n)
    /\ pipe' = IF n.socket = "up" THEN pipe ELSE <<>>
    /\ daemon' = IF n.term /\ daemon.phase # "none"
                 THEN [daemon EXCEPT !.phase = "exiting"]
                 ELSE daemon

\* A handler runs when the service does and no other handler is inside its loop.
Idle == alive /\ batch = <<>>

-----------------------------------------------------------------------------
(* Commands of the clients.                                                *)

\* slip: the server id of the command is not stored
SetParametersM(n, k) == [n EXCEPT !.url = k]

SetParameters(n, k) == [n EXCEPT !.target = k, !.url = k]

StartM(k) ==                    \* slip: nothing is stopped first
    /\ Idle
    /\ Settle(startConnecting(SetParameters([Begin(m) EXCEPT !.attempt = 0], k)))
    /\ UNCHANGED <<alive, batch, elapsed, log>>

\* cmdStart: netDown(false) does nothing on Unix; the stop() before start()
\* when the state is Connected is repeated by start() itself.
Start(k) ==
    /\ Idle
    /\ LET stopped == stop([Begin(m) EXCEPT !.attempt = 0])
       IN  Settle(startConnecting(SetParameters(stopped, k)))
    /\ UNCHANGED <<alive, batch, elapsed, log>>

\* cmdStop.
Stop ==
    /\ Idle
    /\ Settle(stop(Begin(m)))
    /\ UNCHANGED <<alive, batch, elapsed, log>>

\* cmdNetdown: nothing is recorded when setRights() throws.
NetDown ==
    /\ Idle
    /\ \E ok \in BOOLEAN : Settle([Begin(m) EXCEPT !.mNetDown = @ \/ ok])
    /\ UNCHANGED <<alive, batch, elapsed, log>>

\* cmdKillRunningOpenvpn: the loop that waits for the new socket ends at once,
\* a socket being open from connectToHost on, so stop() finds the socket in
\* whatever state connectToHost left it.  mPID stays 0 and nothing is killed.
KillRunningOpenvpn ==
    /\ Idle
    /\ \E seen \in Sightings :
         IF openvpnRunning(m, seen)
         THEN \E s \in {"none", "opening"}
                         \cup (IF daemon.phase = "none" THEN {} ELSE {"up"}) :
                Settle(stop([Begin(m) EXCEPT !.socket = s]))
         ELSE Settle(Begin(m))
    /\ UNCHANGED <<alive, batch, elapsed, log>>

-----------------------------------------------------------------------------
(* Replies of the template server.                                         *)

\* getTemplateError, then getTemplateFinished with the reply's error set.
TemplateFailed(r) ==
    /\ Idle /\ r \in requests /\ "TEMPLATE" \in Faults
    /\ m' = stop(Emit(Begin(m), "error"))
    /\ requests' = requests \ {r}
    /\ pipe' = <<>>
    /\ daemon' = IF m.socket = "up" /\ daemon.phase # "none"
                 THEN [daemon EXCEPT !.phase = "exiting"]
                 ELSE daemon
    /\ UNCHANGED <<alive, batch, elapsed, log>>

\* The daemon truncates the log when it starts; one that finds the management
\* port taken says so in the log and exits.
LaunchDaemon(cfg) ==
    \/ /\ daemon.phase = "none"
       /\ daemon' = [phase |-> "hold", cfg |-> cfg]
       /\ log' = <<>>
    \/ /\ daemon.phase # "none"
       /\ log' = IF "BIND_FAILED" \in LogLines THEN <<"BIND_FAILED">> ELSE <<>>
       /\ UNCHANGED daemon
    \/ "EXEC" \in Faults /\ UNCHANGED <<daemon, log>>

\* slip: filed under the current key, not under the key of the request
StoreTemplateM(n, r) == [n EXCEPT !.templates[n.target] = r.url]

StoreTemplate(n, r) == [n EXCEPT !.templates[r.key] = r.url]

\* getTemplateFinished and continueConnecting.
TemplateFinished(r) ==
    /\ Idle /\ r \in requests
    /\ requests' = requests \ {r}
    /\ LET n == StoreTemplate(Begin(m), r)
           cfg == n.templates[n.target]
       IN \/ /\ cfg = NoTemplate \/ "CONFIG" \in Faults
             /\ m' = Emit(n, "error")           \* writeConfigFile() fails
             /\ UNCHANGED <<daemon, pipe, log, elapsed>>
          \/ /\ cfg # NoTemplate /\ "RIGHTS" \in Faults
             /\ m' = setState(Emit(n, "error"), "Disconnected")
             /\ UNCHANGED <<daemon, pipe, log, elapsed>>
          \/ /\ cfg # NoTemplate
             /\ LaunchDaemon(cfg)
             /\ m' = [setupFileWatcher(connectToOpenvpnSocket(n)) EXCEPT !.timer = TRUE]
             /\ pipe' = <<>>
             /\ elapsed' = FALSE                \* mStartDateTime = now
    /\ UNCHANGED <<alive, batch>>

-----------------------------------------------------------------------------
(* Timers.                                                                 *)

\* kTryNextPortSeconds pass.
Elapse ==
    /\ alive /\ m.timer /\ ~elapsed
    /\ elapsed' = TRUE
    /\ UNCHANGED <<m, alive, batch, requests, daemon, pipe, log>>

\* slip: a crash is not looked for
SuperviseM(n, seen) ==
    IF openvpnRunning(n, seen) /\ n.socket = "none"
    THEN connectToOpenvpnSocket(n) ELSE n

\* What checkState does first: look after the socket or notice a crash.
Supervise(n, seen) ==
    CASE openvpnRunning(n, seen) /\ n.socket = "none" -> connectToOpenvpnSocket(n)
      [] ~openvpnRunning(n, seen) /\ n.mState = "Connected" ->
            IF n.mReconnect THEN startConnecting(n) ELSE setState(n, "Disconnected")
      [] OTHER -> n

\* slip: only an attempt that lost its socket times out
TimedOutM(n) == n.mState = "Connecting" /\ elapsed /\ n.socket = "none"

TimedOut(n) == n.mState = "Connecting" /\ elapsed

CheckState ==
    /\ Idle /\ m.timer
    /\ \E seen \in Sightings :
         LET n == Supervise(Begin(m), seen)
         IN IF TimedOut(n)
            THEN /\ Settle(Emit(stop(n), "timedOut"))
                 /\ elapsed' = FALSE            \* mStartDateTime = now
            ELSE /\ IF m.socket = "up"          \* poll: write "state"
                    THEN /\ m' = n
                         /\ Len(pipe) < MaxPipe
                         /\ \/ \E w \in ReplyWords : pipe' = Append(pipe, w)
                            \/ ReplyWords = {} /\ UNCHANGED pipe
                         /\ UNCHANGED <<requests, daemon>>
                    ELSE Settle(n)
                 /\ UNCHANGED elapsed
    /\ UNCHANGED <<alive, batch, log>>

\* One of the single-shot timers set on EXITING or by this handler itself.
ReconnectTimeout ==
    /\ Idle /\ m.shots > 0
    /\ LET next == IF m.attempt < G_Max_Reconnect THEN m.attempt + 1 ELSE m.attempt
           n    == [Begin(m) EXCEPT !.attempt = next]
           done == [n EXCEPT !.shots = @ - 1]
       IN \E seen \in Sightings :
            Settle(IF ~openvpnRunning(n, seen) THEN startConnecting(done)
                   ELSE IF next < G_Max_Reconnect THEN n
                   ELSE startConnecting(stop(done)))
    /\ UNCHANGED <<alive, batch, elapsed, log>>

-----------------------------------------------------------------------------
(* The management socket.                                                  *)

\* A new client of the management port is greeted with what the daemon waits for.
SocketConnected ==
    /\ Idle /\ m.socket = "opening" /\ daemon.phase # "none"
    /\ m' = [Begin(m) EXCEPT !.socket = "up"]
    /\ pipe' = CASE daemon.phase = "hold" -> <<"HOLD">>
                 [] daemon.phase = "auth" -> <<"PASSWORD">>
                 [] OTHER                 -> <<>>
    /\ UNCHANGED <<alive, batch, requests, elapsed, daemon, log>>

\* The connection is refused, or the daemon closed it once all it said is read.
SocketError ==
    /\ Idle
    /\ \/ m.socket = "opening"
       \/ m.socket = "up" /\ daemon.phase = "none" /\ pipe = <<>>
    /\ Settle(disconnectFromOpenvpnSocket(Begin(m)))
    /\ UNCHANGED <<alive, batch, elapsed, log>>

SocketReadyRead ==
    /\ Idle /\ m.socket = "up" /\ pipe # <<>>
    /\ batch' = pipe
    /\ pipe' = <<>>
    /\ m' = Begin(m)
    /\ UNCHANGED <<alive, requests, elapsed, daemon, log>>

\* The log watcher fires; the loop below serves its lines as well.
OpenvpnLogfileChanged ==
    /\ Idle /\ m.watcher /\ ~m.mError /\ log # <<>>
    /\ batch' = log
    /\ log' = <<>>
    /\ m' = Begin(m)
    /\ UNCHANGED <<alive, requests, elapsed, daemon, pipe>>

-----------------------------------------------------------------------------
(* The loop over the lines of a read, one line a step.                     *)

\* Beyond MaxShots pending timers, one more is not told apart.
startReconnectTimer(n) == [n EXCEPT !.shots = IF @ < MaxShots THEN @ + 1 ELSE @]

\* parseSocketStateWord.
StateWord(n, word) ==
    CASE word = "CONNECTED" ->
            IF word # n.prev THEN gotConnected(n, word) ELSE n
      [] word \in ConnectingWords ->
            Emit(setState(n, "Connecting"), "word")
      [] word = "EXITING" /\ n.mReconnect ->
            setState(startReconnectTimer(n), "Connecting")
      [] word = "EXITING" /\ ~n.mReconnect ->
            setState(n, "Disconnected")
      [] word = "RESOLVE" /\ n.mNetDown ->
            Emit(stop(Emit(n, "word")), "error")
      [] OTHER ->
            Emit(n, "word")

\* parseSocketQueryWord, parseSocketPlainWord and parseOpenvpnLogLine.
OtherLine(n, line) ==
    CASE line = "VERIFICATION_FAILED" ->
            showErrorMessageCleanup([n EXCEPT !.mError = TRUE])
      [] line = "FATAL" ->
            cancel([n EXCEPT !.mError = TRUE])
      [] line \in {"FATAL_TUN", "TUN_ERROR"} ->
            gotTunErr(n)
      [] line = "ERROR" ->
            Emit(disconnectFromOpenvpnSocket(n), "error")
      [] line = "BIND_FAILED" ->
            startConnecting([n EXCEPT !.target = <<n.target[1], NextClass>>])
      [] line = "LINK_REMOTE" ->
            parseNewIp(n)
      [] line = "COMPLETED" ->
            gotConnected(n, line)
      [] OTHER ->
            n

ParseStateWord ==
    /\ alive /\ batch # <<>> /\ Head(batch) \in StateWords
    /\ Settle([StateWord(Begin(m), Head(batch)) EXCEPT !.prev = Head(batch)])
    /\ batch' = Tail(batch)
    /\ UNCHANGED <<alive, elapsed, log>>

ParseOtherLine ==
    /\ alive /\ batch # <<>> /\ Head(batch) \notin StateWords \cup QueryLines
    /\ Settle(OtherLine(Begin(m), Head(batch)))
    /\ batch' = Tail(batch)
    /\ UNCHANGED <<alive, elapsed, log>>

\* "hold release" and the credentials are written to mSocket without a check.
AnswerQuery ==
    /\ alive /\ batch # <<>> /\ Head(batch) \in QueryLines /\ m.socket # "none"
    /\ batch' = Tail(batch)
    /\ m' = Begin(m)
    /\ daemon' = CASE Head(batch) = "HOLD" /\ daemon.phase = "hold" ->
                        [daemon EXCEPT !.phase = "released"]
                   [] Head(batch) = "PASSWORD" /\ daemon.phase = "auth" ->
                        [daemon EXCEPT !.phase = "trying"]
                   [] OTHER -> daemon
    /\ UNCHANGED <<alive, requests, elapsed, pipe, log>>

\* The object of a new process.  mReconnect is never assigned: any value.
\* target and url are not read before start() assigns them.
NewManager(reconnect) ==
    [mState |-> "Disconnected", timer |-> FALSE, socket |-> "none",
     watcher |-> FALSE, mError |-> FALSE, prev |-> "",
     mReconnect |-> reconnect, attempt |-> 0, mNetDown |-> FALSE,
     target |-> CHOOSE k \in Keys : TRUE, url |-> CHOOSE k \in Keys : TRUE,
     templates |-> [k \in Keys |-> NoTemplate], shots |-> 0,
     emits |-> <<>>, term |-> FALSE, fetch |-> FALSE]

\* An earlier line of the same read dropped mSocket: the null pointer is used.
\* The daemon outlives the service.
Crash ==
    /\ alive /\ batch # <<>> /\ Head(batch) \in QueryLines /\ m.socket = "none"
    /\ alive' = FALSE
    /\ m' = NewManager(m.mReconnect)
    /\ batch' = <<>> /\ pipe' = <<>> /\ requests' = {} /\ elapsed' = FALSE
    /\ UNCHANGED <<daemon, log>>

\* launchd keeps the service alive.
Restart ==
    /\ ~alive
    /\ alive' = TRUE
    /\ \E r \in Reconnects : m' = NewManager(r)
    /\ UNCHANGED <<batch, requests, elapsed, daemon, pipe, log>>

-----------------------------------------------------------------------------
(* The OpenVPN daemon (external).                                          *)

\* What the daemon says is heard when a management client is attached.
Say(line) ==
    IF alive /\ m.socket = "up"
    THEN Len(pipe) < MaxPipe /\ pipe' = Append(pipe, line)
    ELSE UNCHANGED pipe

Become(phase) == daemon' = [daemon EXCEPT !.phase = phase]

DaemonAsks ==
    /\ daemon.phase = "released"
    /\ Become("auth") /\ Say("PASSWORD")
    /\ UNCHANGED <<m, alive, batch, requests, elapsed, log>>

\* What a daemon whose tunnel comes up writes to the log.
LinkLines == IF "LINK_REMOTE" \in LogLines THEN <<"LINK_REMOTE">> ELSE <<>>
CompletionLines == IF "COMPLETED" \in LogLines THEN <<"COMPLETED">> ELSE <<>>

\* The tunnel comes up; it goes down and the daemon tries again.  Bound: a log
\* with lines not yet read gets no more.
DaemonConnects ==
    /\ daemon.phase = "trying"
    /\ Become("connected")
    /\ log' = IF log = <<>> THEN LinkLines \o CompletionLines ELSE log
    /\ UNCHANGED <<m, alive, batch, requests, elapsed, pipe>>

DaemonLosesTunnel ==
    /\ "TUNNEL" \in Faults /\ daemon.phase = "connected"
    /\ Become("trying")
    /\ UNCHANGED <<m, alive, batch, requests, elapsed, pipe, log>>

\* The credentials are refused: it asks again or gives up.
DaemonRefused ==
    /\ "VERIFICATION_FAILED" \in Faults /\ daemon.phase = "trying"
    /\ Say("VERIFICATION_FAILED")
    /\ \E p \in {"released", "exiting"} : Become(p)
    /\ UNCHANGED <<m, alive, batch, requests, elapsed, log>>

\* A command is rejected; the process goes on.
DaemonComplains ==
    /\ "ERROR" \in Faults /\ daemon.phase \in {"auth", "trying"}
    /\ alive /\ m.socket = "up"
    /\ Say("ERROR")
    /\ UNCHANGED <<m, alive, batch, requests, elapsed, daemon, log>>

DaemonFatal ==
    /\ daemon.phase \notin {"none", "exiting"}
    /\ Become("exiting")
    /\ \/ \E line \in Faults \cap {"FATAL", "FATAL_TUN"} : Say(line) /\ UNCHANGED log
       \/ /\ "TUN_ERROR" \in LogLines /\ daemon.phase = "trying" /\ log = <<>>
          /\ log' = <<"TUN_ERROR">> /\ UNCHANGED pipe
    /\ UNCHANGED <<m, alive, batch, requests, elapsed>>

\* It exits, or it crashes.
DaemonExits ==
    /\ daemon.phase = "exiting" \/ (daemon.phase # "none" /\ "EXIT" \in Faults)
    /\ daemon' = [phase |-> "none", cfg |-> NoTemplate]
    /\ UNCHANGED <<m, alive, batch, requests, elapsed, pipe, log>>

-----------------------------------------------------------------------------
Init ==
    /\ \E r \in Reconnects : m = NewManager(r)
    /\ alive = TRUE
    /\ batch = <<>> /\ pipe = <<>> /\ log = <<>>
    /\ requests = {}
    /\ elapsed = FALSE
    /\ daemon = [phase |-> "none", cfg |-> NoTemplate]

Commands ==
    \/ \E k \in Servers \X PortClasses : Start(k)
    \/ "cmdStop" \in CommandSet /\ Stop
    \/ "cmdNetdown" \in CommandSet /\ NetDown
    \/ "cmdKillRunningOpenvpn" \in CommandSet /\ KillRunningOpenvpn

TemplateReply == \E r \in requests : TemplateFailed(r) \/ TemplateFinished(r)

ParseLine == ParseStateWord \/ ParseOtherLine \/ AnswerQuery \/ Crash

Handlers ==
    \/ TemplateReply \/ CheckState \/ ReconnectTimeout
    \/ SocketConnected \/ SocketError \/ SocketReadyRead
    \/ OpenvpnLogfileChanged \/ ParseLine

Environment ==
    \/ Elapse \/ Restart
    \/ DaemonAsks \/ DaemonConnects \/ DaemonLosesTunnel \/ DaemonRefused
    \/ DaemonComplains \/ DaemonFatal \/ DaemonExits

Next == Commands \/ Handlers \/ Environment

\* The event loop serves every event that stays pending; time passes; launchd
\* restarts the service; a daemon told to exit does.  Nothing is assumed of
\* the commands, of the tunnel, or of a daemon nobody told to exit.
Fairness ==
    /\ WF_vars(TemplateReply) /\ WF_vars(CheckState) /\ WF_vars(ReconnectTimeout)
    /\ WF_vars(SocketConnected \/ SocketError)
    /\ WF_vars(SocketReadyRead) /\ WF_vars(OpenvpnLogfileChanged)
    /\ WF_vars(ParseLine) /\ WF_vars(Elapse) /\ WF_vars(Restart)
    /\ WF_vars(daemon.phase = "exiting" /\ DaemonExits)

Spec     == Init /\ [][Next]_vars
FairSpec == Spec /\ Fairness

-----------------------------------------------------------------------------
(* Properties.                                                             *)

\* While clients are told Connected, checkState runs: nothing else notices
\* that the daemon crashed ("handle crush" in checkState).
Watched == m.mState = "Connected" => m.timer

\* One way alone leads to Connected without supervision, or out of supervision
\* with Connected still told: the line of the log that calls gotConnected, parsed
\* after EXITING or a failed verification stopped the timer and left the log
\* watcher.  No CONNECTED parsed behind an earlier line of the same read, no
\* late template reply and no command does.
ConnectedIsWatched ==
    [][Watched /\ ~Watched' => batch # <<>> /\ Head(batch) = "COMPLETED"]_vars

Contract == INSTANCE VpnContract WITH state <- m.mState, sent <- m.emits

\* What clients are told is what they rely on: every state that is entered is
\* announced once and in order, the new address, when the line has one, comes
\* before Connected (gotConnected: "so we will have the new ip"), an attempt
\* that times out is Disconnected before timedOut is sent.
ImplementsContract == Contract!Spec

\* The clients count on more for the commands they send: from whatever state,
\* cmdStart leaves the attempt in progress, telling everybody Disconnected
\* before Connecting (start calls stop before anything else), and cmdStop ends
\* in Disconnected.
CommandsAnswered ==
    [][/\ \A k \in Servers \X PortClasses : Start(k) => Contract!Start
       /\ Stop => Contract!Stop]_vars

\* When clients are told of a timeout they answer with cmdStart: they know the
\* state is Disconnected, and nothing of the attempt that failed is left
\* (supervision, management socket, log watcher).
TimeoutLeavesNothing ==
    \A i \in 1..Len(m.emits) :
        m.emits[i] = "timedOut" =>
            /\ i > 1 /\ m.emits[i - 1] = "Disconnected"
            /\ m.mState = "Disconnected" /\ ~m.timer
            /\ m.socket = "none" /\ ~m.watcher

\* A template is filed under the server it was asked for, however many
\* commands were served while it was downloaded.
TemplateOfServer ==
    \A k \in Keys : m.templates[k] # NoTemplate => m.templates[k][1] = k[1]

\* A daemon is launched with a template of the server selected last, even by
\* a reply to an earlier command (continueConnecting after getTemplateFinished).
LaunchServesTarget ==
    [][daemon.phase = "none" /\ daemon'.phase # "none"
        => daemon'.cfg[1] = m'.target[1]]_vars

\* A daemon that dies while clients are told Connected is noticed when the
\* connection is supervised (ConnectedIsWatched says which ones are not).
CrashNoticed ==
    (m.mState = "Connected" /\ m.timer /\ daemon.phase = "none")
        ~> (m.mState # "Connected" \/ daemon.phase # "none")

\* A supervised attempt is decided within kTryNextPortSeconds, unless the
\* daemon writes a line to the log that makes the manager start it again.
AttemptDecided ==
    (m.mState = "Connecting" /\ m.timer)
        ~> \/ m.mState # "Connecting" \/ ~m.timer
           \/ \E i \in 1..Len(log) : log[i] \in {"BIND_FAILED", "TUN_ERROR"}
=============================================================================
