----------------------------- MODULE VpnClients -----------------------------
(***************************************************************************)
(* The clients of the service: on the GUI's side VPNServiceManager with    *)
(* the port dialog (wndmanager, connectiondialog) and the port and node    *)
(* settings it switches; on the service's side one QVPNClientConnection    *)
(* per connection.  The manager behind them is any that keeps VpnContract. *)
(*                                                                         *)
(* Both processes are Qt event loops joined by a local socket: commands go *)
(* up, notifications come down, in order.  The service may crash, and      *)
(* launchd starts it again; a GUI may be quit and started again.           *)
(***************************************************************************)
EXTENDS Naturals, Sequences, FiniteSetsExt

CONSTANTS
    Clients,    \* the GUIs that may connect (the socket is open to every user)
    Ports,      \* number of ports of the current encryption
    Nodes,      \* number of servers of the list the account has
    Acts,       \* what the environment of this instance does
    MaxUp,      \* bound: commands on their way when the user or the manager acts
    MaxDown     \* bound: notifications on their way when one of them does

ASSUME ClientsAssumption ==
    /\ Ports \in Nat \ {0} /\ Nodes \in Nat \ {0}
    /\ MaxUp \in Nat /\ MaxDown \in Nat

VARIABLES
    state, sent,    \* the manager, see VpnContract
    target,         \* mServerId and mPort of the manager, None before a start
    creds,          \* whether the manager was given credentials
    svc,            \* whether the service process runs
    worker,         \* the QVPNClientConnection of each client
    up,             \* commands not yet read by the service
    down,           \* notifications not yet handled by the GUI
    gui             \* the GUI of each client

service  == <<state, sent, target, creds, svc>>
vars     == <<state, sent, target, creds, svc, worker, up, down, gui>>

Manager == INSTANCE VpnContract
States  == Manager!States

None == [port |-> 0, node |-> 0]
Target == [port : 1..Ports, node : 1..Nodes]

\* The port of a manager that left the port of the command by itself, whatever
\* its number is.
Moved == 0
Attempts == [port : 1..Ports \cup {Moved}, node : 1..Nodes]

\* A command, with the port and the server if it is cmdStart.
Command(name, g)  == [cmd |-> name, at |-> IF name = "cmdStart" THEN g.at ELSE None]
Commands          == [cmd : {"cmdStart", "cmdStop", "cmdSetCredentials"},
                      at  : Target \cup {None}]

Gui ==
    [link       : {"none", "up", "broken"},   \* m_socket; broken: not yet told
     loggedIn   : BOOLEAN,
     mState     : States,
     shown      : States,                     \* what the menu was set for
     mChangingPorts           : BOOLEAN,
     mInPortLoop              : BOOLEAN,
     mPortDialogShown         : BOOLEAN,
     mUserRequestedDisconnect : BOOLEAN,
     dialog     : BOOLEAN,                    \* the port dialog is visible
     modal      : BOOLEAN,                    \* an error dialog runs its own loop
     at         : Target]                     \* the port and the server selected

\* told is a history: whether the manager announced a state on this connection.
Worker == [open : BOOLEAN, m_state : States, told : BOOLEAN]

TypeOK ==
    /\ state \in States
    /\ sent \in Seq(Manager!Signals)
    /\ target \in Attempts \cup {None}
    /\ creds \in BOOLEAN /\ svc \in BOOLEAN
    /\ worker \in [Clients -> Worker]
    /\ up \in [Clients -> Seq(Commands)]
    /\ down \in [Clients -> Seq(Manager!Signals)]
    /\ gui \in [Clients -> Gui]

NoWorker == [open |-> FALSE, m_state |-> "Disconnected", told |-> FALSE]
NewWorker == [NoWorker EXCEPT !.open = TRUE]

\* mState and mChangingPorts are not initialised: any value.  (changing is not
\* read before startPortLoop assigns it.)
NewGuis(at) ==
    {[link |-> "none", loggedIn |-> FALSE, mState |-> st, shown |-> "Disconnected",
      mChangingPorts |-> FALSE, mInPortLoop |-> FALSE, mPortDialogShown |-> FALSE,
      mUserRequestedDisconnect |-> FALSE, dialog |-> FALSE, modal |-> FALSE,
      at |-> at] : st \in States}

-----------------------------------------------------------------------------
(* The service.                                                            *)

\* The positions of the states among the signals.
Announced(signals) == {i \in DOMAIN signals : signals[i] \in States}

\* The state a listener in state st is in after the signals.
After(st, signals) ==
    IF Announced(signals) = {} THEN st ELSE signals[Max(Announced(signals))]

BroadcastM ==                   \* slip: of two signals of a handler one is sent
    /\ worker' = [c \in Clients |->
                    IF worker[c].open
                    THEN [worker[c] EXCEPT
                            !.m_state = After(@, sent'),
                            !.told = @ \/ Announced(sent') # {}]
                    ELSE worker[c]]
    /\ down' = [c \in Clients |->
                    IF worker[c].open /\ sent' # <<>>
                    THEN Append(down[c], Head(sent')) ELSE down[c]]

\* Every connection hears every signal of the manager (vpnStateChanged,
\* vpnStateWord, vpnError, gotNewIp, timedOut).
Broadcast ==
    /\ worker' = [c \in Clients |->
                    IF worker[c].open
                    THEN [worker[c] EXCEPT
                            !.m_state = After(@, sent'),
                            !.told = @ \/ Announced(sent') # {}]
                    ELSE worker[c]]
    /\ down' = [c \in Clients |->
                    IF worker[c].open THEN down[c] \o sent' ELSE down[c]]

\* QVPNClientConnection::socket_readyRead, one command a step.
Serve(c) ==
    /\ svc /\ worker[c].open /\ up[c] # <<>>
    /\ up' = [up EXCEPT ![c] = Tail(@)]
    /\ \/ /\ Head(up[c]).cmd = "cmdStart"
          /\ Manager!Start /\ Broadcast
          /\ target' = Head(up[c]).at
          /\ UNCHANGED creds
       \/ /\ Head(up[c]).cmd = "cmdStop"
          /\ Manager!Stop /\ Broadcast
          /\ UNCHANGED <<target, creds>>
       \/ /\ Head(up[c]).cmd = "cmdSetCredentials"
          /\ creds' = TRUE
          /\ UNCHANGED <<state, sent, target, worker, down>>
    /\ UNCHANGED <<svc, gui>>

\* The manager acts by itself, once it was started, and goes on with attempt at.
ManagerTries(name, A, at) ==
    /\ name \in Acts /\ svc /\ target # None
    /\ A /\ Broadcast
    /\ \A c \in Clients : Len(up[c]) <= MaxUp /\ Len(down[c]) < MaxDown
    /\ target' = at
    /\ UNCHANGED <<creds, svc, up, gui>>

ManagerActs(name, A) == ManagerTries(name, A, target)

\* "Socket bind failed on local address": the manager tries again on the port
\* after mPort, and no GUI listens to switchingPort.
BindFails == ManagerTries("bind", Manager!Retry, [target EXCEPT !.port = Moved])

\* The connections break; what the GUIs have not read yet can still be read.
CrashService ==
    /\ "crash" \in Acts /\ svc
    /\ svc' = FALSE
    /\ Manager!Die
    /\ target' = None /\ creds' = FALSE
    /\ worker' = [c \in Clients |-> NoWorker]
    /\ up' = [c \in Clients |-> <<>>]
    /\ gui' = [c \in Clients |->
                 [gui[c] EXCEPT !.link = IF @ = "up" THEN "broken" ELSE @]]
    /\ UNCHANGED down

RestartService ==
    /\ ~svc
    /\ svc' = TRUE
    /\ UNCHANGED <<state, sent, target, creds, worker, up, down, gui>>

-----------------------------------------------------------------------------
(* Sending a command from the GUI.                                         *)

\* A socket that is valid is not connected again, though the peer may be gone.
connectToCore(g) == g.link = "none" /\ svc

\* ensureConnected, then sendCommand of cmd: g is the GUI that sends it.  A
\* socket that broke without notice swallows the command; without a service
\* to connect to, the command is dropped after a message box.
Send(c, g, name) ==
    LET connects == connectToCore(g)
        sends    == g.link = "up" \/ connects
    IN  /\ gui' = [gui EXCEPT ![c] = IF connects THEN [g EXCEPT !.link = "up"] ELSE g]
        /\ worker' = [worker EXCEPT ![c] = IF connects THEN NewWorker ELSE @]
        /\ up' = [up EXCEPT ![c] = IF sends THEN Append(@, Command(name, g)) ELSE @]

sendConnectToVPNRequest(c, g) ==
    Send(c, [g EXCEPT !.mUserRequestedDisconnect = FALSE], "cmdStart")

sendDisconnectFromVPNRequest(c, g) ==
    Send(c, [g EXCEPT !.mUserRequestedDisconnect = TRUE], "cmdStop")

\* AuthManager::login: the credentials are sent once, here.
Login(c) ==
    /\ ~gui[c].loggedIn /\ ~gui[c].modal
    /\ Send(c, [gui[c] EXCEPT !.loggedIn = TRUE,
                              !.modal = gui[c].link = "none" /\ ~svc],
            "cmdSetCredentials")
    /\ UNCHANGED <<service, down>>

\* The connect and disconnect buttons and the tray menu, which is served while
\* an error dialog is open.  Connect is offered while Disconnected is shown, a
\* jump or another choice on the map also while Connected is.
Connect(c, at) ==
    /\ gui[c].loggedIn
    /\ \/ gui[c].shown = "Disconnected" /\ at = gui[c].at
       \/ gui[c].shown # "Connecting" /\ "choose" \in Acts
    /\ sendConnectToVPNRequest(c, [gui[c] EXCEPT !.at = at])
    /\ UNCHANGED <<service, down>>

\* Offered in the other states, by any state word, and always when quitting.
Disconnect(c) ==
    /\ "disconnect" \in Acts
    /\ sendDisconnectFromVPNRequest(c, gui[c])
    /\ UNCHANGED <<service, down>>

Logout(c) ==
    /\ "logout" \in Acts /\ gui[c].loggedIn
    /\ sendDisconnectFromVPNRequest(c, [gui[c] EXCEPT !.loggedIn = FALSE])
    /\ UNCHANGED <<service, down>>

\* LoginWindow::checkWifi, every five seconds, when the wifi is insecure.
CheckWifi(c) ==
    /\ "wifi" \in Acts
    /\ gui[c].loggedIn /\ gui[c].mState = "Disconnected"
    /\ sendConnectToVPNRequest(c, gui[c])
    /\ UNCHANGED <<service, down>>

-----------------------------------------------------------------------------
(* Ports and nodes.                                                        *)

switchToNextPortM(at) ==        \* slip: the last port is tried for ever
    [at EXCEPT !.port = IF @ < Ports THEN @ + 1 ELSE @]

switchToNextPortW(at) ==        \* slip: the wrap comes one port late
    [at EXCEPT !.port = IF @ <= Ports THEN @ + 1 ELSE 1]

switchToNextPort(at) == [at EXCEPT !.port = IF @ < Ports THEN @ + 1 ELSE 1]

switchToNextNode(at) == [at EXCEPT !.node = IF @ < Nodes THEN @ + 1 ELSE @]

NextAt(g) == IF g.mChangingPorts THEN switchToNextPort(g.at) ELSE switchToNextNode(g.at)

tryNextPortM(c, g) ==           \* slip: send first, then switch
    /\ gui[c].link = "up"
    /\ gui' = [gui EXCEPT ![c] = [g EXCEPT !.mUserRequestedDisconnect = FALSE,
                                          !.at = NextAt(g)]]
    /\ up' = [up EXCEPT ![c] = Append(@, Command("cmdStart", g))]
    /\ UNCHANGED worker

tryNextPort(c, g) == sendConnectToVPNRequest(c, [g EXCEPT !.at = NextAt(g)])

\* portDialogResult with the dialog accepted: startPortLoop.
AcceptDialog(c, ports) ==
    /\ gui[c].dialog /\ ~gui[c].modal
    /\ tryNextPort(c, [gui[c] EXCEPT !.dialog = FALSE,
                                     !.mChangingPorts = ports,
                                     !.mPortDialogShown = FALSE,
                                     !.mInPortLoop = TRUE])
    /\ UNCHANGED <<service, down>>

\* The dialog is rejected (Escape): portDialogResult does nothing.
RejectDialog(c) ==
    /\ "reject" \in Acts
    /\ gui[c].dialog /\ ~gui[c].modal
    /\ gui' = [gui EXCEPT ![c].dialog = FALSE]
    /\ UNCHANGED <<service, worker, up, down>>

-----------------------------------------------------------------------------
(* Notifications.                                                          *)

\* VPNServiceManager::socket_readyRead, one notification a step; an error
\* dialog holds the loop until it is closed.
Handles(c, name) ==
    /\ down[c] # <<>> /\ Head(down[c]) = name /\ ~gui[c].modal
    /\ down' = [down EXCEPT ![c] = Tail(@)]

HandleStateM(c) ==              \* slip: the loop and the dialog stay
    \E st \in States :
        /\ Handles(c, st)
        /\ gui' = [gui EXCEPT ![c] = [@ EXCEPT !.mState = st, !.shown = st]]
        /\ UNCHANGED <<service, worker, up>>

\* WndManager::stateChanged closes the dialog on Connected.
HandleState(c) ==
    \E st \in States :
        /\ Handles(c, st)
        /\ gui' = [gui EXCEPT ![c] =
                     [gui[c] EXCEPT !.mState = st,
                                    !.shown = st,
                                    !.mInPortLoop = @ /\ st # "Connected",
                                    !.dialog = @ /\ st # "Connected"]]
        /\ UNCHANGED <<service, worker, up>>

HandleTimeout(c) ==
    /\ Handles(c, "timedOut")
    /\ IF gui[c].mInPortLoop
       THEN tryNextPort(c, gui[c])
       ELSE /\ gui' = IF gui[c].mPortDialogShown THEN gui
                      ELSE [gui EXCEPT ![c] = [@ EXCEPT !.mPortDialogShown = TRUE,
                                                       !.dialog = TRUE]]
            /\ UNCHANGED <<worker, up>>
    /\ UNCHANGED service

HandleError(c) ==
    /\ Handles(c, "error")
    /\ gui' = [gui EXCEPT ![c].modal = TRUE]
    /\ UNCHANGED <<service, worker, up>>

HandleOther(c) ==
    /\ Handles(c, "word") \/ Handles(c, "ip")
    /\ UNCHANGED <<service, worker, up, gui>>

CloseError(c) ==
    /\ gui[c].modal
    /\ gui' = [gui EXCEPT ![c].modal = FALSE]
    /\ UNCHANGED <<service, worker, up, down>>

\* disconnectFromCore.  Unless the loop is held by an error dialog everything
\* sent was handled first; otherwise what the loop has not read is lost.
SocketDisconnected(c) ==
    /\ gui[c].link = "broken"
    /\ gui' = [gui EXCEPT ![c].link = "none"]
    /\ IF gui[c].modal
       THEN \E k \in 0..Len(down[c]) : down' = [down EXCEPT ![c] = SubSeq(@, 1, k)]
       ELSE down[c] = <<>> /\ UNCHANGED down
    /\ UNCHANGED <<service, worker, up>>

\* The GUI ends and is started again; the service reads what it had sent.
RestartGui(c) ==
    /\ "quit" \in Acts /\ up[c] = <<>>
    /\ \E g \in NewGuis(gui[c].at) : gui' = [gui EXCEPT ![c] = g]
    /\ worker' = [worker EXCEPT ![c] = NoWorker]
    /\ down' = [down EXCEPT ![c] = <<>>]
    /\ UNCHANGED <<service, up>>

-----------------------------------------------------------------------------
Init ==
    /\ Manager!Init
    /\ target = None /\ creds = FALSE /\ svc = TRUE
    /\ worker = [c \in Clients |-> NoWorker]
    /\ up = [c \in Clients |-> <<>>]
    /\ down = [c \in Clients |-> <<>>]
    /\ gui \in [Clients -> NewGuis([port |-> 1, node |-> 1])]

ManagerStep ==
    \/ ManagerActs("timeout", Manager!TimeOut)
    \/ ManagerActs("connect", Manager!Connect)
    \/ ManagerActs("retry", Manager!Retry \/ Manager!Start)
    \/ ManagerActs("fail", Manager!Fail)
    \/ ManagerActs("stop", Manager!Stop)
    \/ ManagerActs("report", Manager!Report)
    \/ BindFails

User(c) ==
    \/ RejectDialog(c) \/ RestartGui(c)
    \/ /\ \A d \in Clients : Len(up[d]) < MaxUp /\ Len(down[d]) < MaxDown
       /\ \/ Login(c) \/ Logout(c) \/ Disconnect(c) \/ CheckWifi(c)
          \/ \E at \in Target : Connect(c, at)
          \/ \E ports \in BOOLEAN : AcceptDialog(c, ports)

Handle(c) == HandleState(c) \/ HandleTimeout(c) \/ HandleError(c) \/ HandleOther(c)

Next ==
    \/ ManagerStep \/ CrashService \/ RestartService
    \/ \E c \in Clients :
         Serve(c) \/ User(c) \/ Handle(c) \/ CloseError(c) \/ SocketDisconnected(c)

\* Both event loops go on; a user closes an error message.
Fairness ==
    \A c \in Clients : /\ WF_vars(Serve(c)) /\ WF_vars(Handle(c))
                       /\ WF_vars(CloseError(c)) /\ WF_vars(SocketDisconnected(c))

Spec     == Init /\ [][Next]_vars
FairSpec == Spec /\ Fairness

\* The network the port loop is made for: unless the user cuts every attempt
\* short, attempts time out.
BlockedSpec == FairSpec /\ SF_vars(ManagerActs("timeout", Manager!TimeOut))

-----------------------------------------------------------------------------
(* Properties.                                                             *)

\* A GUI that was told of a state by its present connection is told of every
\* later one: what it shows, once it has handled what is on its way, is the
\* state of the manager, whoever sent the commands and whatever messages,
\* crashes and reconnections came before.
MirrorsManager ==
    \A c \in Clients :
        worker[c].open /\ worker[c].told =>
            /\ worker[c].m_state = state
            /\ After(gui[c].mState, down[c]) = state

\* The user is asked for another port, and ports are tried in a loop, only
\* while the GUI does not show Connected ("Now that we are connected, stop
\* port loop").
LoopOnlyWhileDown ==
    \A c \in Clients :
        gui[c].mInPortLoop \/ gui[c].dialog => gui[c].mState # "Connected"

\* t is an attempt for the setting at, or what failed binds made of one.
Serves(t, at) == t.node = at.node /\ t.port \in {at.port, Moved}

\* With one GUI the manager works on the server that GUI shows, and on its port
\* or on the one failed binds led it to from there, once it has read the
\* commands that GUI sent.
AttemptMatchesSetting ==
    \A c \in Clients :
        Clients = {c} /\ up[c] = <<>> /\ target # None => Serves(target, gui[c].at)

\* On a network that blocks some ports the loop over ports comes to each of
\* them, wherever it began, unless it connects.
EveryPortTried ==
    \A c \in Clients, p \in 1..Ports :
        (gui[c].mInPortLoop /\ gui[c].mChangingPorts)
            ~> (gui[c].at.port = p \/ ~gui[c].mInPortLoop \/ ~gui[c].mChangingPorts)

\* connectiondialog.cpp: "user wants to disconnect": nothing but the user
\* connects again.
DisconnectHolds ==
    [][\A c \in Clients :
          HandleTimeout(c) /\ gui[c].mUserRequestedDisconnect => up'[c] = up[c]]_vars

=============================================================================
