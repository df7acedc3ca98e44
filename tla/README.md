# A TLA+ model of the Celo VPN desktop application

The repository holds a VPN client in two processes. The *GUI*
(`src/src/celovpn`, runs as the user) chooses a server, a port and an
encryption. The *service* (`src/src/service`, runs as root, kept alive by
launchd, systemd or the service control manager) downloads the server's OpenVPN
configuration, launches the OpenVPN daemon, talks to its management socket,
watches its log and tells every GUI that is connected what happens. This
directory models the two processes, their windows and preferences, the way the
service is started and stopped, and the protocols between GUI, service and
daemon; it checks them with TLC on small instances and proves the central facts
with TLAPS for all instances.

    user, wifi, map          cmdStart, cmdStop, ...          management socket
    ───────────────►  GUI  ─────────────────────►  service  ◄────────────────►  OpenVPN
                           ◄─────────────────────           ◄──── log file ───  daemon
                              state, timedOut, ...          ──► template server

Both processes are event loops of Qt: a slot runs to its end before the next one
starts, so one slot is one action of the models; what interleaves are the slots,
the messages on their way, the timers, the replies of the network, the child
processes and the daemon. Where that is not so it is modelled as such: the loop
that parses several lines of one read (each line may change what the next one
finds), `QDialog::exec`, which runs a nested event loop inside the handler that
opened the dialog, and the service on Windows, where the service control manager
calls `handler()` on two threads of its own.

## Components

State, operations, how they interact and what makes each correct.

| Component | State it keeps | Operations | Talks to | Hard behaviour | Correct if |
|---|---|---|---|---|---|
| `OpenvpnManager` (service) | `mState`, state timer, management socket, log watcher, templates by server and port class, parameters of the last start, reconnect attempts, error latches | `start`, `stop`, `startConnecting`, `getTemplateFinished`, `continueConnecting`, `checkState`, `reconnectTimeout`, socket and log parsers, `cancel`, `killRunningOpenvpn`, `netDown` | daemon (socket, log, process), template server, all client connections (signals) | late replies, timers that outlive what they were set for, several lines in one read, a daemon nobody owns any more, null socket | the daemon runs the selected server, clients are told every state in order, a connected tunnel is watched, an attempt is decided |
| `QVPNServer`, `QVPNClientConnection` (service) | one worker per connection, its input buffer, `m_state` | dispatch of commands, relay of signals | GUI sockets, `OpenvpnManager::instance()` | several GUIs share one manager; the process may die and is restarted empty | every connection is told every state |
| Service process: `main`, `Service`, `qtservice` on Unix | the control socket and the socket of the GUIs, both names in the file system; whether the service is registered | run by launchd: ask who is there, detach the service; `-i`, `-u`, `-t`; listen, start, terminate, close | launchd, other processes of the same binary | a socket removed by a process that no longer owns it, a second terminate after the first, a crash that leaves the name | who answers "alive" is whom the GUIs reach; a service is found again |
| `qtservice` on Windows | two semaphores, a mutex and a condition, the status, the queue of posted events | `serviceMain`, `handler`, `HandlerThread`, `controllerHandler`, the event filter, install, start from a console | service control manager | three threads, a wait without a condition to test, a status reported without the mutex | no wake-up is lost; running is reported of a service that runs; a stop ends the process |
| `VPNServiceManager` (GUI) | socket, `mState`, `mInPortLoop`, `mChangingPorts`, `mPortDialogShown`, `mUserRequestedDisconnect` | `ensureConnected`, `sendCommand`, `socket_readyRead`, `startPortLoop`, `tryNextPort` | service, settings, dialogs | notifications that arrive late, latches, a socket that broke without notice | the GUI shows the manager's state; the port loop goes on while blocked, stops when connected |
| `WndManager`, `ConnectionDialog`, `LoginWindow`, `MapScreen`, `SettingsScreen`, `TrayIconManager` (GUI) | which screens are visible, which buttons and menu entries are enabled, the dialogs in `exec()` | the buttons, the tray actions, login and logout, updates, what each notification shows | `AuthManager`, `VPNServiceManager`, `Setting` | nested event loops, screens that are made when first used, timers against clicks | screens do not pile up, login is never locked for good, Cancel is there while the VPN is up |
| `LoginWindow`: the wifi watcher (GUI) | timer, autoconnect | `checkWifi`, `Timer_Constructed` | `AuthManager`, `VPNServiceManager` | a periodic action against the user's | it logs in only where the user could |
| `Setting`: server, protocol, ports (GUI) | the choice, by index and by name, over restarts | `setServer`, `setProtocol`, `loadServer`, `loadProtocol`, `switchToNextPort`, `switchToNextNode` | `AuthManager`, the screens that show the choice | signals whose slots change the choice again, lists in another order, indices without a list | what is shown is what a connection uses; all ports are tried |
| `Setting`: preferences; `SettingsScreen` (GUI) | `QSettings`, the autostart file, the boxes and fields of the screen | the handlers of boxes and fields, `setStartup`, `delete_startup`, getters with defaults | the desktop, `cmdStart`, configuration and arguments of the daemon | handlers set off by the constructor, an entry being typed, an autostart file with other content | boxes show what is stored, one autostart entry, no invalid entry reaches a daemon |
| `AuthManager`, `PingWaiter` (GUI) | session, server lists, names, load, a pool of five `ping` processes and their timers, the old address | log in, download the list, ping each server, pick the best, jump | web service, `Setting`, `VPNServiceManager` | workers that finish after the list was rebuilt, timers connected anew for each ping | an answer is filed under the server it is about; all pings end |
| Message framing, log tail | input buffers; the position in the log | `readyRead` of both ends; `openvpnLogfileChanged` | | reads that end inside a message, truncation of the log | no message is torn, every line is parsed once |
| `launchopenvpn`, `netdown`, port forwarding, STUN, `OsSpecific`, logs | none that survives a call | run one command or one request | operating system | | |
| `qtsingleapplication`, `qtlocalpeer`, `qtlockedfile` | | vendored libraries | | | |

`PROJECT.json` lists the same components with what is modelled of each, and the
hazards of this code with the line where each bites and the property that
covers it.

## Modules

| Module | Stands for |
|---|---|
| `OpenvpnManager` | `openvpnmanager.cpp`/`.h` as built for Unix, with the daemon, its log, its management socket and the template replies as environment |
| `VpnContract` | the abstract specification: what the manager promises the connections (state, and the signals of one handler in order) |
| `VpnClients` | the GUIs and their connections, composed with *any* manager that keeps `VpnContract`: `qvpnclientconnection.cpp`, `vpnservicemanager.cpp`, the dialogs, `switchToNextPort`/`switchToNextNode` |
| `MCVpnClients` | the same for TLC (symmetry of interchangeable GUIs) |
| `Screens` | the windows, their buttons and the tray menu: `wndmanager.cpp`, `loginwindow.cpp`, `connectiondialog.cpp`, `trayiconmanager.cpp`, and of `authmanager.cpp` what login, logout and updates do to them |
| `AuthManager` | the server lists and the pool of pings: `authmanager.cpp`, `pingwaiter.cpp` |
| `Choice` | server and protocol, from `setting.cpp` through the lists of `authmanager.cpp` to what `mapscreen.cpp`, `connectiondialog.cpp` and the tray show |
| `Preferences` | boxes and fields of `settingsscreen.cpp`, their store and autostart entry in `setting.cpp`, and what becomes of them in the daemon's configuration, arguments and files (`openvpnmanager.cpp`) |
| `ServiceControl` | the service process on macOS and Linux: `main.cpp`, `service.cpp`, `qtservice.cpp`, `qtservice_unix.cpp`, `qtunixserversocket.cpp` |
| `WinService` | the service process on Windows: `qtservice_win.cpp` |
| `OpenvpnManager_proofs` | in four parts: types, templates and launches; `OpenvpnManager` implements `VpnContract`; what a timeout leaves of an attempt; what is connected is supervised |
| `VpnClients_proofs`, `Screens_proofs`, `AuthManager_proofs`, `Choice_proofs`, `Preferences_proofs`, `ServiceControl_proofs`, `WinService_proofs` | types, invariants and action properties of these modules |

Manager, contract and clients compose by refinement: `OpenvpnManager` has one step
per handler, `VpnContract` has one step for what connections hear of that handler,
and `VpnClients` uses `VpnContract` (`Manager == INSTANCE VpnContract`) in the
place of the manager. Whatever holds of the clients of every such manager holds
of the clients of this one. Two things are needed for that and both are proved:
every step of the manager is a step of the contract (`KeepsContract`), and the
steps that serve `cmdStart` and `cmdStop` are the contract's `Start` and `Stop`
(`AnswersCommands`), because the clients let only those answer a command.

### OpenvpnManager

The C++ object is the record `m`; each of its fields names its member. A method
called by other methods is an operator from record to record (`stop(n)`,
`setState(n, st)`, `startConnecting(n)`, `gotConnected(n)`, ...), and a slot is
an action that composes them in the order of the calls and ends in `Settle`,
which makes the record the new one, sends the template request if
`getTemplate` was called, delivers `SIGTERM` to the daemon if it was written,
and drops the unread lines of a socket that was dropped.

- *Signals* are collected in `m.emits`, in order, anew in each handler.
- *Commands*: `Start`, `Stop`, `NetDown`, `KillRunningOpenvpn`.
- *Templates* are data: `templates[k]` is the key (server, port class) whose
  URL the stored text came from, so "the wrong configuration" can be seen.
  Requests in flight are a set; a reply may come at any time and in any order.
- *The loop over lines* is `batch`: `SocketReadyRead` and
  `OpenvpnLogfileChanged` take what there is, `ParseLine` handles a line a
  step, and no other handler runs until the batch is empty.
- *Time* is one flag, `elapsed`: `kTryNextPortSeconds` have passed since
  `mStartDateTime`. Every launch and every timeout resets it.
- *The daemon* (external) has a phase, from the management hold over
  authentication to connected and exiting, and the template it runs. It says
  its lines only to an attached management client, may refuse the credentials,
  complain, fail, lose its tunnel, exit or crash, as `Faults` allows.
- *Crash*: a query line parsed after an earlier line of the same read dropped
  the socket uses a null pointer; the service dies, the daemon lives on,
  `Restart` is launchd.
- *The log* has four lines the manager reacts to (`AllLogLines`): a failed bind, a
  new address, the end of the initialization, which calls `gotConnected` like the
  CONNECTED of the management socket but has no address in it (`Addressed`), and an
  error of the tunnel. A daemon whose tunnel comes up may write the second and the
  third; the watcher that reads them outlives the socket and the timer.
- *Undefined values*: `mReconnect` is never assigned, so it is any of
  `Reconnects`; with `{FALSE, TRUE}` both builds are explored.

Abstracted: the text of configuration, arguments and log, all but the lines the
manager reacts to; ports but for the classes that `serverKey` tells apart; the
answer of the `ps` script, which may miss a running daemon (500 ms limit).

### VpnContract

`Enter(st)` announces a state when it changes. `Start` leaves the present
attempt and enters Connecting; `Stop`; `Retry`; `Connect` (the address before the
state, when the line that says so has one); `TimeOut` (Disconnected before timedOut, and only of an attempt);
`Fail` (error before or after the state); `Report`; and `Die`, the silent end of
the process.

### VpnClients

For each GUI: its fields that steer the protocol (`gui[c]`), the two directions
of the socket (`up[c]`, `down[c]`, first in first out), the connection object
in the service (`worker[c]`). The manager is `state`, `sent`; `target` and
`creds` are the two things the service remembers from commands. Actions:

- service: `Serve` (a command), `ManagerStep` (an unprovoked step of the
  manager), each followed by `Broadcast` to all open connections;
  `CrashService`, `RestartService`; of the manager's own steps `BindFails` leaves the
  port of the command for the next one (`Moved`: nothing is connected to the signal
  `switchingPort`, so no GUI hears of it), the others go on with the attempt
  (`ManagerActs`);
- user: `Login`, `Connect`, `Disconnect`, `Logout`, `CheckWifi`,
  `AcceptDialog`, `RejectDialog`, `RestartGui`;
- notifications: `HandleState`, `HandleTimeout`, `HandleError`, `HandleOther`,
  and `SocketDisconnected`, `CloseError`.

`Send` contains `ensureConnected`: it connects if there is no socket, loses the
command if the socket broke without notice, and gives up without a service. A
modal error dialog holds `socket_readyRead` but not the buttons of the tray. A
broken connection may lose what an error dialog kept from being read.
`mState` is not initialised by the constructor, so a new GUI has any.

The other modules each take one part of a process and leave what it hears from
the rest open: `Screens` and `Choice` accept every order of notifications (what
the service makes of commands is `VpnClients`), `Choice` and `AuthManager` every
list a login may bring, `Preferences` every moment for a connection, and
`ServiceControl` a service that may crash whenever it serves. Whatever holds of
them holds in the program, which allows fewer orders.

### Screens

`visible` is the set of screens that are shown, `dialog`, `map` and `login` what
steers their buttons, `tray` and `menu` the entries that are enabled, `modal` the
stack of handlers that wait in `exec()`. While a dialog is open the other windows
get no clicks (`OnScreen`), but timers, replies, notifications and the tray menu
go on, and may open the next dialog inside. `ScrVisible` is the search of
`WndManager` for the screen to hide, with its order; `ToPrimary`, `To(screen)`
and `ToMap` hide that one and show the other. Login is `Click`, which the button
and the timers (`Timer_Constructed`, `checkWifi`) call alike; its answers are
`ReplyLoaded`, `ReplyFailed`, `CancelLogin`.

Every command can fail: `Send` finds the socket connected or connects it (`Sent`), or
no service can be reached, also three seconds later, and the handler waits in a message
box inside `ensureConnected` (`Unreachable`). So `modal` holds not dialogs but the
*handlers* that wait, by what they will do when the box is closed: `login`, which has
locked its window and set `loggedIn` but has no reply yet, sends the credentials if
there is a connection by then or shows another error, and asks for the list either way
(`LoginGoesOn`); a logout clears the account and the menu (`LogoutGoesOn`); the
confirmed quit quits (`QuitGoesOn`); the end of a login unlocks the window and a
command of a button does nothing (`CloseModal`). A dialog is closed innermost first. Whether
insecure wifi is watched for is left open, as both the preference and the wifi may
change at any time; the answer of the port dialog is in `VpnClients`. The tray's Connect before any screen
that reads the protocols existed ends the program, and so the run of `Choice`.
Abstracted: layout, fonts, the text of fields, what `checkWifi` finds out
(any answer).

### AuthManager

`list` and `mServers` say which login brought the list and how long it is;
`mPings[i]` is not a time but the server it was measured *with*, so that an
answer filed under another server can be seen. `pool[k]` is one worker: its last
process and whom that pings, `mInProgress`, the timer, and `conns`, how often the
timeout of the timer has been connected (each ping connects it once more, so
that a timeout is handled as many times). The handlers map `Pool` records to
`Pool` records; `pingAllServers`, `startWorker`, `pingComplete`, `pingError`,
`pingTerminated` are those of the code (`pingAllServers` queues the list, `Queued`,
and then starts the workers one after the other, `Started`; a timeout is as many
calls of `Timer_Terminate` as there are connections, `Terminated`), and `wild`
notes an index outside the list, after which the program may die (`Ends`). `getServerToJump` and
`sortedServerIds` are given by what they may return, since the answers of pings
are arbitrary. A list may have any length, also none (well-formed XML whose elements
have no name or address), and be shorter than the pool: `PassedOver` names the workers
`pingAllServers` then leaves with a process of an earlier list.

### Choice

`prefs` is what `QSettings` keeps of the choice, by index and by name. A setter
emits a signal whose slots set a combo box, whose slot sets the preference again:
the operators `Store`, `updateLocation`, `repopulateLocations`, `setServer` and
`setProtocol` map a record of preferences and screens to the one where that chain
settles. `lists.ids` grows with each login because `processServersXml` appends to
lists it does not clear, as the code does; `mServers` is made anew, and may be empty
after a login that succeeds. Jump has two callers: the button of the dialog, and the
action of the tray, which any news that the service is disconnected enables, also for
one who is not logged in (`JumpButton`, `JumpTriggered`). `MakeDialog`
and `MakeMap` are the constructors, run when a screen is first shown. `Command`
is what `sendConnectToVPNRequest` reads. The old address and its retries are
`getOldIP` and `processOldIP`. One encryption, since the build has protocols for
one.

### Preferences

`boxes` and `texts` are `QSettings`, `screen` the settings screen with the entry
that is being typed and the fields that are marked as invalid, `autostart` the
lines of the desktop's autostart file (ours and foreign ones), `asked` the
parameters of the last `cmdStart`, `daemon` what the running daemon was started
with. `Construct` includes every handler that the constructor sets off by setting
a box whose preference is not what the form has. `delete_startup` has the code's
search for the end of an entry, which starts at the same place in the text of the
entry and so finds it only at the start of the file. `Connect` may come between
typing and leaving a field. Abstracted: an entry is the default, empty, invalid or
one of `Own`; writing to disk is part of the handler and does not fail; owner and
mode of files are set or the file is missing.

### ServiceControl

`job` is the binary run without arguments, which asks whoever listens on the
control socket and otherwise detaches the service; `proc[p]` is how far a process
of the service is and `listens[p]` on which of its two sockets it listens; `path` and
`gui` are the two names in the file system with whoever bound them last, dead or not.
Either `listen` may fail (`setPath`, `Start`), which the code logs: the process goes on,
deaf to the job's question or to the GUIs. A service crashes where the manager does, in
a slot that runs while it serves (`Crash`). A server's `close` removes the name, and
`qtservice` unlinks it once more (`Close`, `Unlink`): in between another process
may have bound it. `SecondTerminate` is `Service::stop` with a null server.
`Launch` waits until processes have done what they do by themselves: launchd
starts a job again no sooner than ten seconds after the last time. Without that
assumption two fresh services could take the two names over from each other.

### WinService

Three threads with their program counters: `main`, and `thread` for the dispatcher
(`ctl`) and `serviceMain` (`svc`). `handler()` is cut where another thread can
come between: taking the mutex and posting the event (`Handler`), releasing it in
`condition.wait` (`Wait`), having it again (`Woken`), reading the status to report
without the mutex (`Report`) and the arrival of that report (`Deliver`).
`HandleEvent` and `WakeAll` are the two halves of `handleCustomEvent` with the
mutex in the second. `GiveUp` is the main thread's 20 seconds. The service control
manager (`Accepts`, `Tell`) lets through what its documentation says: one control
at a time, none to a service between two states.

## Runs

A property of each run is listed in `PROJECT.json` with a slip of the code under
which it fails (most such operators end in `M`; all are marked `slip`).

All bounds are constants of the configurations. "Acts", "Faults", "CommandSet"
and "LogLines" select what the environment of an instance does, so that a run
has room for what its question needs.

| Run | Asks | Instance | Result |
|---|---|---|---|
| `manager_templates` | `TypeOK`, `TemplateOfServer`, `LaunchServesTarget` | two servers, commands while downloads are in flight or fail, failed binds | holds |
| `manager_liveness` | `ConnectedIsWatched`, `TimeoutLeavesNothing`, `CrashNoticed`, `AttemptDecided` | one server, stops, both values of `mReconnect`, exits, refused credentials, lost tunnels, completions in the log, two lines in flight | holds, the last two under fairness |
| `manager_contract` | `ImplementsContract`, `CommandsAnswered` | one server, all commands, every fault but the loss of the tunnel, three lines of the log | holds |
| `clients_loop` | `TypeOK`, `MirrorsManager`, `LoopOnlyWhileDown`, `AttemptMatchesSetting` | one GUI, two ports, two servers, everything the environment may do | holds |
| `clients_blocked` | `EveryPortTried` | one GUI, three ports, a network that lets attempts time out | holds under fairness |
| `clients_disconnect` | `DisconnectHolds` | two GUIs, one disconnects while a timeout is on its way | violated, see below |
| `screens` | `TypeOK`, `OneSecondaryScreen`, `LoginNeverLocked`, `CancelWhileUp`, `LogoutFindsAMenu` | two handlers waiting inside each other, a service that comes and goes | holds |
| `pings` | `TypeOK`, `PingOfItsServer`, `PingsEnd` | two workers, three logins with lists of none, one, three or four servers or an error | holds, the last under fairness |
| `choice` | `TypeOK`, `ShowsWhatConnects`, `MapRowIsServer`, `MenuNamesServers`, `ShowsOldIp`, `KeepsNamedServer` | three names, lists of up to two servers, two logins in each run of the program | holds |
| `service_unix` | `TypeOK`, `AliveIsReachable`, `Recovers` | three processes, two terminate commands waiting, one process deaf beside the one that starts | holds, the last under fairness |
| `service_win` | `TypeOK`, `RunningIsStarted`, `WaiterIsServed`, `StopCompletes` | the flags of `Service` (none) | holds, the last under fairness |
| `preferences` | `TypeOK`, `BoxesShowStored`, `EntryIffStartup`, `OwnEntryIsUsed`, `TunnelHasNameServers` | three boxes, a name server and the local port, two files to look after, both desktops, an autostart file that is absent, ours or foreign, two entries | holds |

Why the bounds are enough. `MaxPipe` is the number of lines one read of the
management socket may hold: what an earlier line does to a later one needs two
(`manager_liveness`); where the question is not about that, one is used.
`MaxCopies` tells equal requests in flight apart; two equal replies do the same
thing twice, so one more than none is what matters. `MaxShots` counts pending
reconnect timers; each handler is the same whichever timer fires. Two servers
are needed to mix up servers, one port class to launch; the three classes are
all represented as keys. Two ports and two servers make the wrap of one and the
end of the other happen; three ports make "every port" more than "the other
one". Two GUIs are needed for one to hear of the other's commands; a third
would hear the same. `MaxUp` and `MaxDown` bound the queues only for *new*
steps of the user and the manager (a handler that answers a message is never
blocked), so a queue holds up to `MaxDown - 1` signals plus those of one step;
since `Start` and `TimeOut` send two or three signals, one already queues
several. That `MirrorsManager` holds for any number of GUIs is a theorem.

`MaxModal` two lets a handler wait inside another one that waits; a third would wait
inside the second in the same way, which the theorems cover. Two workers are needed for
one to write what another
measured, lists of three and four servers to have more servers than workers and
a list longer than the next, of one server and of none to have one shorter than the
pool; a third login is needed to find workers and timers
of the one before the last. Three names in lists of two make a list that has the
chosen server in another place, one that lost it, and one of another length.
Three processes of the service: one that closes, one that listens and one that is
detached meanwhile. `MaxDeaf` lets `listen` fail as long as no more than one process
runs without a control socket besides the one that starts: such a process is found by
nobody and never ends, so that without the bound all of the instance's processes
would be spent, which those of a system are not; in the proof the bound is any number. Three boxes have three kinds of handlers (fills fields,
writes the autostart file, switches the log), and the others are like the third
without the log; the second name server has the handlers of the first. The
proofs have none of these bounds but keep the constants arbitrary.

Deadlock is checked in every run but `pings`, where everything has ended once the
last login is over and its servers are measured.

### Fairness

`OpenvpnManager!Fairness` is that of the Qt event loop: an event that stays
pending is delivered (template replies, timers, socket and log notifications,
lines of a read), time passes, launchd restarts the service, and a daemon that
was told to exit exits. Nothing is assumed of commands, of the tunnel, of a
daemon nobody told to exit, or of a daemon that never says a word. Weak
fairness suffices since a pending event is disabled only by being handled or
discarded. `VpnClients!Fairness` is the same for the two loops and adds that
the user closes an error message (a modal dialog left open stops the loop for
as long as it is open). `BlockedSpec` adds strong fairness of time-outs: it is
the network the port loop is made for, on which attempts time out again and
again; strong, because the attempt in progress may be replaced by commands
before it times out.

`AuthManager!FairSpec` says that timers of the event loop fire; nothing is
assumed of the `ping` processes, which may never end. `ServiceControl!FairSpec`:
launchd keeps the job alive, and a process that can take its next step takes it
(a process that crashes is not assumed to; that a `listen` succeeds is not assumed
either, but `Recovers` promises a service only if from some time on each service listens
for GUIs). `WinService!FairSpec`: the operating
system runs every thread; no control is assumed to be sent and the 20 seconds
need not run out.

### Disagreements between the code and what it says

*`clients_disconnect`* is a run whose counterexample shows one: disconnecting does
not end the port loop, so a timeout that is on its way connects again
(`vpnservicemanager.cpp:333`, against `connectiondialog.cpp:351`, "user wants to
disconnect").

Others met while modelling, which the models contain and no run is spent on:

- `killRunningOpenvpn` waits for its socket in a loop that ends at once and writes
  SIGTERM only over a connected socket; the daemon it is to kill goes on
  (`openvpnmanager.cpp:1194`, `common.h:52`).
- "Change to next port" after a failed bind of the local management port changes
  the remote port, so the retry fails in the same way; each launch restarts the
  clock, and with the log line arriving in time the attempt never ends
  (`openvpnmanager.cpp:554`). `AttemptDecided` excuses an attempt whose log has such a
  line (or one of a tunnel error, which also starts again); its run has neither. Nor does any GUI hear of the port:
  it shows the one it asked for, so that `AttemptMatchesSetting` speaks of that port or
  what failed binds made of it.
- The log is searched for "Initialization Sequence Completed:" with a colon
  (`openvpnmanager.cpp:561`); the daemons the repository ships
  (`buildlinux/openvpn32`, `buildmac/Resources/openvpn/openvpn-executable`) contain the
  sentence without one. Were the line written, it would enter Connected without telling
  an address, and, after EXITING or a failed verification stopped the timer and left the
  watcher of the log, without supervision: such a daemon's death is never noticed.
  `ConnectedIsWatched` allows this one line and nothing else.
- `setSwitchingPort` increments the port, so the template asked for next is
  filed under a class (`openvpnmanager.cpp:554`, `.h:217`) other than that of the
  URL it was asked with. Servers never mix (that is proved), classes do.
- With `mReconnect` set, a daemon that ends by itself and says so (EXITING) is
  launched again after a second, and each launch restarts the clock: where every
  daemon ends like that the attempt is never decided (`openvpnmanager.cpp:554`).
  `manager_liveness` has daemons that die without a word and leaves fatal errors out.
- When `setRights` throws for the second of two replies the state becomes
  Disconnected and the timer is gone while the daemon of the first reply runs on
  (`openvpnmanager.cpp:239`, `:491`). `manager_liveness` leaves that fault out.
- When `writeConfigFile` fails, the state stays Connecting and no timer runs
  (`openvpnmanager.cpp:165`): `AttemptDecided` speaks of supervised attempts.
- After the port dialog was dismissed no later timeout is reported:
  `mPortDialogShown` is reset by `startPortLoop` only (`vpnservicemanager.cpp:335`).
- A timeout names no attempt, and `HandleTimeout` tests only `mInPortLoop`
  (`vpnservicemanager.cpp:333`): one on its way while the manager connects for another
  client starts the next attempt all the same and takes the new tunnel down.
  `LoopOnlyWhileDown` speaks of what this GUI was shown, not of the manager.
- cmdStop stops neither downloads nor reconnect shots, and a reply or a shot that comes
  later connects again (`openvpnmanager.cpp:376`, `:1232`): a stopped manager need not
  stay stopped.
- A query line parsed after an earlier line of its read dropped the socket ends the
  service on a null pointer (`openvpnmanager.cpp:973`).
- A service whose `listen` fails goes on (`qvpnserver.cpp:70`,
  `qtunixserversocket.cpp:70`). Without a control socket it is never found and a second
  one is started; without the socket of the GUIs it tells the job that it is alive, and
  no GUI finds a service until it is stopped. `AliveIsReachable` and `Recovers` speak of
  services that listen for GUIs.
- `ensureConnected` shows its error in a box of its own inside the handler
  (`vpnservicemanager.cpp:64`): inside `login` the window is locked and `loggedIn` says
  true while nothing was sent or asked for, Cancel does nothing until the boxes are closed,
  and the tray's Connect tries to connect (`authmanager.cpp:104`). The list is asked for in
  the end even if the credentials were not sent.
- Credentials are sent at login, not at each connection to the service; a
  restarted service starts without (`authmanager.cpp:107`, `common.h:53`).
- `switchToNextNode` stops at the last server instead of wrapping
  (`setting.cpp:675`, `common.h:57`).
- Without a stored protocol a connection is asked for with port 1194, of an udp
  protocol, and "tcp" (`setting.cpp:648`, `:695`); before a screen has read the
  protocols the tray's Connect throws in a slot. `ShowsWhatConnects` names that pair as
  what "Not selected" stands for.
- `delete_startup` finds the end of the entry only at the start of the file; with
  other lines before it the entry is not removed and the next one is added to it
  (`setting.cpp:333`). `EntryIffStartup` speaks of files without such lines.
- `dns1()` is documented as empty when there is none (`setting.h`) and returns the
  default; `TunnelHasNameServers` says what follows.
- `QtServiceController::start` and the "already running" answer rest on the control
  socket's name, which a closing process unlinks once more than it owns it
  (`qtunixserversocket.cpp:82`, `qtservice_unix.cpp`): a service started in between
  has no name and a second one may be started.
- `install()` writes the start type as `automaticStartup`, `startupType()` reads
  `startupType` (`qtservice_unix.cpp`).
- `pingAllServers` starts no more workers than the list has servers and leaves the
  others alone: after a list shorter than the pool of five (`authmanager.cpp:398`,
  `authmanager.h:39`) a worker that still pings a server of the list before files
  the answer under that index in the new one. Nothing asks for a shortest length;
  `PingOfItsServer` excepts what such a worker writes (`PassedOver`).
- The main thread of the Windows service gives up after 20 seconds though the
  service control manager may still be about to call `serviceMain`
  (`qtservice_win.cpp:829`).

## Proofs

Assumed of the constants, by name in the module that declares them:
`ConstantsAssumption` (a non-empty set of servers, the selections are subsets of
what exists, the bounds are natural numbers, the absence of a template is not a
template), `ClientsAssumption` (at least one port and one server),
`ScreensAssumption` (a bound on nested dialogs), `AuthAssumption` (at least one
worker; lengths of lists and the bound on logins are natural numbers),
`ChoiceAssumption` (blank and undefined are no names and differ; the bounds are
natural numbers), `PreferencesAssumption` (the
entries `empty`, `default` and `bad` are none of the user's own; names of fields
differ), `ControlAssumption` (no process is called none, the bounds are natural numbers) and `FlagsAssumption`
(flags are those of `qtservice`). TLC evaluates them in every run. One theorem has
a hypothesis of its own, named and explained below: `Supervisable`. The run of its
property satisfies it.

| Theorem | States |
|---|---|
| `TypeCorrect` | `OpenvpnManager!Spec => []TypeOK` |
| `TemplatesOfServer` | `Spec => []TemplateOfServer` |
| `LaunchesServeTarget` | `Spec => LaunchServesTarget` (an action property) |
| `KeepsContract` | `Spec => ImplementsContract`, the refinement |
| `AnswersCommands` | `Spec => CommandsAnswered` |
| `TimeoutsLeaveNothing` | `Spec => []TimeoutLeavesNothing` |
| `ConnectionsAreWatched` | `Supervisable` implies `Spec => ConnectedIsWatched` (an action property) |
| `ClientsTypes` | `VpnClients!Spec => []TypeOK` |
| `Mirrors` | `Spec => []MirrorsManager` |
| `LoopStops` | `Spec => []LoopOnlyWhileDown` |
| `SettingHolds` | `Spec => []AttemptMatchesSetting` |
| `ScreenTypes` | `Screens!Spec => []TypeOK` |
| `AtMostOneSecondaryScreen` | `Spec => []OneSecondaryScreen` |
| `LoginUnlocks` | `Spec => []LoginNeverLocked` |
| `CancelIsOffered` | `Spec => []CancelWhileUp` |
| `LogoutHasAMenu` | `Spec => []LogoutFindsAMenu` |
| `PingTypes` | `AuthManager!Spec => []TypeOK` |
| `PingsOfTheirServers` | `Spec => []PingOfItsServer`, and no worker is `PassedOver` by a list that has a server for each |
| `ChoiceTypes` | `Choice!Spec => []TypeOK` |
| `DialogShowsWhatConnects` | `Spec => []ShowsWhatConnects` |
| `MapShowsServer` | `Spec => []MapRowIsServer` |
| `MenuShowsServers` | `Spec => []MenuNamesServers` |
| `DialogShowsOldIp` | `Spec => []ShowsOldIp` |
| `NamedServerIsKept` | `Spec => KeepsNamedServer` (an action property) |
| `PreferenceTypes` | `Preferences!Spec => []TypeOK` |
| `BoxesAreStored` | `Spec => []BoxesShowStored` |
| `StartupHasOneEntry` | `Spec => []EntryIffStartup` |
| `OwnEntriesAreUsed` | `Spec => []OwnEntryIsUsed` |
| `NameServersReachTunnel` | `Spec => []TunnelHasNameServers` |
| `ControlTypes` | `ServiceControl!Spec => []TypeOK` |
| `AliveMeansReachable` | `Spec => []AliveIsReachable` |
| `ServiceTypes` | `WinService!Spec => []TypeOK` |
| `WaitersAreServed` | `Spec => []WaiterIsServed` |
| `RunningMeansStarted` | `Spec => []RunningIsStarted` |

**Templates.** `TemplateOfServer` is not inductive: what a reply stores is the
URL and the key the object had when the request was made. The invariant that is
(`Agreement`) adds that the object's URL and key name the same server, that each
request in flight does, and that a service that is down has none in flight
(`ServersAgree`, `DownIsEmpty`). A failed bind changes the object's key but only
its port class, which is why the property speaks of the server. A launch happens
only in `TemplateFinished`, with the template filed under the object's key; that
template's server is therefore the server selected last.

**Refinement.** The mapping is `state <- m.mState, sent <- m.emits`. For each
method there is a lemma on what it tells (`Quiet`: nothing; `Enters`: one state,
if it is a new one), for each action of the contract one that recognises it by
the signals sent, and for each handler one that composes the two. The parse
loop is the longest case: what a line does depends on the state the earlier
lines left, never on how they left it.

**Timeouts.** `TimeoutLeavesNothing` speaks of a handler that has told its clients of
a timeout. `Untimed` says that a handler has told of none; each method keeps it,
`stop` included, and so does every handler but `CheckState`. There the timeout is
told after `stop` was called on a manager that is Connecting, and `StopLeaves` says
what such a `stop` leaves: Disconnected, no timer, no socket, no watcher, and
Disconnected told last before the timeout.

**Supervision.** `ConnectedIsWatched` says that no step leads from supervision, or from not
being connected, to Connected without it but the one that parses COMPLETED of the log
(`Completes`): what the log's line does is what the code says of it, and to prove of every
other step that it keeps `Watched` is the theorem (`StaysWatched`). That rests on no CONNECTED
being parsed after the timer was stopped, which is a fact about lines that were said earlier, so that the
invariant (`WatchInv`) is about every line that waits. The timer stops with the
attempt, by a command, a timeout or a failed download, and then the socket and its
lines are gone; or by a line in the middle of a read. Of those, a refusal and a fatal
error drop the socket, and between them and a later CONNECTED the daemon must have
asked for the credentials again, where the service dies of the dropped socket before
it gets further (`Ordered`, `Barred`); EXITING keeps the socket, but a daemon that
said so says nothing more (`LastWords`). `Unwatched` sums it up: without a timer there
is no socket and a question comes before any CONNECTED, or the socket is that of a
daemon on its way out and no CONNECTED is left. The hypothesis `Supervisable` is as
weak as this argument allows, and TLC finds `ConnectedIsWatched` violated without each
of its three parts: with `RIGHTS` among the faults (the second of two template
replies throws in `setRights` and stops the timer of the first one's daemon, which is about
to connect); with a
daemon that says EXITING and goes on; and with `cmdNetdown`, after which RESOLVE stops
the attempt while the CONNECTED of the same read is still to be parsed.

**Clients.** `ClientInv` says of each GUI, its connection and the signals between
them (`Fit`): an open connection is one its GUI knows of; if it was told of a
state, that state and the one the GUI will show after the signals on their way
are the manager's; in that queue each timedOut follows the Disconnected it is
about (`Follows`); and loop and dialog are not there while Connected is shown.
The third part is why the fourth is inductive: the timeout at the head of the
queue always finds Disconnected shown. It rests on the contract alone
(`ManagerLeads`: each step leads a listener from the old state to the new one,
with timeouts framed). The first part is what a crash needs: a GUI that has not
noticed a broken connection has no worker, so nothing the new process says is
taken for the old connection's. Lemmas on `After`, the state after some signals,
give its value on concatenations and tails without recursion: it is the last
state announced.

**Settings.** `AttemptMatchesSetting` is about an empty queue of commands and so not
inductive. `Synced` is: the last `cmdStart` on its way, or else the manager's
target if it has one, names the port and the server the GUI shows (`Serves`: or the
port a failed bind made of it, which no later step but a command changes back). A choice that
could not be sent breaks neither, since then there is no target (`Settled`: no
service, or a connection that broke, means no target and nothing on its way).

**Screens.** `OneSecondaryScreen` is not inductive because a change of screens
hides one screen only. What makes it so (`SameSecondary`): any two visible secondary
screens are the same one, and `ScrVisible`, which looks for them last, then returns
exactly that one; a lemma says what `To` and `ToPrimary` leave visible.
`LoginNeverLocked` is inductive: a login locks the window as it asks for the list or
begins to wait (`Click`), and a handler that waits and would ask or unlock does so, or
waits for the next box, in the step that ends its waiting (`Popped` and `Pushed` say what
the stack of handlers holds after such a step). `CancelWhileUp` needs that a dialog that
was told a state was made (`ToldIsMade`). `LogoutFindsAMenu` needs (`AccountsFit`) that
nobody can log out while a login waits to ask for its list, that no second handler
waits to ask or to log out inside it (`Nested`), and that a logout which waits found the
menu when it began; the menu is never unmade while the program runs.

**Pings.** `PingOfItsServer` says nothing of the workers, and it is they who write. `PingInv`
adds that each worker's process pings the server its `mInProgress` names, of the list
there is (`OnTask`). A login is what could break it: `pingAllServers` fills the queue and
starts every worker, and a worker that is started has its former process disconnected
first; the list may be too short for some of the workers, and those are named (`Over`, of
which `PassedOver` is what the state shows): each either is on its task or was passed over
with a process of an earlier list, and then the ping it writes is of the server of its own
index there (`Noted`). A worker passed over has an index beyond the list, so a list with a
server for each leaves none. Both proofs go through the loops of the code,
over the workers and over the connections of a timer: a recursive function is shown to
exist once (`Iteration`, from induction over a set, `AllNaturals`), and each loop to stay
within the values that are right for the list (`Right`).

**Choice.** Four of the invariants are proved together (`ChoiceInv`), since one handler's chain
of signals passes through all of them: a new list sets the row of the map, the slot of the
map sets the server, and that the dialog. `Fits` says what preferences and screens may be
beside the lists: above all that the map's rows are a prefix of the ids (`lists.ids` only
grows), so that a row found in it is still the row of its server after another login, and
that the row is one of them or none. As long as no list had a server, no server is chosen
anew and the dialog shows the one stored (`lists.ids = <<>>` in `Shown`): a jump by one not
logged in goes to a server of the list of the last login, and the dialog shown after the next
login is brought up to date by that login. `Shown` is what holds when such a chain starts, for
whatever row is selected; each operator (`Store`, `updateLocation`, `repopulateLocations`,
`setServer`, `setProtocol`) then leads from `Shown` to `Shown` with the row of the server
chosen. The port and the transport of `Command` follow from the protocol by its place in the
two lists. `MenuNamesServers` holds because the menu is enabled only as long as the lists stay
(`LoginInv`), and `ShowsOldIp` because the address is asked for only until it is known
(`IpInv`). `NamedServerIsKept` follows from what `serverIxFromName` finds. The searches
(`SelectInSeq`) are treated by what the first place is, whose existence is that of a least
number.

**Preferences.** `EntryIffStartup` needs that a file without foreign content holds at
most one entry and that the one it holds is at its head, where `delete_startup`
finds it (`OneEntry`); its `SubSeq` and concatenations are treated by the library's
facts on sequences. `TunnelHasNameServers` needs `AskedFilled`: what a command asks
for was filled in when it was sent, so nothing that is typed or cleared between
command and launch changes it. `OwnEntryIsUsed` needs `OwnStored`, that an unmarked
own entry not being typed is stored, from the moment the screen is made.

**Service on Unix.** `AliveIsReachable` needs that at most one process is between
being made and serving, and none while the job is asking (`OneStarter`), that the
control socket's name, if somebody listens there, is its starter's: a late close or a
failed `listen` leaves it to nobody (`NameOfStarter`), that only whoever has that name
is told to terminate (`StopsAtPath`, `JobOfPath`), and that nobody listens there or is
being stopped when a process is made (`QuietStart`): the close of an older process then
cannot take the socket of the GUIs from the one that will answer.

**Service on Windows.** Types need the start in step (`InStep`): each semaphore is
released once per process, by the thread whose program counter says so. `Served`:
a thread that posted has its event in the queue or `main` is about to wake it; it
can be at `waiting` only after the mutex was released and `WakeAll` needs the
mutex, so no wake-up comes between. `Reported`: whatever status a handler has read,
or that is delivered late, is RUNNING or PAUSED only if `start()` has returned.

Model-checked and not proved: the properties under fairness (`CrashNoticed`,
`AttemptDecided`, `EveryPortTried`, `PingsEnd`, `Recovers`, `StopCompletes`), since liveness
needs reasoning about enabledness that the prover does not support. Every safety
property that a run checks and finds to hold is a theorem, one of them under the
hypothesis above.

## Not modelled

- *Message framing and the tail of the log.* The models deliver whole messages and
  whole lines. The GUI's reader has no buffer for a message cut by a read, and a
  log restarted shorter than the position read so far is the hazard of the other;
  both are data of bytes and positions that no other part depends on.
- *The Windows build of the manager* (its process slots, the registry), and of
  `Setting` the autostart entry there. The Unix build is modelled.
- *Code that nobody calls*: the STUN client, obfsproxy, `cmdGetStatus`, and in the
  GUI `cmdNetdown` and `cmdKillRunningOpenvpn` (the manager's side of the last two
  is modelled), `blockOnDisconnect`, `switchingPort`, the setters for IPv6, testing
  and the default name servers; `pause`, `resume` and `sendCommand` of
  `qtservice`. The kill switch is a box that is stored and read by nobody.
- *`-e`* runs the service in the foreground and takes no control socket.
- *Failing writes* of preferences, autostart entry and settings of the service.
- *Single instance, launcher helpers, port forwarding, `OsSpecific`, logs and
  paths*: vendored, one-shot or pure input and output.
- Text of configuration and arguments but for the name servers, the text of
  answers and their parsing, detection of the Linux distribution, layout, fonts,
  icons, windows being moved.

## Plan

Done: the manager, its contract and its refinement; the clients and their protocol;
screens, choice, preferences, pings; the service process on Unix and on Windows.
Left, in order of what is most exposed:

1. A history variable for "a stopped manager stays stopped" (a late template reply
   starts it again, `openvpnmanager.cpp:376`).
2. `MessageFraming`: newline-delimited messages cut anywhere, buffered in the
   service and not in the GUI; the service's reader implements a queue of
   messages. Proof: nothing lost or torn on the buffered side.
3. `LogTail`: position, truncation and growth of the log, a line parsed once.
4. `SingleInstance`: the lock file and the local socket of two GUIs started at once.
5. The composition of `ServiceControl` with `VpnClients`, whose service dies and
   restarts in one step.
