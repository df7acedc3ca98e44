------------------------------ MODULE Screens ------------------------------
(***************************************************************************)
(* The windows of the GUI: which screens WndManager shows, the buttons of  *)
(* the login window and of the connection dialog, the actions of the tray  *)
(* menu, login and logout as the windows see them, and the dialogs that    *)
(* run an event loop of their own.                                         *)
(*                                                                         *)
(* One thread, but every exec() lets timers, replies, notifications and    *)
(* the tray menu go on while the handler that called it waits; modal is    *)
(* the stack of those handlers.  A command to a service that cannot be     *)
(* reached ends in such a dialog too.  Notifications come in any order;    *)
(* what the service makes of commands, and the port loop, is VpnClients.   *)
(***************************************************************************)
EXTENDS Naturals, Sequences, FiniteSets

CONSTANTS
    MaxModal    \* bound: dialogs that run their loop inside each other

ASSUME ScreensAssumption == MaxModal \in Nat \ {0}

VARIABLES
    running,        \* whether the program runs
    linked,         \* mConnected: its socket to the service is connected
    visible,        \* the screens that are visible
    dialog,         \* the ConnectionDialog: NoDialog until it is first needed
    map,            \* the MapScreen: "none", or its connect button "on", "off"
    modal,          \* the handlers waiting in exec(), innermost last
    updating,       \* mUpdateReply: the newest version is being asked for
    loggedIn,       \* mLoggedIn of AuthManager
    reply,          \* mReply: a server list is being downloaded
    login,          \* the LoginWindow
    tray,           \* which actions of the tray menu are enabled
    menu,           \* its Connect to ... menu: "none", "off", "on"
    mState,         \* the state VPNServiceManager knows
    autoconnect     \* the preference: to log in and connect unasked

windows == <<visible, dialog, map>>
account == <<loggedIn, reply, login>>
trayIcon == <<tray, menu>>
vars == <<running, linked, windows, modal, updating, account, trayIcon, mState,
          autoconnect>>

States == {"Disconnected", "Connecting", "Connected"}

Secondary == {"Logs", "Map", "Settings"}
Screen    == {"Connection", "Login"} \cup Secondary

\* The buttons of the dialog: idle offers Connect; busy and up offer Cancel,
\* busy locks the rows as well.  told: a state has reached this dialog.
Dialog   == [made : BOOLEAN, view : {"idle", "busy", "up"}, told : BOOLEAN]
NoDialog == [made |-> FALSE, view |-> "idle", told |-> FALSE]

Login == [ready : BOOLEAN,              \* Timer_Constructed has run
          enabled : BOOLEAN,            \* enableButtons
          connectAfter : BOOLEAN]       \* _ConnectAfterLogin

Tray == [connect : BOOLEAN, disconnect : BOOLEAN, jump : BOOLEAN,
         country : BOOLEAN, logout : BOOLEAN]

\* Handlers in exec() that will ask for a server list: login and, set off by
\* Timer_Constructed or checkWifi, autoLogin, in the box of ensureConnected or
\* (Failed) in the error after it.
Asking == {"login", "loginFailed", "autoLogin", "autoFailed"}

\* Those that will unlock the login window: the handler of a failed login, in its
\* error, also inside a logout, and that of a login that was completed, in the box.
Unlocking == {"unlock", "logoutError"}

\* The others: one with nothing left to do, after an error, a question of an update or
\* the box; a question to quit; in the box, with more to do after it, checkWifi,
\* logoutTriggered and the confirmed quit ("stop").
Kinds == Asking \cup Unlocking \cup {"over", "quit", "wifi", "logout", "stop"}

\* Of the handlers in s one is of these kinds.
Among(kinds, s) == \E k \in DOMAIN s : s[k] \in kinds

TypeOK ==
    /\ mState \in States
    /\ running \in BOOLEAN /\ linked \in BOOLEAN
    /\ visible \subseteq Screen
    /\ dialog \in Dialog
    /\ map \in {"none", "on", "off"}
    /\ modal \in Seq(Kinds)
    /\ updating \in BOOLEAN
    /\ loggedIn \in BOOLEAN /\ reply \in BOOLEAN
    /\ login \in Login
    /\ tray \in Tray
    /\ menu \in {"none", "off", "on"}
    /\ autoconnect \in BOOLEAN

-----------------------------------------------------------------------------
(* WndManager.                                                             *)

\* The screen ScrVisible finds: of several the last it asks.
ScrVisible(v) ==
    IF "Settings" \in v   THEN {"Settings"}
    ELSE IF "Map" \in v   THEN {"Map"}
    ELSE IF "Logs" \in v  THEN {"Logs"}
    ELSE IF "Login" \in v THEN {"Login"}
    ELSE v

TransM(v, to) == v \cup {to}            \* slip: the screen left is not hidden

\* The screen found is hidden (none is: nothing is left to close), to is shown.
trans(v, to) == (v \ ScrVisible(v)) \cup {to}

PrimaryM(in) ==                         \* slip: a dialog not made yet is not made
    IF in THEN IF dialog.made THEN "Connection" ELSE "NULL" ELSE "Login"

Primary(in) == IF in THEN "Connection" ELSE "Login"

\* The dialog exists once it was asked for; it starts as if disconnected.
Instance(d) == IF d.made THEN d ELSE [NoDialog EXCEPT !.made = TRUE]

\* ToPrimary of a user who is logged in or not.
ToPrimary(in) ==
    /\ visible' = trans(visible, Primary(in))
    /\ dialog' = IF in THEN Instance(dialog) ELSE dialog

\* ToSettings, ToLogs.
To(screen) == visible' = trans(visible, screen) /\ UNCHANGED <<dialog, map>>

ToMap ==
    IF loggedIn
    THEN /\ visible' = trans(visible, "Map")
         /\ map' = IF map = "none" THEN "on" ELSE map
         /\ UNCHANGED dialog
    ELSE ToPrimary(FALSE) /\ UNCHANGED map

\* ErrorDialog, ConfirmationDialog and QMessageBox: exec().
Exec(kind) == Len(modal) < MaxModal /\ modal' = Append(modal, kind)

-----------------------------------------------------------------------------
(* The tray menu.                                                          *)

disableActionsOnLogoutM(t) ==           \* slip: the logout action is forgotten
    [t EXCEPT !.jump = FALSE, !.country = FALSE]

disableActionsOnLogout(t) ==
    [t EXCEPT !.logout = FALSE, !.jump = FALSE, !.country = FALSE]

enableButtonsOnLogin(t) ==
    [t EXCEPT !.logout = TRUE, !.jump = TRUE, !.country = TRUE]

updateActionsEnabled(t, connecting) ==
    [t EXCEPT !.connect = ~connecting, !.jump = ~connecting,
              !.country = loggedIn /\ ~connecting,
              !.disconnect = loggedIn /\ connecting]

\* TrayIconManager::stateChanged.  Connected leaves Disconnect as it is.
TrayState(t, st) ==
    CASE st = "Connected" -> [t EXCEPT !.jump = TRUE, !.country = TRUE]
      [] OTHER -> updateActionsEnabled(t, st = "Connecting")

NewTray == [connect |-> TRUE, disconnect |-> FALSE, jump |-> FALSE,
            country |-> FALSE, logout |-> FALSE]

-----------------------------------------------------------------------------
(* The program.                                                            *)

\* ensureConnected: the socket is connected, if need be now; or no service can be
\* reached, also not three seconds later, and the handler waits in the box.
Sent              == linked' = TRUE /\ UNCHANGED modal
Unreachable(kind) == ~linked /\ Exec(kind) /\ UNCHANGED linked
Send(kind)        == Sent \/ Unreachable(kind)

NewLogin == [ready |-> FALSE, enabled |-> TRUE, connectAfter |-> FALSE]

\* main and the constructors.  mState is not initialised: any value.
Init ==
    /\ running = TRUE /\ linked = FALSE
    /\ visible = {"Login"} /\ dialog = NoDialog /\ map = "none" /\ modal = <<>>
    /\ updating = FALSE
    /\ loggedIn = FALSE /\ reply = FALSE /\ login = NewLogin
    /\ tray = NewTray /\ menu = "none"
    /\ mState \in States
    /\ autoconnect \in BOOLEAN

\* The program is started again after it was quit.
Launch ==
    /\ ~running
    /\ running' = TRUE
    /\ visible' = {"Login"} /\ dialog' = NoDialog /\ map' = "none" /\ modal' = <<>>
    /\ updating' = FALSE
    /\ loggedIn' = FALSE /\ reply' = FALSE /\ login' = NewLogin
    /\ tray' = NewTray /\ menu' = "none"
    /\ mState' \in States
    /\ UNCHANGED <<linked, autoconnect>>

\* on_loginButton_clicked in the window l; nothing happens if no name is typed
\* in.  The window is locked and loggedIn set before the credentials are sent, and
\* these are sent before the list is asked for.
Click(l, kind) ==
    \/ /\ ~loggedIn
       /\ login' = [l EXCEPT !.enabled = FALSE]
       /\ loggedIn' = TRUE
       /\ \/ Sent /\ reply' = TRUE
          \/ Unreachable(kind) /\ UNCHANGED reply
    \/ login' = l /\ UNCHANGED <<loggedIn, reply, linked, modal>>

\* Timer_Constructed, 210 ms after the window: no answer of the server is as
\* quick (ReplyLoaded, ReplyFailed wait for it).  checkForUpdates: once a day.
Timer_Constructed ==
    /\ running /\ ~login.ready
    /\ LET l == [login EXCEPT !.ready = TRUE]
       IN  IF autoconnect
           THEN Click([l EXCEPT !.connectAfter = TRUE], "autoLogin")
           ELSE login' = l /\ UNCHANGED <<loggedIn, reply, linked, modal>>
    /\ updating' \in BOOLEAN
    /\ UNCHANGED <<running, windows, trayIcon, mState, autoconnect>>

\* processUpdatesXml: an error or no newer version, or one the user is asked about.
processUpdatesXml ==
    /\ running /\ updating
    /\ updating' = FALSE
    /\ \/ UNCHANGED <<modal, dialog>>
       \/ Exec("over") /\ dialog' = IF loggedIn THEN Instance(dialog) ELSE dialog
    /\ UNCHANGED <<running, linked, visible, map, account, trayIcon, mState, autoconnect>>

UnlockM(l) == [l EXCEPT !.connectAfter = FALSE]     \* slip: enableButtons(true) dropped

\* The end of loggedIn and of loginError: enableButtons(true), no _ConnectAfterLogin.
Unlock(l) == [l EXCEPT !.enabled = TRUE, !.connectAfter = FALSE]

\* The reply has a server list: loginFinished, the slots of serverListsLoaded
\* and of loginCompleted in the order they were connected.
ReplyLoaded ==
    /\ running /\ reply /\ login.ready
    /\ reply' = FALSE /\ loggedIn' = TRUE
    /\ menu' = "on"
    /\ tray' = enableButtonsOnLogin(tray)
    /\ ToPrimary(TRUE)
    /\ \/ login.connectAfter /\ Sent /\ login' = Unlock(login)
       \/ login.connectAfter /\ Unreachable("unlock") /\ UNCHANGED login
       \/ ~login.connectAfter /\ login' = Unlock(login) /\ UNCHANGED <<linked, modal>>
    /\ UNCHANGED <<running, map, updating, mState, autoconnect>>

\* loginError with its dialog, over the handlers outer: the lists are gone, the
\* login window comes to the front, whatever else is visible; the rest waits.
loginError(outer, kind) ==
    /\ Len(outer) < MaxModal
    /\ reply' = FALSE /\ loggedIn' = FALSE
    /\ tray' = disableActionsOnLogout(tray)
    /\ visible' = visible \cup {"Login"}
    /\ modal' = Append(outer, kind)
    /\ UNCHANGED <<dialog, map, login, menu>>

\* The reply failed.
ReplyFailed ==
    /\ running /\ reply /\ login.ready
    /\ loginError(modal, "unlock")
    /\ UNCHANGED <<running, linked, updating, mState, autoconnect>>

\* on_cancelButton_clicked: abort() makes the reply fail at once, and loginError
\* shows nothing.
CancelLogin ==
    /\ running /\ modal = <<>> /\ login.ready
    /\ "Login" \in visible /\ ~login.enabled
    /\ reply
    /\ reply' = FALSE /\ loggedIn' = FALSE
    /\ tray' = disableActionsOnLogout(tray)
    /\ login' = Unlock(login)
    /\ UNCHANGED <<running, linked, windows, modal, menu, updating, mState, autoconnect>>

\* _wifi_processing, or Timer_Constructed has not started the watcher yet.
Unwatched == Among({"wifi", "autoLogin", "autoFailed"}, modal)

\* checkWifi: every five seconds while the preference detectInsecureWifi is set, here
\* when the wifi is insecure.  Either may change at any time, so neither is kept.
checkWifi ==
    /\ running /\ login.ready /\ ~Unwatched /\ mState = "Disconnected"
    /\ IF loggedIn
       THEN Send("wifi") /\ UNCHANGED <<login, reply, loggedIn>>
       ELSE /\ autoconnect
            /\ Click([login EXCEPT !.connectAfter = TRUE], "autoLogin")
    /\ UNCHANGED <<running, windows, trayIcon, updating, mState, autoconnect>>

\* The service crashed or restarts.
socket_disconnected ==
    /\ running /\ linked
    /\ linked' = FALSE
    /\ UNCHANGED <<running, windows, modal, updating, account, trayIcon, mState, autoconnect>>

-----------------------------------------------------------------------------
(* Logout, and the handlers that go on when the innermost dialog is closed.*)

\* The end of logoutTriggered in the window l, from mLoggedIn on: its signal logout
\* cancels a login begun meanwhile without a word.  The list of servers stays.
LoggedOut(l) ==
    /\ loggedIn' = FALSE /\ reply' = FALSE
    /\ login' = IF reply THEN Unlock(l) ELSE l
    /\ ToPrimary(FALSE)
    /\ menu' = "off"                        \* mConnectToMenu is used
    /\ tray' = disableActionsOnLogout(tray)
    /\ UNCHANGED map

\* After its command: AuthManager::logout first aborts a reply, whose error is shown.
Logout(outer) ==
    \/ reply /\ loginError(outer, "logoutError")
    \/ ~reply /\ LoggedOut(login) /\ modal' = outer

Innermost == modal[Len(modal)]
Outer     == SubSeq(modal, 1, Len(modal) - 1)

\* A handler that has at most the login window to unlock.
CloseModal ==
    /\ running /\ modal # <<>>
    /\ \/ /\ Innermost \in {"over", "quit", "wifi"}
          /\ UNCHANGED login
       \/ Innermost = "unlock" /\ login' = Unlock(login)
    /\ modal' = Outer
    /\ UNCHANGED <<running, linked, windows, updating, loggedIn, reply, trayIcon,
                   mState, autoconnect>>

\* login: the credentials are sent if the socket was connected meanwhile, or the
\* error is shown; then the list is asked for, whether they were sent or not.
LoginGoesOn ==
    /\ running /\ modal # <<>>
    /\ \/ /\ ~linked /\ Innermost \in {"login", "autoLogin"}
          /\ ToPrimary(loggedIn)
          /\ modal' = Append(Outer, IF Innermost = "login" THEN "loginFailed"
                                                          ELSE "autoFailed")
          /\ UNCHANGED reply
       \/ /\ \/ linked /\ Innermost \in {"login", "autoLogin"}
             \/ Innermost \in {"loginFailed", "autoFailed"}
          /\ reply' = TRUE /\ modal' = Outer /\ UNCHANGED <<visible, dialog>>
    /\ UNCHANGED <<running, linked, map, updating, loggedIn, login, trayIcon, mState, autoconnect>>

LogoutGoesOn ==
    /\ running /\ modal # <<>>
    /\ \/ Innermost = "logout" /\ Logout(Outer)
       \/ Innermost = "logoutError" /\ LoggedOut(Unlock(login)) /\ modal' = Outer
    /\ UNCHANGED <<running, linked, updating, mState, autoconnect>>

\* quitApplication, confirmed: CloseAll, the command to stop, quit.
QuitGoesOn ==
    /\ running /\ modal # <<>>
    /\ visible' = {}
    /\ \/ /\ Innermost = "quit" /\ ~linked
          /\ modal' = Append(Outer, "stop") /\ UNCHANGED <<running, linked>>
       \/ /\ Innermost \in {"quit", "stop"}
          /\ modal' = <<>> /\ running' = FALSE /\ linked' = FALSE
    /\ UNCHANGED <<dialog, map, updating, account, trayIcon, mState, autoconnect>>

-----------------------------------------------------------------------------
(* What the user does with the screens; a dialog in exec() blocks them all.*)

OnScreen(screen) == running /\ modal = <<>> /\ screen \in visible

Unheard == UNCHANGED <<running, updating, mState>>

Stays == UNCHANGED <<account, trayIcon, autoconnect>> /\ Unheard

Quiet == UNCHANGED <<linked, modal>> /\ Stays      \* nothing is sent

\* Every closeEvent hides its window.
Close ==
    /\ \E screen \in visible :
          OnScreen(screen) /\ visible' = visible \ {screen}
    /\ UNCHANGED <<dialog, map>> /\ Quiet

LoginButton ==
    /\ OnScreen("Login") /\ login.enabled
    /\ Click(login, "login")
    /\ UNCHANGED <<windows, trayIcon, autoconnect>> /\ Unheard

OptionsButton ==
    /\ OnScreen("Login") /\ login.enabled
    /\ To("Settings") /\ Quiet

\* Of the dialog: settings and map, connect and cancel.
ConnectionButtons ==
    /\ OnScreen("Connection")
    /\ \/ To("Settings") /\ Quiet
       \/ dialog.view # "busy" /\ ToMap /\ Quiet
       \/ Send("over") /\ UNCHANGED windows /\ Stays

\* Of the map: back, settings and connect.
MapButtons ==
    /\ OnScreen("Map")
    /\ \/ ToPrimary(loggedIn) /\ UNCHANGED map /\ Quiet
       \/ To("Settings") /\ Quiet
       \/ map = "on" /\ Send("over") /\ UNCHANGED windows /\ Stays

\* Of the settings: back and logs.
SettingsButtons ==
    /\ OnScreen("Settings")
    /\ (ToPrimary(loggedIn) /\ UNCHANGED map) \/ To("Logs")
    /\ Quiet

\* Of the logs: back.
ToScr_Connect ==
    /\ OnScreen("Logs")
    /\ ToPrimary(loggedIn) /\ UNCHANGED map /\ Quiet

\* The checkbox (that of the wifi: checkWifi).
Preferences ==
    /\ OnScreen("Settings")
    /\ autoconnect' = ~autoconnect
    /\ UNCHANGED <<linked, windows, modal, account, trayIcon>> /\ Unheard

\* AuthManager::jump: without a server list there is no server to jump to.
Jump == Send("over") \/ UNCHANGED <<linked, modal>>

JumpButton ==
    /\ OnScreen("Connection") /\ Jump
    /\ UNCHANGED windows /\ Stays

\* quitApplication: of the tray menu, of the cross of the logs.
quitApplication ==
    /\ running
    /\ ToPrimary(loggedIn) /\ Exec("quit")
    /\ UNCHANGED <<linked, map, account, trayIcon, autoconnect>> /\ Unheard

-----------------------------------------------------------------------------
(* The tray menu's actions; no dialog blocks them.                         *)

\* connectTriggered; connectToTriggered for the items of an enabled menu.
TrayConnect ==
    /\ running /\ (tray.connect \/ menu = "on")
    /\ IF loggedIn
       THEN Send("over") /\ UNCHANGED <<login, loggedIn, reply>>
       ELSE Click(login, "login")
    /\ UNCHANGED <<windows, trayIcon, autoconnect>> /\ Unheard

TrayDisconnect ==
    /\ running /\ tray.disconnect
    /\ Send("over")
    /\ UNCHANGED windows /\ Stays

\* statusTriggered, settingsTriggered, logsTriggered, switchCountryTriggered,
\* and CloseAll.
TrayScreens ==
    /\ running
    /\ \/ ToPrimary(loggedIn) /\ UNCHANGED map
       \/ \E screen \in {"Settings", "Logs"} : To(screen)
       \/ tray.country /\ ToMap
       \/ visible' = {} /\ UNCHANGED <<dialog, map>>
    /\ Quiet

jumpTriggered ==
    /\ running /\ tray.jump
    /\ ToPrimary(loggedIn) /\ Jump
    /\ UNCHANGED map /\ Stays

logoutTriggered ==
    /\ running /\ tray.logout
    /\ \/ linked' = TRUE /\ Logout(modal)
       \/ Unreachable("logout") /\ UNCHANGED <<windows, account, trayIcon>>
    /\ UNCHANGED autoconnect /\ Unheard

\* updateStateIcon: every three seconds on macOS.
updateStateIcon ==
    /\ running
    /\ tray' = TrayState(tray, mState)
    /\ UNCHANGED <<linked, windows, modal, account, menu, autoconnect>> /\ Unheard

-----------------------------------------------------------------------------
(* Notifications.                                                          *)

DialogStateM(d, st) ==                  \* slip: Connected shows what idle shows
    IF d.made
    THEN [d EXCEPT !.told = TRUE,
                   !.view = IF st = "Connecting" THEN "busy" ELSE "idle"]
    ELSE d

\* ConnectionDialog::stateChanged.
DialogState(d, st) ==
    IF d.made
    THEN [d EXCEPT !.told = TRUE,
                   !.view = CASE st = "Connected" -> "up"
                              [] st = "Connecting" -> "busy"
                              [] OTHER -> "idle"]
    ELSE d

\* MapScreen::stateChanged.
MapState(st) ==
    IF map = "none" THEN map ELSE IF st = "Connecting" THEN "off" ELSE "on"

\* A state.  WndManager hears it first: a dialog it makes now is not told.
StateChanged(st) ==
    /\ mState' = st
    /\ LET d == DialogState(dialog, st)
       IN  IF st = "Connecting" /\ visible # {}
           THEN /\ visible' = trans(visible, Primary(loggedIn))
                /\ dialog' = IF loggedIn THEN Instance(d) ELSE d
           ELSE dialog' = d /\ UNCHANGED visible
    /\ tray' = TrayState(tray, st)
    /\ map' = MapState(st)
    /\ UNCHANGED modal

\* A word of OpenVPN's: stateWordChanged.
WordChanged ==
    /\ dialog' = IF dialog.made THEN [dialog EXCEPT !.view = "busy"] ELSE dialog
    /\ UNCHANGED <<visible, map, modal, tray, mState>>

\* showErrorMessage.
showErrorMessage ==
    /\ ToPrimary(loggedIn) /\ Exec("over")
    /\ UNCHANGED <<map, tray, mState>>

\* showPortDialog, unless a port loop runs or the dialog was not answered yet
\* (VpnClients says when).  The connection dialog will hear of its result.
TimedOut ==
    \/ /\ visible' = trans(visible, Primary(loggedIn))
       /\ dialog' = Instance(dialog)
       /\ UNCHANGED <<map, modal, tray, mState>>
    \/ UNCHANGED <<windows, modal, tray, mState>>

\* A GUI that is connected hears the service (of an address: no window changes).
Notified ==
    /\ running /\ linked
    /\ \/ \E st \in States : StateChanged(st)
       \/ WordChanged
       \/ showErrorMessage
       \/ TimedOut
    /\ UNCHANGED <<linked, running, updating, account, menu, autoconnect>>

-----------------------------------------------------------------------------
Next == \/ Launch \/ Timer_Constructed \/ ReplyLoaded \/ ReplyFailed \/ CancelLogin
        \/ processUpdatesXml \/ checkWifi \/ socket_disconnected
        \/ CloseModal \/ LoginGoesOn \/ LogoutGoesOn \/ QuitGoesOn
        \/ Close \/ LoginButton \/ OptionsButton
        \/ ConnectionButtons \/ MapButtons \/ SettingsButtons \/ ToScr_Connect
        \/ Preferences \/ JumpButton \/ quitApplication \/ TrayConnect
        \/ TrayDisconnect \/ TrayScreens \/ jumpTriggered \/ logoutTriggered
        \/ updateStateIcon \/ Notified

Spec == Init /\ [][Next]_vars

-----------------------------------------------------------------------------
(* Properties.                                                             *)

\* Of the logs, the map and the settings at most one is visible: only the
\* screen found last is ever hidden, but these are the last it looks for.
OneSecondaryScreen == Cardinality(visible \cap Secondary) <= 1

\* The login window is locked only while an answer is awaited, or while a handler
\* waits that unlocks it (the error of a login; loggedIn in the box of a service that
\* cannot be reached) or that is going to ask for one (login in that box or in its
\* error): no order of cancels, logouts, dialogs, watchers and replies leaves it
\* locked for good.
LoginNeverLocked ==
    running /\ ~login.enabled => reply \/ Among(Unlocking \cup Asking, modal)

\* A dialog a state has reached offers Cancel while the VPN is up or coming.
CancelWhileUp ==
    dialog.told /\ mState # "Disconnected" => dialog.view # "idle"

\* Logout is offered only to one who is logged in, when no login is under way, and
\* also a logout that waits finds the menu it uses (mConnectToMenu is not tested for
\* NULL).
LogoutFindsAMenu ==
    running =>
       /\ tray.logout => loggedIn /\ ~reply
       /\ tray.logout \/ Among({"logout", "logoutError"}, modal) => menu # "none"
=============================================================================
