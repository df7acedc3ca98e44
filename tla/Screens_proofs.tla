---------------------------- MODULE Screens_proofs ----------------------------
(***************************************************************************)
(* Theorems about Screens, for any number of dialogs that run their loop   *)
(* inside each other, and for notifications in any order.                  *)
(*                                                                         *)
(* LoginNeverLocked is inductive with the types; the others are not.       *)
(* OneSecondaryScreen counts, and what is kept is that any two such        *)
(* screens are the same (SameSecondary).  CancelWhileUp needs that only a  *)
(* dialog that exists was told a state (ToldIsMade).  LogoutFindsAMenu     *)
(* needs to know what the handlers that wait will do when they go on: one  *)
(* that will ask for a server list waits only while somebody is logged in, *)
(* logout is not offered and no list is under way, and over it waits no    *)
(* other such handler and no logout (AccountsFit).                         *)
(***************************************************************************)
EXTENDS Screens, FiniteSetTheorems, SequenceTheorems, TLAPS

SameSecondary == \A x, y \in visible \cap Secondary : x = y

ToldIsMade ==
    /\ dialog.told => dialog.made
    /\ CancelWhileUp

Leaving == {"logout", "logoutError"}

Nested(s) == \A j, k \in DOMAIN s :
                j < k /\ s[j] \in Asking => s[k] \notin Asking \cup Leaving

AccountsFit ==
    /\ tray.logout => loggedIn /\ ~reply
    /\ tray.logout \/ Among(Leaving, modal) => menu # "none"
    /\ reply => loggedIn
    /\ Among(Asking, modal) => loggedIn /\ ~reply /\ ~tray.logout
    /\ Nested(modal)

-----------------------------------------------------------------------------
(* The helpers.                                                            *)

\* A screen takes the place of the secondary one, if one is visible.
LEMMA Transition ==
    ASSUME NEW v \in SUBSET Screen, NEW to \in Screen
    PROVE  /\ trans(v, to) \in SUBSET Screen
           /\ (\A x, y \in v \cap Secondary : x = y) =>
                 \A x, y \in trans(v, to) \cap Secondary : x = y
<1>1. trans(v, to) \in SUBSET Screen BY DEF trans
<1>2. ASSUME NEW x \in trans(v, to) \cap Secondary, x # to
      PROVE  x \in v /\ \E y \in v \cap Secondary : y # x
  BY <1>2 DEF trans, ScrVisible, Screen, Secondary
<1>3. QED BY <1>1, <1>2 DEF trans

LEMMA PrimaryScreen ==
    \A in \in BOOLEAN : Primary(in) \in Screen /\ Primary(in) \notin Secondary
BY DEF Primary, Screen, Secondary

LEMMA ToPrimaryShows ==
    ASSUME visible \in SUBSET Screen, dialog \in Dialog, NEW in \in BOOLEAN, ToPrimary(in)
    PROVE  /\ visible' \in SUBSET Screen
           /\ SameSecondary => SameSecondary'
           /\ dialog' \in {dialog, Instance(dialog)}
BY Transition, PrimaryScreen DEF ToPrimary, SameSecondary

LEMMA InstanceIsMade ==
    ASSUME NEW d \in Dialog
    PROVE  /\ Instance(d) \in Dialog /\ Instance(d).made
           /\ d.made => Instance(d) = d
           /\ ~d.made => ~Instance(d).told
BY DEF Instance, Dialog, NoDialog

LEMMA ToMapShows ==
    ASSUME visible \in SUBSET Screen, dialog \in Dialog, loggedIn \in BOOLEAN,
           map \in {"none", "on", "off"}, ToMap
    PROVE  /\ visible' \in SUBSET Screen /\ map' \in {"none", "on", "off"}
           /\ SameSecondary => SameSecondary'
           /\ dialog' = dialog
<1>1. CASE loggedIn
  <2>1. "Map" \in Screen BY DEF Screen, Secondary
  <2>2. QED BY <1>1, <2>1, Transition DEF ToMap, SameSecondary
<1>2. CASE ~loggedIn
  BY <1>2, ToPrimaryShows DEF ToMap, ToPrimary
<1>3. QED BY <1>1, <1>2

\* A command that was sent, or whose handler waits in the box.
LEMMA Sends ==
    ASSUME NEW kind, linked \in BOOLEAN, Send(kind)
    PROVE  linked' \in BOOLEAN /\ modal' \in {modal, Append(modal, kind)}
BY DEF Send, Sent, Unreachable, Exec

\* What a click of the login button changes, in a window that is unlocked or not.
LEMMA Clicked ==
    ASSUME NEW l \in Login, NEW kind, Click(l, kind),
           loggedIn \in BOOLEAN, reply \in BOOLEAN, linked \in BOOLEAN
    PROVE  /\ login' \in Login
           /\ loggedIn' \in BOOLEAN /\ reply' \in BOOLEAN /\ linked' \in BOOLEAN
           /\ \/ ~loggedIn /\ loggedIn' /\ reply' /\ modal' = modal
              \/ ~loggedIn /\ loggedIn' /\ reply' = reply /\ modal' = Append(modal, kind)
              \/ login' = l /\ UNCHANGED <<loggedIn, reply, modal>>
BY DEF Click, Login, Sent, Unreachable, Exec

LEMMA TrayTypes ==
    ASSUME NEW t \in Tray, loggedIn \in BOOLEAN
    PROVE  /\ disableActionsOnLogout(t) \in Tray /\ ~disableActionsOnLogout(t).logout
           /\ enableButtonsOnLogin(t) \in Tray
           /\ \A st \in States : TrayState(t, st) \in Tray /\ TrayState(t, st).logout = t.logout
<1>1. /\ disableActionsOnLogout(t) \in Tray /\ ~disableActionsOnLogout(t).logout
      /\ enableButtonsOnLogin(t) \in Tray
  BY DEF disableActionsOnLogout, enableButtonsOnLogin, Tray
<1>2. ASSUME NEW c \in BOOLEAN
      PROVE  /\ updateActionsEnabled(t, c) \in Tray
             /\ updateActionsEnabled(t, c).logout = t.logout
  BY DEF updateActionsEnabled, Tray
<1>3. ASSUME NEW st \in States
      PROVE  TrayState(t, st) \in Tray /\ TrayState(t, st).logout = t.logout
  <2>1. CASE st = "Connected" BY <2>1 DEF TrayState, Tray
  <2>2. CASE st # "Connected"
    <3>1. PICK c \in BOOLEAN : TrayState(t, st) = updateActionsEnabled(t, c)
      BY <2>2 DEF TrayState
    <3>2. QED BY <1>2, <3>1
  <2>3. QED BY <2>1, <2>2
<1>4. QED BY <1>1, <1>3

\* The stack of the handlers that wait: one more waits ...
LEMMA Pushed ==
    ASSUME NEW s \in Seq(Kinds), NEW kind \in Kinds
    PROVE  /\ Append(s, kind) \in Seq(Kinds)
           /\ \A kinds : Among(kinds, Append(s, kind)) <=> Among(kinds, s) \/ kind \in kinds
           /\ Nested(s) /\ (kind \in Asking \cup Leaving => ~Among(Asking, s))
                 => Nested(Append(s, kind))
<1> DEFINE t == Append(s, kind)
<1>1. /\ Len(s) \in Nat /\ DOMAIN s = 1 .. Len(s)
      /\ t \in Seq(Kinds) /\ Len(t) = Len(s) + 1
      /\ \A k \in 1 .. Len(s) : t[k] = s[k]
      /\ t[Len(s) + 1] = kind
  BY AppendProperties, LenProperties
<1> HIDE DEF t
<1>2. DOMAIN t = 1 .. Len(s) + 1 BY <1>1, LenProperties
<1>3. ASSUME NEW kinds PROVE Among(kinds, t) <=> Among(kinds, s) \/ kind \in kinds
  <2>1. Among(kinds, s) => Among(kinds, t) BY <1>1, <1>2 DEF Among
  <2>2. kind \in kinds => Among(kinds, t) BY <1>1, <1>2 DEF Among
  <2>3. ASSUME Among(kinds, t), kind \notin kinds PROVE Among(kinds, s)
    <3>1. PICK k \in DOMAIN t : t[k] \in kinds BY <2>3 DEF Among
    <3>2. k \in DOMAIN s /\ t[k] = s[k] BY <1>1, <1>2, <2>3, <3>1
    <3>3. QED BY <3>1, <3>2 DEF Among
  <2>4. QED BY <2>1, <2>2, <2>3
<1>4. ASSUME Nested(s), kind \in Asking \cup Leaving => ~Among(Asking, s) PROVE Nested(t)
  <2> SUFFICES ASSUME NEW j \in DOMAIN t, NEW k \in DOMAIN t, j < k, t[j] \in Asking
               PROVE  t[k] \notin Asking \cup Leaving
    BY DEF Nested
  <2>1. j \in DOMAIN s /\ t[j] = s[j] BY <1>1, <1>2
  <2>2. CASE k \in DOMAIN s BY <1>1, <1>4, <2>1, <2>2 DEF Nested
  <2>3. CASE k = Len(s) + 1
    <3>1. Among(Asking, s) BY <2>1 DEF Among
    <3>2. QED BY <1>1, <1>4, <2>3, <3>1
  <2>4. QED BY <1>1, <1>2, <2>2, <2>3
<1>5. QED BY <1>1, <1>3, <1>4 DEF t

\* ... or the innermost goes on.
LEMMA Popped ==
    ASSUME TypeOK, modal # <<>>
    PROVE  /\ Outer \in Seq(Kinds) /\ Innermost \in Kinds
           /\ \A kinds : Among(kinds, modal) <=> Among(kinds, Outer) \/ Innermost \in kinds
           /\ Nested(modal) => Nested(Outer)
           /\ Nested(modal) /\ Innermost \in Asking \cup Leaving => ~Among(Asking, Outer)
<1>1. modal \in Seq(Kinds) /\ DOMAIN modal = 1 .. Len(modal) /\ Len(modal) \in Nat \ {0}
  BY LenProperties, EmptySeq DEF TypeOK
<1>2. /\ Outer \in Seq(Kinds)
      /\ Len(Outer) = Len(modal) - 1
      /\ \A k \in 1 .. Len(modal) - 1 : Outer[k] = modal[k]
  BY <1>1, SubSeqProperties DEF Outer
<1>3. DOMAIN Outer = 1 .. Len(modal) - 1 BY <1>2, LenProperties
<1>4. Innermost \in Kinds /\ Len(modal) \in DOMAIN modal
  BY <1>1, ElementOfSeq DEF Innermost
<1>5. ASSUME NEW kinds
      PROVE  Among(kinds, modal) <=> Among(kinds, Outer) \/ Innermost \in kinds
  <2>1. Among(kinds, Outer) => Among(kinds, modal) BY <1>1, <1>2, <1>3 DEF Among
  <2>2. Innermost \in kinds => Among(kinds, modal) BY <1>4 DEF Among, Innermost
  <2>3. ASSUME Among(kinds, modal), Innermost \notin kinds PROVE Among(kinds, Outer)
    <3>1. PICK k \in DOMAIN modal : modal[k] \in kinds BY <2>3 DEF Among
    <3>2. k # Len(modal) BY <2>3, <3>1 DEF Innermost
    <3>3. k \in DOMAIN Outer /\ Outer[k] = modal[k] BY <1>1, <1>2, <1>3, <3>2
    <3>4. QED BY <3>1, <3>3 DEF Among
  <2>4. QED BY <2>1, <2>2, <2>3
<1>6. Nested(modal) => Nested(Outer)
  <2>1. \A k \in DOMAIN Outer : k \in DOMAIN modal /\ Outer[k] = modal[k]
    BY <1>1, <1>2, <1>3
  <2>2. QED BY <2>1 DEF Nested
<1>7. ASSUME Nested(modal), Innermost \in Asking \cup Leaving, Among(Asking, Outer)
      PROVE  FALSE
  <2>1. PICK j \in DOMAIN Outer : Outer[j] \in Asking BY <1>7 DEF Among
  <2>2. j \in DOMAIN modal /\ j < Len(modal) /\ modal[j] \in Asking
    BY <1>1, <1>2, <1>3, <2>1
  <2>3. QED BY <1>4, <1>7, <2>2 DEF Nested, Innermost
<1>8. QED BY <1>2, <1>4, <1>5, <1>6, <1>7

\* The parts of logout, in a state of the right types.
LEMMA LoginErrors ==
    ASSUME TypeOK, NEW outer \in Seq(Kinds), NEW kind \in Kinds, loginError(outer, kind)
    PROVE  /\ visible' \in SUBSET Screen /\ tray' \in Tray /\ ~tray'.logout
           /\ SameSecondary => SameSecondary'
           /\ modal' = Append(outer, kind) /\ modal' \in Seq(Kinds)
           /\ reply' = FALSE /\ loggedIn' = FALSE /\ UNCHANGED <<dialog, map, login, menu>>
<1>1. /\ visible' = visible \cup {"Login"} /\ tray' = disableActionsOnLogout(tray)
      /\ modal' = Append(outer, kind)
      /\ reply' = FALSE /\ loggedIn' = FALSE /\ UNCHANGED <<dialog, map, login, menu>>
  BY DEF loginError
<1>2. visible' \in SUBSET Screen /\ (SameSecondary => SameSecondary')
  BY <1>1 DEF TypeOK, Screen, Secondary, SameSecondary
<1>3. tray' \in Tray /\ ~tray'.logout BY <1>1, TrayTypes DEF TypeOK
<1>4. modal' \in Seq(Kinds) BY <1>1, Pushed
<1>5. QED BY <1>1, <1>2, <1>3, <1>4

LEMMA Unlocked ==
    ASSUME NEW l \in Login PROVE Unlock(l) \in Login /\ Unlock(l).enabled
BY DEF Unlock, Login

LEMMA LogsOut ==
    ASSUME TypeOK, NEW l \in Login, LoggedOut(l)
    PROVE  /\ visible' \in SUBSET Screen /\ tray' \in Tray /\ ~tray'.logout
           /\ SameSecondary => SameSecondary'
           /\ dialog' = dialog /\ map' = map /\ menu' = "off"
           /\ reply' = FALSE /\ loggedIn' = FALSE
           /\ login' \in Login /\ login' = IF reply THEN Unlock(l) ELSE l
<1>1. /\ ToPrimary(FALSE) /\ tray' = disableActionsOnLogout(tray)
      /\ login' = IF reply THEN Unlock(l) ELSE l
      /\ map' = map /\ menu' = "off" /\ reply' = FALSE /\ loggedIn' = FALSE
  BY DEF LoggedOut
<1>2. visible' \in SUBSET Screen /\ (SameSecondary => SameSecondary')
  BY <1>1, ToPrimaryShows DEF TypeOK
<1>3. tray' \in Tray /\ ~tray'.logout BY <1>1, TrayTypes DEF TypeOK
<1>4. dialog' = dialog BY <1>1 DEF ToPrimary
<1>5. login' \in Login BY <1>1, Unlocked
<1>6. QED BY <1>1, <1>2, <1>3, <1>4, <1>5

-----------------------------------------------------------------------------
(* Types.                                                                  *)

LEMMA InitTypes == Init => TypeOK
<1> SUFFICES ASSUME Init PROVE TypeOK
  OBVIOUS
<1>1. modal \in Seq(Kinds) BY DEF Init
<1>2. QED
  BY <1>1 DEF Init, TypeOK, NewLogin, Login, NewTray, Tray, NoDialog, Dialog, Screen

LEMMA LaunchTypes == ASSUME TypeOK, Launch PROVE TypeOK'
<1>1. modal' \in Seq(Kinds) BY DEF Launch
<1>2. QED
  BY <1>1 DEF Launch, TypeOK, NewLogin, Login, NewTray, Tray, NoDialog, Dialog, Screen

LEMMA LoginTypes ==
    ASSUME TypeOK,
           \/ Timer_Constructed \/ ReplyLoaded \/ ReplyFailed \/ CancelLogin \/ checkWifi
           \/ LoginButton \/ TrayConnect
    PROVE  TypeOK'
<1>0. /\ login \in Login /\ tray \in Tray /\ dialog \in Dialog /\ visible \in SUBSET Screen
      /\ loggedIn \in BOOLEAN /\ reply \in BOOLEAN /\ linked \in BOOLEAN
      /\ autoconnect \in BOOLEAN /\ modal \in Seq(Kinds)
  BY DEF TypeOK
<1>1. /\ "login" \in Kinds /\ "autoLogin" \in Kinds /\ "wifi" \in Kinds
      /\ "over" \in Kinds /\ "unlock" \in Kinds
  BY DEF Kinds, Asking, Unlocking
<1>2. ASSUME NEW kind \in Kinds PROVE Append(modal, kind) \in Seq(Kinds)
  BY <1>0, Pushed
<1>3. CASE Timer_Constructed
  <2> DEFINE l == [login EXCEPT !.ready = TRUE]
             c == [l EXCEPT !.connectAfter = TRUE]
  <2>1. l \in Login /\ c \in Login BY <1>0 DEF Login
  <2>2. \/ Click(c, "autoLogin")
        \/ login' = l /\ UNCHANGED <<loggedIn, reply, linked, modal>>
    BY <1>3 DEF Timer_Constructed
  <2> HIDE DEF l, c
  <2>3. /\ login' \in Login /\ loggedIn' \in BOOLEAN /\ reply' \in BOOLEAN
        /\ linked' \in BOOLEAN /\ modal' \in Seq(Kinds)
    BY <1>0, <1>1, <1>2, <2>1, <2>2, Clicked
  <2>4. QED BY <1>3, <2>3 DEF Timer_Constructed, TypeOK, windows, trayIcon
<1>4. CASE ReplyLoaded
  <2>1. ToPrimary(TRUE) /\ tray' = enableButtonsOnLogin(tray) BY <1>4 DEF ReplyLoaded
  <2>2. visible' \in SUBSET Screen /\ dialog' \in Dialog
    BY <1>0, <2>1, ToPrimaryShows, InstanceIsMade
  <2>3. tray' \in Tray BY <1>0, <2>1, TrayTypes
  <2>4. /\ login' \in {login, Unlock(login)} /\ linked' \in BOOLEAN
        /\ modal' \in {modal, Append(modal, "unlock")}
    BY <1>0, <1>4 DEF ReplyLoaded, Sent, Unreachable, Exec
  <2>5. login' \in Login /\ modal' \in Seq(Kinds) BY <1>0, <1>1, <1>2, <2>4, Unlocked
  <2>6. QED BY <1>4, <2>2, <2>3, <2>4, <2>5 DEF ReplyLoaded, TypeOK
<1>5. CASE ReplyFailed
  <2>1. loginError(modal, "unlock") BY <1>5 DEF ReplyFailed
  <2>2. QED BY <1>0, <1>1, <1>5, <2>1, LoginErrors DEF ReplyFailed, TypeOK
<1>6. CASE CancelLogin
  <2>1. tray' \in Tray BY <1>0, <1>6, TrayTypes DEF CancelLogin
  <2>2. login' \in Login BY <1>0, <1>6, Unlocked DEF CancelLogin
  <2>3. QED BY <1>6, <2>1, <2>2 DEF CancelLogin, TypeOK, windows
<1>7. ASSUME NEW l \in Login, NEW kind \in Kinds, Click(l, kind),
             UNCHANGED <<running, windows, trayIcon, updating, mState, autoconnect>>
      PROVE  TypeOK'
  <2>1. /\ login' \in Login /\ loggedIn' \in BOOLEAN /\ reply' \in BOOLEAN
        /\ linked' \in BOOLEAN /\ modal' \in {modal, Append(modal, kind)}
    BY <1>0, <1>7, Clicked
  <2>2. modal' \in Seq(Kinds) BY <1>0, <1>2, <2>1
  <2>3. QED BY <1>7, <2>1, <2>2 DEF TypeOK, windows, trayIcon
<1>8. ASSUME NEW kind \in Kinds, Send(kind),
             UNCHANGED <<running, windows, account, trayIcon, updating, mState, autoconnect>>
      PROVE  TypeOK'
  <2>1. linked' \in BOOLEAN /\ modal' \in Seq(Kinds) BY <1>0, <1>2, <1>8, Sends
  <2>2. QED BY <1>8, <2>1 DEF TypeOK, windows, trayIcon, account
<1>9. CASE checkWifi
  <2>1. [login EXCEPT !.connectAfter = TRUE] \in Login BY <1>0 DEF Login
  <2>2. CASE loggedIn BY <1>1, <1>8, <1>9, <2>2 DEF checkWifi, account
  <2>3. CASE ~loggedIn BY <1>1, <1>7, <1>9, <2>1, <2>3 DEF checkWifi
  <2>4. QED BY <2>2, <2>3
<1>10. CASE LoginButton
  BY <1>0, <1>1, <1>7, <1>10 DEF LoginButton, Unheard
<1>11. CASE TrayConnect
  <2>1. CASE loggedIn BY <1>1, <1>8, <1>11, <2>1 DEF TrayConnect, account, Unheard
  <2>2. CASE ~loggedIn BY <1>0, <1>1, <1>7, <1>11, <2>2 DEF TrayConnect, Unheard
  <2>3. QED BY <2>1, <2>2
<1>12. QED BY <1>3, <1>4, <1>5, <1>6, <1>9, <1>10, <1>11

LEMMA DialogTypes ==
    ASSUME TypeOK,
           \/ processUpdatesXml \/ quitApplication \/ socket_disconnected
           \/ CloseModal \/ LoginGoesOn \/ LogoutGoesOn \/ QuitGoesOn
    PROVE  TypeOK'
<1>0. /\ login \in Login /\ dialog \in Dialog /\ visible \in SUBSET Screen
      /\ modal \in Seq(Kinds) /\ loggedIn \in BOOLEAN
  BY DEF TypeOK
<1>1. /\ "over" \in Kinds /\ "quit" \in Kinds /\ "stop" \in Kinds
      /\ "loginFailed" \in Kinds /\ "autoFailed" \in Kinds /\ "logoutError" \in Kinds
  BY DEF Kinds, Asking, Unlocking
<1>2. CASE processUpdatesXml
  <2>1. modal' \in Seq(Kinds) /\ dialog' \in Dialog
    BY <1>0, <1>1, <1>2, Pushed, InstanceIsMade DEF processUpdatesXml, Exec
  <2>2. QED BY <1>2, <2>1 DEF processUpdatesXml, TypeOK, account, trayIcon
<1>3. CASE quitApplication
  <2>1. modal' \in Seq(Kinds) BY <1>0, <1>1, <1>3, Pushed DEF quitApplication, Exec
  <2>2. visible' \in SUBSET Screen /\ dialog' \in Dialog
    BY <1>0, <1>3, ToPrimaryShows, InstanceIsMade DEF quitApplication
  <2>3. QED BY <1>3, <2>1, <2>2 DEF quitApplication, TypeOK, account, trayIcon, Unheard
<1>4. CASE socket_disconnected
  BY <1>4 DEF socket_disconnected, TypeOK, windows, account, trayIcon
<1>5. CASE CloseModal
  <2>1. modal' \in Seq(Kinds) BY <1>5, Popped DEF CloseModal
  <2>2. login' \in Login BY <1>0, <1>5, Unlocked DEF CloseModal
  <2>3. QED BY <1>5, <2>1, <2>2 DEF CloseModal, TypeOK, windows, trayIcon
<1>6. CASE LoginGoesOn
  <2>1. Outer \in Seq(Kinds) BY <1>6, Popped DEF LoginGoesOn
  <2>2. \/ /\ ToPrimary(loggedIn) /\ UNCHANGED reply
           /\ \E kind \in {"loginFailed", "autoFailed"} : modal' = Append(Outer, kind)
        \/ reply' = TRUE /\ modal' = Outer /\ UNCHANGED <<visible, dialog>>
    BY <1>6 DEF LoginGoesOn
  <2>3. modal' \in Seq(Kinds) BY <1>1, <2>1, <2>2, Pushed
  <2>4. visible' \in SUBSET Screen /\ dialog' \in Dialog
    BY <1>0, <2>2, ToPrimaryShows, InstanceIsMade
  <2>5. reply' \in BOOLEAN BY <2>2 DEF TypeOK
  <2>6. QED BY <1>6, <2>3, <2>4, <2>5 DEF LoginGoesOn, TypeOK, trayIcon
<1>7. CASE LogoutGoesOn
  <2>1. Outer \in Seq(Kinds) BY <1>7, Popped DEF LogoutGoesOn
  <2>2. \/ loginError(Outer, "logoutError")
        \/ /\ LoggedOut(login) \/ LoggedOut(Unlock(login))
           /\ modal' = Outer
    BY <1>7 DEF LogoutGoesOn, Logout
  <2>3. CASE loginError(Outer, "logoutError")
    BY <1>0, <1>1, <1>7, <2>1, <2>3, LoginErrors DEF LogoutGoesOn, TypeOK
  <2>4. ASSUME NEW l \in Login, LoggedOut(l), modal' = Outer PROVE TypeOK'
    BY <1>7, <2>1, <2>4, LogsOut DEF LogoutGoesOn, TypeOK
  <2>5. QED BY <1>0, <2>2, <2>3, <2>4, Unlocked
<1>8. CASE QuitGoesOn
  <2>1. Outer \in Seq(Kinds) /\ <<>> \in Seq(Kinds) BY <1>8, Popped DEF QuitGoesOn
  <2>2. modal' \in {<<>>, Append(Outer, "stop")} BY <1>8 DEF QuitGoesOn
  <2>3. modal' \in Seq(Kinds) BY <1>1, <2>1, <2>2, Pushed
  <2>4. visible' = {} /\ running' \in BOOLEAN /\ linked' \in BOOLEAN
    BY <1>8 DEF QuitGoesOn, TypeOK
  <2>5. QED BY <1>8, <2>3, <2>4 DEF QuitGoesOn, TypeOK, account, trayIcon
<1>9. QED BY <1>2, <1>3, <1>4, <1>5, <1>6, <1>7, <1>8

\* What the user does with the screens changes the screens.
LEMMA WindowSteps ==
    ASSUME TypeOK,
           \/ Close \/ OptionsButton \/ ConnectionButtons \/ MapButtons \/ SettingsButtons
           \/ ToScr_Connect \/ Preferences \/ JumpButton \/ TrayDisconnect \/ TrayScreens
           \/ jumpTriggered
    PROVE  /\ visible' \in SUBSET Screen /\ (SameSecondary => SameSecondary')
           /\ dialog' \in {dialog, Instance(dialog)}
           /\ map' \in {"none", "on", "off"} /\ linked' \in BOOLEAN /\ autoconnect' \in BOOLEAN
           /\ modal' \in {modal, Append(modal, "over")}
           /\ UNCHANGED <<running, updating, mState, account, trayIcon>>
<1> DEFINE Shows == /\ visible' \in SUBSET Screen /\ (SameSecondary => SameSecondary')
                    /\ dialog' \in {dialog, Instance(dialog)}
                    /\ map' \in {"none", "on", "off"}
<1>0. /\ visible \in SUBSET Screen /\ dialog \in Dialog /\ loggedIn \in BOOLEAN
      /\ map \in {"none", "on", "off"} /\ linked \in BOOLEAN /\ autoconnect \in BOOLEAN
  BY DEF TypeOK
<1>1. ASSUME NEW screen \in Secondary, visible' = trans(visible, screen),
             UNCHANGED <<dialog, map>>
      PROVE  Shows
  <2>1. screen \in Screen BY DEF Screen
  <2>2. QED BY <1>0, <1>1, <2>1, Transition DEF SameSecondary
<1>2. ASSUME ToMap PROVE Shows BY <1>0, <1>2, ToMapShows
<1>3. ASSUME ToPrimary(loggedIn), UNCHANGED map PROVE Shows
  BY <1>0, <1>3, ToPrimaryShows
<1>4. ASSUME UNCHANGED windows PROVE Shows BY <1>0, <1>4 DEF windows, SameSecondary
<1>5. ASSUME visible' \in SUBSET visible, UNCHANGED <<dialog, map>> PROVE Shows
  BY <1>0, <1>5 DEF SameSecondary
<1>6. "Settings" \in Secondary /\ "Logs" \in Secondary BY DEF Secondary
<1> HIDE DEF Shows
<1>7. Shows
  <2>1. CASE Close BY <1>5, <2>1 DEF Close
  <2>2. CASE OptionsButton \/ SettingsButtons \/ ToScr_Connect
    BY <1>0, <1>1, <1>3, <1>6, <2>2 DEF OptionsButton, SettingsButtons, ToScr_Connect, To
  <2>3. CASE ConnectionButtons \/ MapButtons
    BY <1>0, <1>1, <1>2, <1>3, <1>4, <1>6, <2>3 DEF ConnectionButtons, MapButtons, To
  <2>4. CASE Preferences \/ JumpButton \/ TrayDisconnect
    BY <1>4, <2>4 DEF Preferences, JumpButton, TrayDisconnect
  <2>5. CASE TrayScreens
    BY <1>0, <1>1, <1>2, <1>3, <1>5, <1>6, <2>5 DEF TrayScreens, To
  <2>6. CASE jumpTriggered BY <1>0, <1>3, <2>6 DEF jumpTriggered
  <2>7. QED BY <2>1, <2>2, <2>3, <2>4, <2>5, <2>6
<1>8. linked' \in BOOLEAN /\ modal' \in {modal, Append(modal, "over")}
  <2>1. Send("over") \/ UNCHANGED <<linked, modal>>
    BY DEF Close, OptionsButton, ConnectionButtons, MapButtons, SettingsButtons,
           ToScr_Connect, Preferences, JumpButton, TrayDisconnect, TrayScreens,
           jumpTriggered, Jump, Quiet
  <2>2. QED BY <1>0, <2>1, Sends
<1>9. UNCHANGED <<running, updating, mState, account, trayIcon>>
  BY DEF Close, OptionsButton, ConnectionButtons, MapButtons, SettingsButtons,
         ToScr_Connect, Preferences, JumpButton, TrayDisconnect, TrayScreens,
         jumpTriggered, Stays, Quiet, Unheard
<1>10. autoconnect' \in BOOLEAN
  <2>1. CASE Preferences BY <1>0, <2>1 DEF Preferences
  <2>2. CASE UNCHANGED autoconnect BY <1>0, <2>2
  <2>3. QED
    BY <2>1, <2>2 DEF Close, OptionsButton, ConnectionButtons, MapButtons, SettingsButtons,
                      ToScr_Connect, JumpButton, TrayDisconnect, TrayScreens,
                      jumpTriggered, Stays, Quiet
<1>11. QED BY <1>7, <1>8, <1>9, <1>10 DEF Shows

\* Of what the service says, a state changes what is known and what is shown.
LEMMA Heard ==
    ASSUME TypeOK, Notified
    PROVE  /\ visible' \in SUBSET Screen
           /\ SameSecondary => SameSecondary'
           /\ map' \in {"none", "on", "off"}
           /\ modal' \in {modal, Append(modal, "over")}
           /\ tray' = tray \/ \E st \in States : tray' = TrayState(tray, st)
           /\ dialog' \in Dialog /\ mState' \in States
           /\ ToldIsMade => ToldIsMade'
           /\ UNCHANGED <<running, linked, updating, account, menu, autoconnect>>
<1>0. /\ visible \in SUBSET Screen /\ dialog \in Dialog /\ loggedIn \in BOOLEAN
      /\ map \in {"none", "on", "off"} /\ mState \in States
  BY DEF TypeOK
<1>1. UNCHANGED <<running, linked, updating, account, menu, autoconnect>> BY DEF Notified
<1>2. ASSUME NEW st \in States, StateChanged(st)
      PROVE  /\ visible' \in SUBSET Screen
             /\ SameSecondary => SameSecondary'
             /\ map' \in {"none", "on", "off"} /\ modal' = modal
             /\ tray' = TrayState(tray, st)
             /\ dialog' \in Dialog /\ mState' \in States
             /\ ToldIsMade => ToldIsMade'
  <2> DEFINE d == DialogState(dialog, st)
  <2>1. /\ d \in Dialog
        /\ dialog.made => d.made /\ (st # "Disconnected" => d.view # "idle")
        /\ ~dialog.made => d = dialog
    BY <1>0 DEF DialogState, Dialog, States
  <2>2. /\ mState' = st /\ tray' = TrayState(tray, st) /\ map' = MapState(st)
        /\ modal' = modal
        /\ dialog' \in {d, Instance(d)}
        /\ visible' = visible \/ visible' = trans(visible, Primary(loggedIn))
    BY <1>2 DEF StateChanged
  <2> HIDE DEF d
  <2>3. dialog' \in Dialog BY <2>1, <2>2, InstanceIsMade
  <2>4. map' \in {"none", "on", "off"} BY <1>0, <2>2 DEF MapState
  <2>5. visible' \in SUBSET Screen /\ (SameSecondary => SameSecondary')
    BY <1>0, <2>2, Transition, PrimaryScreen DEF SameSecondary
  <2>6. ToldIsMade => ToldIsMade'
    BY <1>0, <2>1, <2>2, InstanceIsMade DEF ToldIsMade, CancelWhileUp
  <2>7. QED BY <2>2, <2>3, <2>4, <2>5, <2>6
<1>3. CASE WordChanged
  <2>1. /\ UNCHANGED <<visible, map, modal, tray, mState>>
        /\ dialog' = IF dialog.made THEN [dialog EXCEPT !.view = "busy"] ELSE dialog
    BY <1>3 DEF WordChanged
  <2>2. /\ dialog' \in Dialog /\ dialog'.made = dialog.made /\ dialog'.told = dialog.told
        /\ dialog'.view = "busy" \/ dialog' = dialog
    BY <1>0, <2>1 DEF Dialog
  <2>3. QED BY <1>0, <1>1, <2>1, <2>2 DEF ToldIsMade, CancelWhileUp, SameSecondary
<1>4. ASSUME dialog' \in {dialog, Instance(dialog)}, UNCHANGED mState
      PROVE  dialog' \in Dialog /\ (ToldIsMade => ToldIsMade')
  BY <1>0, <1>4, InstanceIsMade DEF ToldIsMade, CancelWhileUp
<1>5. CASE showErrorMessage
  <2>1. /\ UNCHANGED <<map, tray, mState>> /\ ToPrimary(loggedIn)
        /\ modal' = Append(modal, "over")
    BY <1>5 DEF showErrorMessage, Exec
  <2>2. QED BY <1>0, <1>1, <1>4, <2>1, ToPrimaryShows
<1>6. CASE TimedOut
  <2>1. CASE UNCHANGED <<windows, modal, tray, mState>>
    BY <1>0, <1>1, <1>4, <2>1 DEF windows, SameSecondary
  <2>2. CASE /\ visible' = trans(visible, Primary(loggedIn))
             /\ dialog' = Instance(dialog) /\ UNCHANGED <<map, modal, tray, mState>>
    BY <1>0, <1>1, <1>4, <2>2, Transition, PrimaryScreen DEF SameSecondary
  <2>3. QED BY <1>6, <2>1, <2>2 DEF TimedOut
<1>7. QED BY <1>1, <1>2, <1>3, <1>5, <1>6 DEF Notified

LEMMA LogoutTypes == ASSUME TypeOK, logoutTriggered \/ updateStateIcon PROVE TypeOK'
<1>0. tray \in Tray /\ loggedIn \in BOOLEAN /\ mState \in States /\ login \in Login
      /\ modal \in Seq(Kinds)
  BY DEF TypeOK
<1>1. CASE logoutTriggered
  <2>1. "logout" \in Kinds /\ "logoutError" \in Kinds BY DEF Kinds, Unlocking
  <2>2. CASE Unreachable("logout") /\ UNCHANGED <<windows, account, trayIcon>>
    <3>1. modal' = Append(modal, "logout") /\ UNCHANGED linked
      BY <2>2 DEF Unreachable, Exec
    <3>2. modal' \in Seq(Kinds) BY <1>0, <2>1, <3>1, Pushed
    <3>3. QED
      BY <1>1, <2>2, <3>1, <3>2
         DEF logoutTriggered, TypeOK, windows, account, trayIcon, Unheard
  <2>3. CASE linked' = TRUE /\ Logout(modal)
    <3>1. CASE loginError(modal, "logoutError")
      BY <1>0, <1>1, <2>1, <2>3, <3>1, LoginErrors DEF logoutTriggered, TypeOK, Unheard
    <3>2. CASE LoggedOut(login) /\ modal' = modal
      BY <1>0, <1>1, <2>3, <3>2, LogsOut DEF logoutTriggered, TypeOK, Unheard
    <3>3. QED BY <2>3, <3>1, <3>2 DEF Logout
  <2>4. QED BY <1>1, <2>2, <2>3 DEF logoutTriggered
<1>2. CASE updateStateIcon
  <2>1. tray' \in Tray BY <1>0, <1>2, TrayTypes DEF updateStateIcon
  <2>2. QED BY <1>2, <2>1 DEF updateStateIcon, TypeOK, windows, account, Unheard
<1>3. QED BY <1>1, <1>2

LEMMA NextTypes == TypeOK /\ [Next]_vars => TypeOK'
<1> SUFFICES ASSUME TypeOK, [Next]_vars PROVE TypeOK'
  OBVIOUS
<1>1. CASE UNCHANGED vars BY <1>1 DEF vars, windows, account, trayIcon, TypeOK
<1>2. CASE \/ Close \/ OptionsButton \/ ConnectionButtons \/ MapButtons \/ SettingsButtons
           \/ ToScr_Connect \/ Preferences \/ JumpButton \/ TrayDisconnect \/ TrayScreens
           \/ jumpTriggered
  <2>1. dialog' \in Dialog BY <1>2, WindowSteps, InstanceIsMade DEF TypeOK
  <2>2. "over" \in Kinds BY DEF Kinds
  <2>3. modal' \in Seq(Kinds) BY <1>2, <2>2, WindowSteps, Pushed DEF TypeOK
  <2>4. QED BY <1>2, <2>1, <2>3, WindowSteps DEF TypeOK, account, trayIcon
<1>3. CASE Notified
  <2>1. "over" \in Kinds BY DEF Kinds
  <2>2. modal' \in Seq(Kinds) BY <1>3, <2>1, Heard, Pushed DEF TypeOK
  <2>3. tray' \in Tray BY <1>3, Heard, TrayTypes DEF TypeOK
  <2>4. QED BY <1>3, <2>2, <2>3, Heard DEF TypeOK, account
<1>4. QED
  BY <1>1, <1>2, <1>3, LaunchTypes, LoginTypes, DialogTypes, LogoutTypes DEF Next

\* Types, in whatever order the user, the replies and the service come.
THEOREM ScreenTypes == Spec => []TypeOK
BY InitTypes, NextTypes, PTL DEF Spec

-----------------------------------------------------------------------------
(* One secondary screen.                                                   *)

LEMMA SecondaryStep == TypeOK /\ SameSecondary /\ [Next]_vars => SameSecondary'
<1> SUFFICES ASSUME TypeOK, SameSecondary, [Next]_vars PROVE SameSecondary'
  OBVIOUS
<1>0. visible \in SUBSET Screen /\ dialog \in Dialog /\ loggedIn \in BOOLEAN BY DEF TypeOK
<1>1. CASE UNCHANGED visible BY <1>1 DEF SameSecondary
<1>2. CASE visible' \cap Secondary = visible \cap Secondary BY <1>2 DEF SameSecondary
<1>3. CASE visible' = {} \/ visible' = {"Login"} BY <1>3 DEF SameSecondary
<1>4. CASE Launch BY <1>3, <1>4 DEF Launch
<1>5. CASE ReplyFailed BY <1>2, <1>5 DEF ReplyFailed, loginError, Secondary
<1>6. ASSUME NEW in \in BOOLEAN, ToPrimary(in) PROVE SameSecondary'
  BY <1>0, <1>6, ToPrimaryShows
<1>7. CASE ReplyLoaded BY <1>6, <1>7 DEF ReplyLoaded
<1>8. CASE quitApplication BY <1>0, <1>6, <1>8 DEF quitApplication
<1>9. CASE logoutTriggered \/ LogoutGoesOn
  <2>1. UNCHANGED visible \/ (visible' = visible \cup {"Login"}) \/ ToPrimary(FALSE)
    BY <1>9 DEF logoutTriggered, LogoutGoesOn, Logout, LoggedOut, loginError, windows
  <2>2. QED BY <1>1, <1>2, <1>6, <2>1 DEF Secondary
<1>10. CASE CloseModal \/ LoginGoesOn \/ QuitGoesOn
  BY <1>0, <1>1, <1>3, <1>6, <1>10 DEF CloseModal, LoginGoesOn, QuitGoesOn, windows
<1>11. CASE \/ Timer_Constructed \/ CancelLogin \/ checkWifi \/ LoginButton \/ TrayConnect
            \/ processUpdatesXml \/ updateStateIcon \/ socket_disconnected
            \/ UNCHANGED vars
  BY <1>1, <1>11 DEF Timer_Constructed, CancelLogin, checkWifi, LoginButton, TrayConnect,
                     processUpdatesXml, updateStateIcon, socket_disconnected, windows, vars
<1>12. QED
  BY <1>4, <1>5, <1>7, <1>8, <1>9, <1>10, <1>11, WindowSteps, Heard DEF Next

\* Of the logs, the map and the settings one is visible at most, though every
\* change of screens hides only one of those that are.
THEOREM AtMostOneSecondaryScreen == Spec => []OneSecondaryScreen
<1>1. Init => SameSecondary BY DEF Init, SameSecondary
<1>2. TypeOK /\ SameSecondary => OneSecondaryScreen
  <2> SUFFICES ASSUME SameSecondary PROVE OneSecondaryScreen
    OBVIOUS
  <2>1. CASE visible \cap Secondary = {}
    BY <2>1, FS_EmptySet DEF OneSecondaryScreen
  <2>2. CASE visible \cap Secondary # {}
    <3>1. PICK x : visible \cap Secondary = {x} BY <2>2 DEF SameSecondary
    <3>2. QED BY <3>1, FS_Singleton DEF OneSecondaryScreen
  <2>3. QED BY <2>1, <2>2
<1>3. QED BY <1>1, <1>2, InitTypes, NextTypes, SecondaryStep, PTL DEF Spec

-----------------------------------------------------------------------------
(* The login window.                                                       *)

LEMMA LockedStep == TypeOK /\ LoginNeverLocked /\ [Next]_vars => LoginNeverLocked'
<1> DEFINE Excuse == Unlocking \cup Asking
<1> SUFFICES ASSUME TypeOK, LoginNeverLocked, [Next]_vars PROVE LoginNeverLocked'
  OBVIOUS
<1>0. /\ login \in Login /\ loggedIn \in BOOLEAN /\ reply \in BOOLEAN /\ linked \in BOOLEAN
      /\ modal \in Seq(Kinds)
  BY DEF TypeOK
<1>1. CASE /\ running' => running
           /\ login'.enabled = login.enabled /\ UNCHANGED reply
           /\ Among(Excuse, modal) => Among(Excuse, modal')
  BY <1>1 DEF LoginNeverLocked
<1>2. CASE login'.enabled \/ reply' \/ Among(Excuse, modal') \/ ~running'
  BY <1>2 DEF LoginNeverLocked
<1> HIDE DEF Excuse
<1>3. ASSUME NEW kind \in Kinds
      PROVE  /\ Among(Excuse, modal) => Among(Excuse, Append(modal, kind))
             /\ kind \in Excuse => Among(Excuse, Append(modal, kind))
  BY <1>0, Pushed
<1>4. ASSUME modal # <<>>
      PROVE  /\ Innermost \notin Excuse /\ Among(Excuse, modal) => Among(Excuse, Outer)
             /\ Outer \in Seq(Kinds)
  BY <1>4, Popped
<1>5. ASSUME NEW kind \in Kinds, modal' \in {modal, Append(modal, kind)},
             UNCHANGED <<running, account>>
      PROVE  LoginNeverLocked'
  BY <1>1, <1>3, <1>5 DEF account
<1>6. ASSUME NEW l \in Login, NEW kind \in Asking, Click(l, kind),
             l.enabled = login.enabled, UNCHANGED running
      PROVE  LoginNeverLocked'
  <2>1. kind \in Kinds /\ kind \in Excuse BY DEF Kinds, Excuse
  <2>2. \/ reply'
        \/ modal' = Append(modal, kind)
        \/ login' = l /\ UNCHANGED <<reply, modal>>
    BY <1>0, <1>6, Clicked
  <2>3. QED BY <1>1, <1>2, <1>3, <1>6, <2>1, <2>2
<1>7. Unlock(login) \in Login /\ Unlock(login).enabled BY <1>0, Unlocked
<1>8. CASE Launch BY <1>2, <1>8 DEF Launch, NewLogin
<1>9. CASE Timer_Constructed
  <2> DEFINE l == [login EXCEPT !.ready = TRUE]
             c == [l EXCEPT !.connectAfter = TRUE]
  <2>1. c \in Login /\ l.enabled = login.enabled /\ c.enabled = login.enabled
    BY <1>0 DEF Login
  <2>2. \/ Click(c, "autoLogin")
        \/ login' = l /\ UNCHANGED <<loggedIn, reply, modal>>
    BY <1>9 DEF Timer_Constructed
  <2> HIDE DEF l, c
  <2>3. UNCHANGED running /\ "autoLogin" \in Asking BY <1>9 DEF Timer_Constructed, Asking
  <2>4. QED BY <1>1, <1>6, <2>1, <2>2, <2>3
<1>10. CASE LoginButton \/ TrayConnect \/ checkWifi
  <2> DEFINE c == [login EXCEPT !.connectAfter = TRUE]
  <2>1. c \in Login /\ c.enabled = login.enabled BY <1>0 DEF Login
  <2>2. \/ Click(login, "login") \/ Click(c, "autoLogin")
        \/ UNCHANGED account /\ \E kind \in {"over", "wifi"} : Send(kind)
    BY <1>10 DEF LoginButton, TrayConnect, checkWifi, account
  <2> HIDE DEF c
  <2>3. UNCHANGED running BY <1>10 DEF LoginButton, TrayConnect, checkWifi, Unheard
  <2>4. "login" \in Asking /\ "autoLogin" \in Asking /\ {"over", "wifi"} \subseteq Kinds
    BY DEF Asking, Kinds
  <2>5. QED BY <1>0, <1>5, <1>6, <2>1, <2>2, <2>3, <2>4, Sends
<1>11. CASE CancelLogin BY <1>2, <1>7, <1>11 DEF CancelLogin
<1>12. CASE ReplyLoaded
  <2>1. login' = Unlock(login) \/ modal' = Append(modal, "unlock")
    BY <1>12 DEF ReplyLoaded, Unreachable, Exec
  <2>2. "unlock" \in Kinds /\ "unlock" \in Excuse BY DEF Kinds, Unlocking, Excuse
  <2>3. QED BY <1>2, <1>3, <1>7, <2>1, <2>2
<1>13. "logoutError" \in Kinds /\ "logoutError" \in Excuse
       /\ "unlock" \in Kinds /\ "unlock" \in Excuse
  BY DEF Kinds, Unlocking, Excuse
<1>14. ASSUME NEW outer \in Seq(Kinds), NEW kind \in Kinds, kind \in Excuse,
              loginError(outer, kind)
       PROVE  LoginNeverLocked'
  <2>1. modal' = Append(outer, kind) BY <1>14 DEF loginError
  <2>2. Among(Excuse, modal') BY <1>14, <2>1, Pushed
  <2>3. QED BY <1>2, <2>2
<1>15. CASE ReplyFailed BY <1>0, <1>13, <1>14, <1>15 DEF ReplyFailed
<1>16. CASE CloseModal
  <2>1. CASE login' = Unlock(login) BY <1>2, <1>7, <2>1
  <2>2. CASE Innermost \in {"over", "quit", "wifi"} /\ UNCHANGED login
    <3>1. Innermost \notin Excuse BY <2>2 DEF Excuse, Unlocking, Asking
    <3>2. QED BY <1>1, <1>4, <1>16, <2>2, <3>1 DEF CloseModal
  <2>3. QED BY <1>16, <2>1, <2>2 DEF CloseModal
<1>17. CASE LoginGoesOn
  <2>1. reply' \/ \E kind \in {"loginFailed", "autoFailed"} : modal' = Append(Outer, kind)
    BY <1>17 DEF LoginGoesOn
  <2>2. {"loginFailed", "autoFailed"} \subseteq Kinds \cap Excuse
    BY DEF Kinds, Asking, Excuse
  <2>3. reply' \/ Among(Excuse, modal')
    BY <1>4, <1>17, <2>1, <2>2, Pushed DEF LoginGoesOn
  <2>4. QED BY <1>2, <2>3
<1>18. CASE LogoutGoesOn
  <2>1. modal # <<>> /\ UNCHANGED running BY <1>18 DEF LogoutGoesOn
  <2>2. CASE loginError(Outer, "logoutError") BY <1>4, <1>13, <1>14, <2>1, <2>2
  <2>3. CASE Innermost = "logout" /\ ~reply /\ LoggedOut(login) /\ modal' = Outer
    <3>1. login' = login /\ reply' = reply BY <1>0, <2>3 DEF LoggedOut
    <3>2. Innermost \notin Excuse BY <2>3 DEF Excuse, Unlocking, Asking
    <3>3. QED BY <1>1, <1>4, <2>1, <2>3, <3>1, <3>2
  <2>4. CASE LoggedOut(Unlock(login))
    <3>1. login' \in {Unlock(login), Unlock(Unlock(login))} BY <2>4 DEF LoggedOut
    <3>2. login'.enabled BY <1>7, <3>1, Unlocked
    <3>3. QED BY <1>2, <3>2
  <2>5. QED BY <1>18, <2>2, <2>3, <2>4 DEF LogoutGoesOn, Logout
<1>19. CASE QuitGoesOn
  <2>1. CASE running' = FALSE BY <1>2, <2>1
  <2>2. CASE Innermost = "quit" /\ modal' = Append(Outer, "stop") /\ UNCHANGED running
    <3>1. Innermost \notin Excuse /\ "stop" \in Kinds
      BY <2>2 DEF Excuse, Unlocking, Asking, Kinds
    <3>2. Among(Excuse, modal) => Among(Excuse, modal')
      BY <1>4, <1>19, <2>2, <3>1, Pushed DEF QuitGoesOn
    <3>3. QED BY <1>1, <1>19, <2>2, <3>2 DEF QuitGoesOn, account
  <2>3. QED BY <1>19, <2>1, <2>2 DEF QuitGoesOn
<1>20. CASE logoutTriggered
  <2>1. CASE Unreachable("logout") /\ UNCHANGED <<windows, account, trayIcon>>
    <3>1. "logout" \in Kinds BY DEF Kinds
    <3>2. QED
      BY <1>5, <1>20, <2>1, <3>1 DEF logoutTriggered, Unreachable, Exec, Unheard
  <2>2. CASE loginError(modal, "logoutError") BY <1>0, <1>13, <1>14, <2>2
  <2>3. CASE ~reply /\ LoggedOut(login) /\ modal' = modal
    <3>1. login' = login /\ reply' = reply BY <1>0, <2>3 DEF LoggedOut
    <3>2. QED BY <1>1, <1>20, <2>3, <3>1 DEF logoutTriggered, Unheard
  <2>4. QED BY <1>20, <2>1, <2>2, <2>3 DEF logoutTriggered, Logout
<1>21. {"quit", "over"} \subseteq Kinds BY DEF Kinds
<1>22. CASE processUpdatesXml \/ quitApplication
  BY <1>5, <1>21, <1>22 DEF processUpdatesXml, quitApplication, Exec, Unheard
<1>23. CASE Notified BY <1>5, <1>21, <1>23, Heard
<1>24. CASE updateStateIcon \/ socket_disconnected \/ UNCHANGED vars
  BY <1>5, <1>21, <1>24 DEF updateStateIcon, socket_disconnected, vars, Unheard
<1>25. CASE \/ Close \/ OptionsButton \/ ConnectionButtons \/ MapButtons \/ SettingsButtons
            \/ ToScr_Connect \/ Preferences \/ JumpButton \/ TrayDisconnect \/ TrayScreens
            \/ jumpTriggered
  BY <1>5, <1>21, <1>25, WindowSteps
<1>26. QED
  BY <1>8, <1>9, <1>10, <1>11, <1>12, <1>15, <1>16, <1>17, <1>18, <1>19, <1>20, <1>22,
     <1>23, <1>24, <1>25 DEF Next

\* The login window is locked only while an answer is awaited, or a handler waits
\* that unlocks it or asks for one, also when the service cannot be reached in the
\* middle of a login or a logout, and for dialogs nested in any depth.
THEOREM LoginUnlocks == Spec => []LoginNeverLocked
<1>1. Init => LoginNeverLocked BY DEF Init, LoginNeverLocked, NewLogin
<1>2. QED BY <1>1, InitTypes, NextTypes, LockedStep, PTL DEF Spec

-----------------------------------------------------------------------------
(* The connection dialog.                                                  *)

LEMMA ToldStep == TypeOK /\ ToldIsMade /\ [Next]_vars => ToldIsMade'
<1> SUFFICES ASSUME TypeOK, ToldIsMade, [Next]_vars PROVE ToldIsMade'
  OBVIOUS
<1>0. dialog \in Dialog /\ visible \in SUBSET Screen BY DEF TypeOK
<1>1. CASE dialog' \in {dialog, Instance(dialog)} /\ UNCHANGED mState
  BY <1>0, <1>1, InstanceIsMade DEF ToldIsMade, CancelWhileUp
<1>2. CASE Launch BY <1>2 DEF Launch, NoDialog, ToldIsMade, CancelWhileUp
<1>3. CASE Timer_Constructed \/ ReplyFailed \/ CancelLogin \/ checkWifi \/ LoginButton
  BY <1>1, <1>3 DEF Timer_Constructed, ReplyFailed, loginError, CancelLogin, checkWifi,
                    LoginButton, windows, Unheard
<1>4. CASE \/ TrayConnect \/ CloseModal \/ QuitGoesOn \/ updateStateIcon
           \/ socket_disconnected \/ UNCHANGED vars
  BY <1>1, <1>4 DEF TrayConnect, CloseModal, QuitGoesOn, updateStateIcon,
                    socket_disconnected, windows, vars, Unheard
<1>5. CASE ReplyLoaded \/ LoginGoesOn \/ logoutTriggered \/ LogoutGoesOn
  BY <1>1, <1>5 DEF ReplyLoaded, LoginGoesOn, logoutTriggered, LogoutGoesOn, Logout,
                    LoggedOut, loginError, ToPrimary, windows, Unheard
<1>6. CASE quitApplication \/ processUpdatesXml
  BY <1>1, <1>6 DEF quitApplication, processUpdatesXml, ToPrimary, Unheard
<1>7. QED
  BY <1>1, <1>2, <1>3, <1>4, <1>5, <1>6, WindowSteps, Heard DEF Next

\* A dialog that was told a state offers Cancel as long as the VPN is up or
\* coming, also when words of OpenVPN's come between the states.
THEOREM CancelIsOffered == Spec => []CancelWhileUp
<1>1. Init => ToldIsMade BY DEF Init, NoDialog, ToldIsMade, CancelWhileUp
<1>2. ToldIsMade => CancelWhileUp BY DEF ToldIsMade
<1>3. QED BY <1>1, <1>2, InitTypes, NextTypes, ToldStep, PTL DEF Spec

-----------------------------------------------------------------------------
(* The logout action.                                                      *)

LEMMA AccountsStep == TypeOK /\ AccountsFit /\ [Next]_vars => AccountsFit'
<1> SUFFICES ASSUME TypeOK, AccountsFit, [Next]_vars PROVE AccountsFit'
  OBVIOUS
<1>0. /\ tray \in Tray /\ login \in Login /\ loggedIn \in BOOLEAN /\ reply \in BOOLEAN
      /\ linked \in BOOLEAN /\ mState \in States /\ modal \in Seq(Kinds)
  BY DEF TypeOK
<1> USE DEF AccountsFit
<1>1. ASSUME NEW kind \in Kinds
      PROVE  /\ Among(Asking, Append(modal, kind)) <=> Among(Asking, modal) \/ kind \in Asking
             /\ Among(Leaving, Append(modal, kind)) <=> Among(Leaving, modal) \/ kind \in Leaving
             /\ (kind \in Asking \cup Leaving => ~Among(Asking, modal))
                   => Nested(Append(modal, kind))
  BY <1>0, Pushed
<1>2. ASSUME modal # <<>>
      PROVE  /\ Outer \in Seq(Kinds) /\ Nested(Outer)
             /\ Among(Asking, modal) <=> Among(Asking, Outer) \/ Innermost \in Asking
             /\ Among(Leaving, modal) <=> Among(Leaving, Outer) \/ Innermost \in Leaving
             /\ Innermost \in Asking \cup Leaving => ~Among(Asking, Outer)
  BY <1>2, Popped
<1>3. ASSUME NEW outer \in Seq(Kinds), NEW kind \in Kinds, kind \notin Asking,
             Nested(outer), ~Among(Asking, outer)
      PROVE  /\ ~Among(Asking, Append(outer, kind)) /\ Nested(Append(outer, kind))
             /\ Among(Leaving, Append(outer, kind)) => Among(Leaving, outer) \/ kind \in Leaving
  BY <1>3, Pushed
<1>4. /\ {"over", "quit", "wifi", "stop"} \cap (Asking \cup Leaving) = {}
      /\ {"over", "quit", "wifi", "stop"} \subseteq Kinds
      /\ "unlock" \in Kinds /\ "unlock" \notin Asking \cup Leaving
      /\ {"unlock", "logout", "logoutError"} \subseteq Kinds \ Asking
      /\ "unlock" \notin Leaving /\ {"logout", "logoutError"} \subseteq Leaving
      /\ {"login", "autoLogin", "loginFailed", "autoFailed"} \subseteq Kinds \cap Asking
      /\ Asking \cap Leaving = {}
  BY DEF Asking, Leaving, Unlocking, Kinds
<1>5. ASSUME modal' = modal \/ \E kind \in {"over", "quit", "wifi"} :
                                  modal' = Append(modal, kind),
             UNCHANGED <<loggedIn, reply, menu>>, tray'.logout = tray.logout
      PROVE  AccountsFit'
  BY <1>1, <1>4, <1>5
<1>6. CASE Launch
  <2>1. modal' = <<>> BY <1>6 DEF Launch
  <2>2. ~Among(Asking, modal') /\ ~Among(Leaving, modal') /\ Nested(modal')
    BY <2>1 DEF Among, Nested
  <2>3. QED BY <1>6, <2>2 DEF Launch, NewTray
<1>7. ASSUME NEW l \in Login, NEW kind \in {"login", "autoLogin"}, Click(l, kind),
             UNCHANGED trayIcon
      PROVE  AccountsFit'
  <2>1. UNCHANGED <<tray, menu>> BY <1>7 DEF trayIcon
  <2>2. \/ ~loggedIn /\ loggedIn' /\ reply' /\ modal' = modal
        \/ ~loggedIn /\ loggedIn' /\ reply' = reply /\ modal' = Append(modal, kind)
        \/ UNCHANGED <<loggedIn, reply, modal>>
    BY <1>0, <1>7, Clicked
  <2>3. CASE ~loggedIn /\ loggedIn' /\ reply' = reply /\ modal' = Append(modal, kind)
    <3>1. kind \in Kinds /\ kind \in Asking /\ kind \notin Leaving BY <1>4, <1>7
    <3>2. ~reply /\ ~tray.logout /\ ~Among(Asking, modal) BY <2>3
    <3>3. /\ Among(Leaving, modal') => Among(Leaving, modal)
          /\ Nested(modal')
      BY <1>1, <2>3, <3>1, <3>2
    <3>4. QED BY <2>1, <2>3, <3>2, <3>3
  <2>4. CASE ~loggedIn /\ loggedIn' /\ reply' /\ modal' = modal
    BY <2>1, <2>4
  <2>5. QED BY <2>1, <2>2, <2>3, <2>4
<1>8. CASE Timer_Constructed
  <2> DEFINE l == [login EXCEPT !.ready = TRUE]
             c == [l EXCEPT !.connectAfter = TRUE]
  <2>1. c \in Login BY <1>0 DEF Login
  <2>2. /\ Click(c, "autoLogin") \/ UNCHANGED <<loggedIn, reply, modal>>
        /\ UNCHANGED trayIcon
    BY <1>8 DEF Timer_Constructed
  <2> HIDE DEF l, c
  <2>3. QED BY <1>5, <1>7, <2>1, <2>2 DEF trayIcon
<1>9. CASE LoginButton \/ TrayConnect \/ checkWifi
  <2> DEFINE c == [login EXCEPT !.connectAfter = TRUE]
  <2>1. c \in Login BY <1>0 DEF Login
  <2>2. /\ \/ Click(login, "login") \/ Click(c, "autoLogin")
           \/ UNCHANGED <<loggedIn, reply>> /\ \E kind \in {"over", "wifi"} : Send(kind)
        /\ UNCHANGED trayIcon
    BY <1>9 DEF LoginButton, TrayConnect, checkWifi, Unheard
  <2> HIDE DEF c
  <2>3. CASE UNCHANGED <<loggedIn, reply>> /\ \E kind \in {"over", "wifi"} : Send(kind)
    BY <1>0, <1>5, <2>2, <2>3, Sends DEF trayIcon
  <2>4. QED BY <1>0, <1>7, <2>1, <2>2, <2>3
<1>10. CASE ReplyLoaded
  <2>1. /\ reply /\ reply' = FALSE /\ loggedIn' = TRUE /\ menu' = "on"
        /\ modal' \in {modal, Append(modal, "unlock")}
    BY <1>10 DEF ReplyLoaded, Sent, Unreachable, Exec
  <2>2. QED BY <1>1, <1>4, <2>1
<1>11. CASE ReplyFailed
  <2>1. reply /\ loginError(modal, "unlock") BY <1>11 DEF ReplyFailed
  <2>2. /\ modal' = Append(modal, "unlock") /\ ~tray'.logout
        /\ reply' = FALSE /\ UNCHANGED menu
    BY <1>0, <1>4, <2>1, LoginErrors
  <2>3. QED BY <1>0, <1>3, <1>4, <2>1, <2>2
<1>12. CASE CancelLogin
  <2>1. /\ modal' = modal /\ reply /\ reply' = FALSE /\ ~tray'.logout /\ UNCHANGED menu
    BY <1>0, <1>12, TrayTypes DEF CancelLogin
  <2>2. QED BY <2>1
\* A logout that goes on, with the handlers outer under it.
<1>13. ASSUME NEW outer \in Seq(Kinds), Nested(outer), ~Among(Asking, outer), menu # "none",
              \/ loginError(outer, "logoutError")
              \/ modal' = outer /\ \E l \in Login : LoggedOut(l)
       PROVE  AccountsFit'
  <2>1. CASE loginError(outer, "logoutError")
    <3>1. /\ modal' = Append(outer, "logoutError") /\ ~tray'.logout
          /\ reply' = FALSE /\ UNCHANGED menu
      BY <1>4, <1>13, <2>1, LoginErrors
    <3>2. QED BY <1>3, <1>4, <1>13, <3>1
  <2>2. CASE modal' = outer /\ \E l \in Login : LoggedOut(l)
    <3>1. ~tray'.logout /\ reply' = FALSE /\ menu' = "off" BY <2>2, LogsOut
    <3>2. QED BY <1>13, <2>2, <3>1
  <2>3. QED BY <1>13, <2>1, <2>2
<1>14. CASE logoutTriggered
  <2>1. tray.logout /\ ~Among(Asking, modal) /\ menu # "none" BY <1>14 DEF logoutTriggered
  <2>2. CASE Unreachable("logout") /\ UNCHANGED <<windows, account, trayIcon>>
    <3>1. modal' = Append(modal, "logout") BY <2>2 DEF Unreachable, Exec
    <3>2. QED BY <1>1, <1>4, <2>1, <2>2, <3>1 DEF account, trayIcon
  <2>3. CASE Logout(modal) BY <1>0, <1>13, <2>1, <2>3 DEF Logout
  <2>4. QED BY <1>14, <2>2, <2>3 DEF logoutTriggered
<1>15. CASE LogoutGoesOn
  <2>1. /\ modal # <<>> /\ Innermost \in {"logout", "logoutError"}
        /\ \/ loginError(Outer, "logoutError")
           \/ modal' = Outer /\ (LoggedOut(login) \/ LoggedOut(Unlock(login)))
    BY <1>15 DEF LogoutGoesOn, Logout
  <2>2. Innermost \in Leaving BY <1>4, <2>1
  <2>3. menu # "none" /\ ~Among(Asking, Outer) /\ Nested(Outer) /\ Outer \in Seq(Kinds)
    BY <1>2, <2>1, <2>2
  <2>4. QED BY <1>0, <1>13, <2>1, <2>3, Unlocked
<1>16. CASE LoginGoesOn
  <2>1. modal # <<>> /\ Innermost \in Asking BY <1>16 DEF LoginGoesOn, Asking
  <2>2. loggedIn /\ ~tray.logout /\ ~reply /\ ~Among(Asking, Outer) BY <1>2, <2>1
  <2>3. UNCHANGED <<loggedIn, tray, menu>> BY <1>16 DEF LoginGoesOn, trayIcon
  <2>4. \/ reply' = reply /\ \E kind \in {"loginFailed", "autoFailed"} :
                               modal' = Append(Outer, kind)
        \/ reply' = TRUE /\ modal' = Outer
    BY <1>16 DEF LoginGoesOn
  <2>5. CASE reply' = TRUE /\ modal' = Outer BY <1>2, <2>1, <2>2, <2>3, <2>5
  <2>6. ASSUME NEW kind \in {"loginFailed", "autoFailed"}, modal' = Append(Outer, kind),
               reply' = reply
        PROVE  AccountsFit'
    <3>1. kind \in Kinds /\ kind \in Asking /\ kind \notin Leaving BY <1>4
    <3>2. Nested(modal') /\ (Among(Leaving, modal') => Among(Leaving, modal))
      BY <1>2, <2>1, <2>2, <2>6, <3>1, Pushed
    <3>3. QED BY <2>2, <2>3, <2>6, <3>2
  <2>7. QED BY <2>4, <2>5, <2>6
<1>17. CASE CloseModal
  <2>1. /\ modal # <<>> /\ modal' = Outer
        /\ UNCHANGED <<loggedIn, reply, tray, menu>>
    BY <1>17 DEF CloseModal, trayIcon
  <2>2. QED BY <1>2, <2>1
<1>18. CASE QuitGoesOn
  <2>1. modal # <<>> /\ UNCHANGED <<loggedIn, reply, tray, menu>>
    BY <1>18 DEF QuitGoesOn, account, trayIcon
  <2>2. CASE modal' = <<>>
    <3>1. ~Among(Asking, modal') /\ ~Among(Leaving, modal') /\ Nested(modal')
      BY <2>2 DEF Among, Nested
    <3>2. QED BY <2>1, <3>1
  <2>3. CASE modal' = Append(Outer, "stop")
    <3>1. /\ Among(Asking, modal') => Among(Asking, modal)
          /\ Among(Leaving, modal') => Among(Leaving, modal)
          /\ Nested(modal')
      BY <1>2, <1>4, <2>1, <2>3, Pushed
    <3>2. QED BY <2>1, <3>1
  <2>4. QED BY <1>18, <2>2, <2>3 DEF QuitGoesOn
<1>19. CASE processUpdatesXml \/ quitApplication
  BY <1>5, <1>19 DEF processUpdatesXml, quitApplication, Exec, account, trayIcon, Unheard
<1>20. CASE updateStateIcon
  <2>1. tray'.logout = tray.logout BY <1>0, <1>20, TrayTypes DEF updateStateIcon
  <2>2. QED BY <1>5, <1>20, <2>1 DEF updateStateIcon, account, Unheard
<1>21. CASE Notified
  <2>1. tray'.logout = tray.logout BY <1>0, <1>21, Heard, TrayTypes
  <2>2. QED BY <1>5, <1>21, <2>1, Heard DEF account
<1>22. CASE socket_disconnected \/ UNCHANGED vars
  BY <1>5, <1>22 DEF socket_disconnected, vars, account, trayIcon
<1>23. CASE \/ Close \/ OptionsButton \/ ConnectionButtons \/ MapButtons \/ SettingsButtons
            \/ ToScr_Connect \/ Preferences \/ JumpButton \/ TrayDisconnect \/ TrayScreens
            \/ jumpTriggered
  BY <1>5, <1>23, WindowSteps DEF account, trayIcon
<1>24. QED
  BY <1>6, <1>8, <1>9, <1>10, <1>11, <1>12, <1>14, <1>15, <1>16, <1>17, <1>18, <1>19,
     <1>20, <1>21, <1>22, <1>23 DEF Next

\* Logout is offered only after a login was completed and while none is under way,
\* and finds its menu, also if it had to wait in the box of the service meanwhile.
THEOREM LogoutHasAMenu == Spec => []LogoutFindsAMenu
<1>1. Init => AccountsFit
  <2> SUFFICES ASSUME Init PROVE AccountsFit
    OBVIOUS
  <2>1. ~Among(Asking, modal) /\ ~Among(Leaving, modal) /\ Nested(modal)
    BY DEF Init, Among, Nested
  <2>2. QED BY <2>1 DEF Init, AccountsFit, NewTray
<1>2. AccountsFit => LogoutFindsAMenu BY DEF AccountsFit, LogoutFindsAMenu, Leaving
<1>3. QED BY <1>1, <1>2, InitTypes, NextTypes, AccountsStep, PTL DEF Spec
=============================================================================
