------------------------------- MODULE Choice -------------------------------
(***************************************************************************)
(* The server and the protocol a connection is made with: the preferences  *)
(* of Setting, the server lists of AuthManager, and the places that show   *)
(* and change the choice: the combo boxes of MapScreen, the labels of      *)
(* ConnectionDialog and the Connect to ... menu of the tray.               *)
(*                                                                         *)
(* Setting emits serverChanged and protocolChanged, whose slots set combo  *)
(* boxes, whose slots set Setting: a choice is where that chain settles.   *)
(* The lists grow with each login, the preferences outlive the program.    *)
(*                                                                         *)
(* One encryption (RSA), the only one the build has protocols for.         *)
(***************************************************************************)
EXTENDS Integers, Sequences, SequencesExt

CONSTANTS
    Names,      \* names of servers
    Blank,      \* the empty name: what getServer finds outside the list
    Undefined,  \* the name saved when no server was ever saved
    MaxServers, \* bound: length of a server list
    MaxLogins   \* bound: logins of one run of the program

ASSUME ChoiceAssumption ==
    /\ Blank \notin Names /\ Undefined \notin Names /\ Blank # Undefined
    /\ MaxServers \in Nat /\ MaxLogins \in Nat

VARIABLES
    prefs,      \* the choice saved: protocol and server, by index and by name
    loggedIn,   \* mLoggedIn of AuthManager
    reply,      \* a server list is being downloaded
    logins,     \* logins of this run
    lists,      \* mServers, and the ids offered (tcp, udp and RSA are the same)
    screen,     \* the screen gone to last
    map,        \* the MapScreen
    dialog,     \* the ConnectionDialog
    menu,       \* the Connect to ... menu: the ids and names of its items
    sent,       \* the last command to connect
    ip          \* mIPAttemptCount, mIPReply and mOldIP of AuthManager

vars == <<prefs, loggedIn, reply, logins, lists, screen, map, dialog, menu, sent, ip>>

\* Protocols and ports, as the tables of Setting give them.
Transports == <<"udp", "udp", "tcp">>
Ports      == <<1194, 53, 443>>
Protocols  == -1 .. Len(Ports) - 1

\* ids: mServerIds, one for each row after the first.  Rows count from 0, which
\* is "Select location" and "Select protocol".
NoMap    == [made |-> FALSE, ids |-> <<>>, row |-> 0, protocol |-> 0, enabled |-> FALSE]
NoDialog == [made |-> FALSE, server |-> Blank, protocol |-> -1, ip |-> FALSE]
NoMenu   == [enabled |-> FALSE, items |-> <<>>]
NoIp     == [tries |-> 0, asked |-> FALSE, old |-> FALSE]
NoCommand == [server |-> Undefined, port |-> 0, transport |-> ""]

TypeOK ==
    /\ prefs.protocol \in Protocols
    /\ prefs.server \in Nat \cup {-1}
    /\ prefs.name \in Names \cup {Blank, Undefined}
    /\ {loggedIn, reply} \subseteq BOOLEAN /\ logins \in 0 .. MaxLogins
    /\ Range(lists.servers) \subseteq Names /\ Range(lists.ids) \subseteq Nat
    /\ screen \in {"login", "connection", "map"}
    /\ IsPrefix(map.ids, lists.ids) /\ map.row \in {0} \cup DOMAIN map.ids
    /\ map.protocol \in 0 .. Len(Ports) /\ (map.enabled <=> map.protocol > 0)
    /\ dialog.server \in Names \cup {Blank} /\ dialog.protocol \in Protocols
    /\ sent.server \in Names \cup {Blank, Undefined}
    /\ ip \in [tries : 0 .. 4, asked : BOOLEAN, old : BOOLEAN]

Init ==
    /\ prefs = [protocol |-> -1, server |-> 0, name |-> Undefined]
    /\ loggedIn = FALSE /\ reply = FALSE /\ logins = 0
    /\ lists = [servers |-> <<>>, ids |-> <<>>]
    /\ screen = "login" /\ map = NoMap /\ dialog = NoDialog /\ menu = NoMenu
    /\ sent = NoCommand /\ ip = NoIp

-----------------------------------------------------------------------------
(* The lists.                                                              *)

\* getServer: its name.
getServer(l, i) == IF i + 1 \in DOMAIN l.servers THEN l.servers[i + 1] ELSE Blank

serverIxFromName(l, name) == SelectInSeq(l.servers, LAMBDA n : n = name) - 1

\* The row of a server in a combo box that has the ids, 0 if there is none.
RowOf(l, i) == SelectInSeq(l.ids, LAMBDA id : id = i)

\* What getServerToJump may return; see AuthManager for the pings.
getServerToJump(l, previous) ==
    LET others == Range(l.ids) \ {previous}
    IN  IF l.servers = <<>> THEN {-1}
        ELSE IF others # {} THEN others ELSE 0 .. Len(l.servers) - 1

-----------------------------------------------------------------------------
(* The choice: what a setter makes of st, the preferences and the screens  *)
(* that listen to them, with the lists l.                                  *)

Now == [prefs |-> prefs, map |-> map, dialog |-> dialog]

Becomes(st) == prefs' = st.prefs /\ map' = st.map /\ dialog' = st.dialog

updateServer(l, st) ==
    IF st.dialog.made
    THEN [st EXCEPT !.dialog.server = getServer(l, st.prefs.server)] ELSE st

updateProtocol(st) ==
    IF st.dialog.made
    THEN [st EXCEPT !.dialog.protocol = st.prefs.protocol] ELSE st

\* setServer as far as the preferences and the dialog.
Store(l, st, i) ==
    updateServer(l, [st EXCEPT !.prefs.server = i, !.prefs.name = getServer(l, i)])

updateLocationM(l, st) ==               \* slip: the slot is not connected
    [st EXCEPT !.map.row = st.map.row]

\* updateLocation and the handlers it sets off.  A row the combo box does not
\* have yet, of a list longer than the one it was filled with, deselects it, and
\* the handler takes that for the choice of no server.
updateLocation(l, st) ==
    LET row == RowOf(l, st.prefs.server)
    IN  IF ~st.map.made \/ l.ids = <<>> \/ row = st.map.row THEN st
        ELSE IF row \in DOMAIN st.map.ids
        THEN Store(l, [st EXCEPT !.map.row = row], st.map.ids[row])
        ELSE Store(l, [st EXCEPT !.map.row = 0], -1)

setServer(l, st, i) == updateLocation(l, Store(l, st, i))

repopulateLocationsM(l, st) ==          \* slip: rows added to those there are
    IF st.map.made THEN [st EXCEPT !.map.ids = st.map.ids \o l.ids] ELSE st

\* The rows are made anew and the server shown is selected again.
repopulateLocations(l, st) ==
    LET row   == IF st.map.row = 0 THEN 0 ELSE RowOf(l, st.map.ids[st.map.row])
        fresh == [st EXCEPT !.map.ids = l.ids, !.map.row = row]
    IN  IF ~st.map.made THEN st
        ELSE IF row = 0 THEN updateLocation(l, fresh)
        ELSE setServer(l, fresh, l.ids[row])

setProtocol(l, st, ix) ==
    repopulateLocations(l, updateProtocol([st EXCEPT !.prefs.protocol = ix]))

MakeDialogM(l, st) ==                   \* slip: the labels wait for a change
    [st EXCEPT !.dialog.made = TRUE]

\* The constructor of ConnectionDialog.  loadProtocol stores nothing: setProtocol
\* returns while it is loading, so the random first protocol is lost.
MakeDialog(l, st) ==
    IF st.dialog.made THEN st
    ELSE updateProtocol(updateServer(l,
            [st EXCEPT !.dialog.made = TRUE, !.dialog.ip = ip.old]))

\* The constructor of MapScreen: repopulate.
MakeMap(l, st) ==
    IF st.map.made THEN st
    ELSE LET row == st.prefs.protocol + 1
         IN  updateLocation(l, [updateProtocol(st) EXCEPT
                !.map = [made |-> TRUE, ids |-> l.ids, row |-> 0, protocol |-> row,
                         enabled |-> row > 0]])

LoadedM(l) ==                           \* slip: only the index is looked at
    IF prefs.name # Undefined /\ prefs.server + 1 \in DOMAIN l.servers
    THEN {prefs.server} ELSE getServerToJump(l, prefs.server)

\* The server loadServer picks.
Loaded(l) ==
    LET saved == IF prefs.name = Undefined THEN -1 ELSE prefs.server
        found == IF saved = -1 THEN -1
                 ELSE IF getServer(l, saved) = prefs.name /\ prefs.name # Blank THEN saved
                 ELSE serverIxFromName(l, prefs.name)
    IN  IF found = -1 THEN getServerToJump(l, prefs.server) ELSE {found}

-----------------------------------------------------------------------------
(* Login.                                                                  *)

Login ==
    /\ ~loggedIn /\ logins < MaxLogins
    /\ loggedIn' = TRUE /\ reply' = TRUE /\ logins' = logins + 1
    /\ UNCHANGED <<prefs, lists, screen, map, dialog, menu, sent, ip>>

\* An error, an answer that is no list, or the user's cancel.
LoginFails ==
    /\ reply
    /\ reply' = FALSE /\ loggedIn' = FALSE
    /\ lists' = [lists EXCEPT !.servers = <<>>]
    /\ UNCHANGED <<prefs, logins, screen, map, dialog, menu, sent, ip>>

\* The lists a login may bring: some of the servers in any order, or none, if no
\* entry of the answer has a name and an address.
ServerLists == {s \in SeqOf(Names, MaxServers) : IsInjective(s)}

constructConnectToMenuM(l) ==           \* slip: the row taken for the id
    [enabled |-> TRUE, items |-> [k \in DOMAIN l.ids |->
        [id |-> k - 1, name |-> getServer(l, l.ids[k])]]]

constructConnectToMenu(l) ==
    [enabled |-> TRUE, items |-> [k \in DOMAIN l.ids |->
        [id |-> l.ids[k], name |-> getServer(l, l.ids[k])]]]

\* processServersXml, then loggedIn: loadServer and ToPrimary.
ServersLoaded ==
    /\ reply
    /\ \E s \in ServerLists :
          LET l == [servers |-> s, ids |-> lists.ids \o [k \in DOMAIN s |-> k - 1]]
          IN  /\ lists' = l /\ menu' = constructConnectToMenu(l)
              /\ \/ l.ids = <<>> /\ Becomes(MakeDialog(l, Now))
                 \/ l.ids # <<>> /\ \E i \in Loaded(l) :
                       Becomes(MakeDialog(l, setServer(l, Now, i)))
    /\ reply' = FALSE /\ loggedIn' = TRUE /\ screen' = "connection"
    /\ UNCHANGED <<logins, sent, ip>>

\* logoutTriggered, enabled once a login was complete; the items are cleared.
Logout ==
    /\ loggedIn /\ ~reply
    /\ loggedIn' = FALSE /\ screen' = "login" /\ menu' = NoMenu
    /\ UNCHANGED <<prefs, reply, logins, lists, map, dialog, sent, ip>>

\* The program ends, whenever the user quits it, and starts anew with its
\* preferences.
Restarted ==
    /\ loggedIn' = FALSE /\ reply' = FALSE /\ logins' = 0
    /\ lists' = [servers |-> <<>>, ids |-> <<>>]
    /\ screen' = "login" /\ map' = NoMap /\ dialog' = NoDialog /\ menu' = NoMenu
    /\ sent' = NoCommand /\ ip' = NoIp
    /\ UNCHANGED prefs

Restart == Restarted

-----------------------------------------------------------------------------
(* The screens.                                                            *)

\* ToPrimary; while the login window is primary there is nothing to make.
ToPrimary ==
    /\ loggedIn /\ Becomes(MakeDialog(lists, Now)) /\ screen' = "connection"
    /\ UNCHANGED <<loggedIn, reply, logins, lists, menu, sent, ip>>

ToMap ==
    /\ loggedIn /\ Becomes(MakeMap(lists, Now)) /\ screen' = "map"
    /\ UNCHANGED <<loggedIn, reply, logins, lists, menu, sent, ip>>

\* on_locationComboBox_currentIndexChanged.
PickLocation(row) ==
    /\ screen = "map" /\ map.enabled /\ row # map.row
    /\ Becomes(setServer(lists, [Now EXCEPT !.map.row = row],
                         IF row = 0 THEN -1 ELSE map.ids[row]))
    /\ UNCHANGED <<loggedIn, reply, logins, lists, screen, menu, sent, ip>>

\* on_protocolComboBox_currentIndexChanged.
PickProtocol(row) ==
    /\ screen = "map" /\ row # map.protocol
    /\ Becomes(setProtocol(lists, [Now EXCEPT !.map.protocol = row, !.map.enabled = row > 0],
                           row - 1))
    /\ UNCHANGED <<loggedIn, reply, logins, lists, screen, menu, sent, ip>>

-----------------------------------------------------------------------------
(* The address of the user before the VPN, asked for beside the login.     *)

Asked(n) == [n EXCEPT !.tries = @ + 1, !.asked = TRUE]

\* Timer_Constructed of LoginWindow, once.
getOldIP ==
    /\ ip.tries = 0 /\ ip' = Asked(ip)
    /\ UNCHANGED <<prefs, loggedIn, reply, logins, lists, screen, map, dialog, menu, sent>>

setOldIP(found) == dialog' = [dialog EXCEPT !.ip = @ \/ (dialog.made /\ found)]

\* processOldIP: an address, or the fourth failure at last.
processOldIP(found) ==
    /\ ip.asked
    /\ ip' = IF ~found /\ ip.tries < 4 THEN Asked(ip)
             ELSE [ip EXCEPT !.asked = FALSE, !.old = found]
    /\ setOldIP(found)
    /\ UNCHANGED <<prefs, loggedIn, reply, logins, lists, screen, map, menu, sent>>

-----------------------------------------------------------------------------
(* Commands.                                                               *)

\* port and tcpOrUdp: without a protocol the first port, and tcp.
Command(l, p) ==
    [server |-> getServer(l, p.server),
     port |-> Ports[IF p.protocol = -1 THEN 1 ELSE p.protocol + 1],
     transport |-> IF p.protocol = -1 THEN "tcp" ELSE Transports[p.protocol + 1]]

\* sendConnectToVPNRequest with what st prefers.
Connecting(st) == Becomes(st) /\ sent' = Command(lists, st.prefs)

\* The ports are filled in by whoever reads the protocols first: one of the
\* constructors.
PortsKnown == dialog.made \/ map.made

\* The buttons of the dialog and of the map, and the tray.
Connect ==
    /\ loggedIn \/ screen # "login"
    /\ PortsKnown /\ Connecting(Now)
    /\ UNCHANGED <<loggedIn, reply, logins, lists, screen, menu, ip>>

\* Before that port() throws in a slot, and the program ends.
ConnectThrows == loggedIn /\ ~PortsKnown /\ Restarted

\* connectToTriggered.
PickMenu(k) ==
    /\ menu.enabled /\ loggedIn /\ PortsKnown
    /\ Connecting(setServer(lists, Now, menu.items[k].id))
    /\ UNCHANGED <<loggedIn, reply, logins, lists, screen, menu, ip>>

\* jump() from st: without a list nothing is sent.
jump(st) ==
    \/ lists.servers = <<>> /\ Becomes(st) /\ UNCHANGED sent
    \/ lists.servers # <<>> /\ \E i \in getServerToJump(lists, prefs.server) :
          Connecting(setServer(lists, st, i))

\* The button of the dialog.
JumpButton ==
    /\ screen = "connection" /\ jump(Now)
    /\ UNCHANGED <<loggedIn, reply, logins, lists, screen, menu, ip>>

\* jumpTriggered: any news of the service that it is disconnected enables the action,
\* of one who is not logged in, too, who has the list of the last login still.
JumpTriggered ==
    /\ jump(IF loggedIn THEN MakeDialog(lists, Now) ELSE Now)
    /\ screen' = IF loggedIn THEN "connection" ELSE "login"
    /\ UNCHANGED <<loggedIn, reply, logins, lists, menu, ip>>

\* tryNextPort after a timeout of what was sent.
switchToNextPort ==
    /\ sent # NoCommand
    /\ Connecting(setProtocol(lists, Now, (prefs.protocol + 1) % Len(Ports)))
    /\ UNCHANGED <<loggedIn, reply, logins, lists, screen, menu, ip>>

switchToNextNode ==
    /\ sent # NoCommand
    /\ LET row == RowOf(lists, prefs.server)
       IN  Connecting(IF row = 0 \/ row = Len(lists.ids) THEN Now
                      ELSE setServer(lists, Now, lists.ids[row + 1]))
    /\ UNCHANGED <<loggedIn, reply, logins, lists, screen, menu, ip>>

Next ==
    \/ Login \/ LoginFails \/ ServersLoaded \/ Logout \/ Restart
    \/ ToPrimary \/ ToMap
    \/ \E row \in {0} \cup DOMAIN map.ids : PickLocation(row)
    \/ \E row \in 0 .. Len(Ports) : PickProtocol(row)
    \/ Connect \/ ConnectThrows \/ JumpButton \/ JumpTriggered
    \/ switchToNextPort \/ switchToNextNode
    \/ \E k \in DOMAIN menu.items : PickMenu(k)
    \/ getOldIP \/ \E found \in BOOLEAN : processOldIP(found)

Spec == Init /\ [][Next]_vars

-----------------------------------------------------------------------------
(* Properties.                                                             *)

Listed == loggedIn /\ ~reply

\* Logged in, the dialog names the server the next command goes to and the protocol
\* whose port and transport it carries, whoever changed them: the map, the menu, a
\* jump, the port loop or a new list.  Where it names no protocol the command goes to
\* the first port with tcp, which is none of the protocols.
ShowsWhatConnects ==
    Listed =>
        LET next == Command(lists, prefs)
        IN  /\ dialog.made /\ dialog.server = next.server
            /\ \/ /\ dialog.protocol > -1
                  /\ next.port = Ports[dialog.protocol + 1]
                  /\ next.transport = Transports[dialog.protocol + 1]
               \/ dialog.protocol = -1 /\ next.port = Ports[1] /\ next.transport = "tcp"

\* The row the map has selected is the server chosen, though its rows may be
\* those of an earlier login.
MapRowIsServer == map.row > 0 => map.ids[map.row] = prefs.server

\* An item of the menu connects to the server it names, if the list has one.
MenuNamesServers ==
    menu.enabled => \A k \in DOMAIN menu.items :
        menu.items[k].name = getServer(lists, menu.items[k].id)

\* A list in another order, or after a restart, does not change the server the
\* user chose as long as it has the server.  (With a map that was filled before,
\* it may: see updateLocation.)
KeepsNamedServer ==
    [][ (ServersLoaded /\ ~map.made /\ prefs.server > -1)
           => (prefs.name \in Range(lists'.servers) => prefs'.name = prefs.name) ]_vars

\* The dialog shows the old address once it is known, whether the answer or the
\* dialog came first ("try to push value (if Scr_Connect was constructed yet)").
ShowsOldIp == dialog.made => dialog.ip = ip.old
=============================================================================
