---------------------------- MODULE Preferences ----------------------------
(***************************************************************************)
(* The way of a preference: from the settings screen (SettingsScreen)      *)
(* into the store (Setting over QSettings), from there into the autostart  *)
(* file of the desktop or into the command cmdStart, and in the service    *)
(* into the configuration and the arguments of a daemon.                   *)
(*                                                                         *)
(* The settings screen is made when it is first shown and lives as long as *)
(* the GUI.  Its constructor sets the boxes from the store, and a box that *)
(* changes calls the same handler a click of the user does.                *)
(***************************************************************************)
EXTENDS Naturals, Sequences, FiniteSets

CONSTANTS
    Boxes,      \* the boxes of the screen, or some of them
    DnsFields,  \* the fields for addresses of name servers: dns1, dns2
    Own,        \* valid entries of the user's own: addresses, ports
    Files,      \* what the autostart file of Linux may hold at first
    Helpers,    \* files of the program that setRights looks after, or some
    MaxEntries  \* bound: entries of ours in the autostart file

AllBoxes == {"autoConnect", "fixDNS", "insecureWifi", "killSwitch",
             "logging", "reconnect", "startup"}

\* Entries that are not the user's own: none, the default of the field (the
\* addresses 1.1.1.1 and 84.200.69.80, the port 11), and any invalid one.
Empty == "empty"
Default == "default"
Bad == "bad"

ASSUME PreferencesAssumption ==
    /\ {"fixDNS", "startup"} \subseteq Boxes /\ Boxes \subseteq AllBoxes
    /\ DnsFields \cap {"localPort", "none"} = {} /\ Own \cap {Empty, Default, Bad} = {}
    /\ Files \subseteq {"absent", "empty", "entry", "foreign"} /\ MaxEntries \in Nat \ {0}
    /\ Helpers \subseteq {"up", "down", "openvpn", "netdown"}

Fields == DnsFields \cup {"localPort"}
Texts == {Empty, Default, Bad} \cup Own
NoField == "none"

VARIABLES
    system,     \* which desktop the program was built for
    boxes,      \* QSettings: what was stored of each box, if anything
    texts,      \* QSettings: the entry stored of each field
    autostart,  \* the autostart file of the desktop: if there, and what it holds
    logging,    \* Log::mEnabled
    screen,     \* the settings screen
    asked,      \* parameters of the last cmdStart, kept by the manager
    gone,       \* the file of Helpers that is not there, if any
    daemon      \* what the running daemon was started with

gui == <<boxes, texts, autostart, logging, screen>>
service == <<asked, gone, daemon>>
vars == <<system, gui, service>>

Screen == [built : BOOLEAN, checked : SUBSET Boxes, text : [Fields -> Texts],
           marked : SUBSET Fields, editing : Fields \cup {NoField}]
NoScreen == [built |-> FALSE, checked |-> {}, text |-> [f \in Fields |-> Empty],
             marked |-> {}, editing |-> NoField]

Entries(file) == Cardinality({i \in DOMAIN file : file[i] = "entry"})

Asked == [template : {"none", "plain", "dns"}, dns : [DnsFields -> Texts],
          port : Texts \cup {"6842"}]
Daemon == [runs : BOOLEAN, push : [DnsFields -> Texts], option : [DnsFields -> Texts]]
NoDaemon == [runs |-> FALSE, push |-> [f \in DnsFields |-> Empty],
             option |-> [f \in DnsFields |-> Empty]]

TypeOK ==
    /\ system \in {"linux", "mac"}
    /\ boxes \in [Boxes -> {"unset", "on", "off"}]
    /\ texts \in [Fields -> Texts \ {Bad}] /\ texts["localPort"] # Empty
    /\ autostart.there \in BOOLEAN
    /\ autostart.holds \in Seq({"entry", "foreign"})
    /\ ~autostart.there => autostart.holds = <<>>
    /\ logging \in BOOLEAN
    /\ screen \in Screen
    /\ asked \in Asked /\ asked.port # Bad /\ Bad \notin {asked.dns[f] : f \in DnsFields}
    /\ gone \in Helpers \cup {"nothing"}
    /\ daemon \in Daemon

-----------------------------------------------------------------------------
(* Setting                                                                 *)

DefaultOn == {"fixDNS", "reconnect", "startup", "logging"}

\* The getters of the boxes, as the set of those that are on.
On(b) == \/ b \in DefaultOn /\ boxes[b] = "unset"
         \/ boxes[b] = "on"

StoredM(v) == IF v THEN "on" ELSE "unset"   \* slip: a box that is off leaves the store

Stored(v) == IF v THEN "on" ELSE "off"

localPort == IF texts["localPort"] = Empty THEN "6842" ELSE texts["localPort"]

delete_startupM(holds) == holds            \* slip: the entry is not found

\* One entry of ours is looked for in the file.  Its end is looked for in the
\* text of an entry from the same place on, which finds it only at the start;
\* what follows is written where the shortened file ends.
delete_startup(holds) ==
    LET rest == Tail(holds)
    IN  IF holds # <<>> /\ Head(holds) = "entry"
        THEN SubSeq(holds, 1, Len(rest)) \o rest
        ELSE holds

\* The autostart file after setStartup: on Linux a file for whatever the user
\* keeps there, on macOS a file of its own that is made anew.
AfterStartup(v) ==
    IF system = "mac"
    THEN [there |-> v, holds |-> IF v THEN <<"entry">> ELSE <<>>]
    ELSE LET left == delete_startup(autostart.holds)
         IN  [there |-> autostart.there \/ v,
              holds |-> IF v THEN Append(left, "entry") ELSE left]

setStartup(v) ==
    /\ autostart' = AfterStartup(v)
    /\ Entries(autostart'.holds) <= MaxEntries

-----------------------------------------------------------------------------
(* SettingsScreen                                                          *)

\* The boxes checked in the form, before the constructor sets them.
FormChecked == {"fixDNS", "reconnect", "logging"}

\* WndManager::ToSettings for the first time.  The boxes whose preference is
\* not what the form has are toggled by their handlers; the fields are filled
\* from the store, and with the defaults where that has none and fixDNS is on.
Construct ==
    /\ ~screen.built
    /\ LET checked == {b \in Boxes : On(b)}
           toggled == {b \in Boxes : (b \in checked) # (b \in FormChecked)}
           shown(f) == IF f # "localPort" /\ texts[f] = Empty /\ "fixDNS" \in checked
                       THEN Default ELSE texts[f]
       IN  /\ boxes' = [b \in Boxes |-> IF b \in toggled THEN Stored(b \in checked)
                                                         ELSE boxes[b]]
           /\ IF "startup" \in toggled THEN setStartup(TRUE) ELSE UNCHANGED autostart
           /\ logging' = IF "logging" \in toggled THEN FALSE ELSE logging
           /\ screen' = [NoScreen EXCEPT !.built = TRUE, !.checked = checked,
                            !.text = [f \in Fields |->
                                IF f = "localPort" THEN localPort ELSE shown(f)]]
    /\ UNCHANGED <<system, texts, service>>

\* The user clicks a box: its on_..._toggled.  The boxes take no focus, so a field
\* may be left in the middle of typing.  The box of fixDNS puts the defaults or
\* nothing into the fields of the name servers; nothing is stored.
Toggle(b) ==
    /\ screen.built
    /\ LET v == b \notin screen.checked
       IN  /\ boxes' = [boxes EXCEPT ![b] = Stored(v)]
           /\ IF b = "startup" THEN setStartup(v) ELSE UNCHANGED autostart
           /\ logging' = IF b = "logging" THEN v ELSE logging
           /\ screen' = [screen EXCEPT
                !.checked = IF v THEN @ \cup {b} ELSE @ \ {b},
                !.text = IF b # "fixDNS" THEN @
                         ELSE [f \in Fields |-> IF f = "localPort" THEN screen.text[f]
                                                ELSE IF v THEN Default ELSE Empty]]
    /\ UNCHANGED <<system, texts, service>>

\* The user goes to a field and may change it.
Type(f) ==
    /\ screen.built /\ screen.editing \in {f, NoField}
    /\ \E t \in Texts : screen' = [screen EXCEPT !.text[f] = t, !.editing = f]
    /\ UNCHANGED <<system, boxes, texts, autostart, logging, service>>

\* No address is a valid one, too.
IsValidIp(t) == t # Bad

IsValidPortM(t) == t # Bad                  \* slip: a port may be empty

\* A number from 1 to 65535.
IsValidPort(t) == t \notin {Bad, Empty}

Valid(f, t) == IF f = "localPort" THEN IsValidPort(t) ELSE IsValidIp(t)

FinishM(f) ==                              \* slip: after an invalid entry none is stored
    /\ screen.editing = f
    /\ IF Valid(f, screen.text[f])
       THEN /\ texts' = IF f \in screen.marked THEN texts
                        ELSE [texts EXCEPT ![f] = screen.text[f]]
            /\ screen' = [screen EXCEPT !.editing = NoField, !.marked = @ \ {f}]
       ELSE /\ screen' = [screen EXCEPT !.editing = NoField, !.marked = @ \cup {f}]
            /\ UNCHANGED texts
    /\ UNCHANGED <<system, boxes, autostart, logging, service>>

\* The user leaves the field: editingFinished.  Validate_e_Dns,
\* Validate_e_SecondaryDns and Validate_e_LocalPort store a valid entry and mark
\* any other one in the screen.
Finish(f) ==
    /\ screen.editing = f
    /\ IF Valid(f, screen.text[f])
       THEN /\ texts' = [texts EXCEPT ![f] = screen.text[f]]
            /\ screen' = [screen EXCEPT !.editing = NoField, !.marked = @ \ {f}]
       ELSE /\ screen' = [screen EXCEPT !.editing = NoField, !.marked = @ \cup {f}]
            /\ UNCHANGED texts
    /\ UNCHANGED <<system, boxes, autostart, logging, service>>

\* The GUI ends, at any time, and is started again: main and Setting::Setting.
Restart ==
    /\ screen' = NoScreen
    /\ logging' = ("logging" \in Boxes => On("logging"))
    /\ UNCHANGED <<system, boxes, texts, autostart, service>>

-----------------------------------------------------------------------------
(* cmdStart, and what the manager makes of it                              *)

\* sendConnectToVPNRequest, whoever calls it and whatever is being typed, as far
\* as OpenvpnManager::start.  The server has a template with name servers or
\* one without.
Connect ==
    /\ \E t \in {"plain", "dns"} :
         asked' = [template |-> t, port |-> localPort,
                   dns |-> [f \in DnsFields |-> IF texts[f] = Empty THEN Default ELSE texts[f]]]
    /\ daemon' = NoDaemon
    /\ UNCHANGED <<system, gui, gone>>

mTemplateHasDNSOptions == asked.template = "dns"

\* What the daemon is told of name servers: nothing if the template does that.
NameServers == [f \in DnsFields |-> IF mTemplateHasDNSOptions THEN Empty ELSE asked.dns[f]]

\* The lines  push "dhcp-option DNS ..."  of the configuration, and the arguments
\* --dhcp-option.
writeConfigFile == NameServers

getOpenvpnArgsM == asked.dns                \* slip: the template is not asked
getOpenvpnArgs == NameServers

\* setRights gives root and the mode they need to the files of the platform, one
\* after the other.  It throws at one that is not there; that chmod or chown had
\* no effect is not noticed.
setChmod(f) == f # gone
setChown(f) == f # gone
setRights ==
    \A f \in IF system = "mac" THEN {"up", "down", "openvpn", "netdown"} ELSE {"netdown"} :
        setChmod(f) /\ setChown(f)

\* continueConnecting: the template of a command arrived, perhaps after cmdStop,
\* or the manager reconnects.  If the configuration cannot be written or
\* setRights throws there is no daemon.
Launch ==
    /\ asked.template # "none" /\ ~daemon.runs
    /\ setRights
    /\ daemon' = [runs |-> TRUE, push |-> writeConfigFile, option |-> getOpenvpnArgs]
    /\ UNCHANGED <<system, gui, asked, gone>>

\* The daemon ends, by cmdStop or by itself.
End ==
    /\ daemon.runs /\ daemon' = NoDaemon
    /\ UNCHANGED <<system, gui, asked, gone>>

\* A file of the program is removed, or installed again.
Install ==
    /\ gone' \in Helpers \cup {"nothing"}
    /\ UNCHANGED <<system, gui, asked, daemon>>

Init ==
    /\ system \in {"linux", "mac"}
    /\ boxes = [b \in Boxes |-> "unset"] /\ texts = [f \in Fields |-> Default]
    /\ autostart \in {[there |-> file # "absent",
                       holds |-> IF file \in {"absent", "empty"} THEN <<>> ELSE <<file>>] :
                          file \in Files}
    /\ logging = TRUE
    /\ screen = NoScreen
    /\ asked = [template |-> "none", port |-> Default,
                dns |-> [f \in DnsFields |-> Empty]]
    /\ gone = "nothing"
    /\ daemon = NoDaemon

Next ==
    \/ Construct \/ Restart
    \/ \E b \in Boxes : Toggle(b)
    \/ \E f \in Fields : Type(f) \/ Finish(f)
    \/ Connect \/ Launch \/ End \/ Install

Spec == Init /\ [][Next]_vars

-----------------------------------------------------------------------------
(* Properties                                                              *)

\* As long as the settings screen is there its boxes show what is stored, and
\* the log is written if its box says so: whichever handlers the constructor
\* set off, and in whichever GUI the preference was changed.
BoxesShowStored ==
    /\ screen.built => screen.checked = {b \in Boxes : On(b)}
    /\ "logging" \in Boxes => (logging <=> On("logging"))

\* Once the preference startup was stored, the program has one entry in the
\* autostart file if it is on and none if it is off, however often it was
\* changed.  A file with other content, which comes before the entry, is
\* not promised this: delete_startup does not find the end of the entry there.
EntryIffStartup ==
    /\ boxes["startup"] # "unset"
    /\ "foreign" \notin {autostart.holds[i] : i \in DOMAIN autostart.holds}
    => Entries(autostart.holds) = IF On("startup") THEN 1 ELSE 0

\* An entry of the user's own that is shown without a mark, and not being typed,
\* is the one connections use; what is used was valid, whatever is being typed.
\* (The defaults that the box of fixDNS puts into the fields are not stored.)
OwnEntryIsUsed ==
    \A f \in Fields :
        /\ /\ screen.editing # f /\ f \notin screen.marked
           /\ screen.text[f] \in Own
           => texts[f] = screen.text[f]
        /\ Valid(f, texts[f])

\* A daemon gets its name servers from the template or from the settings, never
\* from both, and from the settings it gets all of them, also when the fields
\* are empty and the box of fixDNS is not checked.
TunnelHasNameServers ==
    daemon.runs =>
        /\ daemon.push = daemon.option
        /\ \A f \in DnsFields :
              IF asked.template = "dns" THEN daemon.push[f] = Empty
              ELSE daemon.push[f] = asked.dns[f] /\ asked.dns[f] \in Own \cup {Default}

=============================================================================
