-------------------------- MODULE Preferences_proofs --------------------------
(***************************************************************************)
(* Theorems about Preferences, for whatever boxes and fields the screen    *)
(* has and whatever entries and files the user has of his own.             *)
(*                                                                         *)
(* BoxesShowStored and OwnEntryIsUsed are inductive with the types.        *)
(* EntryIffStartup needs to know the file itself: without foreign content  *)
(* it never holds more than one entry (OneEntry), which is where           *)
(* delete_startup works.  TunnelHasNameServers needs that what cmdStart    *)
(* carried was filled with the defaults (AskedFilled).                     *)
(***************************************************************************)
EXTENDS Preferences, FiniteSetTheorems, SequenceTheorems, TLAPS

Foreign(holds) == \E i \in DOMAIN holds : holds[i] = "foreign"

OneEntry ==
    ~Foreign(autostart.holds) =>
        /\ autostart.holds \in {<<>>, <<"entry">>}
        /\ boxes["startup"] # "unset" =>
              autostart.holds = IF On("startup") THEN <<"entry">> ELSE <<>>

AskedFilled ==
    asked.template # "none" => \A f \in DnsFields : asked.dns[f] \in Own \cup {Default}

-----------------------------------------------------------------------------
(* Facts about the values.                                                 *)

LEMMA Constants ==
    /\ "fixDNS" \in Boxes /\ "startup" \in Boxes /\ "localPort" \notin DnsFields
    /\ NoField \notin Fields /\ Own \cap {Empty, Default, Bad} = {}
    /\ {Empty, Default, Bad} \subseteq Texts
    /\ Empty # Default /\ Empty # Bad /\ Default # Bad
BY PreferencesAssumption DEF NoField, Fields, Texts, Empty, Default, Bad

LEMMA StoredIsOn ==
    \A v \in BOOLEAN : /\ Stored(v) \in {"on", "off"} /\ Stored(v) # "unset"
                       /\ Stored(v) = "on" <=> v
BY DEF Stored

\* What becomes of the file: never a foreign line less on Linux, and the entry
\* of a file that has nothing else.
LEMMA Deleted ==
    ASSUME NEW holds \in Seq({"entry", "foreign"})
    PROVE  /\ delete_startup(holds) \in Seq({"entry", "foreign"})
           /\ holds \in {<<>>, <<"entry">>} => delete_startup(holds) = <<>>
           /\ Foreign(holds) => Foreign(delete_startup(holds))
<1>1. CASE holds = <<>> \/ Head(holds) # "entry"
  <2>1. delete_startup(holds) = holds BY <1>1 DEF delete_startup
  <2>2. holds = <<"entry">> => holds # <<>> /\ Head(holds) = "entry" OBVIOUS
  <2>3. QED BY <1>1, <2>1, <2>2
<1>2. CASE holds # <<>> /\ Head(holds) = "entry"
  <2> DEFINE rest == Tail(holds)
             kept == SubSeq(holds, 1, Len(rest))
  <2>1. /\ rest \in Seq({"entry", "foreign"}) /\ Len(rest) = Len(holds) - 1
        /\ \A i \in 1 .. Len(rest) : rest[i] = holds[i + 1]
        /\ Head(holds) = holds[1]
    BY <1>2, HeadTailProperties
  <2>2. Len(holds) \in Nat \ {0} BY <1>2, LenProperties, EmptySeq
  <2>3. /\ kept \in Seq({"entry", "foreign"}) /\ Len(kept) = Len(rest)
    BY <2>1, <2>2, SubSeqProperties
  <2>4. delete_startup(holds) = kept \o rest BY <1>2 DEF delete_startup
  <2> HIDE DEF rest, kept
  <2>5. /\ kept \o rest \in Seq({"entry", "foreign"})
        /\ Len(kept \o rest) = Len(kept) + Len(rest)
        /\ \A i \in 1 .. Len(kept) + Len(rest) :
              (kept \o rest)[i] = IF i <= Len(kept) THEN kept[i] ELSE rest[i - Len(kept)]
    BY <2>1, <2>3, ConcatProperties
  <2>6. holds = <<"entry">> => kept \o rest = <<>>
    <3>1. holds = <<"entry">> => Len(holds) = 1 OBVIOUS
    <3>2. holds = <<"entry">> => Len(kept \o rest) = 0 BY <2>1, <2>3, <2>5, <3>1
    <3>3. QED BY <2>5, <3>2, EmptySeq
  <2>7. ASSUME NEW i \in DOMAIN holds, holds[i] = "foreign"
        PROVE  Foreign(kept \o rest)
    <3>1. i \in 1 .. Len(holds) /\ i # 1
      <4>1. DOMAIN holds = 1 .. Len(holds) BY LenProperties
      <4>2. QED BY <1>2, <2>1, <2>7, <4>1
    <3>2. DOMAIN (kept \o rest) = 1 .. Len(kept) + Len(rest) BY <2>5, LenProperties
    <3>3. /\ Len(rest) + (i - 1) \in 1 .. Len(kept) + Len(rest)
          /\ (kept \o rest)[Len(rest) + (i - 1)] = rest[i - 1]
      BY <2>1, <2>2, <2>3, <2>5, <3>1
    <3>4. rest[i - 1] = holds[i] BY <2>1, <2>2, <3>1
    <3>5. QED BY <2>7, <3>2, <3>3, <3>4 DEF Foreign
  <2>8. QED BY <1>2, <2>4, <2>5, <2>6, <2>7 DEF Foreign
<1>3. QED BY <1>1, <1>2

LEMMA Appended ==
    ASSUME NEW holds \in Seq({"entry", "foreign"})
    PROVE  /\ Append(holds, "entry") \in Seq({"entry", "foreign"})
           /\ Foreign(holds) => Foreign(Append(holds, "entry"))
           /\ holds = <<>> => Append(holds, "entry") = <<"entry">>
<1>1. /\ Append(holds, "entry") \in Seq({"entry", "foreign"})
      /\ Len(Append(holds, "entry")) = Len(holds) + 1
      /\ \A i \in 1 .. Len(holds) : Append(holds, "entry")[i] = holds[i]
  BY AppendProperties
<1>2. /\ Len(holds) \in Nat /\ DOMAIN holds = 1 .. Len(holds)
      /\ DOMAIN Append(holds, "entry") = 1 .. Len(holds) + 1
  BY <1>1, LenProperties
<1>3. Foreign(holds) => Foreign(Append(holds, "entry"))
  BY <1>1, <1>2 DEF Foreign
<1>4. holds = <<>> => Append(holds, "entry") = <<"entry">> OBVIOUS
<1>5. QED BY <1>1, <1>3, <1>4

\* The file after setStartup.
LEMMA StartupFile ==
    ASSUME autostart.holds \in Seq({"entry", "foreign"}), autostart.there \in BOOLEAN,
           ~autostart.there => autostart.holds = <<>>, NEW v \in BOOLEAN
    PROVE  LET file == AfterStartup(v)
           IN  /\ file.there \in BOOLEAN /\ file.holds \in Seq({"entry", "foreign"})
               /\ ~file.there => file.holds = <<>>
               /\ \/ Foreign(autostart.holds) /\ Foreign(file.holds)
                  \/ system = "mac" /\ file.holds = IF v THEN <<"entry">> ELSE <<>>
                  \/ /\ ~Foreign(autostart.holds)
                     /\ autostart.holds \in {<<>>, <<"entry">>} =>
                           file.holds = IF v THEN <<"entry">> ELSE <<>>
<1> DEFINE left == delete_startup(autostart.holds)
           file == AfterStartup(v)
<1>0. <<>> \in Seq({"entry", "foreign"}) /\ <<"entry">> \in Seq({"entry", "foreign"})
  OBVIOUS
<1>1. CASE system = "mac"
  <2>1. file = [there |-> v, holds |-> IF v THEN <<"entry">> ELSE <<>>]
    BY <1>1 DEF AfterStartup
  <2>2. file.there = v /\ file.holds = IF v THEN <<"entry">> ELSE <<>> BY <2>1
  <2>3. QED BY <1>0, <1>1, <2>2
<1>2. CASE system # "mac"
  <2>1. file = [there |-> autostart.there \/ v,
                holds |-> IF v THEN Append(left, "entry") ELSE left]
    BY <1>2 DEF AfterStartup
  <2>2. /\ file.there = (autostart.there \/ v)
        /\ file.holds = IF v THEN Append(left, "entry") ELSE left
    BY <2>1
  <2>3. /\ left \in Seq({"entry", "foreign"})
        /\ autostart.holds \in {<<>>, <<"entry">>} => left = <<>>
        /\ Foreign(autostart.holds) => Foreign(left)
    BY Deleted
  <2> HIDE DEF left, file
  <2>4. /\ Append(left, "entry") \in Seq({"entry", "foreign"})
        /\ Foreign(left) => Foreign(Append(left, "entry"))
        /\ left = <<>> => Append(left, "entry") = <<"entry">>
    BY <2>3, Appended
  <2>5. file.holds \in Seq({"entry", "foreign"}) BY <2>2, <2>3, <2>4
  <2>6. ~file.there => file.holds = <<>> BY <2>2, <2>3
  <2>7. Foreign(autostart.holds) => Foreign(file.holds) BY <2>2, <2>3, <2>4
  <2>8. autostart.holds \in {<<>>, <<"entry">>} =>
            file.holds = IF v THEN <<"entry">> ELSE <<>>
    BY <2>2, <2>3, <2>4
  <2>9. QED BY <2>2, <2>5, <2>6, <2>7, <2>8 DEF file
<1>3. QED BY <1>1, <1>2

-----------------------------------------------------------------------------
(* Types.                                                                  *)

LEMMA ConstructTypes == ASSUME TypeOK, Construct PROVE TypeOK'
<1> DEFINE checked == {b \in Boxes : On(b)}
           toggled == {b \in Boxes : (b \in checked) # (b \in FormChecked)}
           text == [f \in Fields |->
                       IF f = "localPort" THEN localPort
                       ELSE IF f # "localPort" /\ texts[f] = Empty /\ "fixDNS" \in checked
                            THEN Default ELSE texts[f]]
<1>1. /\ boxes' = [b \in Boxes |-> IF b \in toggled THEN Stored(b \in checked) ELSE boxes[b]]
      /\ \/ setStartup(TRUE)
         \/ UNCHANGED autostart
      /\ logging' = IF "logging" \in toggled THEN FALSE ELSE logging
      /\ screen' = [NoScreen EXCEPT !.built = TRUE, !.checked = checked, !.text = text]
      /\ UNCHANGED <<system, texts, asked, gone, daemon>>
  BY DEF Construct, service
<1>2. boxes' \in [Boxes -> {"unset", "on", "off"}]
  <2>1. \A b \in Boxes : Stored(b \in checked) \in {"on", "off"} BY DEF Stored
  <2> HIDE DEF checked, toggled
  <2>2. QED BY <1>1, <2>1 DEF TypeOK
<1>3. /\ autostart'.there \in BOOLEAN /\ autostart'.holds \in Seq({"entry", "foreign"})
      /\ ~autostart'.there => autostart'.holds = <<>>
  BY <1>1, StartupFile DEF setStartup, TypeOK
<1>4. text \in [Fields -> Texts]
  BY Constants DEF TypeOK, localPort, Fields
<1>5. checked \in SUBSET Boxes OBVIOUS
<1> HIDE DEF checked, toggled, text
<1>6. screen' \in Screen BY <1>1, <1>4, <1>5 DEF Screen, NoScreen
<1>7. logging' \in BOOLEAN BY <1>1 DEF TypeOK
<1>8. QED BY <1>1, <1>2, <1>3, <1>6, <1>7 DEF TypeOK

LEMMA ToggleTypes == ASSUME TypeOK, NEW b \in Boxes, Toggle(b) PROVE TypeOK'
<1> DEFINE v == b \notin screen.checked
           text == IF b # "fixDNS" THEN screen.text
                   ELSE [f \in Fields |-> IF f = "localPort" THEN screen.text[f]
                                          ELSE IF v THEN Default ELSE Empty]
           checked == IF v THEN screen.checked \cup {b} ELSE screen.checked \ {b}
<1>1. /\ boxes' = [boxes EXCEPT ![b] = Stored(v)]
      /\ setStartup(v) \/ UNCHANGED autostart
      /\ logging' = IF b = "logging" THEN v ELSE logging
      /\ screen' = [screen EXCEPT !.checked = checked, !.text = text]
      /\ UNCHANGED <<system, texts, asked, gone, daemon>>
  BY DEF Toggle, service
<1>2. v \in BOOLEAN OBVIOUS
<1>3. boxes' \in [Boxes -> {"unset", "on", "off"}]
  BY <1>1, <1>2, StoredIsOn DEF TypeOK
<1>4. /\ autostart'.there \in BOOLEAN /\ autostart'.holds \in Seq({"entry", "foreign"})
      /\ ~autostart'.there => autostart'.holds = <<>>
  <2> HIDE DEF v
  <2>1. QED BY <1>1, <1>2, StartupFile DEF setStartup, TypeOK
<1>5. text \in [Fields -> Texts] /\ checked \in SUBSET Boxes
  BY Constants DEF TypeOK, Screen
<1>6. logging' \in BOOLEAN BY <1>1, <1>2 DEF TypeOK
<1> HIDE DEF v, text, checked
<1>7. screen' \in Screen BY <1>1, <1>5 DEF Screen, TypeOK
<1>8. QED BY <1>1, <1>3, <1>4, <1>6, <1>7 DEF TypeOK

LEMMA FieldTypes ==
    ASSUME TypeOK, NEW f \in Fields, Type(f) \/ Finish(f) PROVE TypeOK'
<1>1. screen' \in Screen
  <2>1. CASE Type(f)
    <3>1. PICK t \in Texts : screen' = [screen EXCEPT !.text[f] = t, !.editing = f]
      BY <2>1 DEF Type
    <3>2. QED BY <3>1 DEF TypeOK, Screen
  <2>2. CASE Finish(f)
    <3>1. PICK marked \in {screen.marked \ {f}, screen.marked \cup {f}} :
             screen' = [screen EXCEPT !.editing = NoField, !.marked = marked]
      BY <2>2 DEF Finish
    <3>2. marked \in SUBSET Fields BY DEF TypeOK, Screen
    <3>3. QED BY <3>1, <3>2 DEF TypeOK, Screen
  <2>3. QED BY <2>1, <2>2
<1>2. texts' \in [Fields -> Texts \ {Bad}] /\ texts'["localPort"] # Empty
  <2>1. CASE UNCHANGED texts BY <2>1 DEF TypeOK
  <2>2. CASE Valid(f, screen.text[f]) /\ texts' = [texts EXCEPT ![f] = screen.text[f]]
    <3>1. screen.text[f] \in Texts BY DEF TypeOK, Screen
    <3>2. screen.text[f] # Bad /\ (f = "localPort" => screen.text[f] # Empty)
      BY <2>2 DEF Valid, IsValidIp, IsValidPort
    <3>3. QED BY <2>2, <3>1, <3>2 DEF TypeOK
  <2>3. QED BY <2>1, <2>2 DEF Type, Finish
<1>3. UNCHANGED <<system, boxes, autostart, logging, asked, gone, daemon>>
  BY DEF Type, Finish, service
<1>4. QED BY <1>1, <1>2, <1>3 DEF TypeOK

LEMMA CommandTypes ==
    ASSUME TypeOK, Restart \/ Connect \/ Launch \/ End \/ Install PROVE TypeOK'
<1>0. NoDaemon \in Daemon /\ NoScreen \in Screen
  BY Constants DEF NoDaemon, Daemon, NoScreen, Screen
<1>1. CASE Restart BY <1>0, <1>1 DEF Restart, TypeOK, service
<1>2. CASE Connect
  <2>1. PICK t \in {"plain", "dns"} :
           asked' = [template |-> t, port |-> localPort,
                     dns |-> [f \in DnsFields |-> IF texts[f] = Empty THEN Default ELSE texts[f]]]
    BY <1>2 DEF Connect
  <2>2. localPort \in Texts \ {Bad} BY DEF localPort, TypeOK, Fields
  <2>3. \A f \in DnsFields : texts[f] \in Texts \ {Bad} BY DEF TypeOK, Fields
  <2>4. /\ asked' \in Asked /\ asked'.port # Bad
        /\ Bad \notin {asked'.dns[f] : f \in DnsFields}
    BY <2>1, <2>2, <2>3, Constants DEF Asked
  <2>5. QED BY <1>0, <1>2, <2>4 DEF Connect, TypeOK, gui
<1>3. CASE Launch
  <2>1. NameServers \in [DnsFields -> Texts]
    BY Constants DEF NameServers, TypeOK, Asked
  <2>2. daemon' \in Daemon
    BY <1>3, <2>1 DEF Launch, Daemon, writeConfigFile, getOpenvpnArgs
  <2>3. QED BY <1>3, <2>2 DEF Launch, TypeOK, gui
<1>4. CASE End BY <1>0, <1>4 DEF End, TypeOK, gui
<1>5. CASE Install BY <1>5 DEF Install, TypeOK, gui
<1>6. QED BY <1>1, <1>2, <1>3, <1>4, <1>5

LEMMA InitTypes == Init => TypeOK
<1> SUFFICES ASSUME Init PROVE TypeOK
  OBVIOUS
<1>1. NoDaemon \in Daemon /\ NoScreen \in Screen
  BY Constants DEF NoDaemon, Daemon, NoScreen, Screen
<1>2. /\ autostart.there \in BOOLEAN /\ autostart.holds \in Seq({"entry", "foreign"})
      /\ ~autostart.there => autostart.holds = <<>>
  <2>1. PICK file \in Files :
           autostart = [there |-> file # "absent",
                        holds |-> IF file \in {"absent", "empty"} THEN <<>> ELSE <<file>>]
    BY DEF Init
  <2>2. file \in {"absent", "empty", "entry", "foreign"} BY PreferencesAssumption
  <2>3. CASE file \in {"absent", "empty"}
    <3>1. autostart = [there |-> file # "absent", holds |-> <<>>] BY <2>1, <2>3
    <3>2. QED BY <3>1
  <2>4. CASE file \in {"entry", "foreign"}
    <3>1. autostart = [there |-> TRUE, holds |-> <<file>>] BY <2>1, <2>4
    <3>2. <<file>> \in Seq({"entry", "foreign"}) BY <2>4
    <3>3. QED BY <3>1, <3>2
  <2>5. QED BY <2>2, <2>3, <2>4
<1>3. asked \in Asked /\ asked.port # Bad /\ Bad \notin {asked.dns[f] : f \in DnsFields}
  BY Constants DEF Init, Asked
<1>4. texts \in [Fields -> Texts \ {Bad}] /\ texts["localPort"] # Empty
  BY Constants DEF Init, Fields
<1>5. QED BY <1>1, <1>2, <1>3, <1>4 DEF Init, TypeOK

LEMMA NextTypes == TypeOK /\ [Next]_vars => TypeOK'
<1> SUFFICES ASSUME TypeOK, [Next]_vars PROVE TypeOK'
  OBVIOUS
<1>1. CASE UNCHANGED vars BY <1>1 DEF vars, gui, service, TypeOK
<1>2. QED
  BY <1>1, ConstructTypes, ToggleTypes, FieldTypes, CommandTypes DEF Next

\* Types, for whatever is typed into the fields.
THEOREM PreferenceTypes == Spec => []TypeOK
BY InitTypes, NextTypes, PTL DEF Spec

-----------------------------------------------------------------------------
(* The boxes and the store.                                                *)

LEMMA BoxesStep == TypeOK /\ BoxesShowStored /\ [Next]_vars => BoxesShowStored'
<1> SUFFICES ASSUME TypeOK, BoxesShowStored, [Next]_vars PROVE BoxesShowStored'
  OBVIOUS
<1>1. CASE Construct
  <2> DEFINE checked == {b \in Boxes : On(b)}
             toggled == {b \in Boxes : (b \in checked) # (b \in FormChecked)}
  <2>1. /\ boxes' = [b \in Boxes |-> IF b \in toggled THEN Stored(b \in checked) ELSE boxes[b]]
        /\ logging' = IF "logging" \in toggled THEN FALSE ELSE logging
    BY <1>1 DEF Construct
  <2>2. screen'.built /\ screen'.checked = checked
    BY <1>1 DEF Construct, NoScreen
  <2>3. \A b \in Boxes : On(b)' <=> On(b)
    BY <2>1 DEF On, Stored
  <2>4. "logging" \in toggled => ~On("logging")
    BY DEF FormChecked
  <2>5. QED BY <2>1, <2>2, <2>3, <2>4 DEF BoxesShowStored
<1>2. ASSUME NEW b \in Boxes, Toggle(b) PROVE BoxesShowStored'
  <2> DEFINE v == b \notin screen.checked
             checked == IF v THEN screen.checked \cup {b} ELSE screen.checked \ {b}
  <2>1. /\ boxes' = [boxes EXCEPT ![b] = Stored(v)]
        /\ logging' = IF b = "logging" THEN v ELSE logging
    BY <1>2 DEF Toggle
  <2>2. screen.built /\ screen'.checked = checked
    BY <1>2 DEF Toggle, TypeOK, Screen
  <2>3. On(b)' <=> v BY <2>1 DEF On, Stored, TypeOK
  <2>4. \A c \in Boxes : c # b => (On(c)' <=> On(c)) BY <2>1 DEF On, TypeOK
  <2>5. screen.checked = {c \in Boxes : On(c)} BY <2>2 DEF BoxesShowStored
  <2>6. checked = {c \in Boxes : On(c)'} BY <2>3, <2>4, <2>5
  <2>7. "logging" \in Boxes => (logging' <=> On("logging")')
    BY <2>1, <2>3, <2>4 DEF BoxesShowStored
  <2> HIDE DEF v, checked
  <2>8. QED BY <2>2, <2>6, <2>7 DEF BoxesShowStored
<1>3. CASE UNCHANGED <<boxes, logging>> /\ UNCHANGED <<screen.built, screen.checked>>
  BY <1>3 DEF BoxesShowStored, On
<1>4. ASSUME NEW f \in Fields, Type(f) \/ Finish(f) PROVE BoxesShowStored'
  <2>1. UNCHANGED <<boxes, logging>> BY <1>4 DEF Type, Finish
  <2>2. screen \in [built : BOOLEAN, checked : SUBSET Boxes, text : [Fields -> Texts],
                    marked : SUBSET Fields, editing : Fields \cup {NoField}]
    BY DEF TypeOK, Screen
  <2>3. screen'.built = screen.built /\ screen'.checked = screen.checked
    <3>1. CASE Type(f) BY <2>2, <3>1 DEF Type
    <3>2. CASE Finish(f) BY <2>2, <3>2 DEF Finish
    <3>3. QED BY <1>4, <3>1, <3>2
  <2>4. QED BY <1>3, <2>1, <2>3
<1>5. CASE Restart
  <2>1. UNCHANGED boxes /\ ~screen'.built BY <1>5 DEF Restart, NoScreen
  <2>2. logging' = ("logging" \in Boxes => On("logging")) BY <1>5 DEF Restart
  <2>3. QED BY <2>1, <2>2 DEF BoxesShowStored, On
<1>6. CASE Connect \/ Launch \/ End \/ Install
  BY <1>3, <1>6 DEF Connect, Launch, End, Install, gui
<1>7. CASE UNCHANGED vars BY <1>3, <1>7 DEF vars, gui
<1>8. QED BY <1>1, <1>2, <1>4, <1>5, <1>6, <1>7 DEF Next

\* The boxes of a settings screen show what is stored, and the log follows its
\* box, whichever handlers the constructor sets off.
THEOREM BoxesAreStored == Spec => []BoxesShowStored
<1>1. Init => BoxesShowStored
  BY DEF Init, BoxesShowStored, NoScreen, On, DefaultOn
<1>2. QED BY <1>1, BoxesStep, InitTypes, NextTypes, PTL DEF Spec

-----------------------------------------------------------------------------
(* The user's own entries.                                                 *)

LEMMA EntriesValid == TypeOK => \A f \in Fields : Valid(f, texts[f])
BY DEF TypeOK, Valid, IsValidIp, IsValidPort

OwnStored ==
    \A f \in Fields : screen.editing # f /\ f \notin screen.marked /\ screen.text[f] \in Own
                      => texts[f] = screen.text[f]

LEMMA OwnStep == TypeOK /\ OwnStored /\ [Next]_vars => OwnStored'
<1> SUFFICES ASSUME TypeOK, OwnStored, [Next]_vars PROVE OwnStored'
  OBVIOUS
<1>0. screen \in Screen /\ Default \notin Own /\ Empty \notin Own /\ NoField \notin Fields
  BY Constants DEF TypeOK
<1>1. CASE Construct
  <2>1. UNCHANGED texts BY <1>1 DEF Construct
  <2>2. ASSUME NEW f \in Fields
        PROVE  screen'.text[f] = texts[f] \/ screen'.text[f] = Default
    <3>1. localPort = texts["localPort"] BY DEF localPort, TypeOK
    <3>2. QED BY <1>1, <3>1 DEF Construct, NoScreen
  <2>3. QED BY <1>0, <2>1, <2>2 DEF OwnStored
<1>2. ASSUME NEW b \in Boxes, Toggle(b) PROVE OwnStored'
  <2>1. /\ UNCHANGED texts
        /\ screen'.editing = screen.editing /\ screen'.marked = screen.marked
    BY <1>0, <1>2 DEF Toggle, Screen
  <2>2. ASSUME NEW f \in Fields
        PROVE  screen'.text[f] = screen.text[f] \/ screen'.text[f] \in {Default, Empty}
    BY <1>0, <1>2 DEF Toggle, Screen
  <2>3. QED BY <1>0, <2>1, <2>2 DEF OwnStored
<1>3. ASSUME NEW f \in Fields, Type(f) PROVE OwnStored'
  <2>1. PICK t \in Texts : screen' = [screen EXCEPT !.text[f] = t, !.editing = f]
    BY <1>3 DEF Type
  <2>2. /\ screen'.editing = f /\ screen'.marked = screen.marked
        /\ \A g \in Fields : g # f => screen'.text[g] = screen.text[g]
    BY <1>0, <2>1 DEF Screen
  <2>3. UNCHANGED texts /\ screen.editing \in {f, NoField} BY <1>3 DEF Type
  <2>4. QED BY <1>0, <2>2, <2>3 DEF OwnStored
<1>4. ASSUME NEW f \in Fields, Finish(f) PROVE OwnStored'
  <2>1. screen'.editing = NoField /\ screen'.text = screen.text /\ screen.editing = f
    BY <1>0, <1>4 DEF Finish, Screen
  <2>2. CASE Valid(f, screen.text[f])
    <3>1. /\ texts' = [texts EXCEPT ![f] = screen.text[f]]
          /\ screen'.marked = screen.marked \ {f}
      BY <1>0, <1>4, <2>2 DEF Finish, Screen
    <3>2. texts'[f] = screen.text[f] /\ \A g \in Fields : g # f => texts'[g] = texts[g]
      BY <3>1 DEF TypeOK
    <3>3. QED BY <2>1, <3>1, <3>2 DEF OwnStored
  <2>3. CASE ~Valid(f, screen.text[f])
    <3>1. UNCHANGED texts /\ screen'.marked = screen.marked \cup {f}
      BY <1>0, <1>4, <2>3 DEF Finish, Screen
    <3>2. QED BY <2>1, <3>1 DEF OwnStored
  <2>4. QED BY <2>2, <2>3
<1>5. CASE Restart
  <2>1. \A f \in Fields : screen'.text[f] = Empty BY <1>5 DEF Restart, NoScreen
  <2>2. QED BY <1>0, <2>1 DEF OwnStored
<1>6. CASE UNCHANGED <<screen, texts>> BY <1>6 DEF OwnStored
<1>7. CASE Connect \/ Launch \/ End \/ Install
  BY <1>6, <1>7 DEF Connect, Launch, End, Install, gui
<1>8. CASE UNCHANGED vars BY <1>6, <1>8 DEF vars, gui
<1>9. QED BY <1>1, <1>2, <1>3, <1>4, <1>5, <1>7, <1>8 DEF Next

\* The entries connections use are valid, and the user's own are the ones shown,
\* in whatever order the fields are typed into and left.
THEOREM OwnEntriesAreUsed == Spec => []OwnEntryIsUsed
<1>1. Init => OwnStored BY Constants DEF Init, OwnStored, NoScreen
<1>2. TypeOK /\ OwnStored => OwnEntryIsUsed BY EntriesValid DEF OwnStored, OwnEntryIsUsed
<1>3. QED BY <1>1, <1>2, OwnStep, InitTypes, NextTypes, PTL DEF Spec

-----------------------------------------------------------------------------
(* The autostart file.                                                     *)

\* The box of startup and the file change together.
LEMMA StartupStored ==
    ASSUME TypeOK, OneEntry, NEW v \in BOOLEAN, setStartup(v),
           boxes'["startup"] = IF v THEN "on" ELSE "off"
    PROVE  OneEntry'
<1>1. autostart' = AfterStartup(v) BY DEF setStartup
<1>2. \/ Foreign(autostart'.holds)
      \/ autostart'.holds = IF v THEN <<"entry">> ELSE <<>>
  BY <1>1, StartupFile DEF TypeOK, OneEntry
<1>3. On("startup")' <=> v BY DEF On
<1>4. QED BY <1>2, <1>3 DEF OneEntry

LEMMA EntryStep == TypeOK /\ OneEntry /\ [Next]_vars => OneEntry'
<1> SUFFICES ASSUME TypeOK, OneEntry, [Next]_vars PROVE OneEntry'
  OBVIOUS
<1>0. "startup" \in Boxes BY Constants
<1>1. CASE autostart' = autostart /\ boxes'["startup"] = boxes["startup"]
  BY <1>1 DEF OneEntry, On
<1>2. CASE Construct
  <2> DEFINE checked == {b \in Boxes : On(b)}
             toggled == {b \in Boxes : (b \in checked) # (b \in FormChecked)}
  <2>1. /\ boxes' = [b \in Boxes |-> IF b \in toggled THEN Stored(b \in checked) ELSE boxes[b]]
        /\ IF "startup" \in toggled THEN setStartup(TRUE) ELSE UNCHANGED autostart
    BY <1>2 DEF Construct
  <2>2. CASE "startup" \in toggled
    <3>1. On("startup") BY <2>2 DEF FormChecked
    <3>2. boxes'["startup"] = "on" BY <1>0, <2>1, <2>2, <3>1 DEF Stored
    <3>3. setStartup(TRUE) BY <2>1, <2>2
    <3>4. QED BY <3>2, <3>3, StartupStored
  <2>3. CASE "startup" \notin toggled BY <1>0, <1>1, <2>1, <2>3
  <2>4. QED BY <2>2, <2>3
<1>3. ASSUME NEW b \in Boxes, Toggle(b) PROVE OneEntry'
  <2> DEFINE v == b \notin screen.checked
  <2>1. /\ boxes' = [boxes EXCEPT ![b] = Stored(v)]
        /\ IF b = "startup" THEN setStartup(v) ELSE UNCHANGED autostart
    BY <1>3 DEF Toggle
  <2>2. v \in BOOLEAN OBVIOUS
  <2> HIDE DEF v
  <2>3. CASE b = "startup"
    <3>1. boxes'["startup"] = IF v THEN "on" ELSE "off"
      BY <1>0, <2>1, <2>3 DEF Stored, TypeOK
    <3>2. setStartup(v) BY <2>1, <2>3
    <3>3. QED BY <2>2, <3>1, <3>2, StartupStored
  <2>4. CASE b # "startup" BY <1>0, <1>1, <2>1, <2>4 DEF TypeOK
  <2>5. QED BY <2>3, <2>4
<1>4. ASSUME NEW f \in Fields, Type(f) \/ Finish(f) PROVE OneEntry'
  BY <1>1, <1>4 DEF Type, Finish
<1>5. CASE Restart \/ Connect \/ Launch \/ End \/ Install
  BY <1>1, <1>5 DEF Restart, Connect, Launch, End, Install, gui
<1>6. CASE UNCHANGED vars BY <1>1, <1>6 DEF vars, gui
<1>7. QED BY <1>2, <1>3, <1>4, <1>5, <1>6 DEF Next

LEMMA OneEntryCounts == OneEntry => EntryIffStartup
<1> SUFFICES ASSUME OneEntry, boxes["startup"] # "unset", ~Foreign(autostart.holds)
             PROVE  Entries(autostart.holds) = IF On("startup") THEN 1 ELSE 0
  BY DEF EntryIffStartup, Foreign
<1>1. autostart.holds = IF On("startup") THEN <<"entry">> ELSE <<>> BY DEF OneEntry
<1>2. CASE On("startup")
  <2>1. {i \in DOMAIN autostart.holds : autostart.holds[i] = "entry"} = {1}
    BY <1>1, <1>2
  <2>2. QED BY <1>2, <2>1, FS_Singleton DEF Entries
<1>3. CASE ~On("startup")
  <2>1. {i \in DOMAIN autostart.holds : autostart.holds[i] = "entry"} = {}
    BY <1>1, <1>3
  <2>2. QED BY <1>3, <2>1, FS_EmptySet DEF Entries
<1>4. QED BY <1>2, <1>3

\* One entry in a file that is ours alone if the program is to start with the
\* desktop, none if not: for any number of changes and restarts.
THEOREM StartupHasOneEntry == Spec => []EntryIffStartup
<1>1. Init => OneEntry
  <2> SUFFICES ASSUME Init PROVE OneEntry
    OBVIOUS
  <2>1. PICK file \in Files : autostart.holds =
            IF file \in {"absent", "empty"} THEN <<>> ELSE <<file>>
    BY DEF Init
  <2>2. file \in {"absent", "empty", "entry", "foreign"} BY PreferencesAssumption
  <2>3. boxes["startup"] = "unset" BY Constants DEF Init
  <2>4. CASE file \in {"absent", "empty"} BY <2>1, <2>3, <2>4 DEF OneEntry
  <2>5. CASE file \in {"entry", "foreign"} BY <2>1, <2>3, <2>5 DEF OneEntry, Foreign
  <2>6. QED BY <2>2, <2>4, <2>5
<1>2. QED BY <1>1, EntryStep, OneEntryCounts, InitTypes, NextTypes, PTL DEF Spec

-----------------------------------------------------------------------------
(* The name servers of the tunnel.                                         *)

LEMMA TunnelStep ==
    TypeOK /\ AskedFilled /\ TunnelHasNameServers /\ [Next]_vars
    => (AskedFilled /\ TunnelHasNameServers)'
<1> SUFFICES ASSUME TypeOK, AskedFilled, TunnelHasNameServers, [Next]_vars
             PROVE  (AskedFilled /\ TunnelHasNameServers)'
  OBVIOUS
<1>1. CASE UNCHANGED <<asked, daemon>> BY <1>1 DEF AskedFilled, TunnelHasNameServers
<1>2. CASE Connect
  <2>1. PICK t \in {"plain", "dns"} :
           asked' = [template |-> t, port |-> localPort,
                     dns |-> [f \in DnsFields |-> IF texts[f] = Empty THEN Default ELSE texts[f]]]
    BY <1>2 DEF Connect
  <2>2. ASSUME NEW f \in DnsFields PROVE asked'.dns[f] \in Own \cup {Default}
    <3>1. texts[f] \in Texts \ {Bad} BY DEF TypeOK, Fields
    <3>2. QED BY <2>1, <3>1 DEF Texts
  <2>3. ~daemon'.runs BY <1>2 DEF Connect, NoDaemon
  <2>4. QED BY <2>2, <2>3 DEF AskedFilled, TunnelHasNameServers
<1>3. CASE Launch
  <2>1. /\ asked.template # "none" /\ UNCHANGED asked
        /\ daemon'.push = NameServers /\ daemon'.option = NameServers
    BY <1>3 DEF Launch, writeConfigFile, getOpenvpnArgs
  <2>2. AskedFilled' BY <2>1 DEF AskedFilled
  <2>3. \A f \in DnsFields :
           NameServers[f] = IF asked.template = "dns" THEN Empty ELSE asked.dns[f]
    BY DEF NameServers, mTemplateHasDNSOptions
  <2>4. TunnelHasNameServers' BY <2>1, <2>3 DEF TunnelHasNameServers, AskedFilled
  <2>5. QED BY <2>2, <2>4
<1>4. CASE End
  <2>1. UNCHANGED asked /\ ~daemon'.runs BY <1>4 DEF End, NoDaemon
  <2>2. QED BY <2>1 DEF AskedFilled, TunnelHasNameServers
<1>5. CASE UNCHANGED service BY <1>1, <1>5 DEF service
<1>6. ASSUME \/ Construct \/ Restart \/ \E b \in Boxes : Toggle(b)
             \/ \E f \in Fields : Type(f) \/ Finish(f)
      PROVE  UNCHANGED service
  BY <1>6 DEF Construct, Restart, Toggle, Type, Finish
<1>7. CASE Install \/ UNCHANGED vars BY <1>1, <1>7 DEF Install, vars, service
<1>8. QED BY <1>2, <1>3, <1>4, <1>5, <1>6, <1>7 DEF Next

\* A daemon has its name servers from the template or all of them from the
\* settings, whatever was changed between cmdStart and its launch.
THEOREM NameServersReachTunnel == Spec => []TunnelHasNameServers
<1>1. Init => AskedFilled /\ TunnelHasNameServers
  BY DEF Init, AskedFilled, TunnelHasNameServers, NoDaemon
<1>2. QED BY <1>1, TunnelStep, InitTypes, NextTypes, PTL DEF Spec
=============================================================================
