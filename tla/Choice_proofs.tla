---------------------------- MODULE Choice_proofs ----------------------------
(***************************************************************************)
(* Proofs about the choice of a server and a protocol and what shows it,   *)
(* for any names, any lengths of the lists and any number of logins.       *)
(***************************************************************************)
EXTENDS Choice, SequenceTheorems, WellFoundedInduction, TLAPS

-----------------------------------------------------------------------------
(* The invariant: the dialog follows every change of the preferences, and  *)
(* the map, whose rows may be older than the lists, has the row of the     *)
(* server chosen or none.                                                  *)

\* What the variables hold, field by field.
Chosen  == [protocol : Protocols, server : Nat \cup {-1}, name : Names \cup {Blank, Undefined}]
Maps    == [made : BOOLEAN, ids : Seq(Nat), row : Nat, protocol : 0 .. Len(Ports),
            enabled : BOOLEAN]
Dialogs == [made : BOOLEAN, server : Names \cup {Blank}, protocol : Protocols, ip : BOOLEAN]
Lists   == [servers : Seq(Names), ids : Seq(Nat)]
Items   == [id : Nat, name : Names \cup {Blank}]

\* Preferences and screens that may be beside the lists l.
Fits(l) ==
    {st \in [prefs : Chosen, map : Maps, dialog : Dialogs] :
        /\ IsPrefix(st.map.ids, l.ids)
        /\ st.map.row \in {0} \cup DOMAIN st.map.ids
        /\ ~st.map.made => st.map.row = 0
        /\ st.map.enabled <=> st.map.protocol > 0}

ShowsRow(st)       == st.map.row > 0 => st.map.ids[st.map.row] = st.prefs.server
ShowsProtocol(st)  == st.dialog.made => st.dialog.protocol = st.prefs.protocol
ShowsServer(l, st) == st.dialog.made => st.dialog.server = getServer(l, st.prefs.server)

\* st shows what the preferences are, to one who is logged in, whatever row the map
\* has selected; and before there was any server, when it can only show none: the
\* first list may be empty, and loadServer, that would show the server, returns then.
Shown(st) ==
    /\ st \in Fits(lists) /\ ShowsProtocol(st)
    /\ Listed => st.dialog.made
    /\ Listed \/ lists.ids = <<>> => ShowsServer(lists, st)
    /\ st.dialog.made => st.dialog.ip = ip.old
    /\ map.made => st.map.made

ChoiceInv ==
    /\ lists \in Lists /\ (lists.ids = <<>> => lists.servers = <<>>)
    /\ Shown(Now) /\ ShowsRow(Now)
    /\ screen = "map" => map.made

\* The login and the menu that lasts as long as it does.
LoginInv ==
    /\ {loggedIn, reply} \subseteq BOOLEAN /\ logins \in 0 .. MaxLogins
    /\ screen \in {"login", "connection", "map"}
    /\ reply => loggedIn
    /\ menu.enabled => Listed
    /\ menu.items \in Seq(Items) /\ MenuNamesServers
    /\ sent.server \in Names \cup {Blank, Undefined}

\* An address is asked for until it is known, and never again.
IpInv ==
    /\ ip \in [tries : 0 .. 4, asked : BOOLEAN, old : BOOLEAN]
    /\ ip.asked => ip.tries > 0
    /\ ip.asked \/ ip.tries = 0 => ~ip.old

IInv == ChoiceInv /\ LoginInv /\ IpInv

-----------------------------------------------------------------------------
(* The lists.                                                              *)

LEMMA FirstIn ==
    ASSUME NEW S \in SUBSET Nat, S # {}
    PROVE  Min(S) \in S
<1>1. PICK t \in S : \A u \in S : ~(<<u, t>> \in OpToRel(<, Nat))
  BY NatLessThanWellFounded, WFMin
<1>2. ASSUME NEW u \in S PROVE t <= u
  <2>1. ~(u < t)
    <3>1. SUFFICES ASSUME u < t PROVE <<u, t>> \in OpToRel(<, Nat) BY <1>1
    <3>2. t \in Nat /\ u \in Nat OBVIOUS
    <3>3. QED BY <3>1, <3>2 DEF OpToRel
  <2>2. QED BY <2>1
<1>3. \E x \in S : \A y \in S : x <= y BY <1>2
<1>4. QED BY <1>3 DEF Min

\* RowOf: a row that has the id, or 0.
LEMMA RowIs ==
    ASSUME NEW l \in Lists, NEW i
    PROVE  /\ RowOf(l, i) \in {0} \cup DOMAIN l.ids
           /\ RowOf(l, i) \in Nat
           /\ RowOf(l, i) # 0 => l.ids[RowOf(l, i)] = i
<1> DEFINE I == {k \in 1 .. Len(l.ids) : l.ids[k] = i}
<1>1. l.ids \in Seq(Nat) BY DEF Lists
<1>2. Len(l.ids) \in Nat /\ DOMAIN l.ids = 1 .. Len(l.ids) BY <1>1, LenProperties
<1>3. RowOf(l, i) = IF I # {} THEN Min(I) ELSE 0 BY DEF RowOf, SelectInSeq
<1>4. I \in SUBSET Nat OBVIOUS
<1>5. I # {} => Min(I) \in I
  <2> HIDE DEF I
  <2>1. QED BY <1>4, FirstIn
<1>6. I \subseteq DOMAIN l.ids /\ (\A k \in I : k \in Nat /\ l.ids[k] = i) BY <1>2
<1> HIDE DEF I
<1>7. QED BY <1>3, <1>5, <1>6

\* serverIxFromName: a server that has the name, or -1.
LEMMA IndexIs ==
    ASSUME NEW l \in Lists, NEW name
    PROVE  /\ serverIxFromName(l, name) \in Nat \cup {-1}
           /\ name \in Range(l.servers) =>
                /\ serverIxFromName(l, name) # -1
                /\ getServer(l, serverIxFromName(l, name)) = name
<1> DEFINE I == {k \in 1 .. Len(l.servers) : l.servers[k] = name}
           m == IF I # {} THEN Min(I) ELSE 0
<1>1. l.servers \in Seq(Names) BY DEF Lists
<1>2. Len(l.servers) \in Nat /\ DOMAIN l.servers = 1 .. Len(l.servers) BY <1>1, LenProperties
<1>3. serverIxFromName(l, name) = m - 1 BY DEF serverIxFromName, SelectInSeq
<1>4. I \in SUBSET Nat OBVIOUS
<1>5. I # {} => Min(I) \in I
  <2> HIDE DEF I
  <2>1. QED BY <1>4, FirstIn
<1>6. \A k \in I : k \in Nat /\ k # 0 /\ k \in DOMAIN l.servers /\ l.servers[k] = name BY <1>2
<1>7. name \in Range(l.servers) => I # {} BY <1>2 DEF Range
<1> HIDE DEF I
<1>8. m \in Nat /\ (I # {} => m # 0 /\ m \in DOMAIN l.servers /\ l.servers[m] = name)
  BY <1>5, <1>6
<1> HIDE DEF m
<1>9. m - 1 \in Nat \cup {-1} /\ (m # 0 => m - 1 # -1) /\ (m - 1) + 1 = m BY <1>8
<1>10. QED BY <1>3, <1>7, <1>8, <1>9 DEF getServer

LEMMA NameIs ==
    ASSUME NEW l \in Lists, NEW i
    PROVE  getServer(l, i) \in Names \cup {Blank}
<1>1. \A k \in DOMAIN l.servers : l.servers[k] \in Names BY DEF Lists
<1>2. QED BY <1>1 DEF getServer

\* A prefix has the ids the list has.
LEMMA PrefixIs ==
    ASSUME NEW s \in Seq(Nat), NEW t \in Seq(Nat), IsPrefix(s, t)
    PROVE  /\ DOMAIN s \subseteq DOMAIN t
           /\ \A k \in DOMAIN s : k \in Nat /\ k > 0 /\ s[k] = t[k] /\ s[k] \in Nat
           /\ t = <<>> => s = <<>>
<1>1. /\ Len(s) \in Nat /\ DOMAIN s = 1 .. Len(s)
      /\ Len(t) \in Nat /\ DOMAIN t = 1 .. Len(t)
  BY LenProperties
<1>2. Len(s) <= Len(t) /\ SubSeq(s, 1, Len(s)) = SubSeq(t, 1, Len(s)) BY DEF IsPrefix
<1>3. ASSUME NEW k \in 1 .. Len(s) PROVE s[k] = t[k]
  <2>1. SubSeq(s, 1, Len(s)) = [j \in 1 .. Len(s) |-> s[j]] BY <1>1
  <2>2. SubSeq(t, 1, Len(s)) = [j \in 1 .. Len(s) |-> t[j]] BY <1>1
  <2>3. [j \in 1 .. Len(s) |-> s[j]][k] = s[k] /\ [j \in 1 .. Len(s) |-> t[j]][k] = t[k] OBVIOUS
  <2>4. QED BY <1>2, <2>1, <2>2, <2>3
<1>4. t = <<>> => s = <<>>
  <2> SUFFICES ASSUME t = <<>> PROVE s = <<>> OBVIOUS
  <2>1. Len(t) = 0 OBVIOUS
  <2>2. Len(s) = 0 BY <1>1, <1>2, <2>1
  <2>3. QED BY <2>2, EmptySeq
<1>5. QED BY <1>1, <1>2, <1>3, <1>4

LEMMA ItselfIsPrefix ==
    ASSUME NEW s \in Seq(Nat) PROVE IsPrefix(s, s)
BY LenProperties DEF IsPrefix

-----------------------------------------------------------------------------
(* The setters.                                                            *)

\* What a setter that is not setProtocol leaves as it was.
Keeps(l, st, r) ==
    /\ r \in Fits(l)
    /\ r.map.made = st.map.made /\ r.dialog.made = st.dialog.made
    /\ r.dialog.ip = st.dialog.ip
    /\ r.prefs.protocol = st.prefs.protocol /\ r.dialog.protocol = st.dialog.protocol

LEMMA ProtocolsAre ==
    /\ Len(Ports) = 3 /\ Protocols = -1 .. 2
    /\ Blank \notin Names /\ Undefined \notin Names
BY ChoiceAssumption DEF Ports, Protocols

\* Fits, field by field.
LEMMA FitsIs ==
    ASSUME NEW l, NEW st \in Fits(l)
    PROVE  /\ st = [prefs |-> st.prefs, map |-> st.map, dialog |-> st.dialog]
           /\ st.prefs \in Chosen /\ st.map \in Maps /\ st.dialog \in Dialogs
           /\ st.prefs.server \in Nat \cup {-1} /\ st.map.ids \in Seq(Nat) /\ st.map.row \in Nat
           /\ IsPrefix(st.map.ids, l.ids) /\ st.map.row \in {0} \cup DOMAIN st.map.ids
           /\ ~st.map.made => st.map.row = 0
           /\ st.map.enabled <=> st.map.protocol > 0
<1>1. /\ st = [prefs |-> st.prefs, map |-> st.map, dialog |-> st.dialog]
      /\ st.prefs \in Chosen /\ st.map \in Maps /\ st.dialog \in Dialogs
  BY DEF Fits
<1>2. /\ IsPrefix(st.map.ids, l.ids) /\ st.map.row \in {0} \cup DOMAIN st.map.ids
      /\ ~st.map.made => st.map.row = 0
      /\ st.map.enabled <=> st.map.protocol > 0
  BY DEF Fits
<1>3. st.prefs.server \in Nat \cup {-1} BY <1>1 DEF Chosen
<1>4. st.map.ids \in Seq(Nat) /\ st.map.row \in Nat BY <1>1 DEF Maps
<1>5. QED BY <1>1, <1>2, <1>3, <1>4

LEMMA StoreIs ==
    ASSUME NEW l \in Lists, NEW st \in Fits(l), NEW i \in Nat \cup {-1}
    PROVE  LET r == Store(l, st, i)
           IN  /\ Keeps(l, st, r) /\ ShowsServer(l, r) /\ r.map = st.map
               /\ r.prefs.server = i /\ r.prefs.name = getServer(l, i)
<1> DEFINE p == [st.prefs EXCEPT !.server = i, !.name = getServer(l, i)]
           q == [st EXCEPT !.prefs = p]
           d == IF st.dialog.made THEN [st.dialog EXCEPT !.server = getServer(l, i)]
                                  ELSE st.dialog
           r == [prefs |-> p, map |-> st.map, dialog |-> d]
<1>1. getServer(l, i) \in Names \cup {Blank, Undefined} /\ getServer(l, i) \in Names \cup {Blank}
  BY NameIs
<1>2. /\ st = [prefs |-> st.prefs, map |-> st.map, dialog |-> st.dialog]
      /\ st.prefs \in Chosen /\ st.map \in Maps /\ st.dialog \in Dialogs
  BY FitsIs
<1>3. p \in Chosen /\ p.server = i /\ p.name = getServer(l, i) /\ p.protocol = st.prefs.protocol
  BY <1>1, <1>2 DEF Chosen
<1>4. q = [st EXCEPT !.prefs.server = i, !.prefs.name = getServer(l, i)] OBVIOUS
<1>5. q = [prefs |-> p, map |-> st.map, dialog |-> st.dialog] BY <1>2
<1>6. /\ d \in Dialogs /\ d.made = st.dialog.made /\ d.ip = st.dialog.ip
      /\ d.protocol = st.dialog.protocol /\ (d.made => d.server = getServer(l, i))
  BY <1>1, <1>2 DEF Dialogs
<1> HIDE DEF p
<1>7. Store(l, st, i) = updateServer(l, q) BY <1>4 DEF Store
<1>8. updateServer(l, q) = r
  <2>1. q.prefs = p /\ q.map = st.map /\ q.dialog = st.dialog BY <1>5
  <2>2. CASE st.dialog.made
    <3> DEFINE e == [st.dialog EXCEPT !.server = getServer(l, i)]
    <3>1. updateServer(l, q) = [q EXCEPT !.dialog.server = getServer(l, i)]
      BY <1>3, <2>1, <2>2 DEF updateServer
    <3> HIDE DEF q
    <3>2. [q EXCEPT !.dialog.server = getServer(l, i)] = [q EXCEPT !.dialog = e] BY <2>1
    <3>3. d = e BY <2>2
    <3> HIDE DEF e
    <3>4. [q EXCEPT !.dialog = e] = [prefs |-> p, map |-> st.map, dialog |-> e] BY <1>5
    <3>5. QED BY <3>1, <3>2, <3>3, <3>4
  <2>3. CASE ~st.dialog.made
    <3>1. updateServer(l, q) = q BY <2>1, <2>3 DEF updateServer
    <3>2. QED BY <1>5, <2>3, <3>1
  <2>4. QED BY <2>2, <2>3
<1>9. Store(l, st, i) = r BY <1>7, <1>8
<1> HIDE DEF d, q
<1>10. r.prefs = p /\ r.map = st.map /\ r.dialog = d OBVIOUS
<1>11. r \in Fits(l) BY <1>2, <1>3, <1>6 DEF Fits
<1> HIDE DEF r
<1>12. Keeps(l, st, r) BY <1>3, <1>6, <1>10, <1>11 DEF Keeps
<1>13. ShowsServer(l, r) BY <1>3, <1>6, <1>10 DEF ShowsServer
<1>14. QED BY <1>3, <1>9, <1>10, <1>12, <1>13

\* The map has the row selected.
LEMMA SelectIs ==
    ASSUME NEW l, NEW st \in Fits(l), NEW row \in {0} \cup DOMAIN st.map.ids,
           st.map.made \/ row = 0
    PROVE  LET r == [st EXCEPT !.map.row = row]
           IN  /\ Keeps(l, st, r)
               /\ r.map.ids = st.map.ids /\ r.map.row = row
               /\ r.prefs = st.prefs /\ r.dialog = st.dialog
<1> DEFINE m == [st.map EXCEPT !.row = row]
           r == [prefs |-> st.prefs, map |-> m, dialog |-> st.dialog]
<1>1. /\ st = [prefs |-> st.prefs, map |-> st.map, dialog |-> st.dialog]
      /\ st.prefs \in Chosen /\ st.map \in Maps /\ st.dialog \in Dialogs
      /\ st.map.ids \in Seq(Nat) /\ IsPrefix(st.map.ids, l.ids)
      /\ st.map.enabled <=> st.map.protocol > 0
  BY FitsIs
<1>2. row \in Nat
  <2>1. DOMAIN st.map.ids = 1 .. Len(st.map.ids) /\ Len(st.map.ids) \in Nat BY <1>1, LenProperties
  <2>2. QED BY <2>1
<1>3. /\ m \in Maps /\ m.ids = st.map.ids /\ m.row = row /\ m.made = st.map.made
      /\ m.enabled = st.map.enabled /\ m.protocol = st.map.protocol
  BY <1>1, <1>2 DEF Maps
<1>4. [st EXCEPT !.map.row = row] = r BY <1>1
<1> HIDE DEF m
<1>5. r.prefs = st.prefs /\ r.map = m /\ r.dialog = st.dialog OBVIOUS
<1>6. r \in Fits(l) BY <1>1, <1>3 DEF Fits
<1> HIDE DEF r
<1>7. Keeps(l, st, r) BY <1>3, <1>5, <1>6 DEF Keeps
<1>8. QED BY <1>3, <1>4, <1>5, <1>7

LEMMA KeepsOn ==
    ASSUME NEW l, NEW a, NEW b, NEW c, Keeps(l, a, b), Keeps(l, b, c)
    PROVE  Keeps(l, a, c)
BY DEF Keeps

LEMMA UpdateLocationIs ==
    ASSUME NEW l \in Lists, NEW st \in Fits(l)
    PROVE  LET r == updateLocation(l, st)
           IN  /\ Keeps(l, st, r) /\ ShowsRow(r)
               /\ ShowsServer(l, st) => ShowsServer(l, r)
               /\ ~st.map.made => r = st
<1> DEFINE row == RowOf(l, st.prefs.server)
           r   == updateLocation(l, st)
<1>1. /\ row \in {0} \cup DOMAIN l.ids /\ row \in Nat
      /\ row # 0 => l.ids[row] = st.prefs.server
  BY RowIs
<1>2. /\ st.map.ids \in Seq(Nat) /\ l.ids \in Seq(Nat) /\ st.map.row \in Nat
      /\ IsPrefix(st.map.ids, l.ids) /\ st.map.row \in {0} \cup DOMAIN st.map.ids
      /\ ~st.map.made => st.map.row = 0
  BY FitsIs DEF Lists
<1>3. /\ \A k \in DOMAIN st.map.ids :
            k \in Nat /\ k > 0 /\ st.map.ids[k] = l.ids[k] /\ st.map.ids[k] \in Nat
      /\ l.ids = <<>> => st.map.ids = <<>>
  BY <1>2, PrefixIs
<1>4. CASE ~st.map.made \/ l.ids = <<>> \/ row = st.map.row
  <2>1. r = st BY <1>4 DEF updateLocation
  <2>2. Keeps(l, st, st) BY DEF Keeps
  <2>3. ShowsRow(st)
    <3>1. CASE ~st.map.made \/ l.ids = <<>>
      <4>1. st.map.row = 0 BY <1>2, <1>3, <3>1
      <4>2. QED BY <4>1 DEF ShowsRow
    <3>2. CASE row = st.map.row BY <1>1, <1>2, <1>3, <3>2 DEF ShowsRow
    <3>3. QED BY <1>4, <3>1, <3>2
  <2> HIDE DEF r
  <2>4. QED BY <2>1, <2>2, <2>3 DEF r
<1>5. CASE ~(~st.map.made \/ l.ids = <<>> \/ row = st.map.row) /\ row \in DOMAIN st.map.ids
  <2> DEFINE s == [st EXCEPT !.map.row = row]
             i == st.map.ids[row]
  <2>1. r = Store(l, s, i) BY <1>5 DEF updateLocation
  <2>2. Keeps(l, st, s) /\ s.map.ids = st.map.ids /\ s.map.row = row BY <1>5, SelectIs
  <2> HIDE DEF s
  <2>3. s \in Fits(l) /\ i \in Nat \cup {-1} BY <1>3, <1>5, <2>2 DEF Keeps
  <2>4. /\ Keeps(l, s, Store(l, s, i)) /\ ShowsServer(l, Store(l, s, i))
        /\ Store(l, s, i).map = s.map /\ Store(l, s, i).prefs.server = i
    BY <2>3, StoreIs
  <2> HIDE DEF r
  <2>5. Keeps(l, st, r) BY <2>1, <2>2, <2>4, KeepsOn
  <2>6. ShowsRow(r) BY <2>1, <2>2, <2>4 DEF ShowsRow
  <2>7. QED BY <1>5, <2>1, <2>4, <2>5, <2>6 DEF r
<1>6. CASE ~(~st.map.made \/ l.ids = <<>> \/ row = st.map.row) /\ row \notin DOMAIN st.map.ids
  <2> DEFINE s == [st EXCEPT !.map.row = 0]
  <2>1. r = Store(l, s, -1) BY <1>6 DEF updateLocation
  <2>2. Keeps(l, st, s) /\ s.map.row = 0 BY SelectIs
  <2> HIDE DEF s
  <2>3. s \in Fits(l) BY <2>2 DEF Keeps
  <2>4. /\ Keeps(l, s, Store(l, s, -1)) /\ ShowsServer(l, Store(l, s, -1))
        /\ Store(l, s, -1).map = s.map
    BY <2>3, StoreIs
  <2> HIDE DEF r
  <2>5. Keeps(l, st, r) BY <2>1, <2>2, <2>4, KeepsOn
  <2>6. ShowsRow(r) BY <2>1, <2>2, <2>4 DEF ShowsRow
  <2>7. QED BY <1>6, <2>1, <2>4, <2>5, <2>6 DEF r
<1>7. QED BY <1>4, <1>5, <1>6

LEMMA SetServerIs ==
    ASSUME NEW l \in Lists, NEW st \in Fits(l), NEW i \in Nat \cup {-1}
    PROVE  LET r == setServer(l, st, i)
           IN  /\ Keeps(l, st, r) /\ ShowsRow(r) /\ ShowsServer(l, r)
               /\ ~st.map.made => r.prefs.name = getServer(l, i)
<1> DEFINE s == Store(l, st, i)
           r == updateLocation(l, s)
<1>1. /\ Keeps(l, st, s) /\ ShowsServer(l, s) /\ s.map = st.map
      /\ s.prefs.name = getServer(l, i)
  BY StoreIs
<1>2. setServer(l, st, i) = r BY DEF setServer
<1> HIDE DEF s
<1>3. s \in Fits(l) BY <1>1 DEF Keeps
<1>4. /\ Keeps(l, s, r) /\ ShowsRow(r) /\ (ShowsServer(l, s) => ShowsServer(l, r))
      /\ ~s.map.made => r = s
  BY <1>3, UpdateLocationIs
<1> HIDE DEF r
<1>5. Keeps(l, st, r) BY <1>1, <1>4, KeepsOn
<1>6. QED BY <1>1, <1>2, <1>4, <1>5

\* One part is replaced.
LEMMA ReplaceDialog ==
    ASSUME NEW l, NEW st \in Fits(l), NEW d \in Dialogs
    PROVE  LET r == [st EXCEPT !.dialog = d]
           IN  r \in Fits(l) /\ r.prefs = st.prefs /\ r.map = st.map /\ r.dialog = d
<1> DEFINE r == [prefs |-> st.prefs, map |-> st.map, dialog |-> d]
<1>1. [st EXCEPT !.dialog = d] = r BY FitsIs
<1>2. r \in Fits(l) BY DEF Fits
<1>3. QED BY <1>1, <1>2

LEMMA ReplacePrefs ==
    ASSUME NEW l, NEW st \in Fits(l), NEW p \in Chosen
    PROVE  LET r == [st EXCEPT !.prefs = p]
           IN  r \in Fits(l) /\ r.prefs = p /\ r.map = st.map /\ r.dialog = st.dialog
<1> DEFINE r == [prefs |-> p, map |-> st.map, dialog |-> st.dialog]
<1>1. [st EXCEPT !.prefs = p] = r BY FitsIs
<1>2. r \in Fits(l) BY DEF Fits
<1>3. QED BY <1>1, <1>2

LEMMA ReplaceMap ==
    ASSUME NEW l, NEW st \in Fits(l), NEW m \in Maps,
           IsPrefix(m.ids, l.ids), m.row \in {0} \cup DOMAIN m.ids,
           m.made \/ m.row = 0, m.enabled <=> m.protocol > 0
    PROVE  LET r == [st EXCEPT !.map = m]
           IN  r \in Fits(l) /\ r.prefs = st.prefs /\ r.map = m /\ r.dialog = st.dialog
<1> DEFINE r == [prefs |-> st.prefs, map |-> m, dialog |-> st.dialog]
<1>1. [st EXCEPT !.map = m] = r BY FitsIs
<1>2. r.prefs = st.prefs /\ r.map = m /\ r.dialog = st.dialog OBVIOUS
<1>3. r \in [prefs : Chosen, map : Maps, dialog : Dialogs] BY FitsIs
<1> HIDE DEF r
<1>4. r \in Fits(l) BY <1>2, <1>3 DEF Fits
<1>5. QED BY <1>1, <1>2, <1>4

LEMMA UpdateProtocolIs ==
    ASSUME NEW l, NEW st \in Fits(l)
    PROVE  LET r == updateProtocol(st)
           IN  /\ r \in Fits(l) /\ r.prefs = st.prefs /\ r.map = st.map
               /\ r.dialog.made = st.dialog.made /\ r.dialog.ip = st.dialog.ip
               /\ r.dialog.server = st.dialog.server
               /\ ShowsProtocol(r)
<1> DEFINE d == [st.dialog EXCEPT !.protocol = st.prefs.protocol]
<1>1. st.dialog \in Dialogs /\ st.prefs.protocol \in Protocols BY FitsIs DEF Chosen
<1>2. /\ d \in Dialogs /\ d.made = st.dialog.made /\ d.ip = st.dialog.ip
      /\ d.server = st.dialog.server /\ d.protocol = st.prefs.protocol
  BY <1>1 DEF Dialogs
<1>3. [st EXCEPT !.dialog.protocol = st.prefs.protocol] = [st EXCEPT !.dialog = d] OBVIOUS
<1> HIDE DEF d
<1>4. CASE st.dialog.made
  <2>1. updateProtocol(st) = [st EXCEPT !.dialog = d] BY <1>3, <1>4 DEF updateProtocol
  <2> DEFINE r == [st EXCEPT !.dialog = d]
  <2>2. r \in Fits(l) /\ r.prefs = st.prefs /\ r.map = st.map /\ r.dialog = d
    BY <1>2, ReplaceDialog
  <2> HIDE DEF r
  <2>3. QED BY <1>2, <2>1, <2>2 DEF r, ShowsProtocol
<1>5. CASE ~st.dialog.made BY <1>5 DEF updateProtocol, ShowsProtocol
<1>6. QED BY <1>4, <1>5

LEMMA RepopulateIs ==
    ASSUME NEW l \in Lists, NEW st \in Fits(l)
    PROVE  LET r == repopulateLocations(l, st)
           IN  /\ Keeps(l, st, r) /\ ShowsRow(r)
               /\ ShowsServer(l, st) => ShowsServer(l, r)
<1> DEFINE row   == IF st.map.row = 0 THEN 0 ELSE RowOf(l, st.map.ids[st.map.row])
           m     == [st.map EXCEPT !.ids = l.ids, !.row = row]
           fresh == [st EXCEPT !.map = m]
           r     == repopulateLocations(l, st)
<1>1. row \in {0} \cup DOMAIN l.ids /\ row \in Nat BY RowIs
<1>2. l.ids \in Seq(Nat) /\ st.map \in Maps /\ (st.map.enabled <=> st.map.protocol > 0)
  BY FitsIs DEF Lists
<1>3. fresh = [st EXCEPT !.map.ids = l.ids, !.map.row = row] OBVIOUS
<1> HIDE DEF row
<1>4. /\ m \in Maps /\ m.ids = l.ids /\ m.row = row /\ m.made = st.map.made
      /\ m.enabled = st.map.enabled /\ m.protocol = st.map.protocol
  BY <1>1, <1>2 DEF Maps
<1>5. CASE ~st.map.made
  <2>1. r = st BY <1>5 DEF repopulateLocations
  <2>2. Keeps(l, st, st) BY DEF Keeps
  <2>3. ShowsRow(st)
    <3>1. st.map.row = 0 BY <1>5, FitsIs
    <3>2. QED BY <3>1 DEF ShowsRow
  <2> HIDE DEF r
  <2>4. QED BY <2>1, <2>2, <2>3 DEF r
<1>6. CASE st.map.made
  <2>1. r = IF row = 0 THEN updateLocation(l, fresh) ELSE setServer(l, fresh, l.ids[row])
    BY <1>3, <1>6 DEF repopulateLocations, row
  <2>2. IsPrefix(m.ids, l.ids) /\ m.row \in {0} \cup DOMAIN m.ids /\ m.made
        /\ (m.enabled <=> m.protocol > 0)
    <3>1. IsPrefix(l.ids, l.ids) BY <1>2, ItselfIsPrefix
    <3> HIDE DEF m
    <3>2. QED BY <1>1, <1>2, <1>4, <1>6, <3>1
  <2> HIDE DEF m, r
  <2>3. /\ fresh \in Fits(l) /\ fresh.prefs = st.prefs /\ fresh.map = m
        /\ fresh.dialog = st.dialog
    BY <1>4, <2>2, ReplaceMap
  <2> HIDE DEF fresh
  <2>4. Keeps(l, st, fresh) BY <1>4, <2>3 DEF Keeps
  <2>5. ShowsServer(l, st) => ShowsServer(l, fresh) BY <2>3 DEF ShowsServer
  <2>6. CASE row = 0
    <3>1. r = updateLocation(l, fresh) BY <2>1, <2>6
    <3>2. /\ Keeps(l, fresh, r) /\ ShowsRow(r)
          /\ ShowsServer(l, fresh) => ShowsServer(l, r)
      BY <2>3, <3>1, UpdateLocationIs
    <3>3. Keeps(l, st, r) BY <2>4, <3>2, KeepsOn
    <3>4. QED BY <2>5, <3>2, <3>3 DEF r
  <2>7. CASE row # 0
    <3>1. r = setServer(l, fresh, l.ids[row]) BY <2>1, <2>7
    <3>2. l.ids[row] \in Nat \cup {-1} BY <1>1, <1>2, <2>7, ElementOfSeq, LenProperties
    <3>3. Keeps(l, fresh, r) /\ ShowsRow(r) /\ ShowsServer(l, r)
      BY <2>3, <3>1, <3>2, SetServerIs
    <3>4. Keeps(l, st, r) BY <2>4, <3>3, KeepsOn
    <3>5. QED BY <3>3, <3>4 DEF r
  <2>8. QED BY <2>6, <2>7
<1>7. QED BY <1>5, <1>6

LEMMA SetProtocolIs ==
    ASSUME NEW l \in Lists, NEW st \in Fits(l), NEW ix \in Protocols
    PROVE  LET r == setProtocol(l, st, ix)
           IN  /\ r \in Fits(l)
               /\ r.map.made = st.map.made /\ r.dialog.made = st.dialog.made
               /\ r.dialog.ip = st.dialog.ip
               /\ ShowsProtocol(r) /\ ShowsRow(r)
               /\ ShowsServer(l, st) => ShowsServer(l, r)
<1> DEFINE p == [st.prefs EXCEPT !.protocol = ix]
           a == [st EXCEPT !.prefs = p]
           b == updateProtocol(a)
           r == repopulateLocations(l, b)
<1>1. p \in Chosen /\ p.protocol = ix /\ p.server = st.prefs.server
  <2>1. st.prefs \in Chosen BY FitsIs
  <2>2. QED BY <2>1 DEF Chosen
<1>2. a = [st EXCEPT !.prefs.protocol = ix] OBVIOUS
<1>3. setProtocol(l, st, ix) = r BY <1>2 DEF setProtocol
<1> HIDE DEF p
<1>4. a \in Fits(l) /\ a.prefs = p /\ a.map = st.map /\ a.dialog = st.dialog
  BY <1>1, ReplacePrefs
<1> HIDE DEF a
<1>5. /\ b \in Fits(l) /\ b.prefs = a.prefs /\ b.map = a.map
      /\ b.dialog.made = a.dialog.made /\ b.dialog.ip = a.dialog.ip
      /\ b.dialog.server = a.dialog.server /\ ShowsProtocol(b)
  BY <1>4, UpdateProtocolIs
<1> HIDE DEF b
<1>6. /\ Keeps(l, b, r) /\ ShowsRow(r) /\ (ShowsServer(l, b) => ShowsServer(l, r))
  BY <1>5, RepopulateIs
<1> HIDE DEF r
<1>7. ShowsServer(l, st) => ShowsServer(l, b) BY <1>1, <1>4, <1>5 DEF ShowsServer
<1>8. ShowsProtocol(r) BY <1>5, <1>6 DEF ShowsProtocol, Keeps
<1>9. QED BY <1>3, <1>4, <1>5, <1>6, <1>7, <1>8 DEF Keeps

LEMMA MakeDialogIs ==
    ASSUME NEW l \in Lists, NEW st \in Fits(l), ip.old \in BOOLEAN
    PROVE  LET r == MakeDialog(l, st)
           IN  /\ r \in Fits(l) /\ r.prefs = st.prefs /\ r.map = st.map /\ r.dialog.made
               /\ st.dialog.made => r = st
               /\ ~st.dialog.made =>
                     r.dialog.ip = ip.old /\ ShowsProtocol(r) /\ ShowsServer(l, r)
<1>1. CASE st.dialog.made BY <1>1 DEF MakeDialog
<1>2. CASE ~st.dialog.made
  <2> DEFINE d == [st.dialog EXCEPT !.made = TRUE, !.ip = ip.old]
             a == [st EXCEPT !.dialog = d]
             e == [d EXCEPT !.server = getServer(l, st.prefs.server)]
             b == [a EXCEPT !.dialog = e]
             r == updateProtocol(b)
  <2>1. st.dialog \in Dialogs BY FitsIs
  <2>2. d \in Dialogs /\ d.made /\ d.ip = ip.old BY <2>1 DEF Dialogs
  <2>3. MakeDialog(l, st) = updateProtocol(updateServer(l, a)) BY <1>2 DEF MakeDialog
  <2>4. /\ e \in Dialogs /\ e.made /\ e.ip = ip.old
        /\ e.server = getServer(l, st.prefs.server)
    <3>1. getServer(l, st.prefs.server) \in Names \cup {Blank} BY NameIs
    <3> HIDE DEF d
    <3>2. QED BY <2>2, <3>1 DEF Dialogs
  <2> HIDE DEF d
  <2>5. a \in Fits(l) /\ a.prefs = st.prefs /\ a.map = st.map /\ a.dialog = d
    BY <2>2, ReplaceDialog
  <2> HIDE DEF a
  <2>6. updateServer(l, a) = b BY <2>2, <2>5 DEF updateServer
  <2> HIDE DEF e
  <2>7. b \in Fits(l) /\ b.prefs = a.prefs /\ b.map = a.map /\ b.dialog = e
    BY <2>4, <2>5, ReplaceDialog
  <2> HIDE DEF b
  <2>8. /\ r \in Fits(l) /\ r.prefs = b.prefs /\ r.map = b.map
        /\ r.dialog.made = b.dialog.made /\ r.dialog.ip = b.dialog.ip
        /\ r.dialog.server = b.dialog.server /\ ShowsProtocol(r)
    BY <2>7, UpdateProtocolIs
  <2> HIDE DEF r
  <2>9. ShowsServer(l, r) BY <2>4, <2>5, <2>7, <2>8 DEF ShowsServer
  <2>10. MakeDialog(l, st) = r BY <2>3, <2>6 DEF r
  <2>11. r.dialog.made /\ r.dialog.ip = ip.old BY <2>4, <2>7, <2>8
  <2>12. r.prefs = st.prefs /\ r.map = st.map BY <2>5, <2>7, <2>8
  <2>13. QED BY <1>2, <2>8, <2>9, <2>10, <2>11, <2>12
<1>3. QED BY <1>1, <1>2

LEMMA MakeMapIs ==
    ASSUME NEW l \in Lists, NEW st \in Fits(l)
    PROVE  LET r == MakeMap(l, st)
           IN  /\ r \in Fits(l) /\ r.map.made
               /\ r.dialog.made = st.dialog.made /\ r.dialog.ip = st.dialog.ip
               /\ ShowsProtocol(st) => ShowsProtocol(r)
               /\ ShowsRow(st) => ShowsRow(r)
               /\ ShowsServer(l, st) => ShowsServer(l, r)
<1>1. CASE st.map.made BY <1>1 DEF MakeMap
<1>2. CASE ~st.map.made
  <2> DEFINE row == st.prefs.protocol + 1
             a   == updateProtocol(st)
             m   == [made |-> TRUE, ids |-> l.ids, row |-> 0, protocol |-> row,
                     enabled |-> row > 0]
             b   == [a EXCEPT !.map = m]
             r   == updateLocation(l, b)
  <2>1. MakeMap(l, st) = r BY <1>2 DEF MakeMap
  <2>2. st.prefs.protocol \in -1 .. 2 BY FitsIs, ProtocolsAre DEF Chosen
  <2>3. l.ids \in Seq(Nat) BY DEF Lists
  <2>4. /\ m \in Maps /\ m.ids = l.ids /\ m.row = 0 /\ m.made
        /\ (m.enabled <=> m.protocol > 0)
    <3>1. row \in 0 .. Len(Ports) /\ (row > 0) \in BOOLEAN BY <2>2, ProtocolsAre
    <3>2. m.enabled <=> m.protocol > 0 OBVIOUS
    <3> HIDE DEF row
    <3>3. m \in Maps BY <2>3, <3>1 DEF Maps
    <3>4. QED BY <3>2, <3>3
  <2>5. IsPrefix(m.ids, l.ids) BY <2>3, <2>4, ItselfIsPrefix
  <2>6. /\ a \in Fits(l) /\ a.prefs = st.prefs /\ a.map = st.map
        /\ a.dialog.made = st.dialog.made /\ a.dialog.ip = st.dialog.ip
        /\ a.dialog.server = st.dialog.server /\ ShowsProtocol(a)
    BY UpdateProtocolIs
  <2> HIDE DEF a, m
  <2>7. b \in Fits(l) /\ b.prefs = a.prefs /\ b.map = m /\ b.dialog = a.dialog
    BY <2>4, <2>5, <2>6, ReplaceMap
  <2> HIDE DEF b
  <2>8. Keeps(l, b, r) /\ ShowsRow(r) /\ (ShowsServer(l, b) => ShowsServer(l, r))
    BY <2>7, UpdateLocationIs
  <2> HIDE DEF r
  <2>9. ShowsServer(l, st) => ShowsServer(l, b) BY <2>6, <2>7 DEF ShowsServer
  <2>10. ShowsProtocol(r) BY <2>6, <2>7, <2>8 DEF ShowsProtocol, Keeps
  <2>11. /\ r \in Fits(l) /\ r.map.made
         /\ r.dialog.made = st.dialog.made /\ r.dialog.ip = st.dialog.ip
    BY <2>4, <2>6, <2>7, <2>8 DEF Keeps
  <2>12. QED BY <2>1, <2>8, <2>9, <2>10, <2>11
<1>3. QED BY <1>1, <1>2

-----------------------------------------------------------------------------
(* What the setters make of preferences that are shown.                    *)

LEMMA SetServerShows ==
    ASSUME IInv, NEW st, Shown(st), NEW i \in Nat \cup {-1}
    PROVE  LET r == setServer(lists, st, i)
           IN  Shown(r) /\ ShowsRow(r) /\ r.map.made = st.map.made
<1> DEFINE r == setServer(lists, st, i)
<1>1. lists \in Lists /\ st \in Fits(lists) BY DEF IInv, ChoiceInv, Shown
<1>2. Keeps(lists, st, r) /\ ShowsRow(r) /\ ShowsServer(lists, r) BY <1>1, SetServerIs
<1> HIDE DEF r
<1>3. Shown(r) BY <1>2 DEF Shown, Keeps, ShowsProtocol
<1>4. QED BY <1>2, <1>3 DEF r, Keeps

LEMMA SetProtocolShows ==
    ASSUME IInv, NEW st, Shown(st), NEW ix \in Protocols
    PROVE  LET r == setProtocol(lists, st, ix)
           IN  Shown(r) /\ ShowsRow(r) /\ r.map.made = st.map.made
<1> DEFINE r == setProtocol(lists, st, ix)
<1>1. lists \in Lists /\ st \in Fits(lists) BY DEF IInv, ChoiceInv, Shown
<1>2. /\ r \in Fits(lists)
      /\ r.map.made = st.map.made /\ r.dialog.made = st.dialog.made
      /\ r.dialog.ip = st.dialog.ip
      /\ ShowsProtocol(r) /\ ShowsRow(r)
      /\ ShowsServer(lists, st) => ShowsServer(lists, r)
  BY <1>1, SetProtocolIs
<1> HIDE DEF r
<1>3. Shown(r) BY <1>2 DEF Shown
<1>4. QED BY <1>2, <1>3 DEF r

LEMMA MakeDialogShows ==
    ASSUME IInv
    PROVE  LET r == MakeDialog(lists, Now) IN Shown(r) /\ ShowsRow(r)
<1> DEFINE r == MakeDialog(lists, Now)
<1>1. /\ lists \in Lists /\ Shown(Now) /\ ShowsRow(Now) /\ Now \in Fits(lists)
      /\ ip.old \in BOOLEAN
  BY DEF IInv, ChoiceInv, IpInv, Shown
<1>2. /\ r \in Fits(lists) /\ r.prefs = Now.prefs /\ r.map = Now.map /\ r.dialog.made
      /\ Now.dialog.made => r = Now
      /\ ~Now.dialog.made =>
            r.dialog.ip = ip.old /\ ShowsProtocol(r) /\ ShowsServer(lists, r)
  BY <1>1, MakeDialogIs
<1> HIDE DEF r
<1>3. ShowsRow(r) BY <1>1, <1>2 DEF ShowsRow
<1>4. Shown(r)
  <2>1. CASE Now.dialog.made BY <1>1, <1>2, <2>1
  <2>2. CASE ~Now.dialog.made BY <1>1, <1>2, <2>2 DEF Shown
  <2>3. QED BY <2>1, <2>2
<1>5. QED BY <1>3, <1>4 DEF r

LEMMA MakeMapShows ==
    ASSUME IInv
    PROVE  LET r == MakeMap(lists, Now) IN Shown(r) /\ ShowsRow(r) /\ r.map.made
<1> DEFINE r == MakeMap(lists, Now)
<1>1. lists \in Lists /\ Shown(Now) /\ ShowsRow(Now) /\ Now \in Fits(lists)
  BY DEF IInv, ChoiceInv, Shown
<1>2. /\ r \in Fits(lists) /\ r.map.made
      /\ r.dialog.made = Now.dialog.made /\ r.dialog.ip = Now.dialog.ip
      /\ ShowsProtocol(Now) => ShowsProtocol(r)
      /\ ShowsRow(Now) => ShowsRow(r)
      /\ ShowsServer(lists, Now) => ShowsServer(lists, r)
  BY <1>1, MakeMapIs
<1> HIDE DEF r
<1>3. Shown(r) BY <1>1, <1>2 DEF Shown
<1>4. QED BY <1>1, <1>2, <1>3 DEF r

\* The combo boxes of the map, as the user left them.
LEMMA RowShows ==
    ASSUME IInv, screen = "map", NEW row \in {0} \cup DOMAIN map.ids
    PROVE  Shown([Now EXCEPT !.map.row = row])
<1> DEFINE r == [Now EXCEPT !.map.row = row]
<1>1. Shown(Now) /\ Now \in Fits(lists) /\ map.made BY DEF IInv, ChoiceInv, Shown
<1>2. Now.map = map BY DEF Now
<1>3. Keeps(lists, Now, r) /\ r.prefs = Now.prefs /\ r.dialog = Now.dialog
  BY <1>1, <1>2, SelectIs
<1> HIDE DEF r
<1>4. Shown(r) BY <1>1, <1>3 DEF Shown, Keeps, ShowsProtocol, ShowsServer
<1>5. QED BY <1>4 DEF r

LEMMA ProtocolRowShows ==
    ASSUME IInv, screen = "map", NEW row \in 0 .. Len(Ports)
    PROVE  Shown([Now EXCEPT !.map.protocol = row, !.map.enabled = row > 0])
<1> DEFINE e == row > 0
           m == [map EXCEPT !.protocol = row, !.enabled = e]
           r == [Now EXCEPT !.map = m]
<1>1. Shown(Now) /\ Now \in Fits(lists) /\ map.made BY DEF IInv, ChoiceInv, Shown
<1>2. Now.map = map BY DEF Now
<1>3. /\ map \in Maps /\ IsPrefix(map.ids, lists.ids)
      /\ map.row \in {0} \cup DOMAIN map.ids
  BY <1>1, <1>2, FitsIs
<1>4. e \in BOOLEAN /\ (e <=> row > 0) OBVIOUS
<1>5. [Now EXCEPT !.map.protocol = row, !.map.enabled = e] = r BY <1>2
<1> HIDE DEF e
<1>6. /\ m \in Maps /\ m.ids = map.ids /\ m.row = map.row /\ m.made = map.made
      /\ m.protocol = row /\ m.enabled = e
  BY <1>3, <1>4 DEF Maps
<1>7. /\ IsPrefix(m.ids, lists.ids) /\ m.row \in {0} \cup DOMAIN m.ids /\ m.made
      /\ (m.enabled <=> m.protocol > 0)
  <2> HIDE DEF m
  <2>1. QED BY <1>1, <1>3, <1>4, <1>6
<1> HIDE DEF m
<1>8. /\ r \in Fits(lists) /\ r.prefs = Now.prefs /\ r.map = m /\ r.dialog = Now.dialog
  BY <1>1, <1>6, <1>7, ReplaceMap
<1> HIDE DEF r
<1>9. Shown(r) BY <1>1, <1>6, <1>7, <1>8 DEF Shown, ShowsProtocol, ShowsServer
<1>10. QED BY <1>5, <1>9 DEF e

-----------------------------------------------------------------------------
(* Each action.                                                            *)

LEMMA BecomesIs ==
    ASSUME NEW l, NEW r \in Fits(l), Becomes(r)
    PROVE  Now' = r
<1>1. r = [prefs |-> r.prefs, map |-> r.map, dialog |-> r.dialog] BY FitsIs
<1>2. QED BY <1>1 DEF Now, Becomes

\* A step of a screen, the menu or the port loop.
LEMMA ScreenStep ==
    ASSUME IInv, NEW r, Shown(r), ShowsRow(r), Becomes(r),
           UNCHANGED <<loggedIn, reply, logins, lists, menu, ip>>,
           screen' \in {"login", "connection", "map"}, screen' = "map" => r.map.made,
           sent'.server \in Names \cup {Blank, Undefined}
    PROVE  IInv'
<1>1. /\ loggedIn' = loggedIn /\ reply' = reply /\ logins' = logins /\ lists' = lists
      /\ menu' = menu /\ ip' = ip
  OBVIOUS
<1>2. Now' = r /\ map' = r.map BY BecomesIs DEF Shown, Becomes
<1>3. Shown(Now)'
  <2>1. r \in Fits(lists)' BY <1>1 DEF Shown, Fits
  <2>2. Listed' = Listed BY <1>1 DEF Listed
  <2>3. (Listed' => r.dialog.made) /\ (Listed' \/ lists'.ids = <<>> => ShowsServer(lists, r)')
    BY <1>1, <2>2 DEF Shown, ShowsServer, getServer
  <2>4. QED BY <1>1, <1>2, <2>1, <2>3 DEF Shown, ShowsProtocol, ShowsServer
<1>4. ChoiceInv'
  <2>1. lists' \in Lists /\ (lists'.ids = <<>> => lists'.servers = <<>>)
    BY <1>1 DEF IInv, ChoiceInv
  <2>2. ShowsRow(Now)' BY <1>2 DEF ShowsRow
  <2>3. screen' = "map" => map'.made BY <1>2
  <2>4. QED BY <1>3, <2>1, <2>2, <2>3 DEF ChoiceInv
<1>5. LoginInv' BY <1>1 DEF IInv, LoginInv, Listed, MenuNamesServers, getServer
<1>6. IpInv' BY <1>1 DEF IInv, IpInv
<1>7. QED BY <1>4, <1>5, <1>6 DEF IInv

\* A command names a server of the list, or none.
LEMMA CommandNames ==
    ASSUME IInv, NEW p
    PROVE  Command(lists, p).server \in Names \cup {Blank, Undefined}
<1>1. getServer(lists, p.server) \in Names \cup {Blank} BY NameIs DEF IInv, ChoiceInv
<1>2. Command(lists, p).server = getServer(lists, p.server) BY DEF Command
<1>3. QED BY <1>1, <1>2

LEMMA InvIs ==
    ASSUME IInv
    PROVE  /\ lists \in Lists /\ lists.ids \in Seq(Nat) /\ lists.servers \in Seq(Names)
           /\ Shown(Now) /\ ShowsRow(Now) /\ Now \in Fits(lists)
           /\ Now.prefs = prefs /\ Now.map = map /\ Now.dialog = dialog
           /\ prefs \in Chosen /\ map \in Maps /\ dialog \in Dialogs
           /\ screen \in {"login", "connection", "map"} /\ (screen = "map" => map.made)
           /\ sent.server \in Names \cup {Blank, Undefined}
<1>1. lists \in Lists /\ lists.ids \in Seq(Nat) /\ lists.servers \in Seq(Names)
  BY DEF IInv, ChoiceInv, Lists
<1>2. Shown(Now) /\ ShowsRow(Now) /\ Now \in Fits(lists) BY DEF IInv, ChoiceInv, Shown
<1>3. Now.prefs = prefs /\ Now.map = map /\ Now.dialog = dialog BY DEF Now
<1>4. prefs \in Chosen /\ map \in Maps /\ dialog \in Dialogs BY <1>2, <1>3, FitsIs
<1>5. /\ screen \in {"login", "connection", "map"} /\ (screen = "map" => map.made)
      /\ sent.server \in Names \cup {Blank, Undefined}
  BY DEF IInv, ChoiceInv, LoginInv
<1>6. QED BY <1>1, <1>2, <1>3, <1>4, <1>5

LEMMA ToPrimaryStep == IInv /\ ToPrimary => IInv'
<1> SUFFICES ASSUME IInv, ToPrimary PROVE IInv' OBVIOUS
<1> DEFINE r == MakeDialog(lists, Now)
<1>1. /\ Becomes(r) /\ screen' = "connection" /\ sent' = sent
      /\ UNCHANGED <<loggedIn, reply, logins, lists, menu, ip>>
  BY DEF ToPrimary
<1>2. Shown(r) /\ ShowsRow(r) BY MakeDialogShows
<1> HIDE DEF r
<1>3. QED BY <1>1, <1>2, ScreenStep, InvIs

LEMMA ToMapStep == IInv /\ ToMap => IInv'
<1> SUFFICES ASSUME IInv, ToMap PROVE IInv' OBVIOUS
<1> DEFINE r == MakeMap(lists, Now)
<1>1. /\ Becomes(r) /\ screen' = "map" /\ sent' = sent
      /\ UNCHANGED <<loggedIn, reply, logins, lists, menu, ip>>
  BY DEF ToMap
<1>2. Shown(r) /\ ShowsRow(r) /\ r.map.made BY MakeMapShows
<1> HIDE DEF r
<1>3. QED BY <1>1, <1>2, ScreenStep, InvIs

LEMMA PickLocationStep ==
    ASSUME IInv, NEW row \in {0} \cup DOMAIN map.ids, PickLocation(row)
    PROVE  IInv'
<1> DEFINE a == [Now EXCEPT !.map.row = row]
           i == IF row = 0 THEN -1 ELSE map.ids[row]
           r == setServer(lists, a, i)
<1>1. /\ Becomes(r) /\ screen = "map" /\ screen' = screen /\ sent' = sent
      /\ UNCHANGED <<loggedIn, reply, logins, lists, menu, ip>>
  BY DEF PickLocation
<1>2. i \in Nat \cup {-1}
  <2>1. map.ids \in Seq(Nat) BY InvIs DEF Maps
  <2>2. \A k \in DOMAIN map.ids : map.ids[k] \in Nat BY <2>1
  <2>3. QED BY <2>2
<1>3. Shown(a) BY <1>1, RowShows
<1>4. map.made => a.map.made BY <1>3 DEF Shown
<1> HIDE DEF a, i
<1>5. Shown(r) /\ ShowsRow(r) /\ r.map.made = a.map.made BY <1>2, <1>3, SetServerShows
<1> HIDE DEF r
<1>6. screen' = "map" => r.map.made BY <1>1, <1>4, <1>5, InvIs
<1>7. QED BY <1>1, <1>5, <1>6, ScreenStep, InvIs

LEMMA PickProtocolStep ==
    ASSUME IInv, NEW row \in 0 .. Len(Ports), PickProtocol(row)
    PROVE  IInv'
<1> DEFINE a == [Now EXCEPT !.map.protocol = row, !.map.enabled = row > 0]
           r == setProtocol(lists, a, row - 1)
<1>1. /\ Becomes(r) /\ screen = "map" /\ screen' = screen /\ sent' = sent
      /\ UNCHANGED <<loggedIn, reply, logins, lists, menu, ip>>
  BY DEF PickProtocol
<1>2. row - 1 \in Protocols BY ProtocolsAre
<1>3. Shown(a) BY <1>1, ProtocolRowShows
<1>4. map.made => a.map.made BY <1>3 DEF Shown
<1> HIDE DEF a
<1>5. Shown(r) /\ ShowsRow(r) /\ r.map.made = a.map.made BY <1>2, <1>3, SetProtocolShows
<1> HIDE DEF r
<1>6. screen' = "map" => r.map.made BY <1>1, <1>4, <1>5, InvIs
<1>7. QED BY <1>1, <1>5, <1>6, ScreenStep, InvIs

LEMMA ConnectStep == IInv /\ Connect => IInv'
<1> SUFFICES ASSUME IInv, Connect PROVE IInv' OBVIOUS
<1>1. /\ Becomes(Now) /\ screen' = screen /\ sent' = Command(lists, Now.prefs)
      /\ UNCHANGED <<loggedIn, reply, logins, lists, menu, ip>>
  BY DEF Connect, Connecting
<1>2. sent'.server \in Names \cup {Blank, Undefined} BY <1>1, CommandNames
<1>3. screen' = "map" => Now.map.made BY <1>1, InvIs
<1>4. QED BY <1>1, <1>2, <1>3, ScreenStep, InvIs

\* A server is set and asked for, beside the screen.
LEMMA ServerStep ==
    ASSUME IInv, NEW st, Shown(st), ShowsRow(st), NEW i \in Nat \cup {-1},
           Connecting(setServer(lists, st, i)),
           UNCHANGED <<loggedIn, reply, logins, lists, menu, ip>>,
           screen' \in {"login", "connection", "map"}, screen' = "map" => st.map.made
    PROVE  IInv'
<1> DEFINE r == setServer(lists, st, i)
<1>1. Becomes(r) /\ sent' = Command(lists, r.prefs) BY DEF Connecting
<1>2. Shown(r) /\ ShowsRow(r) /\ r.map.made = st.map.made BY SetServerShows
<1> HIDE DEF r
<1>3. sent'.server \in Names \cup {Blank, Undefined} BY <1>1, CommandNames
<1>4. screen' = "map" => r.map.made BY <1>2
<1>5. QED BY <1>1, <1>2, <1>3, <1>4, ScreenStep

LEMMA PickMenuStep ==
    ASSUME IInv, NEW k \in DOMAIN menu.items, PickMenu(k)
    PROVE  IInv'
<1>1. /\ Connecting(setServer(lists, Now, menu.items[k].id)) /\ screen' = screen
      /\ UNCHANGED <<loggedIn, reply, logins, lists, menu, ip>>
  BY DEF PickMenu
<1>2. menu.items[k].id \in Nat
  <2>1. menu.items \in Seq(Items) BY DEF IInv, LoginInv
  <2>2. menu.items[k] \in Items BY <2>1
  <2>3. QED BY <2>2 DEF Items
<1>3. Shown(Now) /\ ShowsRow(Now) /\ screen' \in {"login", "connection", "map"}
      /\ (screen' = "map" => Now.map.made)
  BY <1>1, InvIs
<1>4. QED BY <1>1, <1>2, <1>3, ServerStep

LEMMA JumpTargets ==
    ASSUME IInv PROVE getServerToJump(lists, prefs.server) \subseteq Nat \cup {-1}
<1>1. \A id \in Range(lists.ids) : id \in Nat BY InvIs DEF Range
<1>2. Len(lists.servers) \in Nat BY InvIs, LenProperties
<1>3. getServerToJump(lists, prefs.server) \subseteq
         {-1} \cup Range(lists.ids) \cup (0 .. Len(lists.servers) - 1)
  BY DEF getServerToJump
<1>4. QED BY <1>1, <1>2, <1>3

\* jump, from whatever screens.
LEMMA JumpStep ==
    ASSUME IInv, NEW st, Shown(st), ShowsRow(st), jump(st),
           UNCHANGED <<loggedIn, reply, logins, lists, menu, ip>>,
           screen' \in {"login", "connection", "map"}, screen' = "map" => st.map.made
    PROVE  IInv'
<1>1. CASE Becomes(st) /\ UNCHANGED sent
  <2>1. sent'.server \in Names \cup {Blank, Undefined} BY <1>1, InvIs
  <2>2. QED BY <1>1, <2>1, ScreenStep
<1>2. ASSUME NEW i \in getServerToJump(lists, prefs.server),
             Connecting(setServer(lists, st, i))
      PROVE  IInv'
  <2>1. i \in Nat \cup {-1} BY JumpTargets
  <2>2. QED BY <1>2, <2>1, ServerStep
<1>3. QED BY <1>1, <1>2 DEF jump

LEMMA JumpButtonStep == IInv /\ JumpButton => IInv'
<1> SUFFICES ASSUME IInv, JumpButton PROVE IInv' OBVIOUS
<1>1. /\ jump(Now) /\ screen = "connection" /\ screen' = screen
      /\ UNCHANGED <<loggedIn, reply, logins, lists, menu, ip>>
  BY DEF JumpButton
<1>2. Shown(Now) /\ ShowsRow(Now) BY InvIs
<1>3. QED BY <1>1, <1>2, JumpStep

LEMMA JumpTriggeredStep == IInv /\ JumpTriggered => IInv'
<1> SUFFICES ASSUME IInv, JumpTriggered PROVE IInv' OBVIOUS
<1> DEFINE st == IF loggedIn THEN MakeDialog(lists, Now) ELSE Now
<1>1. /\ jump(st) /\ screen' \in {"login", "connection"}
      /\ UNCHANGED <<loggedIn, reply, logins, lists, menu, ip>>
  BY DEF JumpTriggered
<1>2. Shown(st) /\ ShowsRow(st) BY MakeDialogShows, InvIs
<1> HIDE DEF st
<1>3. screen' \in {"login", "connection", "map"} /\ (screen' = "map" => st.map.made) BY <1>1
<1>4. QED BY <1>1, <1>2, <1>3, JumpStep

LEMMA switchToNextPortStep == IInv /\ switchToNextPort => IInv'
<1> SUFFICES ASSUME IInv, switchToNextPort PROVE IInv' OBVIOUS
<1> DEFINE ix == (prefs.protocol + 1) % Len(Ports)
           r  == setProtocol(lists, Now, ix)
<1>1. /\ Becomes(r) /\ sent' = Command(lists, r.prefs) /\ screen' = screen
      /\ UNCHANGED <<loggedIn, reply, logins, lists, menu, ip>>
  BY DEF switchToNextPort, Connecting
<1>2. ix \in Protocols
  <2>1. prefs.protocol \in -1 .. 2 BY InvIs, ProtocolsAre DEF Chosen
  <2>2. QED BY <2>1, ProtocolsAre
<1>3. Shown(Now) BY InvIs
<1> HIDE DEF ix
<1>4. Shown(r) /\ ShowsRow(r) /\ r.map.made = Now.map.made BY <1>2, <1>3, SetProtocolShows
<1> HIDE DEF r
<1>5. sent'.server \in Names \cup {Blank, Undefined} BY <1>1, CommandNames
<1>6. screen' = "map" => r.map.made BY <1>1, <1>4, InvIs
<1>7. QED BY <1>1, <1>4, <1>5, <1>6, ScreenStep, InvIs

LEMMA switchToNextNodeStep == IInv /\ switchToNextNode => IInv'
<1> SUFFICES ASSUME IInv, switchToNextNode PROVE IInv' OBVIOUS
<1> DEFINE row == RowOf(lists, prefs.server)
           i   == lists.ids[row + 1]
<1>1. /\ Connecting(IF row = 0 \/ row = Len(lists.ids) THEN Now ELSE setServer(lists, Now, i))
      /\ screen' = screen /\ UNCHANGED <<loggedIn, reply, logins, lists, menu, ip>>
  BY DEF switchToNextNode
<1>2. row \in {0} \cup DOMAIN lists.ids BY RowIs, InvIs
<1>3. Shown(Now) /\ ShowsRow(Now) /\ screen' \in {"login", "connection", "map"}
      /\ (screen' = "map" => Now.map.made)
  BY <1>1, InvIs
<1>4. CASE row = 0 \/ row = Len(lists.ids)
  <2>1. Becomes(Now) /\ sent' = Command(lists, Now.prefs) BY <1>1, <1>4 DEF Connecting
  <2>2. sent'.server \in Names \cup {Blank, Undefined} BY <2>1, CommandNames
  <2>3. QED BY <1>1, <1>3, <2>1, <2>2, ScreenStep
<1>5. CASE ~(row = 0 \/ row = Len(lists.ids))
  <2>1. Connecting(setServer(lists, Now, i)) BY <1>1, <1>5
  <2>2. i \in Nat
    <3>1. lists.ids \in Seq(Nat) /\ Len(lists.ids) \in Nat
          /\ DOMAIN lists.ids = 1 .. Len(lists.ids)
      BY InvIs, LenProperties
    <3> HIDE DEF row
    <3>2. row + 1 \in 1 .. Len(lists.ids) BY <1>2, <1>5, <3>1
    <3>3. QED BY <3>1, <3>2
  <2> HIDE DEF i
  <2>3. QED BY <1>1, <1>3, <2>1, <2>2, ServerStep
<1>6. QED BY <1>4, <1>5

\* The lists grow and the map keeps the rows it has.
LEMMA GrowthFits ==
    ASSUME NEW l, NEW m, IsPrefix(l.ids, m.ids), l.ids \in Seq(Nat), m.ids \in Seq(Nat),
           NEW st \in Fits(l)
    PROVE  st \in Fits(m)
<1>1. st.map.ids \in Seq(Nat) /\ IsPrefix(st.map.ids, l.ids) BY FitsIs
<1>2. IsPrefix(st.map.ids, m.ids)
  <2> DEFINE a == st.map.ids
             b == l.ids
             c == m.ids
  <2>1. Len(a) \in Nat /\ Len(b) \in Nat /\ Len(c) \in Nat
        /\ DOMAIN a = 1 .. Len(a) /\ DOMAIN b = 1 .. Len(b) /\ DOMAIN c = 1 .. Len(c)
    BY <1>1, LenProperties
  <2>2. Len(a) <= Len(b) /\ Len(b) <= Len(c) BY <1>1 DEF IsPrefix
  <2>3. ASSUME NEW k \in 1 .. Len(a) PROVE a[k] = c[k]
    <3>1. a[k] = b[k]
      <4>1. a \in Seq(Nat) /\ b \in Seq(Nat) /\ IsPrefix(a, b) BY <1>1
      <4>2. k \in DOMAIN a BY <2>1
      <4> HIDE DEF a, b
      <4>3. QED BY <4>1, <4>2, PrefixIs
    <3>2. k \in DOMAIN b BY <2>1, <2>2
    <3>3. b[k] = c[k] BY <3>2, PrefixIs
    <3>4. QED BY <3>1, <3>3
  <2>4. SubSeq(a, 1, Len(a)) = [k \in 1 .. Len(a) |-> a[k]]
        /\ SubSeq(c, 1, Len(a)) = [k \in 1 .. Len(a) |-> c[k]]
    BY <2>1
  <2>5. [k \in 1 .. Len(a) |-> a[k]] = [k \in 1 .. Len(a) |-> c[k]] BY <2>3
  <2>6. QED BY <2>1, <2>2, <2>4, <2>5 DEF IsPrefix
<1>3. QED BY <1>2 DEF Fits

LEMMA AppendedIsLonger ==
    ASSUME NEW a \in Seq(Nat), NEW b \in Seq(Nat)
    PROVE  a \o b \in Seq(Nat) /\ IsPrefix(a, a \o b)
<1>1. /\ a \o b \in Seq(Nat) /\ Len(a \o b) = Len(a) + Len(b)
      /\ \A k \in 1 .. Len(a) : (a \o b)[k] = a[k]
  BY ConcatProperties
<1>2. Len(a) \in Nat /\ Len(b) \in Nat /\ DOMAIN a = 1 .. Len(a) BY LenProperties
<1> DEFINE c == a \o b
<1>3. SubSeq(a, 1, Len(a)) = [k \in 1 .. Len(a) |-> a[k]]
      /\ SubSeq(c, 1, Len(a)) = [k \in 1 .. Len(a) |-> c[k]]
  BY <1>2
<1>4. [k \in 1 .. Len(a) |-> a[k]] = [k \in 1 .. Len(a) |-> c[k]] BY <1>1
<1>5. QED BY <1>1, <1>2, <1>3, <1>4 DEF IsPrefix

LEMMA ListsAre ==
    ASSUME NEW s \in ServerLists
    PROVE  s \in Seq(Names)
<1>1. PICK m \in 0 .. MaxServers : s \in [1 .. m -> Names] BY DEF ServerLists, SeqOf
<1>2. m \in Nat BY ChoiceAssumption
<1>3. QED BY <1>1, <1>2, SeqDef

\* The lists with those of another login.
LEMMA MoreLists ==
    ASSUME IInv, NEW s \in ServerLists
    PROVE  LET l == [servers |-> s, ids |-> lists.ids \o [k \in DOMAIN s |-> k - 1]]
           IN  /\ l \in Lists /\ Now \in Fits(l)
               /\ l.ids = <<>> => lists.ids = <<>> /\ l.servers = <<>>
<1> DEFINE more == [k \in DOMAIN s |-> k - 1]
           l == [servers |-> s, ids |-> lists.ids \o more]
<1>1. s \in Seq(Names) BY ListsAre
<1>2. more \in Seq(Nat)
  <2>1. Len(s) \in Nat /\ DOMAIN s = 1 .. Len(s) BY <1>1, LenProperties
  <2>2. more \in [1 .. Len(s) -> Nat] BY <2>1
  <2>3. QED BY <2>1, <2>2, SeqDef
<1> DEFINE all == lists.ids \o more
<1>7. all = <<>> => lists.ids = <<>> /\ s = <<>>
  <2>1. /\ Len(all) = Len(lists.ids) + Len(more) /\ Len(lists.ids) \in Nat /\ Len(more) \in Nat
        /\ Len(s) \in Nat /\ DOMAIN s = 1 .. Len(s) /\ DOMAIN more = 1 .. Len(more)
    BY <1>1, <1>2, InvIs, ConcatProperties, LenProperties
  <2>2. DOMAIN more = DOMAIN s OBVIOUS
  <2>3. Len(more) = 0 => Len(s) = 0 BY <2>1, <2>2
  <2>4. all = <<>> => Len(all) = 0 OBVIOUS
  <2> HIDE DEF all, more
  <2>5. all = <<>> => Len(lists.ids) = 0 /\ Len(s) = 0 BY <2>1, <2>3, <2>4
  <2>6. QED BY <1>1, <2>5, InvIs, EmptySeq
<1> HIDE DEF more
<1>3. lists.ids \o more \in Seq(Nat) /\ IsPrefix(lists.ids, lists.ids \o more)
      /\ lists.ids \in Seq(Nat)
  BY <1>2, AppendedIsLonger, InvIs
<1>4. l \in Lists /\ l.ids = all /\ l.servers = s BY <1>1, <1>3 DEF Lists
<1> HIDE DEF l
<1>5. Now \in Fits(l)
  <2>1. IsPrefix(lists.ids, l.ids) /\ l.ids \in Seq(Nat) BY <1>3, <1>4
  <2>2. QED BY <1>3, <2>1, GrowthFits, InvIs
<1>6. QED BY <1>4, <1>5, <1>7 DEF l, more

\* The server loadServer picks; the one that was saved by name if the list has it.
LEMMA LoadedIs ==
    ASSUME IInv, NEW l \in Lists
    PROVE  /\ Loaded(l) \subseteq Nat \cup {-1}
           /\ prefs.server > -1 /\ prefs.name \in Range(l.servers) =>
                 \A i \in Loaded(l) : getServer(l, i) = prefs.name
<1> DEFINE saved == IF prefs.name = Undefined THEN -1 ELSE prefs.server
           named == serverIxFromName(l, prefs.name)
           found == IF saved = -1 THEN -1
                    ELSE IF getServer(l, saved) = prefs.name /\ prefs.name # Blank THEN saved
                    ELSE named
<1>1. Loaded(l) = IF found = -1 THEN getServerToJump(l, prefs.server) ELSE {found}
  BY DEF Loaded
<1>2. prefs.server \in Nat \cup {-1} BY InvIs DEF Chosen
<1>3. /\ named \in Nat \cup {-1}
      /\ prefs.name \in Range(l.servers) => named # -1 /\ getServer(l, named) = prefs.name
  BY IndexIs
<1>4. getServerToJump(l, prefs.server) \subseteq Nat \cup {-1}
  <2>1. \A id \in Range(l.ids) : id \in Nat BY DEF Lists, Range
  <2>2. Len(l.servers) \in Nat BY LenProperties DEF Lists
  <2>3. getServerToJump(l, prefs.server) \subseteq
           {-1} \cup Range(l.ids) \cup (0 .. Len(l.servers) - 1)
    BY DEF getServerToJump
  <2>4. QED BY <2>1, <2>2, <2>3
<1>5. \A name \in Range(l.servers) : name \in Names BY DEF Lists, Range
<1> HIDE DEF named
<1>6. found \in Nat \cup {-1} BY <1>2, <1>3
<1>7. ASSUME prefs.server > -1, prefs.name \in Range(l.servers)
      PROVE  found # -1 /\ getServer(l, found) = prefs.name
  <2>1. prefs.name # Undefined BY <1>5, <1>7, ChoiceAssumption
  <2>2. saved = prefs.server /\ saved # -1 BY <1>2, <1>7, <2>1
  <2>3. QED BY <1>3, <1>7, <2>2
<1> HIDE DEF found
<1>8. Loaded(l) \subseteq Nat \cup {-1} BY <1>1, <1>4, <1>6
<1>9. ASSUME prefs.server > -1, prefs.name \in Range(l.servers), NEW i \in Loaded(l)
      PROVE  getServer(l, i) = prefs.name
  BY <1>1, <1>7, <1>9
<1>10. QED BY <1>8, <1>9

\* The menu of some lists.
LEMMA MenuIs ==
    ASSUME NEW l \in Lists
    PROVE  /\ constructConnectToMenu(l).items \in Seq(Items)
           /\ \A k \in DOMAIN constructConnectToMenu(l).items :
                 LET item == constructConnectToMenu(l).items[k]
                 IN  item.name = getServer(l, item.id)
<1> DEFINE it(k)  == [id |-> l.ids[k], name |-> getServer(l, l.ids[k])]
           items == [k \in DOMAIN l.ids |-> it(k)]
<1>1. /\ Len(l.ids) \in Nat /\ DOMAIN l.ids = 1 .. Len(l.ids)
      /\ \A k \in DOMAIN l.ids : l.ids[k] \in Nat
  <2>1. l.ids \in Seq(Nat) BY DEF Lists
  <2>2. QED BY <2>1, LenProperties
<1>2. ASSUME NEW k \in DOMAIN l.ids
      PROVE  it(k) \in Items /\ it(k).name = getServer(l, it(k).id)
  <2>1. getServer(l, l.ids[k]) \in Names \cup {Blank} BY NameIs
  <2>2. QED BY <1>1, <2>1 DEF Items
<1>3. constructConnectToMenu(l).items = items BY DEF constructConnectToMenu
<1> HIDE DEF it
<1>4. items \in [1 .. Len(l.ids) -> Items] BY <1>1, <1>2
<1>5. items \in Seq(Items) BY <1>1, <1>4, SeqDef
<1>6. \A k \in DOMAIN items : items[k].name = getServer(l, items[k].id) BY <1>2
<1> HIDE DEF items
<1>7. QED BY <1>3, <1>5, <1>6

\* The preferences and the screens the new lists leave, loadServer's choice made or,
\* with no server in any list so far, passed over.
LEMMA LoadedShows ==
    ASSUME IInv, NEW l \in Lists, Now \in Fits(l),
           l.ids = <<>> => lists.ids = <<>> /\ l.servers = <<>>,
           NEW r,
           \/ l.ids = <<>> /\ r = MakeDialog(l, Now)
           \/ l.ids # <<>> /\ \E i \in Loaded(l) : r = MakeDialog(l, setServer(l, Now, i))
    PROVE  /\ r \in Fits(l) /\ r.dialog.made /\ r.dialog.ip = ip.old
           /\ ShowsServer(l, r) /\ ShowsProtocol(r) /\ ShowsRow(r)
           /\ ~map.made /\ prefs.server > -1 /\ prefs.name \in Range(l.servers) =>
                 r.prefs.name = prefs.name
<1>1. ip.old \in BOOLEAN BY DEF IInv, IpInv
<1>2. ASSUME NEW a \in Fits(l), Keeps(l, Now, a), ShowsRow(a), ShowsServer(l, a),
             r = MakeDialog(l, a)
      PROVE  /\ r \in Fits(l) /\ r.dialog.made /\ r.dialog.ip = ip.old
             /\ ShowsServer(l, r) /\ ShowsProtocol(r) /\ ShowsRow(r) /\ r.prefs = a.prefs
  <2>1. /\ r \in Fits(l) /\ r.prefs = a.prefs /\ r.map = a.map /\ r.dialog.made
        /\ a.dialog.made => r = a
        /\ ~a.dialog.made => r.dialog.ip = ip.old /\ ShowsProtocol(r) /\ ShowsServer(l, r)
    BY <1>1, <1>2, MakeDialogIs
  <2>2. ShowsRow(r) BY <1>2, <2>1 DEF ShowsRow
  <2>3. CASE a.dialog.made
    <3>1. ShowsProtocol(a) /\ a.dialog.ip = ip.old
      BY <1>2, <2>3, InvIs DEF Keeps, Shown, ShowsProtocol
    <3>2. QED BY <1>2, <2>1, <2>2, <2>3, <3>1
  <2>4. CASE ~a.dialog.made BY <2>1, <2>2, <2>4
  <2>5. QED BY <2>3, <2>4
<1>3. CASE l.ids = <<>>
  <2>1. r = MakeDialog(l, Now) BY <1>3
  <2>2. Keeps(l, Now, Now) BY DEF Keeps
  <2>3. ShowsServer(lists, Now) /\ lists.servers = l.servers
    BY <1>3 DEF IInv, ChoiceInv, Shown
  <2>4. ShowsServer(l, Now) BY <2>3 DEF ShowsServer, getServer
  <2>5. prefs.name \notin Range(l.servers)
    <3>1. l.servers = <<>> BY <1>3
    <3>2. QED BY <3>1 DEF Range
  <2>6. QED BY <1>2, <2>1, <2>2, <2>4, <2>5, InvIs
<1>4. ASSUME NEW i \in Loaded(l), r = MakeDialog(l, setServer(l, Now, i))
      PROVE  /\ r \in Fits(l) /\ r.dialog.made /\ r.dialog.ip = ip.old
             /\ ShowsServer(l, r) /\ ShowsProtocol(r) /\ ShowsRow(r)
             /\ ~map.made /\ prefs.server > -1 /\ prefs.name \in Range(l.servers) =>
                   r.prefs.name = prefs.name
  <2>1. /\ i \in Nat \cup {-1}
        /\ prefs.server > -1 /\ prefs.name \in Range(l.servers) => getServer(l, i) = prefs.name
    BY <1>4, LoadedIs
  <2> DEFINE a == setServer(l, Now, i)
  <2>2. /\ Keeps(l, Now, a) /\ ShowsRow(a) /\ ShowsServer(l, a)
        /\ ~Now.map.made => a.prefs.name = getServer(l, i)
    BY <2>1, SetServerIs
  <2>3. r = MakeDialog(l, a) BY <1>4
  <2> HIDE DEF a
  <2>4. a \in Fits(l) BY <2>2 DEF Keeps
  <2>5. QED BY <1>2, <2>1, <2>2, <2>3, <2>4, InvIs
<1>5. QED BY <1>3, <1>4

LEMMA ServersLoadedStep ==
    ASSUME IInv, ServersLoaded
    PROVE  /\ IInv'
           /\ ~map.made /\ prefs.server > -1 /\ prefs.name \in Range(lists'.servers) =>
                 prefs'.name = prefs.name
<1>1. PICK s \in ServerLists :
         LET l == [servers |-> s, ids |-> lists.ids \o [k \in DOMAIN s |-> k - 1]]
         IN  /\ lists' = l /\ menu' = constructConnectToMenu(l)
             /\ \/ l.ids = <<>> /\ Becomes(MakeDialog(l, Now))
                \/ l.ids # <<>> /\ \E i \in Loaded(l) :
                      Becomes(MakeDialog(l, setServer(l, Now, i)))
  BY DEF ServersLoaded
<1> DEFINE l == [servers |-> s, ids |-> lists.ids \o [k \in DOMAIN s |-> k - 1]]
<1>2. lists' = l /\ menu' = constructConnectToMenu(l) BY <1>1
<1>3. \/ l.ids = <<>> /\ Becomes(MakeDialog(l, Now))
      \/ l.ids # <<>> /\ \E i \in Loaded(l) : Becomes(MakeDialog(l, setServer(l, Now, i)))
  BY <1>1
<1>4. /\ reply' = FALSE /\ loggedIn' = TRUE /\ screen' = "connection"
      /\ logins' = logins /\ sent' = sent /\ ip' = ip
  BY DEF ServersLoaded
<1>5. /\ l \in Lists /\ Now \in Fits(l)
      /\ l.ids = <<>> => lists.ids = <<>> /\ l.servers = <<>>
  BY MoreLists
<1> HIDE DEF l
<1>6. PICK r :
         /\ Becomes(r)
         /\ \/ l.ids = <<>> /\ r = MakeDialog(l, Now)
            \/ l.ids # <<>> /\ \E i \in Loaded(l) : r = MakeDialog(l, setServer(l, Now, i))
  BY <1>3
<1>12. /\ r \in Fits(l) /\ r.dialog.made /\ r.dialog.ip = ip.old
       /\ ShowsServer(l, r) /\ ShowsProtocol(r) /\ ShowsRow(r)
       /\ ~map.made /\ prefs.server > -1 /\ prefs.name \in Range(l.servers) =>
             r.prefs.name = prefs.name
  BY <1>5, <1>6, LoadedShows
<1>11. Now' = r /\ map' = r.map /\ prefs' = r.prefs BY <1>6, <1>12, BecomesIs DEF Becomes
<1>14. ChoiceInv'
  <2>1. Fits(lists)' = Fits(l) BY <1>2 DEF Fits
  <2>2. ShowsServer(lists, Now)' BY <1>2, <1>11, <1>12 DEF ShowsServer, getServer
  <2>3. Now'.dialog.made /\ Now' \in Fits(lists)' BY <1>11, <1>12, <2>1
  <2>4. ShowsProtocol(Now)' /\ ShowsRow(Now)' BY <1>11, <1>12 DEF ShowsProtocol, ShowsRow
  <2>5. Now'.dialog.ip = ip'.old /\ (map'.made => Now'.map.made) BY <1>4, <1>11, <1>12
  <2>6. lists' \in Lists /\ (lists'.ids = <<>> => lists'.servers = <<>>) /\ screen' # "map"
    BY <1>2, <1>4, <1>5
  <2>7. QED BY <2>2, <2>3, <2>4, <2>5, <2>6 DEF ChoiceInv, Shown
<1>15. LoginInv'
  <2>1. Listed' BY <1>4 DEF Listed
  <2>2. menu'.items \in Seq(Items) BY <1>2, <1>5, MenuIs
  <2>3. MenuNamesServers' BY <1>2, <1>5, MenuIs DEF MenuNamesServers, getServer
  <2>4. logins' \in 0 .. MaxLogins /\ sent'.server \in Names \cup {Blank, Undefined}
    BY <1>4 DEF IInv, LoginInv
  <2>5. QED BY <1>4, <2>1, <2>2, <2>3, <2>4 DEF LoginInv
<1>16. IpInv' BY <1>4 DEF IInv, IpInv
<1>17. ~map.made /\ prefs.server > -1 /\ prefs.name \in Range(lists'.servers) =>
          prefs'.name = prefs.name
  BY <1>2, <1>11, <1>12
<1>18. QED BY <1>14, <1>15, <1>16, <1>17 DEF IInv

\* The program starts, or starts anew with its preferences.
LEMMA FreshIs ==
    ASSUME NEW p \in Chosen, NEW l, l = [servers |-> <<>>, ids |-> <<>>]
    PROVE  LET st == [prefs |-> p, map |-> NoMap, dialog |-> NoDialog]
           IN  /\ l \in Lists /\ st \in Fits(l) /\ ShowsRow(st)
               /\ ~st.dialog.made /\ ~st.map.made
<1>1. <<>> \in Seq(Nat) /\ <<>> \in Seq(Names) BY EmptySeq
<1>2. l \in Lists /\ l.ids = <<>> BY <1>1 DEF Lists
<1>3. IsPrefix(<<>>, <<>>) BY <1>1, ItselfIsPrefix
<1>4. /\ NoMap \in Maps /\ NoMap.ids = <<>> /\ NoMap.row = 0 /\ NoMap.protocol = 0
      /\ ~NoMap.made /\ ~NoMap.enabled
  BY <1>1, ProtocolsAre DEF NoMap, Maps
<1>5. NoDialog \in Dialogs /\ ~NoDialog.made BY ProtocolsAre DEF NoDialog, Dialogs
<1> DEFINE st == [prefs |-> p, map |-> NoMap, dialog |-> NoDialog]
<1>6. st.prefs = p /\ st.map = NoMap /\ st.dialog = NoDialog OBVIOUS
<1>7. st \in [prefs : Chosen, map : Maps, dialog : Dialogs] BY <1>4, <1>5
<1> HIDE DEF st
<1>8. st.map.enabled <=> st.map.protocol > 0 BY <1>4, <1>6
<1>9. st \in Fits(l) BY <1>2, <1>3, <1>4, <1>6, <1>7, <1>8 DEF Fits
<1>10. ShowsRow(st) BY <1>4, <1>6 DEF ShowsRow
<1>11. QED BY <1>2, <1>4, <1>5, <1>6, <1>9, <1>10 DEF st

LEMMA NothingIs ==
    /\ ~NoMenu.enabled /\ NoMenu.items \in Seq(Items) /\ NoCommand.server = Undefined
    /\ NoIp \in [tries : 0 .. 4, asked : BOOLEAN, old : BOOLEAN]
    /\ ~NoIp.asked /\ ~NoIp.old
<1>1. <<>> \in Seq(Items) BY EmptySeq
<1>2. QED BY <1>1 DEF NoMenu, NoCommand, NoIp

LEMMA ChoiceInit == Init => IInv
<1> SUFFICES ASSUME Init PROVE IInv OBVIOUS
<1>1. /\ prefs = [protocol |-> -1, server |-> 0, name |-> Undefined]
      /\ loggedIn = FALSE /\ reply = FALSE /\ logins = 0 /\ screen = "login"
      /\ map = NoMap /\ dialog = NoDialog /\ menu = NoMenu /\ sent = NoCommand /\ ip = NoIp
  BY DEF Init
<1>2. lists = [servers |-> <<>>, ids |-> <<>>] BY DEF Init
<1>3. prefs \in Chosen BY <1>1, ProtocolsAre DEF Chosen
<1>4. Now = [prefs |-> prefs, map |-> NoMap, dialog |-> NoDialog] BY <1>1 DEF Now
<1>5. lists \in Lists /\ Now \in Fits(lists) /\ ShowsRow(Now) /\ ~Now.dialog.made
  BY <1>2, <1>3, <1>4, FreshIs
<1>6. ~Listed BY <1>1 DEF Listed
<1>7. Now.map = map BY DEF Now
<1>8. ChoiceInv BY <1>1, <1>2, <1>5, <1>6, <1>7 DEF ChoiceInv, Shown, ShowsProtocol, ShowsServer
<1>9. LoginInv
  <2>1. logins \in 0 .. MaxLogins BY <1>1, ChoiceAssumption
  <2>2. ~menu.enabled /\ menu.items \in Seq(Items) /\ sent.server = Undefined
    BY <1>1, NothingIs
  <2>3. loggedIn \in BOOLEAN /\ reply \in BOOLEAN /\ ~reply BY <1>1
  <2>4. QED BY <1>1, <2>1, <2>2, <2>3 DEF LoginInv, MenuNamesServers
<1>10. IpInv BY <1>1, NothingIs DEF IpInv
<1>11. QED BY <1>8, <1>9, <1>10 DEF IInv

LEMMA RestartedStep == IInv /\ Restarted => IInv'
<1> SUFFICES ASSUME IInv, Restarted PROVE IInv' OBVIOUS
<1>1. /\ prefs' = prefs
      /\ loggedIn' = FALSE /\ reply' = FALSE /\ logins' = 0 /\ screen' = "login"
      /\ map' = NoMap /\ dialog' = NoDialog /\ menu' = NoMenu /\ sent' = NoCommand /\ ip' = NoIp
  BY DEF Restarted
<1>2. lists' = [servers |-> <<>>, ids |-> <<>>] BY DEF Restarted
<1>3. prefs' \in Chosen BY <1>1, InvIs
<1>4. Now' = [prefs |-> prefs', map |-> NoMap, dialog |-> NoDialog] BY <1>1 DEF Now
<1>5. lists' \in Lists /\ Now' \in Fits(lists') /\ ShowsRow(Now') /\ ~Now'.dialog.made
  BY <1>2, <1>3, <1>4, FreshIs
<1>6. ~Listed' BY <1>1 DEF Listed
<1>7. Now'.map = map' BY DEF Now
<1>8. ChoiceInv'
  BY <1>1, <1>2, <1>5, <1>6, <1>7 DEF ChoiceInv, Shown, ShowsProtocol, ShowsServer, ShowsRow, Fits
<1>9. LoginInv'
  <2>1. logins' \in 0 .. MaxLogins BY <1>1, ChoiceAssumption
  <2>2. ~menu'.enabled /\ menu'.items \in Seq(Items) /\ sent'.server = Undefined
    BY <1>1, NothingIs
  <2>3. loggedIn' \in BOOLEAN /\ reply' \in BOOLEAN /\ ~reply' BY <1>1
  <2>4. QED BY <1>1, <2>1, <2>2, <2>3 DEF LoginInv, MenuNamesServers
<1>10. IpInv' BY <1>1, NothingIs DEF IpInv
<1>11. QED BY <1>8, <1>9, <1>10 DEF IInv

\* A step after which nobody is logged in with lists: no menu, nothing to show.
LEMMA AwayStep ==
    ASSUME IInv, UNCHANGED <<prefs, map, dialog, ip, sent>>,
           lists' \in Lists, lists'.ids = lists.ids,
           lists'.servers = lists.servers \/ lists'.servers = <<>>, ~Listed',
           ~menu'.enabled, menu'.items \in Seq(Items),
           screen' \in {"login", "connection", "map"}, screen' = "map" => screen = "map",
           loggedIn' \in BOOLEAN, reply' \in BOOLEAN, reply' => loggedIn',
           logins' \in 0 .. MaxLogins
    PROVE  IInv'
<1>1. /\ prefs' = prefs /\ map' = map /\ dialog' = dialog /\ ip' = ip /\ sent' = sent
      /\ Now' = Now
  BY DEF Now
<1>2. ChoiceInv'
  <2>1. Now' \in Fits(lists)' /\ ShowsProtocol(Now)' /\ ShowsRow(Now)'
        /\ (Now'.dialog.made => Now'.dialog.ip = ip'.old) /\ (map'.made => Now'.map.made)
    BY <1>1, InvIs DEF Fits, Shown, ShowsProtocol, ShowsRow
  <2>2. screen' = "map" => map'.made BY <1>1, InvIs
  <2>3. ASSUME lists'.ids = <<>> PROVE lists'.servers = <<>> /\ ShowsServer(lists, Now)'
    <3>1. ShowsServer(lists, Now) /\ lists.servers = <<>>
      BY <2>3 DEF IInv, ChoiceInv, Shown
    <3>2. QED BY <1>1, <3>1 DEF ShowsServer, getServer
  <2>4. QED BY <2>1, <2>2, <2>3 DEF ChoiceInv, Shown
<1>3. LoginInv'
  <2>1. sent'.server \in Names \cup {Blank, Undefined} BY <1>1, InvIs
  <2>2. QED BY <2>1 DEF LoginInv, MenuNamesServers
<1>4. IpInv' BY <1>1 DEF IInv, IpInv
<1>5. QED BY <1>2, <1>3, <1>4 DEF IInv

LEMMA LoginsStep == IInv /\ (Login \/ LoginFails \/ Logout) => IInv'
<1> SUFFICES ASSUME IInv, Login \/ LoginFails \/ Logout PROVE IInv' OBVIOUS
<1>1. /\ loggedIn \in BOOLEAN /\ reply \in BOOLEAN /\ logins \in 0 .. MaxLogins
      /\ menu.enabled => Listed
      /\ menu.items \in Seq(Items) /\ screen \in {"login", "connection", "map"}
  BY DEF IInv, LoginInv
<1>2. CASE Login
  <2>1. /\ loggedIn' = TRUE /\ reply' = TRUE /\ logins' = logins + 1 /\ logins < MaxLogins
        /\ UNCHANGED <<prefs, map, dialog, ip, sent>> /\ ~loggedIn
    BY <1>2 DEF Login
  <2>2. lists' = lists /\ menu' = menu /\ screen' = screen BY <1>2 DEF Login
  <2>3. ~Listed' /\ ~menu'.enabled BY <1>1, <2>1, <2>2 DEF Listed
  <2>4. logins' \in 0 .. MaxLogins BY <1>1, <2>1, ChoiceAssumption
  <2>5. loggedIn' \in BOOLEAN /\ reply' \in BOOLEAN /\ (reply' => loggedIn') BY <2>1
  <2>6. QED BY <1>1, <2>1, <2>2, <2>3, <2>4, <2>5, AwayStep, InvIs
<1>3. CASE LoginFails
  <2>1. /\ loggedIn' = FALSE /\ reply' = FALSE /\ logins' = logins
        /\ UNCHANGED <<prefs, map, dialog, ip, sent>> /\ reply
    BY <1>3 DEF LoginFails
  <2>2. lists' = [lists EXCEPT !.servers = <<>>] /\ menu' = menu /\ screen' = screen
    BY <1>3 DEF LoginFails
  <2>3. ~Listed' /\ ~menu'.enabled BY <1>1, <2>1, <2>2 DEF Listed
  <2>4. lists' \in Lists /\ lists'.ids = lists.ids /\ lists'.servers = <<>>
    <3>1. <<>> \in Seq(Names) BY EmptySeq
    <3>2. QED BY <2>2, <3>1, InvIs DEF Lists
  <2>5. loggedIn' \in BOOLEAN /\ reply' \in BOOLEAN /\ (reply' => loggedIn') BY <2>1
  <2>6. menu'.items \in Seq(Items) /\ screen' \in {"login", "connection", "map"}
        /\ (screen' = "map" => screen = "map") /\ logins' \in 0 .. MaxLogins
    BY <1>1, <2>1, <2>2
  <2>7. QED BY <2>1, <2>3, <2>4, <2>5, <2>6, AwayStep
<1>4. CASE Logout
  <2>1. /\ loggedIn' = FALSE /\ reply' = reply /\ logins' = logins /\ ~reply
        /\ UNCHANGED <<prefs, map, dialog, ip, sent>>
    BY <1>4 DEF Logout
  <2>2. lists' = lists /\ menu' = NoMenu /\ screen' = "login" BY <1>4 DEF Logout
  <2>3. ~Listed' BY <2>1 DEF Listed
  <2>4. ~menu'.enabled /\ menu'.items \in Seq(Items) BY <2>2, NothingIs
  <2>5. loggedIn' \in BOOLEAN /\ reply' \in BOOLEAN /\ (reply' => loggedIn')
        /\ logins' \in 0 .. MaxLogins
    BY <1>1, <2>1
  <2>6. QED BY <2>1, <2>2, <2>3, <2>4, <2>5, AwayStep, InvIs
<1>5. QED BY <1>2, <1>3, <1>4

\* A step of the old address: nothing but ip and what the dialog shows of it changes.
LEMMA IpStep ==
    ASSUME IInv, UNCHANGED <<prefs, loggedIn, reply, logins, lists, screen, map, menu, sent>>,
           IpInv', NEW b \in BOOLEAN, dialog' = [dialog EXCEPT !.ip = b],
           dialog.made => b = ip'.old
    PROVE  IInv'
<1> DEFINE d == [dialog EXCEPT !.ip = b]
           r == [Now EXCEPT !.dialog = d]
<1>1. dialog \in Dialogs /\ Now \in Fits(lists) /\ dialog' = d BY InvIs
<1>2. /\ d \in Dialogs /\ d.made = dialog.made /\ d.ip = b
      /\ d.server = dialog.server /\ d.protocol = dialog.protocol
  BY <1>1 DEF Dialogs
<1> HIDE DEF d
<1>3. r \in Fits(lists) /\ r.prefs = prefs /\ r.map = map /\ r.dialog = d
  BY <1>1, <1>2, ReplaceDialog, InvIs
<1>4. Now' = r BY <1>1 DEF Now
<1> HIDE DEF r
<1>5. Listed' = Listed /\ lists' = lists BY DEF Listed
<1>6. ChoiceInv'
  <2>1. Now' \in Fits(lists)' BY <1>3, <1>4, <1>5 DEF Fits
  <2>2. ShowsProtocol(Now)' BY <1>2, <1>3, <1>4, InvIs DEF Shown, ShowsProtocol
  <2>3. ShowsRow(Now)' BY <1>3, <1>4, InvIs DEF ShowsRow
  <2>4. /\ Listed' => Now'.dialog.made
        /\ Listed' \/ lists'.ids = <<>> => ShowsServer(lists, Now)'
    BY <1>2, <1>3, <1>4, <1>5, InvIs DEF Shown, ShowsServer, getServer
  <2>5. Now'.dialog.made => Now'.dialog.ip = ip'.old BY <1>2, <1>3, <1>4
  <2>6. /\ map'.made => Now'.map.made
        /\ lists' \in Lists /\ (lists'.ids = <<>> => lists'.servers = <<>>)
        /\ screen' = "map" => map'.made
    BY <1>3, <1>4, <1>5, InvIs DEF IInv, ChoiceInv
  <2>7. QED BY <2>1, <2>2, <2>3, <2>4, <2>5, <2>6 DEF ChoiceInv, Shown
<1>7. LoginInv' BY <1>5 DEF IInv, LoginInv, MenuNamesServers, getServer
<1>8. QED BY <1>6, <1>7 DEF IInv

LEMMA getOldIPStep == IInv /\ getOldIP => IInv'
<1> SUFFICES ASSUME IInv, getOldIP PROVE IInv' OBVIOUS
<1>1. /\ ip.tries = 0 /\ ip' = [ip EXCEPT !.tries = ip.tries + 1, !.asked = TRUE]
      /\ UNCHANGED <<prefs, loggedIn, reply, logins, lists, screen, map, dialog, menu, sent>>
  BY DEF getOldIP, Asked
<1>2. ip \in [tries : 0 .. 4, asked : BOOLEAN, old : BOOLEAN] /\ ~ip.old
  BY <1>1 DEF IInv, IpInv
<1> DEFINE n == [ip EXCEPT !.tries = ip.tries + 1, !.asked = TRUE]
<1> HIDE DEF n
<1>3. IpInv' /\ ip'.old = ip.old
  <2>1. ip' = n BY <1>1 DEF n
  <2>2. ip.tries \in 0 .. 4 /\ ip.tries + 1 \in 0 .. 4 /\ ip.tries + 1 > 0 BY <1>1
  <2>3. /\ n \in [tries : 0 .. 4, asked : BOOLEAN, old : BOOLEAN]
        /\ n.tries = ip.tries + 1 /\ n.asked = TRUE /\ n.old = ip.old
    BY <1>2, <2>2 DEF n
  <2>4. QED BY <1>2, <2>1, <2>2, <2>3 DEF IpInv
<1>4. dialog \in Dialogs /\ (dialog.made => dialog.ip = ip.old)
  BY InvIs DEF Shown
<1>5. dialog.ip \in BOOLEAN /\ dialog' = [dialog EXCEPT !.ip = dialog.ip] BY <1>1, <1>4 DEF Dialogs
<1>6. QED BY <1>1, <1>3, <1>4, <1>5, IpStep

LEMMA processOldIPStep ==
    ASSUME IInv, NEW found \in BOOLEAN, processOldIP(found)
    PROVE  IInv'
<1> DEFINE b == dialog.ip \/ (dialog.made /\ found)
<1>1. /\ ip.asked /\ dialog' = [dialog EXCEPT !.ip = b]
      /\ ip' = IF ~found /\ ip.tries < 4 THEN [ip EXCEPT !.tries = ip.tries + 1, !.asked = TRUE]
               ELSE [ip EXCEPT !.asked = FALSE, !.old = found]
      /\ UNCHANGED <<prefs, loggedIn, reply, logins, lists, screen, map, menu, sent>>
  BY DEF processOldIP, setOldIP, Asked
<1>2. ip \in [tries : 0 .. 4, asked : BOOLEAN, old : BOOLEAN] /\ ~ip.old /\ ip.tries > 0
  BY <1>1 DEF IInv, IpInv
<1>3. dialog \in Dialogs /\ (dialog.made => dialog.ip = ip.old) BY InvIs DEF Shown
<1>4. dialog.ip \in BOOLEAN /\ dialog.made \in BOOLEAN BY <1>3 DEF Dialogs
<1>5. CASE ~found /\ ip.tries < 4
  <2>1. ip' = [ip EXCEPT !.tries = ip.tries + 1, !.asked = TRUE] BY <1>1, <1>5
  <2> DEFINE n == [ip EXCEPT !.tries = ip.tries + 1, !.asked = TRUE]
  <2>2. IpInv' /\ ip'.old = ip.old
    <3>1. ip' = n BY <2>1
    <3>2. ip.tries + 1 \in 0 .. 4 /\ ip.tries + 1 > 0 BY <1>2, <1>5
    <3>3. /\ n \in [tries : 0 .. 4, asked : BOOLEAN, old : BOOLEAN]
          /\ n.tries = ip.tries + 1 /\ n.asked = TRUE /\ n.old = ip.old
      BY <1>2, <3>2
    <3> HIDE DEF n
    <3>4. QED BY <1>2, <3>1, <3>2, <3>3 DEF IpInv
  <2>3. b = dialog.ip BY <1>4, <1>5
  <2> HIDE DEF b
  <2>4. b \in BOOLEAN /\ (dialog.made => b = ip'.old) BY <1>3, <1>4, <2>2, <2>3
  <2>5. QED BY <1>1, <2>2, <2>4, IpStep
<1>6. CASE ~(~found /\ ip.tries < 4)
  <2>1. ip' = [ip EXCEPT !.asked = FALSE, !.old = found] BY <1>1, <1>6
  <2> DEFINE n == [ip EXCEPT !.asked = FALSE, !.old = found]
  <2>2. IpInv' /\ ip'.old = found
    <3>1. ip' = n BY <2>1
    <3>2. /\ n \in [tries : 0 .. 4, asked : BOOLEAN, old : BOOLEAN]
          /\ n.tries = ip.tries /\ n.asked = FALSE /\ n.old = found
      BY <1>2
    <3> HIDE DEF n
    <3>3. QED BY <1>2, <3>1, <3>2 DEF IpInv
  <2>3. dialog.made => b = found BY <1>2, <1>3, <1>4
  <2>4. b \in BOOLEAN BY <1>4
  <2> HIDE DEF b
  <2>5. dialog.made => b = ip'.old BY <2>2, <2>3
  <2>6. QED BY <1>1, <2>2, <2>4, <2>5, IpStep
<1>7. QED BY <1>5, <1>6

LEMMA StutterStep == IInv /\ UNCHANGED vars => IInv'
<1> SUFFICES ASSUME IInv, UNCHANGED vars PROVE IInv' OBVIOUS
<1>1. /\ UNCHANGED <<loggedIn, reply, logins, lists, menu, ip>> /\ screen' = screen /\ sent' = sent
      /\ prefs' = prefs /\ map' = map /\ dialog' = dialog
  BY DEF vars
<1>2. Becomes(Now) BY <1>1, InvIs DEF Becomes
<1>3. Shown(Now) /\ ShowsRow(Now) /\ screen' \in {"login", "connection", "map"}
      /\ (screen' = "map" => Now.map.made) /\ sent'.server \in Names \cup {Blank, Undefined}
  BY <1>1, InvIs
<1>4. QED BY <1>1, <1>2, <1>3, ScreenStep

LEMMA ChoiceStep == IInv /\ [Next]_vars => IInv'
<1> SUFFICES ASSUME IInv, [Next]_vars PROVE IInv' OBVIOUS
<1>1. CASE Login \/ LoginFails \/ Logout BY <1>1, LoginsStep
<1>2. CASE ServersLoaded BY <1>2, ServersLoadedStep
<1>3. CASE Restart \/ ConnectThrows BY <1>3, RestartedStep DEF Restart, ConnectThrows
<1>4. CASE ToPrimary BY <1>4, ToPrimaryStep
<1>5. CASE ToMap BY <1>5, ToMapStep
<1>6. ASSUME NEW row \in {0} \cup DOMAIN map.ids, PickLocation(row) PROVE IInv'
  BY <1>6, PickLocationStep
<1>7. ASSUME NEW row \in 0 .. Len(Ports), PickProtocol(row) PROVE IInv'
  BY <1>7, PickProtocolStep
<1>8. CASE Connect BY <1>8, ConnectStep
<1>9. CASE JumpButton \/ JumpTriggered BY <1>9, JumpButtonStep, JumpTriggeredStep
<1>10. CASE switchToNextPort BY <1>10, switchToNextPortStep
<1>11. CASE switchToNextNode BY <1>11, switchToNextNodeStep
<1>12. ASSUME NEW k \in DOMAIN menu.items, PickMenu(k) PROVE IInv' BY <1>12, PickMenuStep
<1>13. CASE getOldIP BY <1>13, getOldIPStep
<1>14. ASSUME NEW found \in BOOLEAN, processOldIP(found) PROVE IInv'
  BY <1>14, processOldIPStep
<1>15. CASE UNCHANGED vars BY <1>15, StutterStep
<1>16. QED BY <1>1, <1>2, <1>3, <1>4, <1>5, <1>6, <1>7, <1>8, <1>9, <1>10, <1>11, <1>12,
              <1>13, <1>14, <1>15 DEF Next

-----------------------------------------------------------------------------
(* Theorems.                                                               *)

LEMMA ChoiceInvariant == Spec => []IInv
BY ChoiceInit, ChoiceStep, PTL DEF Spec

\* TypeOK: the rows of the map, filled at an earlier login, are a prefix of the ids
\* there are, and the row selected is one of them.
THEOREM ChoiceTypes == Spec => []TypeOK
<1>1. IInv => TypeOK
  <2> SUFFICES ASSUME IInv PROVE TypeOK OBVIOUS
  <2>1. prefs.protocol \in Protocols /\ prefs.server \in Nat \cup {-1}
        /\ prefs.name \in Names \cup {Blank, Undefined}
    BY InvIs DEF Chosen
  <2>2. Range(lists.servers) \subseteq Names /\ Range(lists.ids) \subseteq Nat BY InvIs DEF Range
  <2>3. IsPrefix(map.ids, lists.ids) /\ map.row \in {0} \cup DOMAIN map.ids
        /\ (map.enabled <=> map.protocol > 0)
    BY InvIs, FitsIs
  <2>4. map.protocol \in 0 .. Len(Ports) BY InvIs DEF Maps
  <2>5. dialog.server \in Names \cup {Blank} /\ dialog.protocol \in Protocols
    BY InvIs DEF Dialogs
  <2>6. /\ {loggedIn, reply} \subseteq BOOLEAN /\ logins \in 0 .. MaxLogins
        /\ ip \in [tries : 0 .. 4, asked : BOOLEAN, old : BOOLEAN]
    BY DEF IInv, LoginInv, IpInv
  <2>7. QED BY <2>1, <2>2, <2>3, <2>4, <2>5, <2>6, InvIs DEF TypeOK
<1>2. QED BY <1>1, ChoiceInvariant, PTL

\* ShowsWhatConnects: updateServer and updateProtocol reach the dialog from every
\* place that changes what the next command is made of.
THEOREM DialogShowsWhatConnects == Spec => []ShowsWhatConnects
<1>1. IInv => ShowsWhatConnects
  <2> SUFFICES ASSUME IInv PROVE ShowsWhatConnects OBVIOUS
  <2>1. Shown(Now) /\ Now.prefs = prefs /\ Now.dialog = dialog BY InvIs
  <2>2. Listed => /\ dialog.made /\ dialog.protocol = prefs.protocol
                  /\ dialog.server = getServer(lists, prefs.server)
    BY <2>1 DEF Shown, ShowsServer, ShowsProtocol
  <2>3. prefs.protocol \in -1 .. 2 BY InvIs, ProtocolsAre DEF Chosen
  <2>4. /\ Command(lists, prefs).server = getServer(lists, prefs.server)
        /\ prefs.protocol = -1 => /\ Command(lists, prefs).port = Ports[1]
                                  /\ Command(lists, prefs).transport = "tcp"
        /\ prefs.protocol # -1 =>
              /\ Command(lists, prefs).port = Ports[prefs.protocol + 1]
              /\ Command(lists, prefs).transport = Transports[prefs.protocol + 1]
    BY DEF Command
  <2>5. prefs.protocol # -1 => prefs.protocol > -1 BY <2>3
  <2>6. QED BY <2>2, <2>4, <2>5 DEF ShowsWhatConnects
<1>2. QED BY <1>1, ChoiceInvariant, PTL

\* MapRowIsServer: updateLocation settles, for rows that are older than the lists too.
THEOREM MapShowsServer == Spec => []MapRowIsServer
<1>1. IInv => MapRowIsServer
  <2> SUFFICES ASSUME IInv PROVE MapRowIsServer OBVIOUS
  <2>1. ShowsRow(Now) /\ Now.prefs = prefs /\ Now.map = map BY InvIs
  <2>2. QED BY <2>1 DEF MapRowIsServer, ShowsRow
<1>2. QED BY <1>1, ChoiceInvariant, PTL

\* MenuNamesServers: the items constructConnectToMenu made are those of the lists
\* there are, or the menu is disabled.
THEOREM MenuShowsServers == Spec => []MenuNamesServers
<1>1. IInv => MenuNamesServers BY DEF IInv, LoginInv
<1>2. QED BY <1>1, ChoiceInvariant, PTL

\* ShowsOldIp: the old address is pushed into the dialog or found by it, whichever
\* came first.
THEOREM DialogShowsOldIp == Spec => []ShowsOldIp
<1>1. IInv => ShowsOldIp
  <2> SUFFICES ASSUME IInv PROVE ShowsOldIp OBVIOUS
  <2>1. Shown(Now) /\ Now.dialog = dialog BY InvIs
  <2>2. QED BY <2>1 DEF Shown, ShowsOldIp
<1>2. QED BY <1>1, ChoiceInvariant, PTL

\* KeepsNamedServer: loadServer finds the server of the preferences by its name.
THEOREM NamedServerIsKept == Spec => KeepsNamedServer
<1>1. IInv /\ [Next]_vars =>
         [(ServersLoaded /\ ~map.made /\ prefs.server > -1)
             => (prefs.name \in Range(lists'.servers) => prefs'.name = prefs.name)]_vars
  BY ServersLoadedStep
<1>2. QED BY <1>1, ChoiceInvariant, PTL DEF Spec, KeepsNamedServer
=============================================================================
