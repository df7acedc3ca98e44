-------------------------- MODULE VpnClients_proofs --------------------------
(***************************************************************************)
(* Proofs about the clients of the service, for any clients, ports, nodes  *)
(* and bounds, and for any manager that keeps VpnContract.                 *)
(***************************************************************************)
EXTENDS VpnClients, Integers, SequenceTheorems, WellFoundedInduction,
        TLAPS

Signals == Manager!Signals

-----------------------------------------------------------------------------
(* The state after some signals.                                           *)

LEMMA MaxIs ==
    ASSUME NEW S \in SUBSET Nat, NEW k \in S, \A j \in S : j <= k
    PROVE  Max(S) = k
<1>1. \A x \in S : (\A j \in S : x >= j) => x = k
  <2> SUFFICES ASSUME NEW x \in S, \A j \in S : x >= j PROVE x = k OBVIOUS
  <2>1. x >= k /\ x <= k /\ x \in Nat /\ k \in Nat OBVIOUS
  <2>2. QED BY <2>1
<1>2. \A j \in S : k >= j OBVIOUS
<1>3. QED BY <1>1, <1>2 DEF Max

LEMMA MaxExists ==
    ASSUME NEW n \in Nat, NEW S \in SUBSET (1..n), S # {}
    PROVE  \E k \in S : \A j \in S : j <= k
<1> DEFINE T == {n - i : i \in S}
<1>1. T \in SUBSET Nat OBVIOUS
<1>2. PICK i \in S : TRUE OBVIOUS
<1>3. T # {} BY <1>2
<1>4. \A u \in T : \E j \in S : u = n - j OBVIOUS
<1>5. \A j \in S : n - j \in T OBVIOUS
<1> HIDE DEF T
<1>6. PICK t \in T : \A u \in T : ~(<<u, t>> \in OpToRel(<, Nat))
  BY <1>1, <1>3, NatLessThanWellFounded, WFMin
<1>7. ASSUME NEW u \in T PROVE t <= u
  <2>1. t \in Nat /\ u \in Nat BY <1>1
  <2>2. ~(<<u, t>> \in OpToRel(<, Nat)) BY <1>6
  <2>3. ~(u < t)
    <3>1. SUFFICES ASSUME u < t PROVE <<u, t>> \in OpToRel(<, Nat) BY <2>2
    <3>2. QED BY <2>1, <3>1 DEF OpToRel
  <2>4. QED BY <2>1, <2>3
<1>8. PICK k \in S : t = n - k BY <1>4
<1>9. ASSUME NEW j \in S PROVE j <= k
  <2>1. n - k <= n - j BY <1>5, <1>7, <1>8
  <2>2. k \in Int /\ j \in Int OBVIOUS
  <2>3. QED BY <2>1, <2>2
<1>10. QED BY <1>9

\* The last state announced is the state after the signals.
LEMMA AfterLast ==
    ASSUME NEW s \in Seq(Signals), NEW st, NEW k \in Announced(s),
           \A j \in Announced(s) : j <= k
    PROVE  After(st, s) = s[k]
<1>1. Announced(s) \in SUBSET Nat BY DEF Announced
<1>2. Max(Announced(s)) = k BY <1>1, MaxIs
<1>3. QED BY <1>2 DEF After

LEMMA AfterNone ==
    ASSUME NEW s \in Seq(Signals), NEW st, Announced(s) = {}
    PROVE  After(st, s) = st
BY DEF After

LEMMA LastAnnounced ==
    ASSUME NEW s \in Seq(Signals), Announced(s) # {}
    PROVE  \E k \in Announced(s) : \A j \in Announced(s) : j <= k
<1>1. Announced(s) \in SUBSET (1..Len(s)) BY DEF Announced
<1>2. Len(s) \in Nat OBVIOUS
<1>3. QED BY <1>1, <1>2, MaxExists

\* It does not depend on the state before.
LEMMA AfterAny ==
    ASSUME NEW s, NEW st, NEW su, Announced(s) # {}
    PROVE  After(st, s) = After(su, s)
BY DEF After

LEMMA AfterType ==
    ASSUME NEW s \in Seq(Signals), NEW st \in States
    PROVE  After(st, s) \in States
<1>1. CASE Announced(s) = {} BY <1>1, AfterNone
<1>2. CASE Announced(s) # {}
  <2>1. PICK k \in Announced(s) : \A j \in Announced(s) : j <= k
    BY <1>2, LastAnnounced
  <2>2. After(st, s) = s[k] BY <2>1, AfterLast
  <2>3. QED BY <2>2 DEF Announced
<1>3. QED BY <1>1, <1>2

LEMMA AfterConcat ==
    ASSUME NEW s \in Seq(Signals), NEW t \in Seq(Signals), NEW st
    PROVE  After(st, s \o t) = After(After(st, s), t)
<1> DEFINE b == s \o t
<1>1. /\ b \in Seq(Signals) /\ Len(b) = Len(s) + Len(t)
      /\ Len(s) \in Nat /\ Len(t) \in Nat
      /\ \A i \in 1..Len(s) + Len(t) : b[i] = IF i <= Len(s) THEN s[i] ELSE t[i - Len(s)]
  BY ConcatProperties
<1>2. Announced(b) = {i \in 1..Len(s) + Len(t) : b[i] \in States} BY <1>1 DEF Announced
<1>3. Announced(s) = {i \in 1..Len(s) : s[i] \in States}
      /\ Announced(t) = {i \in 1..Len(t) : t[i] \in States}
  BY DEF Announced
<1> HIDE DEF b
<1>4. CASE Announced(t) # {}
  <2>1. PICK k \in Announced(t) : \A j \in Announced(t) : j <= k
    BY <1>4, LastAnnounced
  <2>2. k \in 1..Len(t) /\ t[k] \in States BY <1>3
  <2>3. Len(s) + k \in 1..Len(s) + Len(t) /\ b[Len(s) + k] = t[k]
    <3>1. Len(s) + k \in 1..Len(s) + Len(t) /\ ~(Len(s) + k <= Len(s))
          /\ (Len(s) + k) - Len(s) = k
      BY <1>1, <2>2
    <3>2. b[Len(s) + k] = t[(Len(s) + k) - Len(s)] BY <1>1, <3>1
    <3>3. QED BY <3>1, <3>2
  <2>4. Len(s) + k \in Announced(b) BY <1>2, <2>2, <2>3
  <2>5. ASSUME NEW j \in Announced(b) PROVE j <= Len(s) + k
    <3>1. j \in 1..Len(s) + Len(t) /\ b[j] \in States BY <1>2
    <3>2. CASE j <= Len(s) BY <1>1, <2>2, <3>1, <3>2
    <3>3. CASE j > Len(s)
      <4>1. j - Len(s) \in 1..Len(t) /\ t[j - Len(s)] = b[j] BY <1>1, <3>1, <3>3
      <4>2. j - Len(s) \in Announced(t) BY <1>3, <3>1, <4>1
      <4>3. j - Len(s) <= k BY <2>1, <4>2
      <4>4. QED BY <1>1, <2>2, <3>1, <4>3
    <3>4. QED BY <1>1, <3>1, <3>2, <3>3
  <2>6. After(st, b) = t[k] BY <1>1, <2>3, <2>4, <2>5, AfterLast
  <2>7. After(After(st, s), t) = t[k] BY <2>1, AfterLast
  <2>8. QED BY <2>6, <2>7 DEF b
<1>5. CASE Announced(t) = {} /\ Announced(s) # {}
  <2>1. PICK k \in Announced(s) : \A j \in Announced(s) : j <= k
    BY <1>5, LastAnnounced
  <2>2. k \in 1..Len(s) /\ s[k] \in States BY <1>3
  <2>3. k \in 1..Len(s) + Len(t) /\ b[k] = s[k] BY <1>1, <2>2
  <2>4. k \in Announced(b) BY <1>2, <2>2, <2>3
  <2>5. ASSUME NEW j \in Announced(b) PROVE j <= k
    <3>1. j \in 1..Len(s) + Len(t) /\ b[j] \in States BY <1>2
    <3>2. CASE j <= Len(s)
      <4>1. j \in Announced(s) BY <1>1, <1>3, <3>1, <3>2
      <4>2. QED BY <2>1, <4>1
    <3>3. CASE j > Len(s)
      <4>1. j - Len(s) \in 1..Len(t) /\ t[j - Len(s)] = b[j] BY <1>1, <3>1, <3>3
      <4>2. j - Len(s) \in Announced(t) BY <1>3, <3>1, <4>1
      <4>3. QED BY <1>5, <4>2
    <3>4. QED BY <1>1, <3>1, <3>2, <3>3
  <2>6. After(st, b) = s[k] BY <1>1, <2>3, <2>4, <2>5, AfterLast
  <2>7. After(st, s) = s[k] BY <2>1, AfterLast
  <2>8. After(After(st, s), t) = s[k] BY <1>5, <2>7, AfterNone
  <2>9. QED BY <2>6, <2>8 DEF b
<1>6. CASE Announced(t) = {} /\ Announced(s) = {}
  <2>1. ASSUME NEW j \in Announced(b) PROVE FALSE
    <3>1. j \in 1..Len(s) + Len(t) /\ b[j] \in States BY <1>2
    <3>2. CASE j <= Len(s)
      <4>1. j \in Announced(s) BY <1>1, <1>3, <3>1, <3>2
      <4>2. QED BY <1>6, <4>1
    <3>3. CASE j > Len(s)
      <4>1. j - Len(s) \in 1..Len(t) /\ t[j - Len(s)] = b[j] BY <1>1, <3>1, <3>3
      <4>2. j - Len(s) \in Announced(t) BY <1>3, <3>1, <4>1
      <4>3. QED BY <1>6, <4>2
    <3>4. QED BY <1>1, <3>1, <3>2, <3>3
  <2>2. After(st, b) = st BY <1>1, <2>1, AfterNone
  <2>3. After(After(st, s), t) = st BY <1>6, AfterNone
  <2>4. QED BY <2>2, <2>3 DEF b
<1>7. QED BY <1>4, <1>5, <1>6

LEMMA AfterOne ==
    ASSUME NEW e \in Signals, NEW st
    PROVE  After(st, <<e>>) = IF e \in States THEN e ELSE st
<1>1. <<e>> \in Seq(Signals) /\ DOMAIN <<e>> = {1} /\ <<e>>[1] = e OBVIOUS
<1>2. CASE e \in States
  <2>1. Announced(<<e>>) = {1} BY <1>1, <1>2 DEF Announced
  <2>2. 1 \in Announced(<<e>>) /\ \A j \in Announced(<<e>>) : j <= 1 BY <2>1
  <2>3. After(st, <<e>>) = <<e>>[1] BY ONLY <1>1, <2>2, AfterLast
  <2>4. QED BY <1>1, <1>2, <2>3
<1>3. CASE e \notin States
  <2>1. Announced(<<e>>) = {} BY <1>1, <1>3 DEF Announced
  <2>2. QED BY <1>1, <1>3, <2>1, AfterNone
<1>4. QED BY <1>2, <1>3

LEMMA AfterEmpty == ASSUME NEW st PROVE After(st, <<>>) = st
<1>1. Announced(<<>>) = {} BY DEF Announced
<1>2. QED BY <1>1 DEF After

\* Handling the first signal.
LEMMA AfterTail ==
    ASSUME NEW s \in Seq(Signals), s # <<>>, NEW st
    PROVE  After(st, s) = After(IF Head(s) \in States THEN Head(s) ELSE st, Tail(s))
<1>1. Head(s) \in Signals /\ Tail(s) \in Seq(Signals) BY HeadTailProperties
<1>2. <<Head(s)>> \in Seq(Signals) BY <1>1
<1>3. s = <<Head(s)>> \o Tail(s) BY HeadTailProperties
<1>4. After(st, <<Head(s)>> \o Tail(s)) = After(After(st, <<Head(s)>>), Tail(s))
  BY <1>1, <1>2, AfterConcat
<1>5. QED BY <1>1, <1>3, <1>4, AfterOne

-----------------------------------------------------------------------------
(* What a manager that keeps the contract lets its clients hear.           *)

\* In the signals of one handler a timeout comes right after Disconnected.
Framed(s) ==
    \A i \in 1..Len(s) : s[i] = "timedOut" => i > 1 /\ s[i - 1] = "Disconnected"

\* The same of the signals on their way to a listener in state st.
Follows(st, s) ==
    \A i \in 1..Len(s) :
        s[i] = "timedOut" =>
            IF i = 1 THEN st = "Disconnected" ELSE s[i - 1] = "Disconnected"

LEMMA FramedOne ==
    ASSUME NEW e \in Signals, e # "timedOut" PROVE Framed(<<e>>)
BY DEF Framed

LEMMA FollowsConcat ==
    ASSUME NEW s \in Seq(Signals), NEW t \in Seq(Signals), NEW st,
           Follows(st, s), Framed(t)
    PROVE  Follows(st, s \o t)
<1> DEFINE b == s \o t
<1>1. /\ Len(b) = Len(s) + Len(t)
      /\ Len(s) \in Nat /\ Len(t) \in Nat
      /\ \A i \in 1..Len(s) + Len(t) : b[i] = IF i <= Len(s) THEN s[i] ELSE t[i - Len(s)]
  BY ConcatProperties
<1> HIDE DEF b
<1>2. SUFFICES ASSUME NEW i \in 1..Len(b), b[i] = "timedOut"
               PROVE  IF i = 1 THEN st = "Disconnected" ELSE b[i - 1] = "Disconnected"
  BY DEF Follows, b
<1>3. CASE i <= Len(s)
  <2>1. i \in 1..Len(s) /\ s[i] = "timedOut" BY <1>1, <1>2, <1>3
  <2>2. IF i = 1 THEN st = "Disconnected" ELSE s[i - 1] = "Disconnected"
    BY <2>1 DEF Follows
  <2>3. i # 1 => b[i - 1] = s[i - 1] BY <1>1, <1>2, <1>3
  <2>4. QED BY <2>2, <2>3
<1>4. CASE i > Len(s)
  <2> DEFINE k == i - Len(s)
  <2>1. k \in 1..Len(t) /\ t[k] = "timedOut" BY <1>1, <1>2, <1>4
  <2>2. k > 1 /\ t[k - 1] = "Disconnected" BY <2>1 DEF Framed
  <2>3. i - 1 \in 1..Len(s) + Len(t) /\ ~(i - 1 <= Len(s)) /\ i # 1
        /\ (i - 1) - Len(s) = k - 1
    BY <1>1, <1>2, <2>1, <2>2
  <2>4. b[i - 1] = t[(i - 1) - Len(s)] BY <1>1, <2>3
  <2>5. QED BY <2>2, <2>3, <2>4
<1>5. QED BY <1>1, <1>2, <1>3, <1>4

LEMMA FramedConcat ==
    ASSUME NEW s \in Seq(Signals), NEW t \in Seq(Signals), Framed(s), Framed(t)
    PROVE  Framed(s \o t)
<1> DEFINE b == s \o t
<1>1. b \in Seq(Signals) BY ConcatProperties
<1>2. Follows("Connected", s) BY DEF Framed, Follows
<1>3. Follows("Connected", b) BY <1>2, FollowsConcat
<1> HIDE DEF b
<1>4. ASSUME NEW i \in 1..Len(b), b[i] = "timedOut"
      PROVE  i > 1 /\ b[i - 1] = "Disconnected"
  <2>1. IF i = 1 THEN "Connected" = "Disconnected" ELSE b[i - 1] = "Disconnected"
    BY <1>3, <1>4 DEF Follows
  <2>2. QED BY <1>1, <2>1
<1>5. Framed(b) BY <1>4 DEF Framed
<1>6. QED BY <1>5 DEF b

LEMMA FollowsTail ==
    ASSUME NEW s \in Seq(Signals), s # <<>>, NEW st, NEW su, Follows(st, s),
           Head(s) = "Disconnected" => su = "Disconnected"
    PROVE  Follows(su, Tail(s))
<1>1. /\ Len(s) \in Nat \ {0} /\ Len(Tail(s)) = Len(s) - 1
      /\ \A i \in 1..Len(s) - 1 : Tail(s)[i] = s[i + 1]
      /\ Head(s) = s[1]
  BY HeadTailProperties
<1>2. SUFFICES ASSUME NEW i \in 1..Len(Tail(s)), Tail(s)[i] = "timedOut"
      PROVE IF i = 1 THEN su = "Disconnected" ELSE Tail(s)[i - 1] = "Disconnected"
  BY DEF Follows
<1>3. i + 1 \in 1..Len(s) /\ s[i + 1] = "timedOut" /\ i + 1 # 1 /\ (i + 1) - 1 = i
  BY <1>1, <1>2
<1>4. s[(i + 1) - 1] = "Disconnected" BY <1>3 DEF Follows
<1>5. CASE i = 1 BY <1>1, <1>3, <1>4, <1>5
<1>6. CASE i # 1
  <2>1. i - 1 \in 1..Len(s) - 1 /\ (i - 1) + 1 = i BY <1>1, <1>2, <1>6
  <2>2. Tail(s)[i - 1] = s[i] BY <1>1, <2>1
  <2>3. QED BY <1>3, <1>4, <1>6, <2>2
<1>7. QED BY <1>5, <1>6

\* What Enter emits, and the state after it.
LEMMA EnterSays ==
    ASSUME state \in States, NEW x \in States
    PROVE  /\ Manager!Enter(x) \in Seq(Signals)
           /\ Framed(Manager!Enter(x))
           /\ After(state, Manager!Enter(x)) = x
<1>1. x \in Signals /\ x # "timedOut" BY DEF States, Signals, Manager!States, Manager!Signals
<1>2. CASE state = x
  <2>1. Manager!Enter(x) = <<>> BY <1>2 DEF Manager!Enter
  <2>2. QED BY <1>2, <2>1, AfterEmpty DEF Framed
<1>3. CASE state # x
  <2>1. Manager!Enter(x) = <<x>> BY <1>3 DEF Manager!Enter
  <2>2. QED BY <1>1, <2>1, AfterOne, FramedOne
<1>4. QED BY <1>2, <1>3

\* Signals s that lead a listener from state to st.
Leads(s, st) ==
    s \in Seq(Signals) /\ st \in States /\ Framed(s) /\ After(state, s) = st

\* One signal more.
LEMMA LeadsOn ==
    ASSUME NEW s, NEW st, Leads(s, st), NEW e \in Signals, e # "timedOut"
    PROVE  Leads(s \o <<e>>, IF e \in States THEN e ELSE st)
<1>1. s \in Seq(Signals) /\ st \in States /\ Framed(s) /\ After(state, s) = st BY DEF Leads
<1>2. <<e>> \in Seq(Signals) /\ Framed(<<e>>) BY FramedOne
<1>3. s \o <<e>> \in Seq(Signals) BY <1>1, <1>2, ConcatProperties
<1>4. Framed(s \o <<e>>) BY <1>1, <1>2, FramedConcat
<1>5. After(state, s \o <<e>>) = After(st, <<e>>) BY <1>1, <1>2, AfterConcat
<1>6. After(st, <<e>>) = IF e \in States THEN e ELSE st BY AfterOne
<1>7. QED BY <1>1, <1>3, <1>4, <1>5, <1>6 DEF Leads

LEMMA LeadsFrom ==
    ASSUME state \in States, NEW e \in Signals \ States, e # "timedOut",
           NEW x \in States
    PROVE  Leads(<<e>> \o Manager!Enter(x), x) /\ Leads(<<e>>, state)
<1>1. <<e>> \in Seq(Signals) /\ Framed(<<e>>) BY FramedOne
<1>2. Manager!Enter(x) \in Seq(Signals) /\ Framed(Manager!Enter(x))
      /\ After(state, Manager!Enter(x)) = x
  BY EnterSays
<1>3. After(state, <<e>>) = state BY AfterOne
<1>4. <<e>> \o Manager!Enter(x) \in Seq(Signals) BY <1>1, <1>2, ConcatProperties
<1>5. Framed(<<e>> \o Manager!Enter(x)) BY <1>1, <1>2, FramedConcat
<1>6. After(state, <<e>> \o Manager!Enter(x)) = x
  <2>1. After(state, <<e>> \o Manager!Enter(x))
            = After(After(state, <<e>>), Manager!Enter(x))
    BY <1>1, <1>2, AfterConcat
  <2>2. QED BY <1>2, <1>3, <2>1
<1>7. QED BY <1>1, <1>3, <1>4, <1>5, <1>6 DEF Leads

\* Every step of the manager leads its listeners to its new state.
LEMMA ManagerLeads ==
    ASSUME state \in States, Manager!Spontaneous
    PROVE  \E s, st : sent' = s /\ state' = st /\ Leads(s, st)
<1>0. "Disconnected" \in States /\ "Connecting" \in States /\ "Connected" \in States
      /\ {"word", "ip", "error", "timedOut"} \subseteq Signals
      /\ {"word", "ip", "error", "timedOut"} \cap States = {}
      /\ States \subseteq Signals
  BY DEF States, Signals, Manager!States, Manager!Signals
<1>e. \A x \in States : Leads(Manager!Enter(x), x) BY EnterSays DEF Leads
<1>1. CASE Manager!Start
  <2>1. Leads(Manager!Enter("Disconnected"), "Disconnected") BY <1>0, <1>e
  <2>2. Leads(Manager!Enter("Disconnected") \o <<"Connecting">>, "Connecting")
    BY <1>0, <2>1, LeadsOn
  <2>3. QED BY <1>1, <2>2 DEF Manager!Start, Manager!Says
<1>2. CASE Manager!Stop
  <2>1. Leads(Manager!Enter("Disconnected"), "Disconnected") BY <1>0, <1>e
  <2>2. QED BY <1>2, <2>1 DEF Manager!Stop, Manager!Says
<1>3. CASE Manager!Retry
  <2>1. Leads(Manager!Enter("Connecting"), "Connecting") BY <1>0, <1>e
  <2>2. Leads(Manager!Enter("Connecting") \o <<"word">>, "Connecting")
    BY <1>0, <2>1, LeadsOn
  <2>3. Manager!Enter("Connecting") \in Seq(Signals) BY <2>1 DEF Leads
  <2>4. Manager!Enter("Connecting") \o <<>> = Manager!Enter("Connecting")
    BY <2>3, ConcatEmptySeq
  <2>5. QED BY <1>3, <2>1, <2>2, <2>4 DEF Manager!Retry, Manager!Says
<1>4. CASE Manager!Connect
  <2>1. Leads(<<"ip">> \o Manager!Enter("Connected"), "Connected") BY <1>0, LeadsFrom
  <2>2. Leads(Manager!Enter("Connected"), "Connected") BY <1>0, <1>e
  <2>3. Manager!Enter("Connected") \in Seq(Signals) BY <2>2 DEF Leads
  <2>4. <<>> \o Manager!Enter("Connected") = Manager!Enter("Connected")
    BY <2>3, ConcatEmptySeq
  <2>5. QED BY <1>4, <2>1, <2>2, <2>4 DEF Manager!Connect, Manager!Says
<1>5. CASE Manager!TimeOut
  <2> DEFINE e == Manager!Enter("Connecting")
             d == <<"Disconnected", "timedOut">>
  <2>1. e \in Seq(Signals) /\ Framed(e) BY <1>0, <1>e DEF Leads
  <2>2. d \in Seq(Signals) /\ Len(d) = 2 /\ d[1] = "Disconnected" /\ d[2] = "timedOut"
    BY <1>0
  <2> HIDE DEF e, d
  <2>3. Framed(d) BY <2>2 DEF Framed
  <2>4. Announced(d) = {1} BY <1>0, <2>2 DEF Announced
  <2>5. 1 \in Announced(d) /\ \A j \in Announced(d) : j <= 1 BY <2>4
  <2>6. \A st : After(st, d) = "Disconnected" BY <2>2, <2>5, AfterLast
  <2>7. e \o d \in Seq(Signals) BY <2>1, <2>2, ConcatProperties
  <2>8. Framed(e \o d) BY <2>1, <2>2, <2>3, FramedConcat
  <2>9. After(state, e \o d) = "Disconnected" BY <2>1, <2>2, <2>6, AfterConcat
  <2>10. Leads(e \o d, "Disconnected") BY <1>0, <2>7, <2>8, <2>9 DEF Leads
  <2>11. QED BY <1>5, <2>10 DEF Manager!TimeOut, Manager!Says, e, d
<1>6. CASE Manager!Fail
  <2>1. Leads(<<"error">> \o Manager!Enter("Disconnected"), "Disconnected")
    BY <1>0, LeadsFrom
  <2>2. Leads(Manager!Enter("Disconnected"), "Disconnected") BY <1>0, <1>e
  <2>3. Leads(Manager!Enter("Disconnected") \o <<"error">>, "Disconnected")
    BY <1>0, <2>2, LeadsOn
  <2>4. Leads(<<"word">> \o Manager!Enter("Disconnected"), "Disconnected")
    BY <1>0, LeadsFrom
  <2>5. Leads(<<"word">> \o Manager!Enter("Disconnected") \o <<"error">>, "Disconnected")
    BY <1>0, <2>4, LeadsOn
  <2>6. QED BY <1>6, <2>1, <2>3, <2>5 DEF Manager!Fail, Manager!Says
<1>7. CASE Manager!Report
  <2>1. Leads(<<"word">>, state) /\ Leads(<<"ip">>, state) /\ Leads(<<"error">>, state)
    BY <1>0, LeadsFrom
  <2>2. Leads(<<>>, state) BY AfterEmpty DEF Leads, Framed
  <2>3. QED BY <1>7, <2>1, <2>2 DEF Manager!Report, Manager!Says
<1>8. QED BY <1>1, <1>2, <1>3, <1>4, <1>5, <1>6, <1>7 DEF Manager!Spontaneous

-----------------------------------------------------------------------------
(* Types.                                                                  *)

LEMMA SendTypes ==
    ASSUME TypeOK, NEW c \in Clients, NEW g \in Gui,
           NEW name \in {"cmdStart", "cmdStop", "cmdSetCredentials"},
           Send(c, g, name)
    PROVE  /\ gui' \in [Clients -> Gui]
           /\ worker' \in [Clients -> Worker]
           /\ up' \in [Clients -> Seq(Commands)]
<1>1. [g EXCEPT !.link = "up"] \in Gui BY DEF Gui
<1>2. gui' \in [Clients -> Gui] BY <1>1 DEF Send, connectToCore, TypeOK
<1>3. NewWorker \in Worker
  BY DEF NewWorker, NoWorker, Worker, States, Manager!States
<1>4. worker' \in [Clients -> Worker] BY <1>3 DEF Send, connectToCore, TypeOK
<1>5. Command(name, g) \in Commands BY DEF Command, Commands, Gui
<1>6. up[c] \in Seq(Commands) BY DEF TypeOK
<1>7. Append(up[c], Command(name, g)) \in Seq(Commands) BY <1>5, <1>6, AppendProperties
<1>8. up' \in [Clients -> Seq(Commands)] BY <1>7 DEF Send, connectToCore, TypeOK
<1>9. QED BY <1>2, <1>4, <1>8

LEMMA BroadcastTypes ==
    ASSUME TypeOK, NEW s \in Seq(Signals), sent' = s, Broadcast
    PROVE  /\ worker' \in [Clients -> Worker]
           /\ down' \in [Clients -> Seq(Signals)]
<1>1. worker' = [c \in Clients |->
                    IF worker[c].open
                    THEN [worker[c] EXCEPT !.m_state = After(@, s),
                                           !.told = @ \/ Announced(s) # {}]
                    ELSE worker[c]]
  BY DEF Broadcast
<1>2. down' = [c \in Clients |-> IF worker[c].open THEN down[c] \o s ELSE down[c]]
  BY DEF Broadcast
<1>3. ASSUME NEW c \in Clients
      PROVE  [worker[c] EXCEPT !.m_state = After(@, s), !.told = @ \/ Announced(s) # {}]
                \in Worker
  <2>1. worker[c] \in Worker BY DEF TypeOK
  <2>2. After(worker[c].m_state, s) \in States BY <2>1, AfterType DEF Worker
  <2>3. PICK b \in BOOLEAN : b = (worker[c].told \/ Announced(s) # {})
    OBVIOUS
  <2>4. \A x \in States : [worker[c] EXCEPT !.m_state = x, !.told = b] \in Worker
    BY <2>1 DEF Worker
  <2>5. QED BY <2>2, <2>3, <2>4
<1>4. worker' \in [Clients -> Worker] BY <1>1, <1>3 DEF TypeOK
<1>5. ASSUME NEW c \in Clients PROVE down[c] \in Seq(Signals) /\ down[c] \o s \in Seq(Signals)
  <2>1. down[c] \in Seq(Signals) BY DEF TypeOK, Signals
  <2>2. QED BY <2>1, ConcatProperties
<1>6. down' \in [Clients -> Seq(Signals)] BY <1>2, <1>5
<1>7. QED BY <1>4, <1>6

-----------------------------------------------------------------------------
(* The invariant.  A timeout that is on its way follows the state it is    *)
(* about, so whoever handles it shows Disconnected; and a connection that  *)
(* is open is one its GUI knows of, so that no old connection speaks for   *)
(* the present one.                                                        *)

\* Worker w, GUI g and the signals d between them agree with the manager's st.
Fit(w, g, d, st) ==
    /\ w.open => g.link = "up"
    /\ w.open /\ w.told => w.m_state = st /\ After(g.mState, d) = st
    /\ Follows(g.mState, d)
    /\ g.mInPortLoop \/ g.dialog => g.mState # "Connected"

ClientInv ==
    /\ TypeOK
    /\ \A c \in Clients : Fit(worker[c], gui[c], down[c], state)

\* The steps of the manager.
LEMMA ManagerKeeps ==
    ASSUME ClientInv, Manager!Spontaneous, Broadcast,
           UNCHANGED <<svc, gui>>, up' \in [Clients -> Seq(Commands)],
           target' \in Attempts \cup {None}, UNCHANGED creds
    PROVE  ClientInv'
<1>0. TypeOK BY DEF ClientInv
<1>1. PICK s, st : sent' = s /\ state' = st /\ Leads(s, st)
  BY <1>0, ManagerLeads DEF TypeOK
<1>2. s \in Seq(Signals) /\ st \in States /\ Framed(s) /\ After(state, s) = st
  BY <1>1 DEF Leads
<1>3. worker' \in [Clients -> Worker] /\ down' \in [Clients -> Seq(Signals)]
  BY <1>0, <1>1, <1>2, BroadcastTypes
<1>4. TypeOK' BY <1>0, <1>1, <1>2, <1>3 DEF TypeOK, Signals
<1>5. ASSUME NEW c \in Clients PROVE Fit(worker'[c], gui[c], down'[c], st)
  <2>1. Fit(worker[c], gui[c], down[c], state) BY DEF ClientInv
  <2>2. worker[c] \in Worker /\ down[c] \in Seq(Signals) BY <1>0 DEF TypeOK, Signals
  <2>3. CASE ~worker[c].open
    <3>1. worker'[c] = worker[c] /\ down'[c] = down[c] BY <2>3 DEF Broadcast
    <3>2. QED BY <2>1, <2>3, <3>1 DEF Fit
  <2>4. CASE worker[c].open
    <3>1. worker'[c] = [worker[c] EXCEPT !.m_state = After(@, s),
                                         !.told = @ \/ Announced(s) # {}]
      BY <1>1, <2>4 DEF Broadcast
    <3>2. /\ worker'[c].open
          /\ worker'[c].told <=> worker[c].told \/ Announced(s) # {}
          /\ worker'[c].m_state = After(worker[c].m_state, s)
      BY <2>2, <2>4, <3>1 DEF Worker
    <3>3. down'[c] = down[c] \o s BY <1>1, <2>4 DEF Broadcast
    <3>4. Follows(gui[c].mState, down'[c])
      BY <1>2, <2>1, <2>2, <3>3, FollowsConcat DEF Fit
    <3>5. After(gui[c].mState, down[c] \o s) = After(After(gui[c].mState, down[c]), s)
      BY <1>2, <2>2, AfterConcat
    <3>6. CASE Announced(s) # {}
      <4>1. \A x : After(x, s) = st BY <1>2, <3>6, AfterAny
      <4>2. QED BY <2>1, <2>4, <3>2, <3>3, <3>4, <3>5, <4>1 DEF Fit
    <3>7. CASE Announced(s) = {}
      <4>1. worker'[c].told =>
                worker[c].m_state = state /\ After(gui[c].mState, down[c]) = state
        BY <2>1, <2>4, <3>2, <3>7 DEF Fit
      <4>2. worker'[c].told =>
                worker'[c].m_state = st /\ After(gui[c].mState, down'[c]) = st
        BY <1>2, <3>2, <3>3, <3>5, <4>1
      <4>3. QED BY <2>1, <2>4, <3>2, <3>4, <4>2 DEF Fit
    <3>8. QED BY <3>6, <3>7
  <2>5. QED BY <2>3, <2>4
<1>6. QED BY <1>1, <1>4, <1>5 DEF ClientInv

\* The steps of one GUI that send nothing.
LEMMA GuiKeeps ==
    ASSUME ClientInv, NEW c \in Clients, NEW g \in Gui, NEW q \in Seq(Signals),
           gui' = [gui EXCEPT ![c] = g], down' = [down EXCEPT ![c] = q],
           UNCHANGED <<service, worker, up>>,
           Fit(worker[c], g, q, state)
    PROVE  ClientInv'
<1>1. TypeOK' BY DEF ClientInv, TypeOK, service, Signals
<1>2. ASSUME NEW d \in Clients PROVE Fit(worker'[d], gui'[d], down'[d], state')
  <2>1. worker' = worker /\ state' = state BY DEF service
  <2>2. CASE d = c BY <2>1, <2>2 DEF ClientInv, TypeOK
  <2>3. CASE d # c BY <2>1, <2>3 DEF ClientInv, TypeOK
  <2>4. QED BY <2>2, <2>3
<1>3. QED BY <1>1, <1>2 DEF ClientInv

\* The steps of one GUI that send a command.
LEMMA SendKeeps ==
    ASSUME ClientInv, NEW c \in Clients, NEW g \in Gui, NEW q \in Seq(Signals),
           NEW name \in {"cmdStart", "cmdStop", "cmdSetCredentials"},
           Send(c, g, name), down' = [down EXCEPT ![c] = q],
           UNCHANGED service,
           Fit(worker[c], g, q, state)
    PROVE  ClientInv'
<1>0. TypeOK BY DEF ClientInv
<1>1. TypeOK'
  <2>1. gui' \in [Clients -> Gui] /\ worker' \in [Clients -> Worker]
        /\ up' \in [Clients -> Seq(Commands)]
    BY <1>0, SendTypes
  <2>2. QED BY <1>0, <2>1 DEF TypeOK, service, Signals
<1>2. ASSUME NEW d \in Clients PROVE Fit(worker'[d], gui'[d], down'[d], state')
  <2>1. state' = state BY DEF service
  <2>2. CASE d = c
    <3>1. down'[d] = q BY <1>0, <2>2 DEF TypeOK
    <3>2. CASE g.link = "none" /\ svc
      <4>1. worker'[d] = NewWorker /\ gui'[d] = [g EXCEPT !.link = "up"]
        BY <1>0, <2>2, <3>2 DEF Send, connectToCore, TypeOK
      <4>2. NewWorker.open /\ ~NewWorker.told BY DEF NewWorker, NoWorker
      <4>3. /\ gui'[d].link = "up" /\ gui'[d].mState = g.mState
            /\ gui'[d].mInPortLoop = g.mInPortLoop /\ gui'[d].dialog = g.dialog
        BY <4>1 DEF Gui
      <4>4. QED BY <2>1, <3>1, <4>1, <4>2, <4>3 DEF Fit
    <3>3. CASE ~(g.link = "none" /\ svc)
      <4>1. worker'[d] = worker[c] /\ gui'[d] = g
        BY <1>0, <2>2, <3>3 DEF Send, connectToCore, TypeOK
      <4>2. QED BY <2>1, <3>1, <4>1
    <3>4. QED BY <3>2, <3>3
  <2>3. CASE d # c
    <3>1. worker'[d] = worker[d] /\ gui'[d] = gui[d] /\ down'[d] = down[d]
      BY <1>0, <2>3 DEF Send, connectToCore, TypeOK
    <3>2. QED BY <2>1, <3>1 DEF ClientInv
  <2>4. QED BY <2>2, <2>3
<1>3. QED BY <1>1, <1>2 DEF ClientInv

-----------------------------------------------------------------------------
(* One lemma for the actions of each kind.                                 *)

LEMMA NewGuiTypes ==
    ASSUME NEW at \in Target, NEW g \in NewGuis(at)
    PROVE  g \in Gui /\ ~g.mInPortLoop /\ ~g.dialog
<1>1. "Disconnected" \in States BY DEF States, Manager!States
<1>2. PICK st \in States :
        g = [link |-> "none", loggedIn |-> FALSE, mState |-> st, shown |-> "Disconnected",
             mChangingPorts |-> FALSE, mInPortLoop |-> FALSE, mPortDialogShown |-> FALSE,
             mUserRequestedDisconnect |-> FALSE, dialog |-> FALSE, modal |-> FALSE,
             at |-> at]
  BY DEF NewGuis
<1>3. QED BY <1>1, <1>2 DEF Gui

LEMMA InitKeeps == Init => ClientInv
<1> SUFFICES ASSUME Init PROVE ClientInv OBVIOUS
<1>1. Ports \in Nat \ {0} /\ Nodes \in Nat \ {0} BY ClientsAssumption
<1>2. [port |-> 1, node |-> 1] \in Target BY <1>1 DEF Target
<1>3. \A c \in Clients :
        /\ gui[c] \in Gui
        /\ ~gui[c].mInPortLoop /\ ~gui[c].dialog
  BY <1>2, NewGuiTypes DEF Init
<1>4. gui \in [Clients -> Gui]
  <2>1. gui \in [Clients -> NewGuis([port |-> 1, node |-> 1])] BY DEF Init
  <2>2. QED BY <1>3, <2>1
<1>5. NoWorker \in Worker /\ ~NoWorker.open
  BY DEF NoWorker, Worker, States, Manager!States
<1>6. state \in States /\ sent \in Seq(Signals)
  BY DEF Init, Manager!Init, States, Manager!States
<1>7. TypeOK
  <2>1. target \in Attempts \cup {None} /\ creds \in BOOLEAN /\ svc \in BOOLEAN
    BY DEF Init
  <2>2. worker \in [Clients -> Worker] BY <1>5 DEF Init
  <2>3. up \in [Clients -> Seq(Commands)] /\ down \in [Clients -> Seq(Signals)]
    BY DEF Init
  <2>4. QED BY <1>4, <1>6, <2>1, <2>2, <2>3 DEF TypeOK, Signals
<1>8. ASSUME NEW c \in Clients PROVE Fit(worker[c], gui[c], down[c], state)
  <2>1. worker[c] = NoWorker /\ down[c] = <<>> BY DEF Init
  <2>2. Follows(gui[c].mState, <<>>) BY DEF Follows
  <2>3. QED BY <1>3, <1>5, <2>1, <2>2 DEF Fit
<1>9. QED BY <1>7, <1>8 DEF ClientInv

LEMMA ServeKeeps ==
    ASSUME ClientInv, NEW c \in Clients, Serve(c) PROVE ClientInv'
<1>0. TypeOK BY DEF ClientInv
<1>1. up[c] \in Seq(Commands) /\ up[c] # <<>> BY <1>0 DEF TypeOK, Serve
<1>2. Head(up[c]) \in Commands /\ Tail(up[c]) \in Seq(Commands)
  BY <1>1, HeadTailProperties
<1>3. up' \in [Clients -> Seq(Commands)] BY <1>0, <1>2 DEF TypeOK, Serve
<1>4. Head(up[c]).at \in Attempts \cup {None} BY <1>2 DEF Commands, Target, Attempts
<1>5. CASE Head(up[c]).cmd = "cmdStart"
  <2>1. Manager!Start /\ Broadcast /\ target' = Head(up[c]).at
        /\ UNCHANGED <<creds, svc, gui>>
    BY <1>5 DEF Serve
  <2>s. Manager!Spontaneous BY <2>1 DEF Manager!Spontaneous
  <2>2. QED BY <1>3, <1>4, <2>1, <2>s, ManagerKeeps
<1>6. CASE Head(up[c]).cmd = "cmdStop"
  <2>1. Manager!Stop /\ Broadcast /\ UNCHANGED <<target, creds, svc, gui>>
    BY <1>6 DEF Serve
  <2>2. target' \in Attempts \cup {None} BY <1>0, <2>1 DEF TypeOK
  <2>3. Manager!Spontaneous BY <2>1 DEF Manager!Spontaneous
  <2>4. QED BY <1>3, <2>1, <2>2, <2>3, ManagerKeeps
<1>7. CASE Head(up[c]).cmd = "cmdSetCredentials"
  <2>1. creds' = TRUE /\ UNCHANGED <<state, sent, target, worker, down, svc, gui>>
    BY <1>7 DEF Serve
  <2>2. TypeOK' BY <1>0, <1>3, <2>1 DEF TypeOK
  <2>3. \A d \in Clients : Fit(worker'[d], gui'[d], down'[d], state')
    BY <2>1 DEF ClientInv
  <2>4. QED BY <2>2, <2>3 DEF ClientInv
<1>8. QED BY <1>2, <1>5, <1>6, <1>7 DEF Commands

LEMMA ManagerStepKeeps == ASSUME ClientInv, ManagerStep PROVE ClientInv'
<1>0. TypeOK BY DEF ClientInv
<1>1. /\ Manager!Spontaneous /\ Broadcast /\ UNCHANGED <<creds, svc, up, gui>>
      /\ target' \in {target, [target EXCEPT !.port = Moved]} /\ target # None
  BY DEF ManagerStep, ManagerActs, BindFails, ManagerTries, Manager!Spontaneous
<1>2. up' \in [Clients -> Seq(Commands)] /\ target' \in Attempts \cup {None}
  BY <1>0, <1>1 DEF TypeOK, Attempts
<1>3. QED BY <1>1, <1>2, ManagerKeeps

\* All connections are closed.
LEMMA CrashKeeps == ASSUME ClientInv, CrashService PROVE ClientInv'
<1>0. TypeOK BY DEF ClientInv
<1>1. /\ worker' = [c \in Clients |-> NoWorker]
      /\ gui' = [c \in Clients |-> [gui[c] EXCEPT !.link = IF @ = "up" THEN "broken" ELSE @]]
      /\ UNCHANGED down
  BY DEF CrashService
<1>2. NoWorker \in Worker /\ ~NoWorker.open
  BY DEF NoWorker, Worker, States, Manager!States
<1>3. ASSUME NEW c \in Clients
      PROVE  /\ gui'[c] \in Gui /\ gui'[c].mState = gui[c].mState
             /\ gui'[c].mInPortLoop = gui[c].mInPortLoop
             /\ gui'[c].dialog = gui[c].dialog
  <2>1. gui[c] \in Gui BY <1>0 DEF TypeOK
  <2>2. PICK x \in {"none", "up", "broken"} :
            x = IF gui[c].link = "up" THEN "broken" ELSE gui[c].link
    BY <2>1 DEF Gui
  <2>3. gui'[c] = [gui[c] EXCEPT !.link = x] BY <1>1, <2>2
  <2>4. QED BY <2>1, <2>3 DEF Gui
<1>4. gui' \in [Clients -> Gui]
  <2>1. gui' = [c \in Clients |-> gui'[c]] BY <1>1
  <2>2. QED BY <1>3, <2>1
<1>5. /\ state' = "Disconnected" /\ sent' = <<>> /\ target' = None
      /\ creds' = FALSE /\ svc' = FALSE /\ up' = [c \in Clients |-> <<>>]
  BY DEF CrashService, Manager!Die, Manager!Says
<1>6. TypeOK'
  <2>1. state' \in States BY <1>5 DEF States, Manager!States
  <2>t. target' \in Attempts \cup {None} /\ creds' \in BOOLEAN /\ svc' \in BOOLEAN
    BY <1>5
  <2>s. sent' \in Seq(Signals) BY <1>5
  <2>2. worker' \in [Clients -> Worker] BY <1>1, <1>2
  <2>3. up' \in [Clients -> Seq(Commands)] BY <1>5
  <2>4. down' \in [Clients -> Seq(Signals)] BY <1>0, <1>1 DEF TypeOK, Signals
  <2>5. QED BY <1>4, <2>1, <2>t, <2>s, <2>2, <2>3, <2>4 DEF TypeOK, Signals
<1>7. \A c \in Clients : Fit(worker'[c], gui'[c], down'[c], state')
  BY <1>1, <1>2, <1>3 DEF ClientInv, Fit
<1>8. QED BY <1>6, <1>7 DEF ClientInv

LEMMA RestartServiceKeeps == ASSUME ClientInv, RestartService PROVE ClientInv'
<1>1. TypeOK' BY DEF ClientInv, TypeOK, RestartService
<1>2. \A c \in Clients : Fit(worker'[c], gui'[c], down'[c], state')
  BY DEF ClientInv, RestartService
<1>3. QED BY <1>1, <1>2 DEF ClientInv

LEMMA NextAtTypes == ASSUME NEW g \in Gui PROVE NextAt(g) \in Target
<1>1. g.at \in Target BY DEF Gui
<1>2. PICK p \in 1..Ports, n \in 1..Nodes : g.at = [port |-> p, node |-> n]
  BY <1>1 DEF Target
<1>3. Ports \in Nat \ {0} /\ Nodes \in Nat \ {0} BY ClientsAssumption
<1>4. switchToNextPort(g.at) = [port |-> IF p < Ports THEN p + 1 ELSE 1, node |-> n]
  BY <1>2 DEF switchToNextPort
<1>5. switchToNextNode(g.at) = [port |-> p, node |-> IF n < Nodes THEN n + 1 ELSE n]
  BY <1>2 DEF switchToNextNode
<1>6. (IF p < Ports THEN p + 1 ELSE 1) \in 1..Ports BY <1>3
<1>7. (IF n < Nodes THEN n + 1 ELSE n) \in 1..Nodes BY <1>3
<1>8. QED BY <1>4, <1>5, <1>6, <1>7 DEF NextAt, Target

\* The user: nothing the user does changes mState, and no command of the user
\* opens the dialog.
LEMMA UserKeeps ==
    ASSUME ClientInv, NEW c \in Clients, User(c) PROVE ClientInv'
<1>0. TypeOK BY DEF ClientInv
<1>g. gui[c] \in Gui /\ down[c] \in Seq(Signals) /\ down = [down EXCEPT ![c] = down[c]]
      /\ Fit(worker[c], gui[c], down[c], state)
  BY DEF ClientInv, TypeOK, Signals
<1>f. ASSUME NEW g \in Gui, g.link = gui[c].link, g.mState = gui[c].mState,
             g.mInPortLoop \/ g.dialog => gui[c].mInPortLoop \/ gui[c].dialog
      PROVE  Fit(worker[c], g, down[c], state)
  BY <1>g, <1>f DEF Fit
<1>1. ASSUME NEW g \in Gui, g.link = gui[c].link, g.mState = gui[c].mState,
             g.mInPortLoop \/ g.dialog => gui[c].mInPortLoop \/ gui[c].dialog,
             NEW name \in {"cmdStart", "cmdStop", "cmdSetCredentials"},
             Send(c, g, name), UNCHANGED <<service, down>>
      PROVE  ClientInv'
  <2>1. Fit(worker[c], g, down[c], state) BY <1>1, <1>f
  <2>2. down' = [down EXCEPT ![c] = down[c]] BY <1>1, <1>g
  <2>3. QED BY <1>1, <1>g, <2>1, <2>2, SendKeeps
<1>2. CASE Login(c)
  <2> DEFINE g == [gui[c] EXCEPT !.loggedIn = TRUE,
                                 !.modal = gui[c].link = "none" /\ ~svc]
  <2>1. PICK b \in BOOLEAN : b = (gui[c].link = "none" /\ ~svc) OBVIOUS
  <2>2. g = [gui[c] EXCEPT !.loggedIn = TRUE, !.modal = b] BY <2>1
  <2>3. /\ g \in Gui /\ g.link = gui[c].link /\ g.mState = gui[c].mState
        /\ g.mInPortLoop = gui[c].mInPortLoop /\ g.dialog = gui[c].dialog
    BY <1>g, <2>2 DEF Gui
  <2>4. Send(c, g, "cmdSetCredentials") /\ UNCHANGED <<service, down>>
    BY <1>2 DEF Login
  <2> HIDE DEF g
  <2>5. QED BY <1>1, <2>3, <2>4
<1>3. CASE Logout(c)
  <2> DEFINE g == [[gui[c] EXCEPT !.loggedIn = FALSE]
                        EXCEPT !.mUserRequestedDisconnect = TRUE]
  <2>1. /\ g \in Gui /\ g.link = gui[c].link /\ g.mState = gui[c].mState
        /\ g.mInPortLoop = gui[c].mInPortLoop /\ g.dialog = gui[c].dialog
    BY <1>g DEF Gui
  <2>2. Send(c, g, "cmdStop") /\ UNCHANGED <<service, down>>
    BY <1>3 DEF Logout, sendDisconnectFromVPNRequest
  <2> HIDE DEF g
  <2>3. QED BY <1>1, <2>1, <2>2
<1>4. CASE Disconnect(c)
  <2> DEFINE g == [gui[c] EXCEPT !.mUserRequestedDisconnect = TRUE]
  <2>1. /\ g \in Gui /\ g.link = gui[c].link /\ g.mState = gui[c].mState
        /\ g.mInPortLoop = gui[c].mInPortLoop /\ g.dialog = gui[c].dialog
    BY <1>g DEF Gui
  <2>2. Send(c, g, "cmdStop") /\ UNCHANGED <<service, down>>
    BY <1>4 DEF Disconnect, sendDisconnectFromVPNRequest
  <2> HIDE DEF g
  <2>3. QED BY <1>1, <2>1, <2>2
<1>5. CASE CheckWifi(c)
  <2> DEFINE g == [gui[c] EXCEPT !.mUserRequestedDisconnect = FALSE]
  <2>1. /\ g \in Gui /\ g.link = gui[c].link /\ g.mState = gui[c].mState
        /\ g.mInPortLoop = gui[c].mInPortLoop /\ g.dialog = gui[c].dialog
    BY <1>g DEF Gui
  <2>2. Send(c, g, "cmdStart") /\ UNCHANGED <<service, down>>
    BY <1>5 DEF CheckWifi, sendConnectToVPNRequest
  <2> HIDE DEF g
  <2>3. QED BY <1>1, <2>1, <2>2
<1>6. CASE \E at \in Target : Connect(c, at)
  <2>0. PICK at \in Target : Connect(c, at) BY <1>6
  <2> DEFINE g == [[gui[c] EXCEPT !.at = at] EXCEPT !.mUserRequestedDisconnect = FALSE]
  <2>1. /\ g \in Gui /\ g.link = gui[c].link /\ g.mState = gui[c].mState
        /\ g.mInPortLoop = gui[c].mInPortLoop /\ g.dialog = gui[c].dialog
    BY <1>g DEF Gui
  <2>2. Send(c, g, "cmdStart") /\ UNCHANGED <<service, down>>
    BY <2>0 DEF Connect, sendConnectToVPNRequest
  <2> HIDE DEF g
  <2>3. QED BY <1>1, <2>1, <2>2
<1>7. CASE \E ports \in BOOLEAN : AcceptDialog(c, ports)
  <2>0. PICK ports \in BOOLEAN : AcceptDialog(c, ports) BY <1>7
  <2> DEFINE h == [gui[c] EXCEPT !.dialog = FALSE, !.mChangingPorts = ports,
                                 !.mPortDialogShown = FALSE, !.mInPortLoop = TRUE]
             g == [[h EXCEPT !.at = NextAt(h)] EXCEPT !.mUserRequestedDisconnect = FALSE]
  <2>1. h \in Gui /\ h.link = gui[c].link /\ h.mState = gui[c].mState
    BY <1>g DEF Gui
  <2>2. Send(c, g, "cmdStart") /\ UNCHANGED <<service, down>> /\ gui[c].dialog
    BY <2>0 DEF AcceptDialog, tryNextPort, sendConnectToVPNRequest
  <2> HIDE DEF h
  <2>3. NextAt(h) \in Target BY <2>1, NextAtTypes
  <2>4. g \in Gui /\ g.link = h.link /\ g.mState = h.mState BY <2>1, <2>3 DEF Gui
  <2> HIDE DEF g
  <2>5. QED BY <1>1, <2>1, <2>2, <2>4
<1>8. CASE RejectDialog(c)
  <2> DEFINE g == [gui[c] EXCEPT !.dialog = FALSE]
  <2>1. /\ g \in Gui /\ g.link = gui[c].link /\ g.mState = gui[c].mState
        /\ g.mInPortLoop = gui[c].mInPortLoop /\ ~g.dialog
    BY <1>g DEF Gui
  <2>2. gui' = [gui EXCEPT ![c] = g] /\ UNCHANGED <<service, worker, up, down>>
    BY <1>8 DEF RejectDialog
  <2> HIDE DEF g
  <2>3. Fit(worker[c], g, down[c], state) BY <1>f, <2>1
  <2>4. down' = [down EXCEPT ![c] = down[c]] BY <1>g, <2>2
  <2>5. QED BY <1>g, <2>1, <2>2, <2>3, <2>4, GuiKeeps
<1>9. CASE RestartGui(c)
  <2>1. PICK g \in NewGuis(gui[c].at) : gui' = [gui EXCEPT ![c] = g]
    BY <1>9 DEF RestartGui
  <2>2. g \in Gui /\ ~g.mInPortLoop /\ ~g.dialog
    <3>1. gui[c].at \in Target BY <1>g DEF Gui
    <3>2. QED BY <2>1, <3>1, NewGuiTypes
  <2>3. /\ worker' = [worker EXCEPT ![c] = NoWorker]
        /\ down' = [down EXCEPT ![c] = <<>>]
        /\ UNCHANGED <<service, up>>
    BY <1>9 DEF RestartGui
  <2>4. NoWorker \in Worker /\ ~NoWorker.open
    BY DEF NoWorker, Worker, States, Manager!States
  <2>5. gui' \in [Clients -> Gui] /\ worker' \in [Clients -> Worker]
    BY <1>0, <2>1, <2>2, <2>3, <2>4 DEF TypeOK
  <2>6. down' \in [Clients -> Seq(Signals)] BY <1>0, <2>3 DEF TypeOK, Signals
  <2>7. TypeOK' BY <1>0, <2>3, <2>5, <2>6 DEF TypeOK, service, Signals
  <2>8. ASSUME NEW d \in Clients PROVE Fit(worker'[d], gui'[d], down'[d], state')
    <3>1. state' = state BY <2>3 DEF service
    <3>2. CASE d = c
      <4>1. gui'[d] = g /\ worker'[d] = NoWorker /\ down'[d] = <<>>
        BY <1>0, <2>1, <2>3, <3>2 DEF TypeOK
      <4>2. Follows(g.mState, <<>>) BY DEF Follows
      <4>3. QED BY <2>2, <2>4, <4>1, <4>2 DEF Fit
    <3>3. CASE d # c
      <4>1. gui'[d] = gui[d] /\ worker'[d] = worker[d] /\ down'[d] = down[d]
        BY <1>0, <2>1, <2>3, <3>3 DEF TypeOK
      <4>2. QED BY <3>1, <4>1 DEF ClientInv
    <3>4. QED BY <3>2, <3>3
  <2>9. QED BY <2>7, <2>8 DEF ClientInv
<1>10. QED BY <1>2, <1>3, <1>4, <1>5, <1>6, <1>7, <1>8, <1>9 DEF User

\* The notifications: mState becomes the state at the head of the queue, and
\* a timeout at the head finds Disconnected there.
LEMMA HandleKeeps ==
    ASSUME ClientInv, NEW c \in Clients, Handle(c) PROVE ClientInv'
<1>0. TypeOK BY DEF ClientInv
<1> DEFINE q == Tail(down[c])
<1>g. gui[c] \in Gui /\ down[c] \in Seq(Signals)
      /\ Fit(worker[c], gui[c], down[c], state)
  BY DEF ClientInv, TypeOK, Signals
<1>h. /\ down[c] # <<>> /\ down' = [down EXCEPT ![c] = q]
      /\ Head(down[c]) \in Signals /\ q \in Seq(Signals)
  <2>1. down[c] # <<>> /\ down' = [down EXCEPT ![c] = q]
    BY DEF Handle, HandleState, HandleTimeout, HandleError, HandleOther, Handles
  <2>2. QED BY <1>g, <2>1, HeadTailProperties
<1>a. After(gui[c].mState, down[c])
        = After(IF Head(down[c]) \in States THEN Head(down[c]) ELSE gui[c].mState, q)
  BY <1>g, <1>h, AfterTail
<1>s. {"timedOut", "error", "word", "ip"} \cap States = {} /\ "Disconnected" \in States
  BY DEF States, Manager!States
<1> HIDE DEF q
<1>f. ASSUME NEW g \in Gui, g.link = gui[c].link, g.mState = gui[c].mState,
             g.mInPortLoop \/ g.dialog => g.mState # "Connected",
             Head(down[c]) \notin States
      PROVE  Fit(worker[c], g, q, state)
  <2>1. Head(down[c]) # "Disconnected" BY <1>f, <1>s
  <2>2. Follows(gui[c].mState, q) BY <1>g, <1>h, <2>1, FollowsTail DEF Fit, q
  <2>3. After(gui[c].mState, q) = After(gui[c].mState, down[c]) BY <1>a, <1>f
  <2>4. QED BY <1>f, <1>g, <2>2, <2>3 DEF Fit
<1>1. CASE HandleState(c)
  <2>1. PICK st \in States :
            /\ Head(down[c]) = st
            /\ gui' = [gui EXCEPT ![c] = [gui[c] EXCEPT
                          !.mState = st, !.shown = st,
                          !.mInPortLoop = @ /\ st # "Connected",
                          !.dialog = @ /\ st # "Connected"]]
            /\ UNCHANGED <<service, worker, up>>
    BY <1>0, <1>1 DEF HandleState, Handles, TypeOK
  <2>2. PICK l \in BOOLEAN : l = (gui[c].mInPortLoop /\ st # "Connected") OBVIOUS
  <2>3. PICK b \in BOOLEAN : b = (gui[c].dialog /\ st # "Connected") OBVIOUS
  <2> DEFINE g == [gui[c] EXCEPT !.mState = st, !.shown = st, !.mInPortLoop = l,
                                 !.dialog = b]
  <2>4. gui' = [gui EXCEPT ![c] = g] BY <2>1, <2>2, <2>3
  <2>5. /\ g \in Gui /\ g.link = gui[c].link /\ g.mState = st
        /\ g.mInPortLoop = l /\ g.dialog = b
    BY <1>g DEF Gui
  <2> HIDE DEF g
  <2>6. Follows(st, q) BY <1>g, <1>h, <2>1, FollowsTail DEF Fit, q
  <2>7. After(gui[c].mState, down[c]) = After(st, q) BY <1>a, <2>1
  <2>8. Fit(worker[c], g, q, state) BY <1>g, <2>2, <2>3, <2>5, <2>6, <2>7 DEF Fit
  <2>9. QED BY <1>h, <2>1, <2>4, <2>5, <2>8, GuiKeeps
<1>2. CASE HandleTimeout(c)
  <2>1. Head(down[c]) = "timedOut" /\ UNCHANGED service
    BY <1>2 DEF HandleTimeout, Handles
  <2>2. gui[c].mState = "Disconnected"
    <3>1. 1 \in 1..Len(down[c]) /\ down[c][1] = "timedOut"
      BY <1>g, <1>h, <2>1, HeadTailProperties
    <3>2. QED BY <1>g, <3>1 DEF Fit, Follows
  <2>3. CASE gui[c].mInPortLoop
    <3> DEFINE h == gui[c]
               g == [[h EXCEPT !.at = NextAt(h)]
                        EXCEPT !.mUserRequestedDisconnect = FALSE]
    <3>1. NextAt(h) \in Target BY <1>g, NextAtTypes
    <3>2. g \in Gui /\ g.link = gui[c].link /\ g.mState = gui[c].mState
      BY <1>g, <3>1 DEF Gui
    <3>3. Send(c, g, "cmdStart")
      BY <1>2, <2>3 DEF HandleTimeout, tryNextPort, sendConnectToVPNRequest
    <3> HIDE DEF g
    <3>4. Fit(worker[c], g, q, state) BY <1>f, <1>s, <2>1, <2>2, <3>2
    <3>5. QED BY <1>h, <2>1, <3>2, <3>3, <3>4, SendKeeps
  <2>4. CASE ~gui[c].mInPortLoop
    <3>1. PICK g \in Gui :
            /\ gui' = [gui EXCEPT ![c] = g]
            /\ g.link = gui[c].link /\ g.mState = gui[c].mState
      <4>1. CASE gui[c].mPortDialogShown
        <5>1. gui' = [gui EXCEPT ![c] = gui[c]]
          BY <1>0, <1>2, <2>4, <4>1 DEF HandleTimeout, TypeOK
        <5>2. QED BY <1>g, <5>1
      <4>2. CASE ~gui[c].mPortDialogShown
        <5> DEFINE g == [gui[c] EXCEPT !.mPortDialogShown = TRUE, !.dialog = TRUE]
        <5>1. gui' = [gui EXCEPT ![c] = g] BY <1>2, <2>4, <4>2 DEF HandleTimeout
        <5>2. g \in Gui /\ g.link = gui[c].link /\ g.mState = gui[c].mState
          BY <1>g DEF Gui
        <5> HIDE DEF g
        <5>3. QED BY <5>1, <5>2
      <4>3. QED BY <4>1, <4>2
    <3>2. UNCHANGED <<service, worker, up>> BY <1>2, <2>4 DEF HandleTimeout
    <3>3. Fit(worker[c], g, q, state) BY <1>f, <1>s, <2>1, <2>2, <3>1
    <3>4. QED BY <1>h, <3>1, <3>2, <3>3, GuiKeeps
  <2>5. QED BY <2>3, <2>4
<1>3. CASE HandleError(c)
  <2> DEFINE g == [gui[c] EXCEPT !.modal = TRUE]
  <2>1. /\ g \in Gui /\ g.link = gui[c].link /\ g.mState = gui[c].mState
        /\ g.mInPortLoop = gui[c].mInPortLoop /\ g.dialog = gui[c].dialog
    BY <1>g DEF Gui
  <2>2. /\ Head(down[c]) = "error" /\ gui' = [gui EXCEPT ![c] = g]
        /\ UNCHANGED <<service, worker, up>>
    BY <1>3 DEF HandleError, Handles
  <2> HIDE DEF g
  <2>3. Fit(worker[c], g, q, state) BY <1>f, <1>g, <1>s, <2>1, <2>2 DEF Fit
  <2>4. QED BY <1>h, <2>1, <2>2, <2>3, GuiKeeps
<1>4. CASE HandleOther(c)
  <2>1. /\ Head(down[c]) \in {"word", "ip"} /\ gui' = [gui EXCEPT ![c] = gui[c]]
        /\ UNCHANGED <<service, worker, up>>
    BY <1>0, <1>4 DEF HandleOther, Handles, TypeOK
  <2>2. Fit(worker[c], gui[c], q, state) BY <1>f, <1>g, <1>s, <2>1 DEF Fit
  <2>3. QED BY <1>g, <1>h, <2>1, <2>2, GuiKeeps
<1>5. QED BY <1>1, <1>2, <1>3, <1>4 DEF Handle

LEMMA CloseErrorKeeps ==
    ASSUME ClientInv, NEW c \in Clients, CloseError(c) PROVE ClientInv'
<1> DEFINE g == [gui[c] EXCEPT !.modal = FALSE]
<1>1. gui[c] \in Gui /\ down[c] \in Seq(Signals)
      /\ Fit(worker[c], gui[c], down[c], state) /\ down = [down EXCEPT ![c] = down[c]]
  BY DEF ClientInv, TypeOK, Signals
<1>2. /\ g \in Gui /\ g.link = gui[c].link /\ g.mState = gui[c].mState
      /\ g.mInPortLoop = gui[c].mInPortLoop /\ g.dialog = gui[c].dialog
  BY <1>1 DEF Gui
<1>3. gui' = [gui EXCEPT ![c] = g] /\ UNCHANGED <<service, worker, up, down>>
  BY DEF CloseError
<1> HIDE DEF g
<1>4. Fit(worker[c], g, down[c], state) BY <1>1, <1>2 DEF Fit
<1>5. down' = [down EXCEPT ![c] = down[c]] BY <1>1, <1>3
<1>6. QED BY <1>1, <1>2, <1>3, <1>4, <1>5, GuiKeeps

\* The connection is a broken one, so no worker is open; what remains of the
\* queue is a prefix of it.
LEMMA SocketKeeps ==
    ASSUME ClientInv, NEW c \in Clients, SocketDisconnected(c) PROVE ClientInv'
<1> DEFINE g == [gui[c] EXCEPT !.link = "none"]
<1>1. gui[c] \in Gui /\ down[c] \in Seq(Signals)
      /\ Fit(worker[c], gui[c], down[c], state) /\ down = [down EXCEPT ![c] = down[c]]
  BY DEF ClientInv, TypeOK, Signals
<1>2. /\ g \in Gui /\ g.mState = gui[c].mState
      /\ g.mInPortLoop = gui[c].mInPortLoop /\ g.dialog = gui[c].dialog
  BY <1>1 DEF Gui
<1>3. /\ gui[c].link = "broken" /\ gui' = [gui EXCEPT ![c] = g]
      /\ UNCHANGED <<service, worker, up>>
  BY DEF SocketDisconnected
<1> HIDE DEF g
<1>4. ~worker[c].open BY <1>1, <1>3 DEF Fit
<1>5. PICK k \in 0..Len(down[c]) : down' = [down EXCEPT ![c] = SubSeq(down[c], 1, k)]
  <2>1. CASE gui[c].modal
    BY <2>1 DEF SocketDisconnected, ClientInv, TypeOK
  <2>2. CASE ~gui[c].modal
    <3>1. down[c] = <<>> /\ down' = down BY <2>2 DEF SocketDisconnected
    <3>2. SubSeq(down[c], 1, 0) = down[c] BY <3>1
    <3>3. 0 \in 0..Len(down[c]) BY <3>1
    <3>4. QED BY <1>1, <3>1, <3>2, <3>3
  <2>3. QED BY <2>1, <2>2
<1> DEFINE q == SubSeq(down[c], 1, k)
<1>6. q \in Seq(Signals) /\ Len(q) = k /\ \A i \in 1..k : q[i] = down[c][i]
  BY <1>1, <1>5
<1> HIDE DEF q
<1>7. Follows(g.mState, q)
  <2>1. SUFFICES ASSUME NEW i \in 1..k, q[i] = "timedOut"
        PROVE IF i = 1 THEN g.mState = "Disconnected" ELSE q[i - 1] = "Disconnected"
    BY <1>6 DEF Follows
  <2>2. i \in 1..Len(down[c]) /\ down[c][i] = "timedOut" BY <1>1, <1>5, <1>6, <2>1
  <2>3. IF i = 1 THEN gui[c].mState = "Disconnected"
                 ELSE down[c][i - 1] = "Disconnected"
    BY <1>1, <2>2 DEF Fit, Follows
  <2>4. i # 1 => i - 1 \in 1..k BY <1>5, <2>1
  <2>5. QED BY <1>2, <1>6, <2>3, <2>4
<1>8. Fit(worker[c], g, q, state) BY <1>1, <1>2, <1>4, <1>7 DEF Fit
<1>9. down' = [down EXCEPT ![c] = q] BY <1>5 DEF q
<1>10. QED BY <1>2, <1>3, <1>6, <1>8, <1>9, GuiKeeps

-----------------------------------------------------------------------------
(* The theorems.                                                           *)

LEMMA NextKeeps == ClientInv /\ [Next]_vars => ClientInv'
<1> SUFFICES ASSUME ClientInv, [Next]_vars PROVE ClientInv' OBVIOUS
<1>1. CASE ManagerStep BY <1>1, ManagerStepKeeps
<1>2. CASE CrashService BY <1>2, CrashKeeps
<1>3. CASE RestartService BY <1>3, RestartServiceKeeps
<1>4. ASSUME NEW c \in Clients,
             Serve(c) \/ User(c) \/ Handle(c) \/ CloseError(c) \/ SocketDisconnected(c)
      PROVE  ClientInv'
  BY <1>4, ServeKeeps, UserKeeps, HandleKeeps, CloseErrorKeeps, SocketKeeps
<1>5. CASE UNCHANGED vars
  <2>1. TypeOK' BY <1>5 DEF ClientInv, TypeOK, vars
  <2>2. \A c \in Clients : Fit(worker'[c], gui'[c], down'[c], state')
    BY <1>5 DEF ClientInv, vars
  <2>3. QED BY <2>1, <2>2 DEF ClientInv
<1>6. QED BY <1>1, <1>2, <1>3, <1>4, <1>5 DEF Next

LEMMA ClientsSafe == Spec => []ClientInv
BY InitKeeps, NextKeeps, PTL DEF Spec

\* The variables of the clients have their types, in every instance.
THEOREM ClientsTypes == Spec => []TypeOK
<1>1. ClientInv => TypeOK BY DEF ClientInv
<1>2. QED BY <1>1, ClientsSafe, PTL

\* What a GUI shows, once it has handled what is on its way, is the state of
\* the manager (QVPNClientConnection sends every state on, in order, and
\* VPNServiceManager takes mState from nothing else).
THEOREM Mirrors == Spec => []MirrorsManager
<1>1. ClientInv => MirrorsManager
  <2> SUFFICES ASSUME ClientInv, NEW c \in Clients, worker[c].open, worker[c].told
               PROVE  worker[c].m_state = state /\ After(gui[c].mState, down[c]) = state
    BY DEF MirrorsManager
  <2>1. Fit(worker[c], gui[c], down[c], state) BY DEF ClientInv
  <2>2. QED BY <2>1 DEF Fit
<1>2. QED BY <1>1, ClientsSafe, PTL

\* No late timeout asks for another port, or tries one, while Connected is
\* shown (VPNServiceManager::socket_readyRead, stateChanged).
THEOREM LoopStops == Spec => []LoopOnlyWhileDown
<1>1. ClientInv => LoopOnlyWhileDown
  <2> SUFFICES ASSUME ClientInv, NEW c \in Clients, gui[c].mInPortLoop \/ gui[c].dialog
               PROVE  gui[c].mState # "Connected"
    BY DEF LoopOnlyWhileDown
  <2>1. Fit(worker[c], gui[c], down[c], state) BY DEF ClientInv
  <2>2. QED BY <2>1 DEF Fit
<1>2. QED BY <1>1, ClientsSafe, PTL

-----------------------------------------------------------------------------
(* With one GUI: the last start on its way is for the port and the server  *)
(* that GUI shows, or else the target of the manager serves them; a        *)
(* connection that broke took both the commands and the manager with it.   *)

\* Commands q on their way, the manager's target t, the setting at.
Synced(q, t, at) ==
    /\ \A i \in 1..Len(q) :
          /\ q[i].cmd = "cmdStart"
          /\ \A j \in 1..Len(q) : j > i => q[j].cmd # "cmdStart"
          => q[i].at = at
    /\ (\A i \in 1..Len(q) : q[i].cmd # "cmdStart") /\ t # None => Serves(t, at)

\* GUI g, its commands q, target t and whether the service runs.
Settled(g, q, t, s) ==
    /\ g.link # "up" => q = <<>>
    /\ ~s \/ g.link = "broken" => t = None
    /\ Synced(q, t, g.at)

SettingInv == \A c \in Clients : Clients = {c} => Settled(gui[c], up[c], target, svc)

LEMMA SyncedEmpty ==
    ASSUME NEW at, NEW t \in {None, at} PROVE Synced(<<>>, t, at)
<1>1. Len(<<>>) = 0 /\ 1..0 = {} OBVIOUS
<1>2. QED BY <1>1 DEF Synced, Serves

LEMMA SyncedSend ==
    ASSUME NEW q \in Seq(Commands), NEW t, NEW old, NEW at, NEW x \in Commands,
           Synced(q, t, old), IF x.cmd = "cmdStart" THEN x.at = at ELSE at = old
    PROVE  Synced(Append(q, x), t, at)
<1> DEFINE b == Append(q, x)
<1>1. /\ Len(q) \in Nat /\ Len(b) = Len(q) + 1 /\ b[Len(q) + 1] = x
      /\ \A i \in 1..Len(q) : b[i] = q[i]
  BY AppendProperties, LenProperties
<1> HIDE DEF b
<1>2. Len(q) + 1 \in 1..Len(b) BY <1>1
<1>3. ASSUME NEW i \in 1..Len(b), b[i].cmd = "cmdStart",
             \A j \in 1..Len(b) : j > i => b[j].cmd # "cmdStart"
      PROVE  b[i].at = at
  <2>1. CASE i = Len(q) + 1 BY <1>1, <1>3, <2>1
  <2>2. CASE i # Len(q) + 1
    <3>1. i \in 1..Len(q) /\ Len(q) + 1 > i BY <1>1, <2>2
    <3>2. x.cmd # "cmdStart" BY <1>1, <1>2, <1>3, <3>1
    <3>3. \A j \in 1..Len(q) : j \in 1..Len(b) /\ b[j] = q[j] BY <1>1
    <3>4. q[i].cmd = "cmdStart" /\ \A j \in 1..Len(q) : j > i => q[j].cmd # "cmdStart"
      BY <1>3, <3>1, <3>3
    <3>5. q[i].at = old BY <3>1, <3>4 DEF Synced
    <3>6. QED BY <3>1, <3>2, <3>3, <3>5
  <2>3. QED BY <2>1, <2>2
<1>4. ASSUME \A i \in 1..Len(b) : b[i].cmd # "cmdStart", t # None PROVE Serves(t, at)
  <2>1. x.cmd # "cmdStart" BY <1>1, <1>2, <1>4
  <2>2. \A i \in 1..Len(q) : q[i].cmd # "cmdStart"
    <3>1. \A i \in 1..Len(q) : i \in 1..Len(b) /\ b[i] = q[i] BY <1>1
    <3>2. QED BY <1>4, <3>1
  <2>3. QED BY <1>4, <2>1, <2>2 DEF Synced
<1>5. Synced(b, t, at) BY <1>3, <1>4 DEF Synced
<1>6. QED BY <1>5 DEF b

LEMMA SyncedServe ==
    ASSUME NEW q \in Seq(Commands), q # <<>>, NEW t, NEW at, NEW u, Synced(q, t, at),
           u = IF Head(q).cmd = "cmdStart" THEN Head(q).at ELSE t
    PROVE  Synced(Tail(q), u, at)
<1> DEFINE b == Tail(q)
<1>1. /\ Len(q) \in Nat \ {0} /\ Len(b) = Len(q) - 1 /\ Head(q) = q[1]
      /\ \A i \in 1..Len(q) - 1 : b[i] = q[i + 1]
  BY HeadTailProperties
<1> HIDE DEF b
<1>2. \A i \in 1..Len(b) : i + 1 \in 1..Len(q) /\ b[i] = q[i + 1] BY <1>1
<1>3. \A j \in 1..Len(q) : j = 1 \/ (j - 1 \in 1..Len(b) /\ b[j - 1] = q[j])
  <2> SUFFICES ASSUME NEW j \in 1..Len(q), j # 1
               PROVE  j - 1 \in 1..Len(b) /\ b[j - 1] = q[j]
    OBVIOUS
  <2>1. j - 1 \in 1..Len(b) /\ (j - 1) + 1 = j BY <1>1
  <2>2. QED BY <1>2, <2>1
<1>4. ASSUME NEW i \in 1..Len(b), b[i].cmd = "cmdStart",
             \A j \in 1..Len(b) : j > i => b[j].cmd # "cmdStart"
      PROVE  b[i].at = at
  <2>1. i + 1 \in 1..Len(q) /\ q[i + 1] = b[i] BY <1>2
  <2>2. ASSUME NEW j \in 1..Len(q), j > i + 1 PROVE q[j].cmd # "cmdStart"
    <3>1. j # 1 /\ j - 1 > i BY <1>1, <2>2
    <3>2. j - 1 \in 1..Len(b) /\ b[j - 1] = q[j] BY <1>3, <3>1
    <3>3. QED BY <1>4, <3>1, <3>2
  <2>3. q[i + 1].at = at BY <1>4, <2>1, <2>2 DEF Synced
  <2>4. QED BY <2>1, <2>3
<1>5. ASSUME \A i \in 1..Len(b) : b[i].cmd # "cmdStart", u # None PROVE Serves(u, at)
  <2>1. \A j \in 1..Len(q) : j # 1 => q[j].cmd # "cmdStart" BY <1>3, <1>5
  <2>2. 1 \in 1..Len(q) /\ \A j \in 1..Len(q) : j > 1 => q[j].cmd # "cmdStart"
    BY <1>1, <2>1
  <2>3. CASE q[1].cmd = "cmdStart" BY <1>1, <2>2, <2>3 DEF Synced, Serves
  <2>4. CASE q[1].cmd # "cmdStart"
    <3>1. \A j \in 1..Len(q) : q[j].cmd # "cmdStart" BY <2>1, <2>4
    <3>2. QED BY <1>1, <1>5, <2>4, <3>1 DEF Synced
  <2>5. QED BY <2>3, <2>4
<1>6. Synced(b, u, at) BY <1>4, <1>5 DEF Synced
<1>7. QED BY <1>6 DEF b

\* A GUI sends a command, and changes its setting only with a start.
LEMMA SendSettles ==
    ASSUME TypeOK, SettingInv, NEW c \in Clients, NEW g \in Gui,
           NEW name \in {"cmdStart", "cmdStop", "cmdSetCredentials"},
           g.link = gui[c].link, name = "cmdStart" \/ g.at = gui[c].at,
           Send(c, g, name), UNCHANGED service
    PROVE  SettingInv'
<1> SUFFICES ASSUME Clients = {c}
             PROVE  Settled(gui'[c], up'[c], target', svc')
  BY DEF SettingInv
<1>1. Settled(gui[c], up[c], target, svc) BY DEF SettingInv
<1>2. up[c] \in Seq(Commands) /\ target' = target /\ svc' = svc BY DEF TypeOK, service
<1>3. Command(name, g) \in Commands /\ Command(name, g).cmd = name
      /\ (name = "cmdStart" => Command(name, g).at = g.at)
  BY DEF Command, Commands, Gui
<1>4. CASE g.link = "up" \/ (g.link = "none" /\ svc)
  <2>1. up'[c] = Append(up[c], Command(name, g)) BY <1>4 DEF Send, connectToCore, TypeOK
  <2>2. gui'[c].link = "up" /\ gui'[c].at = g.at
    <3>1. gui'[c] = IF g.link = "none" /\ svc THEN [g EXCEPT !.link = "up"] ELSE g
      BY DEF Send, connectToCore, TypeOK
    <3>2. QED BY <1>4, <3>1 DEF Gui
  <2>3. Synced(up[c], target, gui[c].at) BY <1>1 DEF Settled
  <2>4. Synced(up'[c], target, g.at) BY <1>2, <1>3, <2>1, <2>3, SyncedSend
  <2>5. ~svc => target = None BY <1>1 DEF Settled
  <2>6. QED BY <1>2, <2>2, <2>4, <2>5 DEF Settled
<1>5. CASE ~(g.link = "up" \/ (g.link = "none" /\ svc))
  <2>1. up'[c] = up[c] /\ gui'[c] = g BY <1>5 DEF Send, connectToCore, TypeOK
  <2>2. up[c] = <<>> /\ target = None BY <1>1, <1>5 DEF Settled, Gui
  <2>3. Synced(<<>>, None, g.at) BY SyncedEmpty
  <2>4. QED BY <1>2, <2>1, <2>2, <2>3 DEF Settled
<1>6. QED BY <1>4, <1>5

LEMMA ServeSettles ==
    ASSUME TypeOK, SettingInv, NEW c \in Clients, Serve(c) PROVE SettingInv'
<1> SUFFICES ASSUME Clients = {c} PROVE Settled(gui'[c], up'[c], target', svc')
  BY DEF SettingInv
<1>1. Settled(gui[c], up[c], target, svc) /\ svc BY DEF SettingInv, Serve
<1>2. /\ up[c] \in Seq(Commands) /\ up[c] # <<>> /\ up'[c] = Tail(up[c])
      /\ svc' = svc /\ gui' = gui
  BY DEF TypeOK, Serve
<1>3. target' = IF Head(up[c]).cmd = "cmdStart" THEN Head(up[c]).at ELSE target
  BY DEF Serve
<1>4. Synced(up'[c], target', gui[c].at) BY <1>1, <1>2, <1>3, SyncedServe DEF Settled
<1>5. gui[c].link = "up" BY <1>1, <1>2 DEF Settled
<1>6. QED BY <1>1, <1>2, <1>4, <1>5 DEF Settled

LEMMA CrashSettles ==
    ASSUME TypeOK, CrashService PROVE SettingInv'
<1> SUFFICES ASSUME NEW c \in Clients, Clients = {c}
             PROVE  Settled(gui'[c], up'[c], target', svc')
  BY DEF SettingInv
<1>1. up'[c] = <<>> /\ target' = None BY DEF CrashService
<1>2. QED BY <1>1, SyncedEmpty DEF Settled

LEMMA RestartServiceSettles ==
    ASSUME SettingInv, RestartService PROVE SettingInv'
BY DEF SettingInv, Settled, RestartService

\* The service, the link and the setting stay.
LEMMA GuiSettles ==
    ASSUME SettingInv, NEW c \in Clients, UNCHANGED <<target, svc, up>>,
           gui'[c].link = gui[c].link, gui'[c].at = gui[c].at
    PROVE  SettingInv'
<1> SUFFICES ASSUME Clients = {c} PROVE Settled(gui'[c], up'[c], target', svc')
  BY DEF SettingInv
<1>1. Settled(gui[c], up[c], target, svc) BY DEF SettingInv
<1>2. QED BY <1>1 DEF Settled

LEMMA UserSettles ==
    ASSUME TypeOK, SettingInv, NEW c \in Clients, User(c) PROVE SettingInv'
<1>1. gui[c] \in Gui BY DEF TypeOK
<1>2. CASE Login(c)
  <2> DEFINE g == [gui[c] EXCEPT !.loggedIn = TRUE,
                                 !.modal = gui[c].link = "none" /\ ~svc]
  <2>1. g \in Gui /\ g.link = gui[c].link /\ g.at = gui[c].at
    <3>1. PICK b \in BOOLEAN : b = (gui[c].link = "none" /\ ~svc) OBVIOUS
    <3>2. g = [gui[c] EXCEPT !.loggedIn = TRUE, !.modal = b] BY <3>1
    <3>3. QED BY <1>1, <3>2 DEF Gui
  <2>2. Send(c, g, "cmdSetCredentials") /\ UNCHANGED service BY <1>2 DEF Login
  <2> HIDE DEF g
  <2>3. QED BY <2>1, <2>2, SendSettles
<1>3. ASSUME Logout(c) \/ Disconnect(c) PROVE SettingInv'
  <2>1. PICK g \in Gui : /\ g.link = gui[c].link /\ g.at = gui[c].at
                         /\ Send(c, g, "cmdStop") /\ UNCHANGED service
    <3> DEFINE g == [gui[c] EXCEPT !.mUserRequestedDisconnect = TRUE]
               h == [[gui[c] EXCEPT !.loggedIn = FALSE]
                        EXCEPT !.mUserRequestedDisconnect = TRUE]
    <3>1. /\ g \in Gui /\ g.link = gui[c].link /\ g.at = gui[c].at
          /\ h \in Gui /\ h.link = gui[c].link /\ h.at = gui[c].at
      BY <1>1 DEF Gui
    <3>2. (Send(c, g, "cmdStop") \/ Send(c, h, "cmdStop")) /\ UNCHANGED service
      BY <1>3 DEF Logout, Disconnect, sendDisconnectFromVPNRequest
    <3> HIDE DEF g, h
    <3>3. QED BY <3>1, <3>2
  <2>2. QED BY <2>1, SendSettles
<1>4. ASSUME \/ CheckWifi(c)
             \/ \E at \in Target : Connect(c, at)
             \/ \E ports \in BOOLEAN : AcceptDialog(c, ports)
      PROVE  SettingInv'
  <2>1. PICK g \in Gui : /\ g.link = gui[c].link
                         /\ Send(c, g, "cmdStart") /\ UNCHANGED service
    <3>1. ASSUME NEW h \in Gui, h.link = gui[c].link, UNCHANGED service,
                 sendConnectToVPNRequest(c, h)
          PROVE  \E g \in Gui : g.link = gui[c].link /\ Send(c, g, "cmdStart")
                                /\ UNCHANGED service
      <4> DEFINE g == [h EXCEPT !.mUserRequestedDisconnect = FALSE]
      <4>1. g \in Gui /\ g.link = gui[c].link BY <3>1 DEF Gui
      <4>2. Send(c, g, "cmdStart") BY <3>1 DEF sendConnectToVPNRequest
      <4> HIDE DEF g
      <4>3. QED BY <3>1, <4>1, <4>2
    <3>2. CASE CheckWifi(c) BY <1>1, <3>1, <3>2 DEF CheckWifi
    <3>3. CASE \E at \in Target : Connect(c, at)
      <4>1. PICK at \in Target : Connect(c, at) BY <3>3
      <4> DEFINE h == [gui[c] EXCEPT !.at = at]
      <4>2. h \in Gui /\ h.link = gui[c].link BY <1>1 DEF Gui
      <4>3. sendConnectToVPNRequest(c, h) /\ UNCHANGED service BY <4>1 DEF Connect
      <4> HIDE DEF h
      <4>4. QED BY <3>1, <4>2, <4>3
    <3>4. CASE \E ports \in BOOLEAN : AcceptDialog(c, ports)
      <4>1. PICK ports \in BOOLEAN : AcceptDialog(c, ports) BY <3>4
      <4> DEFINE h == [gui[c] EXCEPT !.dialog = FALSE, !.mChangingPorts = ports,
                                     !.mPortDialogShown = FALSE, !.mInPortLoop = TRUE]
                 k == [h EXCEPT !.at = NextAt(h)]
      <4>2. h \in Gui /\ h.link = gui[c].link BY <1>1 DEF Gui
      <4>3. sendConnectToVPNRequest(c, k) /\ UNCHANGED service
        BY <4>1 DEF AcceptDialog, tryNextPort
      <4> HIDE DEF h
      <4>4. NextAt(h) \in Target BY <4>2, NextAtTypes
      <4>5. k \in Gui /\ k.link = gui[c].link BY <4>2, <4>4 DEF Gui
      <4> HIDE DEF k
      <4>6. QED BY <3>1, <4>3, <4>5
    <3>5. QED BY <1>4, <3>2, <3>3, <3>4
  <2>2. QED BY <2>1, SendSettles
<1>5. CASE RejectDialog(c)
  <2>1. /\ gui'[c] = [gui[c] EXCEPT !.dialog = FALSE]
        /\ UNCHANGED <<target, svc, up>>
    BY <1>5 DEF RejectDialog, TypeOK, service
  <2>2. gui'[c].link = gui[c].link /\ gui'[c].at = gui[c].at BY <1>1, <2>1 DEF Gui
  <2>3. QED BY <2>1, <2>2, GuiSettles
<1>6. CASE RestartGui(c)
  <2> SUFFICES ASSUME Clients = {c} PROVE Settled(gui'[c], up'[c], target', svc')
    BY DEF SettingInv
  <2>1. Settled(gui[c], up[c], target, svc) BY DEF SettingInv
  <2>2. /\ up[c] = <<>> /\ UNCHANGED <<target, svc, up>>
        /\ \E g \in NewGuis(gui[c].at) : gui'[c] = g
    BY <1>6 DEF RestartGui, TypeOK, service
  <2>3. gui'[c].link = "none" /\ gui'[c].at = gui[c].at BY <2>2 DEF NewGuis
  <2>4. QED BY <2>1, <2>2, <2>3 DEF Settled
<1>7. QED BY <1>2, <1>3, <1>4, <1>5, <1>6 DEF User

LEMMA HandleSettles ==
    ASSUME TypeOK, SettingInv, NEW c \in Clients,
           Handle(c) \/ CloseError(c) \/ SocketDisconnected(c)
    PROVE  SettingInv'
<1>1. gui[c] \in Gui BY DEF TypeOK
<1>2. CASE HandleTimeout(c) /\ gui[c].mInPortLoop
  <2> DEFINE g == [[gui[c] EXCEPT !.at = NextAt(gui[c])]
                        EXCEPT !.mUserRequestedDisconnect = FALSE]
  <2>1. NextAt(gui[c]) \in Target BY <1>1, NextAtTypes
  <2>2. g \in Gui /\ g.link = gui[c].link BY <1>1, <2>1 DEF Gui
  <2>3. Send(c, g, "cmdStart") /\ UNCHANGED service
    BY <1>2 DEF HandleTimeout, tryNextPort, sendConnectToVPNRequest
  <2> HIDE DEF g
  <2>4. QED BY <2>2, <2>3, SendSettles
<1>3. ASSUME \/ HandleTimeout(c) /\ ~gui[c].mInPortLoop
             \/ HandleState(c) \/ HandleError(c) \/ HandleOther(c) \/ CloseError(c)
      PROVE  SettingInv'
  <2>1. UNCHANGED <<target, svc, up>>
    BY <1>3 DEF HandleTimeout, HandleState, HandleError, HandleOther, CloseError, service
  <2>2. gui'[c].link = gui[c].link /\ gui'[c].at = gui[c].at
    <3>1. CASE HandleTimeout(c) /\ ~gui[c].mInPortLoop
      <4>1. gui'[c] = gui[c]
            \/ gui'[c] = [gui[c] EXCEPT !.mPortDialogShown = TRUE, !.dialog = TRUE]
        <5>1. CASE gui[c].mPortDialogShown BY <3>1, <5>1 DEF HandleTimeout
        <5>2. CASE ~gui[c].mPortDialogShown BY <3>1, <5>2 DEF HandleTimeout, TypeOK
        <5>3. QED BY <5>1, <5>2
      <4>2. QED BY <1>1, <4>1 DEF Gui
    <3>2. CASE HandleState(c)
      <4>1. PICK st \in States : gui' = [gui EXCEPT ![c] =
                     [gui[c] EXCEPT !.mState = st,
                                    !.shown = st,
                                    !.mInPortLoop = @ /\ st # "Connected",
                                    !.dialog = @ /\ st # "Connected"]]
        BY <3>2 DEF HandleState
      <4>2. QED BY <1>1, <4>1 DEF TypeOK, Gui
    <3>3. CASE HandleError(c) BY <1>1, <3>3 DEF HandleError, TypeOK, Gui
    <3>4. CASE HandleOther(c) BY <3>4 DEF HandleOther
    <3>5. CASE CloseError(c) BY <1>1, <3>5 DEF CloseError, TypeOK, Gui
    <3>6. QED BY <1>3, <3>1, <3>2, <3>3, <3>4, <3>5
  <2>3. QED BY <2>1, <2>2, GuiSettles
<1>4. CASE SocketDisconnected(c)
  <2> SUFFICES ASSUME Clients = {c} PROVE Settled(gui'[c], up'[c], target', svc')
    BY DEF SettingInv
  <2>1. Settled(gui[c], up[c], target, svc) BY DEF SettingInv
  <2>2. /\ gui[c].link = "broken" /\ UNCHANGED <<target, svc, up>>
        /\ gui'[c] = [gui[c] EXCEPT !.link = "none"]
    BY <1>4 DEF SocketDisconnected, TypeOK, service
  <2>3. gui'[c].at = gui[c].at BY <1>1, <2>2 DEF Gui
  <2>4. up[c] = <<>> /\ target = None BY <2>1, <2>2 DEF Settled
  <2>5. QED BY <2>1, <2>2, <2>3, <2>4 DEF Settled
<1>5. QED BY <1>2, <1>3, <1>4 DEF Handle

LEMMA SettingInit == Init => SettingInv
<1> SUFFICES ASSUME Init, NEW c \in Clients
             PROVE  Settled(gui[c], up[c], target, svc)
  BY DEF SettingInv
<1>1. up[c] = <<>> /\ target = None /\ svc BY DEF Init
<1>2. QED BY <1>1, SyncedEmpty DEF Settled

LEMMA SettingStep == ClientInv /\ SettingInv /\ [Next]_vars => SettingInv'
<1> SUFFICES ASSUME TypeOK, SettingInv, [Next]_vars PROVE SettingInv' BY DEF ClientInv
<1>1. CASE ManagerStep
  <2>1. /\ UNCHANGED <<svc, up, gui>> /\ svc /\ target # None
        /\ target' \in {target, [target EXCEPT !.port = Moved]}
    BY <1>1 DEF ManagerStep, ManagerActs, BindFails, ManagerTries
  <2>2. target \in Attempts BY <2>1 DEF TypeOK
  <2>3. ASSUME NEW at, Serves(target, at) PROVE Serves(target', at)
    BY <2>1, <2>2, <2>3 DEF Serves, Attempts
  <2>4. ASSUME NEW q, NEW at, Synced(q, target, at) PROVE Synced(q, target', at)
    BY <2>1, <2>3, <2>4 DEF Synced
  <2>5. QED BY <2>1, <2>4 DEF SettingInv, Settled
<1>2. CASE CrashService BY <1>2, CrashSettles
<1>3. CASE RestartService BY <1>3, RestartServiceSettles
<1>4. ASSUME NEW c \in Clients,
             Serve(c) \/ User(c) \/ Handle(c) \/ CloseError(c) \/ SocketDisconnected(c)
      PROVE  SettingInv'
  BY <1>4, ServeSettles, UserSettles, HandleSettles
<1>5. CASE UNCHANGED vars BY <1>5 DEF vars, SettingInv
<1>6. QED BY <1>1, <1>2, <1>3, <1>4, <1>5 DEF Next

\* With one GUI the manager works on the server that GUI shows, and on its port
\* unless a bind failed there (parseOpenvpnLogLine), once it has read what the
\* GUI sent: each change of the setting goes with a start, and a connection that
\* breaks takes the manager's target with it
\* (VPNServiceManager::sendConnectToVPNRequest, cmdStart).
THEOREM SettingHolds == Spec => []AttemptMatchesSetting
<1>1. SettingInv => AttemptMatchesSetting
  <2> SUFFICES ASSUME SettingInv, NEW c \in Clients, Clients = {c},
                      up[c] = <<>>, target # None
               PROVE  Serves(target, gui[c].at)
    BY DEF AttemptMatchesSetting
  <2>1. Synced(<<>>, target, gui[c].at) BY DEF SettingInv, Settled
  <2>2. \A i \in 1..Len(<<>>) : <<>>[i].cmd # "cmdStart" OBVIOUS
  <2>3. QED BY <2>1, <2>2 DEF Synced
<1>2. QED BY <1>1, SettingInit, SettingStep, ClientsSafe, PTL DEF Spec
=============================================================================
