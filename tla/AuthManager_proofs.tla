-------------------------- MODULE AuthManager_proofs --------------------------
(***************************************************************************)
(* Proofs about the pool of pings, for any number of workers, lists of any *)
(* length and any number of logins.                                        *)
(***************************************************************************)
EXTENDS AuthManager, Integers, SequenceTheorems, WellFoundedInduction, TLAPS

-----------------------------------------------------------------------------
(* Functions defined by recursion over the naturals.                       *)

LEMMA AllNaturals ==
    ASSUME NEW A, 0 \in A, \A n \in Nat : n \in A => n + 1 \in A
    PROVE  Nat \subseteq A
<1> DEFINE T == Nat \ A
<1>1. SUFFICES ASSUME T # {} PROVE FALSE OBVIOUS
<1>2. T \subseteq Nat OBVIOUS
<1> HIDE DEF T
<1>3. PICK t \in T : \A u \in T : ~(<<u, t>> \in OpToRel(<, Nat))
  BY <1>1, <1>2, NatLessThanWellFounded, WFMin
<1>4. t \in Nat /\ t \notin A BY DEF T
<1>5. t # 0 /\ t - 1 \in Nat /\ (t - 1) + 1 = t BY <1>4
<1>6. t - 1 \notin A BY <1>4, <1>5
<1>7. t - 1 \in T BY <1>5, <1>6 DEF T
<1>8. <<t - 1, t>> \in OpToRel(<, Nat)
  <2>1. t - 1 < t BY <1>4
  <2>2. QED BY <1>4, <1>5, <2>1 DEF OpToRel
<1>9. QED BY <1>3, <1>7, <1>8

\* f starts at b and goes on with F.
Iterates(f, b, F) == \A n \in Nat : f[n] = IF n = 0 THEN b ELSE F[n][f[n - 1]]

LEMMA Iteration ==
    ASSUME NEW S, NEW b \in S, NEW F \in [Nat -> [S -> S]]
    PROVE  \E f \in [Nat -> S] : Iterates(f, b, F)
<1> DEFINE Upto(n, f) == /\ f \in [0 .. n -> S] /\ f[0] = b
                         /\ \A j \in 1 .. n : f[j] = F[j][f[j - 1]]
           A == {n \in Nat : \E f : Upto(n, f)}
<1>1. Nat \subseteq A
  <2>1. 0 \in A
    <3>1. Upto(0, [j \in 0 .. 0 |-> b]) OBVIOUS
    <3>2. QED BY <3>1
  <2>2. ASSUME NEW n \in Nat, n \in A PROVE n + 1 \in A
    <3>1. PICK f : Upto(n, f) BY <2>2
    <3> DEFINE g == [j \in 0 .. n + 1 |-> IF j = n + 1 THEN F[n + 1][f[n]] ELSE f[j]]
    <3>2. F[n + 1][f[n]] \in S
      <4>1. n + 1 \in Nat /\ f[n] \in S BY <3>1
      <4>2. QED BY <4>1
    <3>3. g \in [0 .. n + 1 -> S] BY <3>1, <3>2
    <3>4. g[0] = b BY <3>1
    <3>5. ASSUME NEW j \in 1 .. n + 1 PROVE g[j] = F[j][g[j - 1]]
      <4>1. CASE j = n + 1
        <5>1. g[j] = F[n + 1][f[n]] /\ g[j - 1] = f[n] BY <4>1
        <5>2. QED BY <4>1, <5>1
      <4>2. CASE j # n + 1
        <5>1. j \in 1 .. n /\ g[j] = f[j] /\ g[j - 1] = f[j - 1] BY <4>2
        <5>2. QED BY <3>1, <5>1
      <4>3. QED BY <4>1, <4>2
    <3> HIDE DEF g
    <3>6. Upto(n + 1, g) BY <3>3, <3>4, <3>5
    <3> HIDE DEF Upto
    <3>7. QED BY <3>6
  <2> HIDE DEF A
  <2>3. QED BY <2>1, <2>2, AllNaturals
<1> HIDE DEF Upto
<1>2. \A n \in Nat : \E f : Upto(n, f) BY <1>1
<1> DEFINE h == [n \in Nat |-> CHOOSE f : Upto(n, f)]
<1>3. \A n \in Nat : Upto(n, h[n]) BY <1>2
<1> HIDE DEF h
<1>4. \A n \in Nat : h[n + 1][n] = h[n][n]
  <2> SUFFICES ASSUME NEW n \in Nat PROVE h[n + 1][n] = h[n][n] OBVIOUS
  <2> DEFINE p == h[n + 1]
             q == h[n]
             B == {j \in Nat : j <= n => p[j] = q[j]}
  <2>1. /\ p[0] = b /\ \A j \in 1 .. n + 1 : p[j] = F[j][p[j - 1]]
        /\ q[0] = b /\ \A j \in 1 .. n : q[j] = F[j][q[j - 1]]
    BY <1>3 DEF Upto
  <2> HIDE DEF p, q
  <2>2. 0 \in B BY <2>1
  <2>3. ASSUME NEW j \in Nat, j \in B PROVE j + 1 \in B
    <3>1. SUFFICES ASSUME j + 1 <= n PROVE p[j + 1] = q[j + 1] OBVIOUS
    <3>2. p[j] = q[j] BY <2>3, <3>1
    <3>3. j + 1 \in 1 .. n /\ j + 1 \in 1 .. n + 1 /\ (j + 1) - 1 = j BY <3>1
    <3>4. p[j + 1] = F[j + 1][p[j]] /\ q[j + 1] = F[j + 1][q[j]] BY <2>1, <3>3
    <3>5. QED BY <3>2, <3>4
  <2> HIDE DEF B
  <2>4. n \in B BY <2>2, <2>3, AllNaturals
  <2>5. QED BY <2>4 DEF B, p, q
<1> DEFINE f == [n \in Nat |-> h[n][n]]
<1>5. f \in [Nat -> S] BY <1>3 DEF Upto
<1>6. ASSUME NEW n \in Nat PROVE f[n] = IF n = 0 THEN b ELSE F[n][f[n - 1]]
  <2>1. CASE n = 0 BY <1>3, <2>1 DEF Upto
  <2>2. CASE n # 0
    <3>1. n - 1 \in Nat /\ (n - 1) + 1 = n /\ n \in 1 .. n BY <2>2
    <3>2. f[n] = F[n][h[n][n - 1]] BY <1>3, <3>1 DEF Upto
    <3>3. h[n][n - 1] = h[n - 1][n - 1] BY <1>4, <3>1
    <3>4. QED BY <2>2, <3>1, <3>2, <3>3
  <2>3. QED BY <2>1, <2>2
<1> HIDE DEF f
<1>7. Iterates(f, b, F) BY <1>6 DEF Iterates
<1>8. QED BY <1>5, <1>7

-----------------------------------------------------------------------------
(* The invariant.  A process the pool runs was given a server of the list  *)
(* there is, and mInProgress is that server's id; or the list was too      *)
(* short for the worker, which pings the server of an earlier list that    *)
(* mInProgress names, and then the queue is empty, so that this worker     *)
(* stays what it is.                                                       *)

\* Latest: the last login whose list has come or can come no more.
Latest == IF reply THEN logins - 1 ELSE logins

\* Workers whose process was given the server mInProgress of the list of login m or
\* of an earlier one.
Upto(m) ==
    {w \in Worker : w.to = None \/ (w.to.id = w.inProgress /\ w.to.list <= m)}

\* Values of pings for a list of n servers.
PoolStates(n, m) ==
    [ping : [0 .. n - 1 -> Server \cup {None}], queue : Seq(Nat),
     pool : [Ids -> Upto(m)], wild : BOOLEAN]

\* Worker w pings, for list l, the server its inProgress names.
OnTask(w, l) == w.to \in {None, [list |-> l, id |-> w.inProgress]}

\* The list of n servers was too short for worker k.
Over(st, n, l, k) == st.queue = <<>> /\ k >= n /\ st.pool[k].to.list < l

Noted(st, n, l, i) ==
    \/ st.ping[i] \in {None, [list |-> l, id |-> i]}
    \/ \E k \in Ids : Over(st, n, l, k) /\ st.ping[i] = st.pool[k].to /\ st.ping[i].id = i

\* Values that are right for a list of n servers of login l, with the workers K
\* on their tasks or passed over; nothing is claimed of no list but the types.
Right(n, l, m, K) ==
    {st \in PoolStates(n, m) :
        n = 0 \/ /\ \A i \in 0 .. n - 1 : Noted(st, n, l, i)
                 /\ \A k \in K : OnTask(st.pool[k], l) \/ Over(st, n, l, k)}

PingInv ==
    /\ TypeOK
    /\ reply => logins > 0
    /\ mServers = 0 \/ list > 0
    /\ list <= Latest
    /\ Pool \in Right(mServers, list, Latest, Ids)

-----------------------------------------------------------------------------
(* What the handlers of a worker make of right values.                     *)

LEMMA WorkersType ==
    /\ None.list = 0 /\ None.id = 0 /\ None \notin Server
    /\ Ids \subseteq Nat
    /\ \A l \in 1 .. MaxLogins, i \in Nat : [list |-> l, id |-> i] \in Server
BY AuthAssumption DEF None, Server, Ids

\* A worker is replaced by one with the same process.
LEMMA RightPool ==
    ASSUME NEW n \in Nat, NEW l, NEW m, NEW st \in Right(n, l, m, Ids),
           NEW k \in Ids, NEW w \in Worker,
           w.to = st.pool[k].to, w.inProgress = st.pool[k].inProgress
    PROVE  [st EXCEPT !.pool = [st.pool EXCEPT ![k] = w]] \in Right(n, l, m, Ids)
<1> DEFINE r == [st EXCEPT !.pool = [st.pool EXCEPT ![k] = w]]
<1>1. st \in PoolStates(n, m) BY DEF Right
<1>2. st.pool \in [Ids -> Upto(m)] BY <1>1 DEF PoolStates
<1>3. w \in Upto(m)
  <2>1. st.pool[k] \in Upto(m) BY <1>2
  <2>2. QED BY <2>1 DEF Upto
<1>4. /\ r \in PoolStates(n, m) /\ r.ping = st.ping /\ r.queue = st.queue
      /\ r.pool = [st.pool EXCEPT ![k] = w]
  BY <1>1, <1>2, <1>3 DEF PoolStates
<1> HIDE DEF r
<1>5. \A j \in Ids : /\ r.pool[j].to = st.pool[j].to
                      /\ r.pool[j].inProgress = st.pool[j].inProgress
  BY <1>2, <1>4
<1>6. \A j \in Ids : Over(r, n, l, j) = Over(st, n, l, j) BY <1>4, <1>5 DEF Over
<1>7. \A i \in 0 .. n - 1 : Noted(st, n, l, i) => Noted(r, n, l, i)
  BY <1>4, <1>5, <1>6 DEF Noted
<1>8. \A j \in Ids : OnTask(st.pool[j], l) => OnTask(r.pool[j], l) BY <1>5 DEF OnTask
<1>9. r \in Right(n, l, m, Ids) BY <1>4, <1>6, <1>7, <1>8 DEF Right
<1>10. QED BY <1>9 DEF r

LEMMA StopTimerRight ==
    ASSUME NEW n \in Nat, NEW l, NEW m, NEW st \in Right(n, l, m, Ids), NEW k \in Ids
    PROVE  /\ StopTimer(st, k) \in Right(n, l, m, Ids)
           /\ StopTimer(st, k).pool[k].to = st.pool[k].to
<1> DEFINE w == [st.pool[k] EXCEPT !.timer = FALSE]
<1>1. st \in PoolStates(n, m) BY DEF Right
<1>2. st.pool \in [Ids -> Upto(m)] /\ st.pool[k] \in Worker BY <1>1 DEF PoolStates, Upto
<1>3. w \in Worker /\ w.to = st.pool[k].to /\ w.inProgress = st.pool[k].inProgress
  BY <1>2 DEF Worker
<1>4. StopTimer(st, k) = [st EXCEPT !.pool = [st.pool EXCEPT ![k] = w]]
  BY <1>1 DEF StopTimer, PoolStates
<1> HIDE DEF w
<1>5. StopTimer(st, k).pool = [st.pool EXCEPT ![k] = w] BY <1>1, <1>4 DEF PoolStates
<1>6. StopTimer(st, k) \in Right(n, l, m, Ids) BY <1>3, <1>4, RightPool
<1>7. QED BY <1>2, <1>3, <1>5, <1>6

\* What is noted is the ping of the server in progress.
LEMMA NoteRight ==
    ASSUME NEW n \in Nat, NEW l, NEW m, NEW st \in Right(n, l, m, Ids), NEW k \in Ids,
           NEW p \in {st.pool[k].to, None}
    PROVE  Note(st, k, p) \in Right(n, l, m, Ids)
<1> DEFINE i == st.pool[k].inProgress
<1>1. st \in PoolStates(n, m) BY DEF Right
<1>2. /\ st.pool[k] \in Worker /\ (st.pool[k].to = None \/ st.pool[k].to.id = i)
      /\ st.ping \in [0 .. n - 1 -> Server \cup {None}]
  BY <1>1 DEF PoolStates, Upto
<1>3. p \in Server \cup {None} BY <1>2 DEF Worker
<1>4. CASE i \in DOMAIN st.ping
  <2> DEFINE q == [st.ping EXCEPT ![i] = p]
             r == [st EXCEPT !.ping = q]
  <2>1. Note(st, k, p) = r BY <1>1, <1>4 DEF Note, PoolStates
  <2>2. q \in [0 .. n - 1 -> Server \cup {None}] BY <1>2, <1>3
  <2>3. /\ r \in PoolStates(n, m) /\ r.ping = q /\ r.pool = st.pool
        /\ r.queue = st.queue
    BY <1>1, <2>2 DEF PoolStates
  <2>4. n # 0 /\ i \in 0 .. n - 1 /\ q[i] = p BY <1>2, <1>4
  <2>5. \A j \in 0 .. n - 1 : j # i => q[j] = st.ping[j] BY <1>2
  <2> HIDE DEF q, r, i
  <2>6. /\ \A j \in 0 .. n - 1 : Noted(st, n, l, j)
        /\ \A j \in Ids : OnTask(st.pool[j], l) \/ Over(st, n, l, j)
    BY <2>4 DEF Right
  <2>7. \A j \in Ids : Over(r, n, l, j) = Over(st, n, l, j) BY <2>3 DEF Over
  <2>8. Noted(r, n, l, i)
    <3>1. CASE p = None BY <2>3, <2>4, <3>1 DEF Noted
    <3>2. CASE p # None /\ OnTask(st.pool[k], l)
      <4>1. p = [list |-> l, id |-> i] BY <3>2 DEF OnTask, i
      <4>2. QED BY <2>3, <2>4, <4>1 DEF Noted
    <3>3. CASE p # None /\ Over(st, n, l, k)
      <4>1. p = st.pool[k].to /\ p.id = i BY <1>2, <3>3
      <4>2. QED BY <2>3, <2>4, <2>7, <3>3, <4>1 DEF Noted
    <3>4. QED BY <2>6, <3>1, <3>2, <3>3
  <2>9. \A j \in 0 .. n - 1 : j # i => Noted(r, n, l, j)
    BY <2>3, <2>5, <2>6, <2>7 DEF Noted
  <2>10. \A j \in Ids : OnTask(r.pool[j], l) \/ Over(r, n, l, j) BY <2>3, <2>6, <2>7
  <2>11. r \in Right(n, l, m, Ids) BY <2>3, <2>8, <2>9, <2>10 DEF Right
  <2>12. QED BY <2>1, <2>11
<1>5. CASE i \notin DOMAIN st.ping
  <2> DEFINE r == [st EXCEPT !.wild = TRUE]
  <2>1. Note(st, k, p) = r BY <1>5 DEF Note
  <2>2. /\ r \in PoolStates(n, m) /\ r.ping = st.ping /\ r.pool = st.pool
        /\ r.queue = st.queue
    BY <1>1 DEF PoolStates
  <2> HIDE DEF r
  <2>3. \A j \in Ids : Over(r, n, l, j) = Over(st, n, l, j) BY <2>2 DEF Over
  <2>4. \A j \in 0 .. n - 1 : Noted(st, n, l, j) => Noted(r, n, l, j)
    BY <2>2, <2>3 DEF Noted
  <2>5. r \in Right(n, l, m, Ids) BY <2>2, <2>3, <2>4 DEF Right
  <2>6. QED BY <2>1, <2>5
<1>6. QED BY <1>4, <1>5

\* r is st after worker k was given the server at the head of the queue.
Given(st, r, n, l, m, K, k) ==
    /\ r \in Right(n, l, m, K \cup {k})
    /\ r.queue = Tail(st.queue)
    /\ \A j \in Ids \ {k} : r.pool[j] = st.pool[j]

\* l is the login whose list there is.  A queue that is not empty passes nobody over.
LEMMA StartWorkerRight ==
    ASSUME NEW n \in Nat, NEW l \in 0 .. MaxLogins, n = 0 \/ l > 0,
           NEW m \in Nat, l <= m,
           NEW K \in SUBSET Ids, NEW st \in Right(n, l, m, K), NEW k \in Ids
    PROVE  /\ st.queue = <<>> => startWorker(st, k, l) = st
           /\ st.queue # <<>> => Given(st, startWorker(st, k, l), n, l, m, K, k)
<1>1. st \in PoolStates(n, m) BY DEF Right
<1>2. st.pool \in [Ids -> Upto(m)] /\ st.pool[k] \in Worker /\ st.queue \in Seq(Nat)
      /\ st.ping \in [0 .. n - 1 -> Server \cup {None}] /\ DOMAIN st.ping = 0 .. n - 1
      /\ st.wild \in BOOLEAN
  BY <1>1 DEF PoolStates, Upto
<1>3. CASE st.queue = <<>> BY <1>3 DEF startWorker
<1>4. CASE st.queue # <<>>
  <2> DEFINE to == Pinged(st, l)
             w  == [proc |-> "running", to |-> to, inProgress |-> Head(st.queue),
                    timer |-> TRUE, conns |-> st.pool[k].conns + 1]
             v  == st.wild \/ Head(st.queue) \notin DOMAIN st.ping
             r  == startWorker(st, k, l)
  <2>1. Head(st.queue) \in Nat /\ Tail(st.queue) \in Seq(Nat)
    BY <1>2, <1>4, HeadTailProperties
  <2>2. to \in Server \cup {None} /\ to \in {None, [list |-> l, id |-> Head(st.queue)]}
    <3>1. CASE Head(st.queue) \in DOMAIN st.ping
      <4>1. n # 0 /\ l \in 1 .. MaxLogins BY <1>2, <3>1
      <4>2. to = [list |-> l, id |-> Head(st.queue)] BY <3>1 DEF Pinged
      <4>3. QED BY <2>1, <4>1, <4>2, WorkersType
    <3>2. CASE Head(st.queue) \notin DOMAIN st.ping BY <3>2 DEF Pinged
    <3>3. QED BY <3>1, <3>2
  <2>3. v \in BOOLEAN BY <1>2
  <2>4. r = [st EXCEPT !.queue = Tail(st.queue), !.wild = v,
                       !.pool = [st.pool EXCEPT ![k] = w]]
    BY <1>1, <1>4 DEF startWorker, PoolStates
  <2> HIDE DEF to, v, r
  <2>5. w \in Upto(m) /\ OnTask(w, l)
    <3>1. st.pool[k].conns + 1 \in Nat BY <1>2 DEF Worker
    <3>2. w \in Worker /\ w.to = to /\ w.inProgress = Head(st.queue)
      BY <2>1, <2>2, <3>1 DEF Worker
    <3> HIDE DEF w
    <3>3. OnTask(w, l) BY <2>2, <3>2 DEF OnTask
    <3>4. w.to = None \/ (w.to.id = w.inProgress /\ w.to.list <= m) BY <2>2, <3>2
    <3>5. QED BY <3>2, <3>3, <3>4 DEF Upto
  <2> HIDE DEF w
  <2>6. /\ r.ping = st.ping /\ r.pool = [st.pool EXCEPT ![k] = w]
        /\ r.queue = Tail(st.queue) /\ r.wild = v
    BY <1>1, <2>4 DEF PoolStates
  <2>7. r \in PoolStates(n, m)
    <3>1. [st.pool EXCEPT ![k] = w] \in [Ids -> Upto(m)] BY <1>2, <2>5
    <3>2. QED BY <1>1, <2>1, <2>3, <2>4, <3>1 DEF PoolStates
  <2>8. n = 0 \/ /\ \A i \in 0 .. n - 1 : st.ping[i] \in {None, [list |-> l, id |-> i]}
                 /\ \A j \in K : OnTask(st.pool[j], l)
    BY <1>4 DEF Right, Noted, Over
  <2>9. n = 0 \/ \A i \in 0 .. n - 1 : Noted(r, n, l, i) BY <2>6, <2>8 DEF Noted
  <2>10. n = 0 \/ \A j \in K \cup {k} : OnTask(r.pool[j], l)
    <3>1. \A j \in Ids : r.pool[j] = IF j = k THEN w ELSE st.pool[j] BY <1>2, <2>6
    <3>2. QED BY <2>5, <2>8, <3>1
  <2>11. r \in Right(n, l, m, K \cup {k}) BY <2>7, <2>9, <2>10 DEF Right
  <2>12. \A j \in Ids \ {k} : r.pool[j] = st.pool[j] BY <1>2, <2>6
  <2>13. QED BY <1>4, <2>6, <2>11, <2>12 DEF r, Given
<1>5. QED BY <1>3, <1>4

\* The handlers of the present login's pool.
LEMMA HandlersRight ==
    ASSUME PingInv, NEW st \in Right(mServers, list, Latest, Ids), NEW k \in Ids,
           NEW p \in {st.pool[k].to, None}
    PROVE  /\ pingTerminated(st, k, p) \in Right(mServers, list, Latest, Ids)
           /\ pingComplete(st, k, p) \in Right(mServers, list, Latest, Ids)
<1> DEFINE R == Right(mServers, list, Latest, Ids)
<1>1. /\ mServers \in Nat /\ list \in 0 .. MaxLogins /\ (mServers = 0 \/ list > 0)
      /\ Latest \in Nat /\ list <= Latest
  BY DEF PingInv, TypeOK, Latest
<1>2. ASSUME NEW r \in R PROVE startWorker(r, k, list) \in R
  <2>1. Ids \cup {k} = Ids OBVIOUS
  <2>2. QED BY <1>1, <2>1, StartWorkerRight DEF Given
<1>3. Note(st, k, p) \in R BY <1>1, NoteRight
<1>4. Note(StopTimer(st, k), k, p) \in R
  <2>1. StopTimer(st, k) \in R /\ StopTimer(st, k).pool[k].to = st.pool[k].to
    BY <1>1, StopTimerRight
  <2> HIDE DEF R
  <2>2. QED BY <1>1, <2>1, NoteRight DEF R
<1> HIDE DEF R
<1>5. pingTerminated(st, k, p) \in R BY <1>2, <1>3 DEF pingTerminated
<1>6. pingComplete(st, k, p) \in R BY <1>2, <1>4 DEF pingComplete
<1>7. QED BY <1>5, <1>6 DEF R

-----------------------------------------------------------------------------
(* The timer: what some calls of Timer_Terminate lead to.                  *)

LEMMA CalledRight ==
    ASSUME PingInv, NEW k \in Ids, NEW n \in Nat,
           NEW X \in SUBSET Right(mServers, list, Latest, Ids), n = 1 => X = {StopTimer(Pool, k)}
    PROVE  Timer_Terminate(k, n, X) \in SUBSET Right(mServers, list, Latest, Ids)
<1> DEFINE R == Right(mServers, list, Latest, Ids)
<1>1. Pool \in R /\ mServers \in Nat BY DEF PingInv, TypeOK
<1>2. ASSUME NEW st \in X, NEW p \in IF n = 1 THEN Read(Pool, k) ELSE {None}
      PROVE  pingTerminated(st, k, p) \in R
  <2>1. st \in R OBVIOUS
  <2>2. p \in {st.pool[k].to, None}
    <3>1. CASE n = 1
      <4>1. st = StopTimer(Pool, k) /\ p \in {Pool.pool[k].to, None}
        BY <1>2, <3>1 DEF Read
      <4>2. StopTimer(Pool, k).pool[k].to = Pool.pool[k].to BY <1>1, StopTimerRight
      <4>3. QED BY <4>1, <4>2
    <3>2. CASE n # 1 BY <1>2, <3>2
    <3>3. QED BY <3>1, <3>2
  <2>3. QED BY <2>1, <2>2, HandlersRight
<1>3. QED BY <1>2 DEF Timer_Terminate

LEMMA TerminatedIs ==
    ASSUME PingInv, NEW k \in Ids
    PROVE  \A n \in Nat :
              Terminated(k)[n] = IF n = 0 THEN {StopTimer(Pool, k)}
                                 ELSE Timer_Terminate(k, n, Terminated(k)[n - 1])
<1> DEFINE S == SUBSET Right(mServers, list, Latest, Ids)
           b == {StopTimer(Pool, k)}
           F == [n \in Nat |-> [X \in S |-> Timer_Terminate(k, n, IF n = 1 THEN b ELSE X)]]
<1>1. b \in S
  <2>1. Pool \in Right(mServers, list, Latest, Ids) /\ mServers \in Nat BY DEF PingInv, TypeOK
  <2>2. QED BY <2>1, StopTimerRight
<1>2. F \in [Nat -> [S -> S]]
  <2>1. ASSUME NEW n \in Nat, NEW X \in S PROVE Timer_Terminate(k, n, IF n = 1 THEN b ELSE X) \in S
    <3>1. CASE n = 1 BY <1>1, <3>1, CalledRight
    <3>2. CASE n # 1 BY <3>2, CalledRight
    <3>3. QED BY <3>1, <3>2
  <2> HIDE DEF S, b
  <2>2. QED BY <2>1
<1>3. \A n \in Nat : \A X \in S : F[n][X] = Timer_Terminate(k, n, IF n = 1 THEN b ELSE X)
  <2> HIDE DEF S, b
  <2>1. QED OBVIOUS
<1> HIDE DEF S, b, F
<1>4. PICK f \in [Nat -> S] : Iterates(f, b, F) BY <1>1, <1>2, Iteration
<1>5. ASSUME NEW n \in Nat
      PROVE  f[n] = IF n = 0 THEN b ELSE Timer_Terminate(k, n, f[n - 1])
  <2>1. CASE n = 0 BY <1>4, <2>1 DEF Iterates
  <2>2. CASE n # 0
    <3>1. n - 1 \in Nat /\ f[n - 1] \in S BY <2>2
    <3>2. f[n] = Timer_Terminate(k, n, IF n = 1 THEN b ELSE f[n - 1])
      BY <1>3, <1>4, <2>2, <3>1 DEF Iterates
    <3>3. n = 1 => f[n - 1] = b
      <4>1. f[0] = b BY <1>4 DEF Iterates
      <4>2. QED BY <4>1
    <3>4. QED BY <2>2, <3>2, <3>3
  <2>3. QED BY <2>1, <2>2
<1>6. f = [n \in Nat |-> IF n = 0 THEN b ELSE Timer_Terminate(k, n, f[n - 1])] BY <1>5
<1>7. Terminated(k) =
         CHOOSE g : g = [n \in Nat |-> IF n = 0 THEN b ELSE Timer_Terminate(k, n, g[n - 1])]
  BY DEF Terminated, b
<1> DEFINE t == Terminated(k)
<1>8. t = [n \in Nat |-> IF n = 0 THEN b ELSE Timer_Terminate(k, n, t[n - 1])] BY <1>6, <1>7
<1> HIDE DEF t
<1>9. \A n \in Nat : t[n] = IF n = 0 THEN b ELSE Timer_Terminate(k, n, t[n - 1]) BY <1>8
<1>10. QED BY <1>9 DEF t, b

\* Whatever the timer leads to is right, however often it is connected.
LEMMA TerminatedRight ==
    ASSUME PingInv, NEW k \in Ids, NEW n \in Nat
    PROVE  Terminated(k)[n] \in SUBSET Right(mServers, list, Latest, Ids)
<1> DEFINE S == SUBSET Right(mServers, list, Latest, Ids)
           A == {m \in Nat : Terminated(k)[m] \in S}
<1>1. 0 \in A
  <2>1. Pool \in Right(mServers, list, Latest, Ids) /\ mServers \in Nat BY DEF PingInv, TypeOK
  <2>2. {StopTimer(Pool, k)} \in S BY <2>1, StopTimerRight
  <2>3. Terminated(k)[0] = {StopTimer(Pool, k)} BY TerminatedIs
  <2>4. QED BY <2>2, <2>3
<1>2. ASSUME NEW m \in Nat, m \in A PROVE m + 1 \in A
  <2>1. (m + 1) - 1 = m /\ m + 1 # 0 /\ m + 1 \in Nat OBVIOUS
  <2>2. Terminated(k)[m + 1] = Timer_Terminate(k, m + 1, Terminated(k)[m])
    BY <2>1, TerminatedIs
  <2>3. m + 1 = 1 => Terminated(k)[m] = {StopTimer(Pool, k)}
    <3>1. Terminated(k)[0] = {StopTimer(Pool, k)} BY TerminatedIs
    <3>2. QED BY <3>1
  <2>4. Timer_Terminate(k, m + 1, Terminated(k)[m]) \in S BY <1>2, <2>1, <2>3, CalledRight
  <2>5. QED BY <2>1, <2>2, <2>4
<1> HIDE DEF A
<1>3. n \in A BY <1>1, <1>2, AllNaturals
<1>4. QED BY <1>3 DEF A

-----------------------------------------------------------------------------
(* A new list: pingAllServers.                                             *)

\* The processes of an earlier login are still in the pool, on no task of this list.
LEMMA QueuedRight ==
    ASSUME PingInv, NEW n \in Nat, reply
    PROVE  /\ Queued(n) \in Right(n, logins, logins, {})
           /\ Len(Queued(n).queue) >= n
           /\ Queued(n).pool = pool
<1> DEFINE more == [i \in 1 .. n |-> i - 1]
           q    == mToPing \o more
           ping == [i \in 0 .. n - 1 |-> None]
<1>1. mToPing \in Seq(Nat) /\ pool \in [Ids -> Upto(logins)]
  <2>1. mToPing \in Seq(Nat) BY DEF PingInv, TypeOK
  <2>2. pool \in [Ids -> Upto(Latest)] BY DEF PingInv, Right, PoolStates, Pool
  <2>3. Latest \in Nat /\ logins \in Nat /\ Latest <= logins
    BY DEF PingInv, TypeOK, Latest
  <2>4. Upto(Latest) \subseteq Upto(logins)
    <3>1. \A w \in Worker : w.to # None => w.to.list \in Nat
      BY DEF Worker, Server
    <3>2. QED BY <2>3, <3>1 DEF Upto
  <2>5. QED BY <2>1, <2>2, <2>4
<1>2. more \in Seq(Nat) /\ Len(more) = n
  <2>1. more \in [1 .. n -> Nat] OBVIOUS
  <2>2. QED BY <2>1, SeqDef
<1> HIDE DEF more
<1>3. q \in Seq(Nat) /\ Len(q) = Len(mToPing) + n BY <1>1, <1>2, ConcatProperties
<1>4. ping \in [0 .. n - 1 -> Server \cup {None}] /\ \A i \in 0 .. n - 1 : ping[i] = None
  OBVIOUS
<1>5. Queued(n) = [ping |-> ping, queue |-> q, pool |-> pool, wild |-> FALSE]
  BY DEF Queued, more
<1> HIDE DEF q, ping
<1>6. Queued(n) \in PoolStates(n, logins) BY <1>1, <1>3, <1>4, <1>5 DEF PoolStates
<1>7. Queued(n).ping = ping /\ Queued(n).queue = q /\ Queued(n).pool = pool BY <1>5
<1>8. Len(mToPing) \in Nat BY <1>1, LenProperties
<1>9. \A i \in 0 .. n - 1 : Noted(Queued(n), n, logins, i) BY <1>4, <1>7 DEF Noted
<1>10. QED BY <1>3, <1>6, <1>7, <1>8, <1>9 DEF Right

LEMMA StartedIs ==
    ASSUME NEW n \in Nat, logins \in 1 .. MaxLogins, NEW st \in Right(n, logins, logins, {})
    PROVE  /\ Started(st)[0] = st
           /\ \A k \in Ids : Started(st)[k + 1] = startWorker(Started(st)[k], k, logins)
<1> DEFINE S == Right(n, logins, logins, {})
           F == [j \in Nat |-> [x \in S |->
                    IF j - 1 \in Ids THEN startWorker(x, j - 1, logins) ELSE x]]
<1>1. F \in [Nat -> [S -> S]]
  <2>1. ASSUME NEW k \in Ids, NEW x \in S PROVE startWorker(x, k, logins) \in S
    <3>1. \/ startWorker(x, k, logins) = x
          \/ Given(x, startWorker(x, k, logins), n, logins, logins, {}, k)
      <4>1. logins \in Nat /\ logins \in 0 .. MaxLogins /\ logins > 0 /\ logins <= logins
        BY AuthAssumption
      <4>2. {} \in SUBSET Ids OBVIOUS
      <4>3. QED BY <4>1, <4>2, StartWorkerRight
    <3>2. Right(n, logins, logins, {} \cup {k}) \subseteq S BY DEF Right
    <3>3. QED BY <3>1, <3>2 DEF Given
  <2> HIDE DEF S
  <2>2. QED BY <2>1
<1>2. \A j \in Nat : \A x \in S :
         F[j][x] = IF j - 1 \in Ids THEN startWorker(x, j - 1, logins) ELSE x
  <2> HIDE DEF S
  <2>1. QED OBVIOUS
<1>3. st \in S OBVIOUS
<1> HIDE DEF S, F
<1>4. PICK f \in [Nat -> S] : Iterates(f, st, F) BY <1>1, <1>3, Iteration
<1> DEFINE g == [k \in 0 .. Workers |-> f[k]]
<1>5. Workers \in Nat BY AuthAssumption
<1>6. ASSUME NEW k \in 0 .. Workers
      PROVE  g[k] = IF k = 0 THEN st ELSE startWorker(g[k - 1], k - 1, logins)
  <2>1. CASE k = 0 BY <1>4, <2>1 DEF Iterates
  <2>2. CASE k # 0
    <3>1. k \in Nat /\ k - 1 \in Nat /\ k - 1 \in 0 .. Workers /\ f[k - 1] \in S BY <1>5, <2>2
    <3>2. k - 1 \in Ids BY <1>5, <2>2 DEF Ids
    <3>3. f[k] = F[k][f[k - 1]] BY <1>4, <2>2, <3>1 DEF Iterates
    <3>4. F[k][f[k - 1]] = startWorker(f[k - 1], k - 1, logins) BY <1>2, <3>1, <3>2
    <3>5. g[k] = f[k] /\ g[k - 1] = f[k - 1] BY <3>1
    <3>6. QED BY <2>2, <3>3, <3>4, <3>5
  <2>3. QED BY <2>1, <2>2
<1>7. g = [k \in 0 .. Workers |-> IF k = 0 THEN st ELSE startWorker(g[k - 1], k - 1, logins)]
  BY <1>6
<1>8. Started(st) =
         CHOOSE h : h = [k \in 0 .. Workers |->
                            IF k = 0 THEN st ELSE startWorker(h[k - 1], k - 1, logins)]
  BY DEF Started
<1> HIDE DEF g
<1> DEFINE t == Started(st)
<1>9. t = [k \in 0 .. Workers |-> IF k = 0 THEN st ELSE startWorker(t[k - 1], k - 1, logins)]
  BY <1>7, <1>8
<1> HIDE DEF t
<1>10. t[0] = st BY <1>5, <1>9
<1>11. ASSUME NEW k \in Ids PROVE t[k + 1] = startWorker(t[k], k, logins)
  <2>1. k + 1 \in 0 .. Workers /\ k + 1 # 0 /\ (k + 1) - 1 = k BY <1>5 DEF Ids
  <2>2. QED BY <1>9, <2>1
<1>12. QED BY <1>10, <1>11 DEF t

\* Each worker is given a server of the new list or, when the queue is empty, passed
\* over: it was the turn of as many workers as the list has servers by then.
LEMMA StartedRight ==
    ASSUME PingInv, NEW n \in Nat, reply, logins \in 1 .. MaxLogins
    PROVE  Started(Queued(n))[Workers] \in Right(n, logins, logins, Ids)
<1> DEFINE t == Started(Queued(n))
           A == {j \in Nat : j <= Workers =>
                    /\ t[j] \in Right(n, logins, logins, 0 .. j - 1)
                    /\ Len(t[j].queue) >= n - j
                    /\ \A k \in Ids : k >= j => t[j].pool[k] = pool[k]}
<1>1. Workers \in Nat BY AuthAssumption
<1>2. /\ Queued(n) \in Right(n, logins, logins, {}) /\ Len(Queued(n).queue) >= n
      /\ Queued(n).pool = pool
  BY QueuedRight
<1>3. t[0] = Queued(n) /\ \A k \in Ids : t[k + 1] = startWorker(t[k], k, logins)
  BY <1>2, StartedIs
<1> HIDE DEF t
<1>4. 0 \in A
  <2>1. 0 .. 0 - 1 = {} OBVIOUS
  <2>2. Queued(n).queue \in Seq(Nat) BY <1>2 DEF Right, PoolStates
  <2>3. Len(Queued(n).queue) \in Nat BY <2>2, LenProperties
  <2>4. QED BY <1>1, <1>2, <1>3, <2>1, <2>3
<1>5. ASSUME NEW j \in Nat, j \in A PROVE j + 1 \in A
  <2> DEFINE K  == 0 .. j - 1
             st == t[j]
  <2>1. SUFFICES ASSUME j + 1 <= Workers
                 PROVE  /\ t[j + 1] \in Right(n, logins, logins, 0 .. (j + 1) - 1)
                        /\ Len(t[j + 1].queue) >= n - (j + 1)
                        /\ \A k \in Ids : k >= j + 1 => t[j + 1].pool[k] = pool[k]
    OBVIOUS
  <2>2. /\ st \in Right(n, logins, logins, K)
        /\ Len(st.queue) >= n - j
        /\ \A k \in Ids : k >= j => st.pool[k] = pool[k]
    BY <1>1, <1>5, <2>1
  <2>3. j \in Ids /\ K \in SUBSET Ids /\ K \cup {j} = 0 .. (j + 1) - 1
    BY <1>1, <2>1 DEF Ids
  <2>4. t[j + 1] = startWorker(st, j, logins) BY <1>3, <2>3
  <2> HIDE DEF A, K, st
  <2>5. st.queue \in Seq(Nat) BY <2>2 DEF Right, PoolStates
  <2>6. Len(st.queue) \in Nat BY <2>5, LenProperties
  <2>7. /\ logins \in 0 .. MaxLogins /\ (n = 0 \/ logins > 0)
        /\ logins \in Nat /\ logins <= logins
    BY AuthAssumption
  <2>8. \A k \in Ids : k >= j + 1 => k >= j /\ k # j BY <2>3 DEF Ids
  <2>9. CASE st.queue = <<>>
    <3>1. t[j + 1] = st BY <2>4, <2>9 DEF startWorker
    <3>2. j >= n /\ Len(st.queue) = 0 BY <2>2, <2>9
    <3>3. OnTask(st.pool[j], logins) \/ Over(st, n, logins, j)
      <4>1. st.pool[j] = pool[j] BY <2>2, <2>3
      <4>2. pool[j] \in Upto(logins - 1)
        BY <2>3 DEF PingInv, Right, PoolStates, Pool, Latest
      <4>3. pool[j].to = None \/ (pool[j].to.list \in Nat /\ pool[j].to.list <= logins - 1)
        BY <4>2 DEF Upto, Worker, Server
      <4>4. CASE pool[j].to = None BY <4>1, <4>4 DEF OnTask
      <4>5. CASE pool[j].to.list \in Nat /\ pool[j].to.list <= logins - 1
        <5>1. pool[j].to.list < logins BY <2>7, <4>5
        <5>2. QED BY <2>9, <3>2, <4>1, <5>1 DEF Over
      <4>6. QED BY <4>3, <4>4, <4>5
    <3>4. st \in Right(n, logins, logins, K \cup {j}) BY <2>2, <3>3 DEF Right
    <3>5. 0 >= n - (j + 1) BY <3>2
    <3>6. QED BY <2>2, <2>3, <2>8, <3>1, <3>2, <3>4, <3>5
  <2>10. CASE st.queue # <<>>
    <3>1. /\ t[j + 1] \in Right(n, logins, logins, K \cup {j})
          /\ t[j + 1].queue = Tail(st.queue)
          /\ \A k \in Ids \ {j} : t[j + 1].pool[k] = st.pool[k]
      <4>1. st \in Right(n, logins, logins, K) /\ j \in Ids /\ K \in SUBSET Ids
        BY <2>2, <2>3
      <4>2. st.queue # <<>> =>
               Given(st, startWorker(st, j, logins), n, logins, logins, K, j)
        BY <2>7, <4>1, StartWorkerRight
      <4>3. QED BY <2>4, <2>10, <4>2 DEF Given
    <3>2. Len(Tail(st.queue)) = Len(st.queue) - 1 BY <2>5, <2>10, HeadTailProperties
    <3>3. Len(t[j + 1].queue) >= n - (j + 1) BY <2>2, <2>6, <3>1, <3>2
    <3>4. \A k \in Ids : k >= j + 1 => t[j + 1].pool[k] = pool[k] BY <2>2, <2>8, <3>1
    <3>5. QED BY <2>3, <3>1, <3>3, <3>4
  <2>11. QED BY <2>9, <2>10
<1> HIDE DEF A
<1>6. Workers \in A BY <1>1, <1>4, <1>5, AllNaturals
<1>7. QED BY <1>1, <1>6 DEF A, Ids, t

-----------------------------------------------------------------------------
(* Each action.                                                            *)

\* A later login lets workers be of a later list.
LEMMA LaterRight ==
    ASSUME NEW n, NEW l, NEW m \in Nat, NEW m2 \in Nat, m <= m2, NEW st \in Right(n, l, m, Ids)
    PROVE  st \in Right(n, l, m2, Ids)
<1>1. \A w \in Worker : w.to # None => w.to.list \in Nat BY DEF Worker, Server
<1>2. Upto(m) \subseteq Upto(m2) BY <1>1 DEF Upto
<1>3. st \in PoolStates(n, m2) BY <1>2 DEF Right, PoolStates
<1>4. QED BY <1>3 DEF Right

LEMMA BecomesRight ==
    ASSUME NEW n \in Nat, NEW l, NEW m, NEW st \in Right(n, l, m, Ids), Becomes(st)
    PROVE  /\ Pool' \in Right(n, l, m, Ids)
           /\ mPings' \in [0 .. n - 1 -> Server \cup {None}]
           /\ mToPing' \in Seq(Nat) /\ pool' \in [Ids -> Worker]
<1>1. st \in PoolStates(n, m) BY DEF Right
<1>2. Pool' = [ping |-> st.ping, queue |-> st.queue, pool |-> st.pool, wild |-> FALSE]
  BY DEF Becomes, Pool
<1>3. /\ Pool' \in PoolStates(n, m) /\ Pool'.ping = st.ping /\ Pool'.pool = st.pool
      /\ Pool'.queue = st.queue
  BY <1>1, <1>2 DEF PoolStates
<1> DEFINE r == Pool'
<1>4. r \in Right(n, l, m, Ids)
  <2> HIDE DEF r
  <2>1. \A k \in Ids : Over(r, n, l, k) = Over(st, n, l, k) BY <1>3 DEF Over, r
  <2>2. \A i \in 0 .. n - 1 : Noted(st, n, l, i) => Noted(r, n, l, i)
    BY <1>3, <2>1 DEF Noted, r
  <2>3. r \in PoolStates(n, m) /\ r.pool = st.pool BY <1>3 DEF r
  <2>4. QED BY <2>1, <2>2, <2>3 DEF Right
<1>5. [Ids -> Upto(m)] \subseteq [Ids -> Worker] BY DEF Upto
<1>6. QED BY <1>1, <1>4, <1>5 DEF Becomes, PoolStates

\* No list says nothing of the pool but the types.
LEMMA NoList ==
    ASSUME NEW l, NEW m, NEW q \in Seq(Nat), NEW w \in [Ids -> Upto(m)]
    PROVE  /\ [ping |-> [i \in {} |-> None], queue |-> q, pool |-> w, wild |-> FALSE]
                 \in Right(0, l, m, Ids)
           /\ [i \in {} |-> None] \in [0 .. 0 - 1 -> Server \cup {None}]
           /\ w \in [Ids -> Worker]
<1>1. [i \in {} |-> None] \in [0 .. 0 - 1 -> Server \cup {None}]
  <2>1. 0 .. 0 - 1 = {} OBVIOUS
  <2>2. QED BY <2>1
<1>2. [ping |-> [i \in {} |-> None], queue |-> q, pool |-> w, wild |-> FALSE]
         \in PoolStates(0, m)
  BY <1>1 DEF PoolStates
<1>3. [Ids -> Upto(m)] \subseteq [Ids -> Worker] BY DEF Upto
<1>4. QED BY <1>1, <1>2, <1>3 DEF Right

LEMMA NoPoolType == \A m : NoPool \in [Ids -> Upto(m)]
<1>1. \A m :
         [proc |-> "none", to |-> None, inProgress |-> 0, timer |-> FALSE, conns |-> 0]
             \in Upto(m)
  BY DEF Worker, Upto
<1>2. QED BY <1>1 DEF NoPool

LEMMA PingInit == Init => PingInv
<1> SUFFICES ASSUME Init PROVE PingInv OBVIOUS
<1>1. mToPing \in Seq(Nat) /\ pool \in [Ids -> Upto(Latest)]
  <2>1. mToPing = <<>> /\ pool = NoPool BY DEF Init
  <2>2. <<>> \in Seq(Nat) BY EmptySeq
  <2>3. QED BY <2>1, <2>2, NoPoolType
<1>2. /\ mServers = 0 /\ list = 0 /\ logins = 0 /\ Latest = 0
      /\ mLoggedIn = FALSE /\ reply = FALSE /\ mServerIds = {} /\ current = 0
  BY DEF Init, Latest
<1>3. mPings = [i \in {} |-> None] BY DEF Init
<1>4. Pool \in Right(mServers, list, Latest, Ids) /\ pool \in [Ids -> Worker]
      /\ mPings \in [0 .. mServers - 1 -> Server \cup {None}]
  BY <1>1, <1>2, <1>3, NoList DEF Pool
<1>5. TypeOK
  <2>1. 0 \in 0 .. MaxLogins BY AuthAssumption
  <2>2. QED BY <1>1, <1>2, <1>4, <2>1 DEF TypeOK, PingInv
<1>6. QED BY <1>2, <1>4, <1>5 DEF PingInv

LEMMA RestartRight == PingInv /\ Restart => PingInv'
<1> SUFFICES ASSUME PingInv, Restart PROVE PingInv' OBVIOUS
<1>1. mToPing' \in Seq(Nat) /\ pool' \in [Ids -> Upto(Latest')]
  <2>1. mToPing' = <<>> /\ pool' = NoPool BY DEF Restart
  <2>2. <<>> \in Seq(Nat) BY EmptySeq
  <2>3. QED BY <2>1, <2>2, NoPoolType
<1>2. /\ mServers' = 0 /\ list' = 0
      /\ logins' = logins /\ current' = current
      /\ mLoggedIn' = FALSE /\ reply' = FALSE /\ mServerIds' = {}
      /\ list' <= Latest'
  BY DEF Restart, PingInv, TypeOK, Latest
<1>3. mPings' = [i \in {} |-> None] BY DEF Restart
<1>4. Pool' \in Right(mServers', list', Latest', Ids) /\ pool' \in [Ids -> Worker]
      /\ mPings' \in [0 .. mServers' - 1 -> Server \cup {None}]
  BY <1>1, <1>2, <1>3, NoList DEF Pool
<1>5. TypeOK'
  <2>1. 0 \in 0 .. MaxLogins BY AuthAssumption
  <2>2. QED BY <1>1, <1>2, <1>4, <2>1 DEF TypeOK, PingInv
<1>6. QED BY <1>2, <1>4, <1>5 DEF PingInv

\* A handler of the pool ends with right values, or with the program.
LEMMA EndsRight ==
    ASSUME PingInv, NEW st \in Right(mServers, list, Latest, Ids), Ends(st)
    PROVE  PingInv'
<1>1. CASE Becomes(st) /\ UNCHANGED <<account, lists, current>>
  <2>1. mServers \in Nat BY DEF PingInv, TypeOK
  <2>2. /\ mServers' = mServers /\ list' = list /\ mServerIds' = mServerIds
        /\ mLoggedIn' = mLoggedIn /\ reply' = reply /\ logins' = logins /\ current' = current
        /\ Latest' = Latest
    BY <1>1 DEF account, lists, Latest
  <2>3. /\ Pool' \in Right(mServers, list, Latest, Ids)
        /\ mPings' \in [0 .. mServers - 1 -> Server \cup {None}]
        /\ mToPing' \in Seq(Nat) /\ pool' \in [Ids -> Worker]
    BY <1>1, <2>1, BecomesRight
  <2>4. QED BY <2>2, <2>3 DEF PingInv, TypeOK
<1>2. CASE Restart BY <1>2, RestartRight
<1>3. QED BY <1>1, <1>2 DEF Ends

\* The process of worker k is over.
LEMMA OverRight ==
    ASSUME PingInv, NEW k \in Ids
    PROVE  LET over == [Pool EXCEPT !.pool[k].proc = "over"]
           IN  /\ over \in Right(mServers, list, Latest, Ids)
               /\ Read(over, k) = {over.pool[k].to, None}
<1> DEFINE w    == [pool[k] EXCEPT !.proc = "over"]
           over == [Pool EXCEPT !.pool[k].proc = "over"]
<1>1. Pool \in Right(mServers, list, Latest, Ids) /\ mServers \in Nat /\ pool[k] \in Worker
  BY DEF PingInv, TypeOK
<1>2. Pool.pool = pool BY DEF Pool
<1>3. w \in Worker /\ w.to = pool[k].to /\ w.inProgress = pool[k].inProgress
  BY <1>1 DEF Worker
<1>4. over = [Pool EXCEPT !.pool = [Pool.pool EXCEPT ![k] = w]] BY DEF Pool
<1> HIDE DEF w
<1>5. over \in Right(mServers, list, Latest, Ids) BY <1>1, <1>2, <1>3, <1>4, RightPool
<1>6. QED BY <1>5 DEF Read

LEMMA FinishedRight ==
    ASSUME PingInv, NEW k \in Ids, Finished(k)
    PROVE  PingInv'
<1> DEFINE over == [Pool EXCEPT !.pool[k].proc = "over"]
<1>1. PICK p \in Read(over, k) : Ends(pingComplete(over, k, p)) BY DEF Finished
<1>2. over \in Right(mServers, list, Latest, Ids) /\ Read(over, k) = {over.pool[k].to, None}
  BY OverRight
<1> HIDE DEF over
<1>3. pingComplete(over, k, p) \in Right(mServers, list, Latest, Ids) BY <1>2, HandlersRight
<1>4. QED BY <1>1, <1>3, EndsRight

LEMMA FailedToStartRight ==
    ASSUME PingInv, NEW k \in Ids, FailedToStart(k)
    PROVE  PingInv'
<1> DEFINE over == [Pool EXCEPT !.pool[k].proc = "over"]
<1>1. Ends(pingComplete(over, k, None)) BY DEF FailedToStart
<1>2. over \in Right(mServers, list, Latest, Ids) BY OverRight
<1> HIDE DEF over
<1>3. pingComplete(over, k, None) \in Right(mServers, list, Latest, Ids) BY <1>2, HandlersRight
<1>4. QED BY <1>1, <1>3, EndsRight

LEMMA CrashedRight ==
    ASSUME PingInv, NEW k \in Ids, Crashed(k)
    PROVE  PingInv'
<1> DEFINE over  == [Pool EXCEPT !.pool[k].proc = "over"]
           st(p) == pingComplete(over, k, p)
           R     == Right(mServers, list, Latest, Ids)
<1>1. PICK p \in Read(over, k) :
         Ends(IF mToPing = <<>> THEN pingComplete(st(p), k, None) ELSE st(p))
  BY DEF Crashed
<1>2. over \in R /\ Read(over, k) = {over.pool[k].to, None} BY OverRight
<1> HIDE DEF over
<1>3. st(p) \in R BY <1>2, HandlersRight
<1> HIDE DEF st
<1>4. pingComplete(st(p), k, None) \in R BY <1>3, HandlersRight
<1>5. (IF mToPing = <<>> THEN pingComplete(st(p), k, None) ELSE st(p)) \in R BY <1>3, <1>4
<1>6. QED BY <1>1, <1>5, EndsRight

LEMMA TimedOutRight ==
    ASSUME PingInv, NEW k \in Ids, TimedOut(k)
    PROVE  PingInv'
<1>1. PICK st \in Terminated(k)[pool[k].conns] : Ends(st) BY DEF TimedOut
<1>2. pool[k].conns \in Nat BY DEF PingInv, TypeOK, Worker
<1>3. st \in Right(mServers, list, Latest, Ids) BY <1>1, <1>2, TerminatedRight
<1>4. QED BY <1>1, <1>3, EndsRight

LEMMA LoginFailsRight == PingInv /\ LoginFails => PingInv'
<1> SUFFICES ASSUME PingInv, LoginFails PROVE PingInv' OBVIOUS
<1>1. /\ mServers' = 0 /\ list' = 0
      /\ logins' = logins /\ current' = current /\ mServerIds' = mServerIds
      /\ mToPing' = mToPing /\ pool' = pool /\ mLoggedIn' = FALSE /\ reply' = FALSE
      /\ list' <= Latest' /\ Latest' \in Nat /\ Latest \in Nat /\ Latest <= Latest'
  BY DEF LoginFails, clearServerLists, PingInv, TypeOK, Latest
<1>2. mToPing' \in Seq(Nat) /\ pool' \in [Ids -> Upto(Latest')]
  <2>1. Pool \in Right(mServers, list, Latest', Ids) BY <1>1, LaterRight DEF PingInv
  <2>2. QED BY <1>1, <2>1 DEF Right, PoolStates, Pool
<1>3. mPings' = [i \in {} |-> None] BY DEF LoginFails, clearServerLists
<1>4. Pool' \in Right(mServers', list', Latest', Ids) /\ pool' \in [Ids -> Worker]
      /\ mPings' \in [0 .. mServers' - 1 -> Server \cup {None}]
  BY <1>1, <1>2, <1>3, NoList DEF Pool
<1>5. TypeOK'
  <2>1. 0 \in 0 .. MaxLogins BY AuthAssumption
  <2>2. QED BY <1>1, <1>2, <1>4, <2>1 DEF TypeOK, PingInv
<1>6. QED BY <1>1, <1>4, <1>5 DEF PingInv

LEMMA ServersLoadedRight == PingInv /\ ServersLoaded => PingInv'
<1> SUFFICES ASSUME PingInv, ServersLoaded PROVE PingInv' OBVIOUS
<1>1. reply /\ logins \in 1 .. MaxLogins
  BY AuthAssumption DEF ServersLoaded, PingInv, TypeOK
<1>2. PICK n \in Answers : pingAllServers(n) BY DEF ServersLoaded
<1>3. n \in Nat BY <1>2, AuthAssumption
<1> DEFINE st == Started(Queued(n))[Workers]
<1>4. st \in Right(n, logins, logins, Ids) BY <1>1, <1>3, StartedRight
<1>5. \/ /\ Becomes(st)
         /\ list' = logins /\ mServers' = n
         /\ mServerIds' = mServerIds \cup (0 .. n - 1)
         /\ mLoggedIn' = TRUE /\ reply' = FALSE
         /\ UNCHANGED <<logins, current>>
      \/ Restart
  BY <1>2 DEF pingAllServers
<1> HIDE DEF st
<1>6. CASE Becomes(st) /\ ~Restart
  <2>1. /\ list' = logins /\ mServers' = n /\ mServerIds' = mServerIds \cup (0 .. n - 1)
        /\ mLoggedIn' = TRUE /\ reply' = FALSE /\ logins' = logins /\ current' = current
        /\ Latest' = logins
    BY <1>5, <1>6 DEF Latest
  <2>2. /\ Pool' \in Right(n, logins, logins, Ids)
        /\ mPings' \in [0 .. n - 1 -> Server \cup {None}]
        /\ mToPing' \in Seq(Nat) /\ pool' \in [Ids -> Worker]
    BY <1>3, <1>4, <1>6, BecomesRight
  <2>3. logins \in 0 .. MaxLogins /\ logins > 0 /\ current \in Nat /\ mServerIds \subseteq Nat
    BY <1>1 DEF PingInv, TypeOK
  <2>4. /\ Pool' \in Right(mServers', list', Latest', Ids)
        /\ mPings' \in [0 .. mServers' - 1 -> Server \cup {None}]
    BY <2>1, <2>2
  <2>5. TypeOK'
    <3>1. mServerIds' \subseteq Nat BY <1>3, <2>1, <2>3
    <3>2. list' \in 0 .. MaxLogins /\ logins' \in 0 .. MaxLogins /\ current' \in Nat
          /\ mServers' \in Nat /\ mLoggedIn' \in BOOLEAN /\ reply' \in BOOLEAN
      BY <1>3, <2>1, <2>3
    <3>3. QED BY <2>2, <2>4, <3>1, <3>2 DEF TypeOK
  <2>6. QED BY <2>1, <2>3, <2>4, <2>5 DEF PingInv
<1>7. CASE Restart BY <1>7, RestartRight
<1>8. QED BY <1>5, <1>6, <1>7

\* What leaves the pool alone.
LEMMA AccountRight == PingInv /\ (Login \/ Logout \/ Jump \/ UNCHANGED vars) => PingInv'
<1> SUFFICES ASSUME PingInv, Login \/ Logout \/ Jump \/ UNCHANGED vars PROVE PingInv' OBVIOUS
<1>1. /\ mPings' = mPings /\ mToPing' = mToPing /\ pool' = pool
      /\ list' = list /\ mServers' = mServers /\ mServerIds' = mServerIds
  BY DEF Login, Logout, Jump, vars, account, lists, pings
<1>2. Pool' = Pool /\ Latest \in Nat /\ list \in Nat BY <1>1 DEF Pool, PingInv, TypeOK, Latest
<1>3. /\ mLoggedIn' \in BOOLEAN /\ reply' \in BOOLEAN /\ logins' \in 0 .. MaxLogins
      /\ reply' => logins' > 0
      /\ Latest' \in Nat /\ Latest <= Latest'
  <2>1. /\ mLoggedIn \in BOOLEAN /\ reply \in BOOLEAN /\ logins \in 0 .. MaxLogins
        /\ reply => logins > 0
    BY DEF PingInv, TypeOK
  <2>2. CASE Login BY <2>1, <2>2, AuthAssumption DEF Login, Latest
  <2>3. CASE Logout
    <3>1. mLoggedIn' = FALSE /\ ~reply /\ reply' = FALSE /\ logins' = logins
      BY <2>1, <2>3 DEF Logout
    <3>2. Latest = logins /\ Latest' = logins BY <3>1 DEF Latest
    <3>3. logins' \in 0 .. MaxLogins /\ Latest' \in Nat /\ Latest <= Latest'
      BY <2>1, <3>1, <3>2, AuthAssumption
    <3>4. QED BY <3>1, <3>3
  <2>4. CASE Jump \/ UNCHANGED vars
    <3>1. UNCHANGED account BY <2>4 DEF Jump, vars
    <3>2. mLoggedIn' = mLoggedIn /\ reply' = reply /\ logins' = logins
      BY <3>1 DEF account
    <3>3. QED BY <2>1, <3>2 DEF Latest
  <2>5. QED BY <2>2, <2>3, <2>4
<1>4. current' \in Nat
  <2>1. CASE Jump
    <3>1. mServers \in Nat /\ mServerIds \subseteq Nat BY DEF PingInv, TypeOK
    <3>2. getServerToJump \subseteq mServerIds \cup (0 .. mServers - 1) BY DEF getServerToJump
    <3>3. QED BY <2>1, <3>1, <3>2 DEF Jump
  <2>2. CASE ~Jump BY <2>2 DEF Login, Logout, vars, PingInv, TypeOK
  <2>3. QED BY <2>1, <2>2
<1>5. /\ Pool' \in Right(mServers', list', Latest', Ids) /\ list' <= Latest'
  <2>1. Pool \in Right(mServers, list, Latest', Ids) BY <1>2, <1>3, LaterRight DEF PingInv
  <2>2. list <= Latest BY DEF PingInv
  <2>3. QED BY <1>1, <1>2, <1>3, <2>1, <2>2
<1>6. QED BY <1>1, <1>3, <1>4, <1>5 DEF PingInv, TypeOK

LEMMA PingStep == PingInv /\ [Next]_vars => PingInv'
<1> SUFFICES ASSUME PingInv, [Next]_vars PROVE PingInv' OBVIOUS
<1>1. CASE Login \/ Logout \/ Jump \/ UNCHANGED vars BY <1>1, AccountRight
<1>2. CASE LoginFails BY <1>2, LoginFailsRight
<1>3. CASE ServersLoaded BY <1>3, ServersLoadedRight
<1>4. ASSUME NEW k \in Ids, Finished(k) PROVE PingInv' BY <1>4, FinishedRight
<1>5. ASSUME NEW k \in Ids, FailedToStart(k) PROVE PingInv' BY <1>5, FailedToStartRight
<1>6. ASSUME NEW k \in Ids, Crashed(k) PROVE PingInv' BY <1>6, CrashedRight
<1>7. ASSUME NEW k \in Ids, TimedOut(k) PROVE PingInv' BY <1>7, TimedOutRight
<1>8. QED BY <1>1, <1>2, <1>3, <1>4, <1>5, <1>6, <1>7 DEF Next

-----------------------------------------------------------------------------
(* Theorems.                                                               *)

LEMMA PingInvariant == Spec => []PingInv
BY PingInit, PingStep, PTL DEF Spec

\* TypeOK, for any number of workers and any lists: mToPing and the pool, which
\* outlive the list they were made for, hold what startWorker can use.
THEOREM PingTypes == Spec => []TypeOK
<1>1. PingInv => TypeOK BY DEF PingInv
<1>2. QED BY <1>1, PingInvariant, PTL

\* PingOfItsServer: mPings[mInProgress] is only ever written with the ping of that
\* server of this list, in any order of processes, timers and logins, or by a worker
\* that pingAllServers passed over; a list with a server for each worker has none.
THEOREM PingsOfTheirServers ==
    Spec => [](/\ PingOfItsServer
               /\ mServers >= Workers => \A k \in Ids : ~PassedOver(k))
<1>1. PingInv => PingOfItsServer
  <2> SUFFICES ASSUME PingInv PROVE PingOfItsServer OBVIOUS
  <2>1. mServers \in Nat /\ DOMAIN mPings = 0 .. mServers - 1 BY DEF PingInv, TypeOK
  <2>2. CASE mServers = 0 BY <2>1, <2>2 DEF PingOfItsServer
  <2>3. CASE mServers # 0
    <3>1. \A i \in 0 .. mServers - 1 : Noted(Pool, mServers, list, i)
      BY <2>3 DEF PingInv, Right
    <3>2. Pool.ping = mPings /\ Pool.pool = pool BY DEF Pool
    <3>3. QED BY <2>1, <3>1, <3>2 DEF PingOfItsServer, PassedOver, Noted, Over
  <2>4. QED BY <2>2, <2>3
<1>2. PingInv /\ mServers >= Workers => \A k \in Ids : ~PassedOver(k)
  BY AuthAssumption DEF PingInv, TypeOK, PassedOver, Ids
<1>3. QED BY <1>1, <1>2, PingInvariant, PTL
=============================================================================
