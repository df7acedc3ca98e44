---------------------------- MODULE AuthManager ----------------------------
(***************************************************************************)
(* AuthManager of the GUI: the server lists a login brings, and the pool   *)
(* of ping processes that measures them.  A worker is a QProcess, a timer  *)
(* and a PingWaiter; mToPing holds the servers that wait for a worker.     *)
(*                                                                         *)
(* Everything runs on the event loop of the GUI, but a process, its timer  *)
(* and the next login come in any order, and the lists, the queue and the  *)
(* workers outlive the login they were made for.                           *)
(***************************************************************************)
EXTENDS Naturals, Sequences

CONSTANTS
    Workers,    \* PINGWORKERS_NUM
    Answers,    \* the lengths of the server lists a login may bring
    MaxLogins   \* bound: logins

ASSUME AuthAssumption ==
    /\ Workers \in Nat \ {0} /\ MaxLogins \in Nat
    /\ Answers \subseteq Nat

VARIABLES
    mLoggedIn,      \* set by login() already
    reply,          \* mReply: the list is being downloaded
    logins,         \* logins so far
    list,           \* the login that brought the list
    mServers,       \* length of the list; ids are 0 .. mServers - 1
    mServerIds,     \* the ids offered (the tcp and the udp list are the same)
    mPings,         \* of each server, the server it was measured with, or None
    mToPing,        \* the queue of ids
    pool,           \* mWorkers, mInProgress, mTimers of each worker
    current         \* the server selected, in Setting

account == <<mLoggedIn, reply, logins>>
lists   == <<list, mServers, mServerIds>>
pings   == <<mPings, mToPing, pool>>
vars    == <<account, lists, pings, current>>

Ids    == 0 .. Workers - 1
None   == [list |-> 0, id |-> 0]
Server == [list : 1 .. MaxLogins, id : Nat]

\* conns: how often the timeout of the timer is connected to the PingWaiter.
Worker == [proc : {"none", "running", "over"},  \* the last process made
           to : Server \cup {None},             \* what it pings
           inProgress : Nat, timer : BOOLEAN, conns : Nat]

NoPool == [k \in Ids |-> [proc |-> "none", to |-> None, inProgress |-> 0,
                          timer |-> FALSE, conns |-> 0]]

TypeOK ==
    /\ mLoggedIn \in BOOLEAN /\ reply \in BOOLEAN /\ logins \in 0 .. MaxLogins
    /\ list \in 0 .. MaxLogins /\ mServers \in Nat /\ mServerIds \subseteq Nat
    /\ mPings \in [0 .. mServers - 1 -> Server \cup {None}]
    /\ mToPing \in Seq(Nat)
    /\ pool \in [Ids -> Worker]
    /\ current \in Nat

Init ==
    /\ mLoggedIn = FALSE /\ reply = FALSE /\ logins = 0
    /\ list = 0 /\ mServers = 0 /\ mServerIds = {}
    /\ mPings = [i \in {} |-> None] /\ mToPing = <<>>
    /\ pool = NoPool
    /\ current = 0

-----------------------------------------------------------------------------
(* The pool: what a handler makes of st, the values of pings.              *)

\* wild: an id was used that is not one of the servers of the list.
Pool == [ping |-> mPings, queue |-> mToPing, pool |-> pool, wild |-> FALSE]

Becomes(st) == mPings' = st.ping /\ mToPing' = st.queue /\ pool' = st.pool

\* The GUI, once dead, is started again.
Restart ==
    /\ mLoggedIn' = FALSE /\ reply' = FALSE
    /\ list' = 0 /\ mServers' = 0 /\ mServerIds' = {}
    /\ mPings' = [i \in {} |-> None] /\ mToPing' = <<>> /\ pool' = NoPool
    /\ UNCHANGED <<logins, current>>

\* How the handler of a worker ends.  QList checks no index in a release build: the
\* program dies of it or goes on.
Ends(st) ==
    \/ Becomes(st) /\ UNCHANGED <<account, lists, current>>
    \/ st.wild /\ Restart

\* The server a process is started with; nobody knows what an id beyond the list is.
Pinged(st, from) ==
    IF Head(st.queue) \in DOMAIN st.ping
    THEN [list |-> from, id |-> Head(st.queue)] ELSE None

startWorkerM(st, k, from) ==            \* slip: mInProgress is not set
    IF st.queue = <<>> THEN st
    ELSE [st EXCEPT
            !.queue = Tail(st.queue),
            !.wild = st.wild \/ Head(st.queue) \notin DOMAIN st.ping,
            !.pool[k] = [proc |-> "running", to |-> Pinged(st, from),
                         inProgress |-> st.pool[k].inProgress, timer |-> TRUE,
                         conns |-> st.pool[k].conns + 1]]

\* startWorker: the old process is disconnected and left to its fate, the timer
\* connected once more.  With nothing to ping the old process stays connected.
startWorker(st, k, from) ==
    IF st.queue = <<>> THEN st
    ELSE [st EXCEPT
            !.queue = Tail(st.queue),
            !.wild = st.wild \/ Head(st.queue) \notin DOMAIN st.ping,
            !.pool[k] = [proc |-> "running", to |-> Pinged(st, from),
                         inProgress |-> Head(st.queue), timer |-> TRUE,
                         conns |-> st.pool[k].conns + 1]]

\* What extractPing reads: the ping of the server the process was given, or -1.
Read(st, k) == {st.pool[k].to, None}

\* mPings[mInProgress] = p.
Note(st, k, p) ==
    IF st.pool[k].inProgress \in DOMAIN st.ping
    THEN [st EXCEPT !.ping[st.pool[k].inProgress] = p]
    ELSE [st EXCEPT !.wild = TRUE]

StopTimer(st, k) == [st EXCEPT !.pool[k].timer = FALSE]

pingCompleteM(st, k, p) == Note(StopTimer(st, k), k, p)     \* slip: startWorker dropped

\* pingComplete and pingError do the same.
pingComplete(st, k, p) == startWorker(Note(StopTimer(st, k), k, p), k, list)

\* pingTerminated, which leaves the timer alone.
pingTerminated(st, k, p) == startWorker(Note(st, k, p), k, list)

\* The process ends: finished.
Finished(k) ==
    /\ pool[k].proc = "running"
    /\ LET over == [Pool EXCEPT !.pool[k].proc = "over"]
       IN  \E p \in Read(over, k) : Ends(pingComplete(over, k, p))

\* The process does not start: errorOccurred.
FailedToStart(k) ==
    /\ pool[k].proc = "running"
    /\ Ends(pingComplete([Pool EXCEPT !.pool[k].proc = "over"], k, None))

\* The process is killed: errorOccurred, then finished if it is still connected;
\* its output was read by then.
Crashed(k) ==
    /\ pool[k].proc = "running"
    /\ LET over == [Pool EXCEPT !.pool[k].proc = "over"]
       IN  \E p \in Read(over, k) :
              LET st == pingComplete(over, k, p)
              IN  Ends(IF mToPing = <<>> THEN pingComplete(st, k, None) ELSE st)

\* What the n-th call of Timer_Terminate makes of what those before it led to: all
\* but the first find a process that was started just before.
Timer_Terminate(k, n, before) ==
    {pingTerminated(st, k, p) : st \in before, p \in IF n = 1 THEN Read(Pool, k) ELSE {None}}

\* What n calls may lead to.
Terminated(k) ==
    LET calls[n \in Nat] ==
            IF n = 0 THEN {StopTimer(Pool, k)} ELSE Timer_Terminate(k, n, calls[n - 1])
    IN  calls

\* The timer fires: Timer_Terminate once for each connection.
TimedOut(k) ==
    /\ pool[k].timer
    /\ \E st \in Terminated(k)[pool[k].conns] : Ends(st)

-----------------------------------------------------------------------------
(* Login, logout and the lists.                                            *)

\* LoginWindow asks for a login only when nobody is logged in.
Login ==
    /\ ~mLoggedIn /\ logins < MaxLogins
    /\ mLoggedIn' = TRUE /\ reply' = TRUE /\ logins' = logins + 1
    /\ UNCHANGED <<lists, pings, current>>

\* clearServerLists leaves the ids, the queue and the workers as they are.
clearServerListsM == list' = 0 /\ mServers' = 0 /\ UNCHANGED mPings \* slip: pings stay
clearServerLists == list' = 0 /\ mServers' = 0 /\ mPings' = [i \in {} |-> None]

\* processServersXml of an answer that is an error; cancel() makes the answer one.
LoginFails ==
    /\ reply
    /\ mLoggedIn' = FALSE /\ reply' = FALSE
    /\ clearServerLists
    /\ UNCHANGED <<logins, mServerIds, mToPing, pool, current>>

\* pingAllServers: n more in the queue ...
Queued(n) == [ping  |-> [i \in 0 .. n - 1 |-> None],
              queue |-> mToPing \o [i \in 1 .. n |-> i - 1],
              pool  |-> pool, wild |-> FALSE]

\* ... then every worker, from the first, is given one of it as long as there are.
Started(st) ==
    LET started[k \in 0 .. Workers] ==
            IF k = 0 THEN st ELSE startWorker(started[k - 1], k - 1, logins)
    IN  started

pingAllServers(n) ==
    LET st == Started(Queued(n))[Workers]
    IN  \/ /\ Becomes(st)
           /\ list' = logins /\ mServers' = n
           /\ mServerIds' = mServerIds \cup (0 .. n - 1)
           /\ mLoggedIn' = TRUE /\ reply' = FALSE
           /\ UNCHANGED <<logins, current>>
        \/ st.wild /\ Restart

\* processServersXml of a list, which is empty if no entry has a name and an address:
\* the ids are appended to those of earlier lists.
ServersLoaded ==
    /\ reply
    /\ \E n \in Answers : pingAllServers(n)

\* logout() of one whose login is complete (see LogoutFindsAMenu in Screens).
Logout ==
    /\ mLoggedIn /\ ~reply
    /\ mLoggedIn' = FALSE
    /\ UNCHANGED <<reply, logins, lists, pings, current>>

\* The ping getPings finds for a server of the ids; -1 beyond mPings.
getPing(i) == IF i \in DOMAIN mPings THEN mPings[i] ELSE None

\* getServerToJump: one of the fastest measured, any other than the current one
\* if none is measured, any at all if there is no other.  How fast a server
\* answers, and so the order, is free.
getServerToJump ==
    LET toping   == mServerIds \ {current}
        measured == {i \in toping : getPing(i) # None}
    IN  IF mServers = 0 THEN {}
        ELSE IF measured # {} THEN measured
        ELSE IF toping # {} THEN toping ELSE 0 .. mServers - 1

\* jump(): the connection it asks for is in VpnClients.
Jump ==
    /\ current' \in getServerToJump
    /\ UNCHANGED <<account, lists, pings>>

Next == \/ Login \/ LoginFails \/ ServersLoaded \/ Logout \/ Jump
        \/ \E k \in Ids : Finished(k) \/ FailedToStart(k) \/ Crashed(k) \/ TimedOut(k)

Spec == Init /\ [][Next]_vars

\* Timers of the event loop fire.  Nothing is assumed of the processes.
FairSpec == Spec /\ \A k \in Ids : WF_vars(TimedOut(k))

-----------------------------------------------------------------------------
(* Properties.                                                             *)

\* pingAllServers had no server left for worker k, the list being shorter than the
\* pool: its process, of an earlier list, is still connected.
PassedOver(k) == k >= mServers /\ pool[k].to.list < list

\* What is noted for a server was measured with that server of this list: neither
\* another worker's process nor one of an earlier login writes it, but that of a worker
\* the list was too short for, which writes the ping of the server that had the same
\* number in the list before.
PingOfItsServer ==
    \A i \in DOMAIN mPings :
        \/ mPings[i] \in {None, [list |-> list, id |-> i]}
        \/ \E k \in Ids : PassedOver(k) /\ mPings[i] = pool[k].to /\ mPings[i].id = i

\* However pings end, all of them do: the queue is emptied again and again.
PingsEnd == []<>(mToPing = <<>>)
=============================================================================
