--------------------------- MODULE ServiceControl ---------------------------
(***************************************************************************)
(* The service process on macOS and Linux: how it is started, found,       *)
(* stopped and restarted.                                                  *)
(*                                                                         *)
(* launchd keeps running the binary without arguments.  That job asks      *)
(* whoever answers on the control socket /var/tmp/<name>.<user> whether it *)
(* is alive; if nobody does it detaches another process of the binary,     *)
(* which is the service, and exits.  The service listens on the control    *)
(* socket (qtservice) and on the socket of the GUIs (QVPNServer).  Both    *)
(* are names in the file system: listening takes the name over from        *)
(* whoever has it, closing removes it whoever has it.  Listening may fail, *)
(* which is logged and no more.                                            *)
(***************************************************************************)
EXTENDS Naturals, FiniteSets

CONSTANTS
    Procs,      \* processes of the service
    None,       \* no such name in the file system
    MaxStops,   \* bound: terminate commands waiting at a process
    MaxDeaf     \* bound: processes without a control socket at the same time

ASSUME ControlAssumption ==
    None \notin Procs /\ MaxStops \in Nat /\ MaxDeaf \in Nat

VARIABLES
    job,    \* the job of launchd and the process it asked
    proc,   \* how far each process is
    listens,    \* the sockets it listens on
    path,   \* who listened on the control socket last, dead or not
    gui,    \* who listened on the socket of the GUIs last
    stops,  \* terminate commands a process has to read
    installed   \* registered in the settings of the system, by -i

vars == <<job, proc, listens, path, gui, stops, installed>>

\* A socket is open from listening to its close: until then connections queue.
Open(p)    == "control" \in listens[p]
Reaches(p) == "gui" \in listens[p]

Idle == [at |-> "off", to |-> None]

TypeOK ==
    /\ job \in [at : {"off", "probe", "asked", "start"}, to : Procs \cup {None}]
    /\ job.at = "asked" => job.to \in Procs /\ (Open(job.to) \/ proc[job.to] = "closed")
    /\ proc \in [Procs -> {"none", "made", "listening", "serving", "stopped", "closed"}]
    /\ listens \in [Procs -> SUBSET {"control", "gui"}]
    /\ \A p \in Procs : /\ Open(p) => proc[p] \in {"listening", "serving", "stopped"}
                        /\ Reaches(p) => proc[p] = "serving"
    /\ path \in Procs \cup {None} /\ gui \in Procs \cup {None}
    /\ stops \in [Procs -> 0 .. MaxStops] /\ installed \in BOOLEAN

Init ==
    /\ job = Idle /\ proc = [p \in Procs |-> "none"] /\ listens = [p \in Procs |-> {}]
    /\ path = None /\ gui = None /\ stops = [p \in Procs |-> 0]
    /\ installed \in BOOLEAN

-----------------------------------------------------------------------------
(* The job: QtServiceBase::exec without arguments, then start().           *)

Settled(p) == proc[p] \in {"none", "serving"} /\ stops[p] = 0

\* KeepAlive runs the job again, but no sooner than 10 seconds after the last
\* time: processes have done by then what they do on their own.
Launch ==
    /\ job.at = "off" /\ \A p \in Procs : Settled(p)
    /\ job' = [at |-> "probe", to |-> None]
    /\ UNCHANGED <<proc, listens, path, gui, stops, installed>>

Listens == path # None /\ Open(path)

ProbeM ==                               \* slip: whoever answers is taken for nobody
    /\ job.at = "probe"
    /\ job' = [at |-> "start", to |-> None]
    /\ UNCHANGED <<proc, listens, path, gui, stops, installed>>

\* sendCmd: connects and sends "alive".
Probe ==
    /\ job.at = "probe"
    /\ job' = IF Listens THEN [at |-> "asked", to |-> path]
              ELSE [at |-> "start", to |-> None]
    /\ UNCHANGED <<proc, listens, path, gui, stops, installed>>

\* slotReady answers "true", and the job ends: already running.
Alive(p) ==
    /\ job = [at |-> "asked", to |-> p] /\ proc[p] \in {"serving", "stopped"}
    /\ job' = Idle
    /\ UNCHANGED <<proc, listens, path, gui, stops, installed>>

StartDetachedM(p) ==                    \* slip: controller.start() is called
    /\ job.at = "start" /\ proc[p] = "none" /\ installed
    /\ proc' = [proc EXCEPT ![p] = "made"] /\ job' = Idle
    /\ UNCHANGED <<listens, path, gui, stops, installed>>

\* "We do not want to strictly require installation."  The detached process has
\* QTSERVICE_RUN set; the job ends.
StartDetached(p) ==
    /\ job.at = "start" /\ proc[p] = "none"
    /\ proc' = [proc EXCEPT ![p] = "made"] /\ job' = Idle
    /\ UNCHANGED <<listens, path, gui, stops, installed>>

-----------------------------------------------------------------------------
(* The service: QtServiceBasePrivate::run.                                 *)

Deaf == {p \in Procs : proc[p] # "none" /\ ~Open(p)}

\* listen(): the name leads to p now, or it fails and leads where it led.
setPath(p) ==
    \/ path' = p /\ listens' = [listens EXCEPT ![p] = {"control"}]
    \/ Cardinality(Deaf) <= MaxDeaf /\ UNCHANGED <<path, listens>>     \* p is in Deaf

\* run as far as the event loop: sysInit, the application, sysSetPath.
Listen(p) ==
    /\ proc[p] = "made"
    /\ proc' = [proc EXCEPT ![p] = "listening"] /\ setPath(p)
    /\ UNCHANGED <<job, gui, stops, installed>>

\* slotStart, the first event of the loop: Service::start, QVPNServer::start, whose
\* listen() may fail: the process serves nobody and says that it is alive.
Start(p) ==
    /\ proc[p] = "listening"
    /\ proc' = [proc EXCEPT ![p] = "serving"]
    /\ \/ gui' = p /\ listens' = [listens EXCEPT ![p] = @ \cup {"gui"}]
       \/ UNCHANGED <<gui, listens>>
    /\ UNCHANGED <<job, path, stops, installed>>

\* -i and -u, run by anyone who may write the settings.
install   == ~installed /\ installed' = TRUE /\ UNCHANGED <<job, proc, listens, path, gui, stops>>
uninstall == installed /\ installed' = FALSE /\ UNCHANGED <<job, proc, listens, path, gui, stops>>

\* -t, run by anyone.  "alive", "num" and, without flags, "pause" and "resume"
\* change nothing.
SendTerminate ==
    /\ Listens /\ stops[path] < MaxStops
    /\ stops' = [stops EXCEPT ![path] = @ + 1]
    /\ UNCHANGED <<job, proc, listens, path, gui, installed>>

StopListeningM(p) == UNCHANGED <<gui, listens>>     \* slip: close() forgotten

\* QVPNServer::stop.
StopListening(p) ==
    /\ gui' = IF Reaches(p) THEN None ELSE gui
    /\ listens' = [listens EXCEPT ![p] = @ \ {"gui"}]

\* slotReady: Service::stop closes the socket of the GUIs; quit().
Terminate(p) ==
    /\ proc[p] = "serving" /\ stops[p] > 0
    /\ proc' = [proc EXCEPT ![p] = "stopped"]
    /\ StopListening(p) /\ stops' = [stops EXCEPT ![p] = @ - 1]
    /\ UNCHANGED <<job, path, installed>>

\* The process is gone: connections to it break, names stay.
Dies(p) ==
    /\ proc' = [proc EXCEPT ![p] = "none"] /\ listens' = [listens EXCEPT ![p] = {}]
    /\ job' = IF job.to = p THEN [at |-> "start", to |-> None] ELSE job
    /\ stops' = [stops EXCEPT ![p] = 0]
    /\ UNCHANGED <<path, gui, installed>>

\* A second terminate read before the loop ends: m_VPNServer is null.
SecondTerminate(p) == proc[p] = "stopped" /\ stops[p] > 0 /\ Dies(p)

\* See Crash in OpenvpnManager.
Crash(p) == proc[p] = "serving" /\ Dies(p)

\* sysCleanup: QLocalServer::close ends the connections not accepted yet and
\* removes the name (only a process with a control socket is told to stop) ...
Close(p) ==
    /\ proc[p] = "stopped"
    /\ proc' = [proc EXCEPT ![p] = "closed"] /\ listens' = [listens EXCEPT ![p] = {}]
    /\ path' = None
    /\ \/ UNCHANGED job
       \/ job.to = p /\ job' = [at |-> "start", to |-> None]
    /\ stops' = [stops EXCEPT ![p] = 0]
    /\ UNCHANGED <<gui, installed>>

\* ... the unlink after it may find the name of another process, and deleting sysd
\* ends the connections accepted before.
Unlink(p) ==
    /\ proc[p] = "closed"
    /\ proc' = [proc EXCEPT ![p] = "none"] /\ path' = None
    /\ job' = IF job.to = p THEN [at |-> "start", to |-> None] ELSE job
    /\ UNCHANGED <<listens, gui, stops, installed>>

JobSteps  == Launch \/ Probe \/ \E p \in Procs : StartDetached(p)
Steps(p)  == \/ Alive(p) \/ Listen(p) \/ Start(p)
             \/ Terminate(p) \/ SecondTerminate(p) \/ Close(p) \/ Unlink(p)

Next == \/ JobSteps \/ SendTerminate \/ install \/ uninstall
        \/ \E p \in Procs : Steps(p) \/ Crash(p)

Spec == Init /\ [][Next]_vars

\* launchd keeps the job alive, and processes run.
FairSpec == Spec /\ WF_vars(JobSteps) /\ \A p \in Procs : WF_vars(Steps(p))

-----------------------------------------------------------------------------
(* Properties.                                                             *)

\* The service that tells the job that it is alive is the one the GUIs reach, if its
\* listen() for them succeeded: no start, stop or late close of another process comes
\* between.  Otherwise the job would leave it at that and no GUI could connect.
AliveIsReachable ==
    Listens /\ proc[path] = "serving" /\ Reaches(path) => gui = path

\* Whatever is stopped, crashes while it serves or cannot listen on the control
\* socket, GUIs find a service again, if from some time on every service listens for
\* them.  (One that does not and is alive is left alone, so nothing repairs it.)
Recovers == <>[](\A p \in Procs : proc[p] = "serving" => Reaches(p))
               => []<>(gui # None /\ Reaches(gui))
=============================================================================
