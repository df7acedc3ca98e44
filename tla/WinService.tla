----------------------------- MODULE WinService -----------------------------
(***************************************************************************)
(* The service process on Windows: qtservice between the service control  *)
(* manager (SCM) and Service.                                              *)
(*                                                                         *)
(* Three threads: main runs the event loop; ctl is the HandlerThread, on   *)
(* which the SCM calls handler(); svc is the thread on which the SCM calls *)
(* serviceMain().  handler() posts an event to main and waits on a         *)
(* condition for it to be handled; it reports the status twice, the second *)
(* time without the mutex.                                                 *)
(***************************************************************************)
EXTENDS Naturals, Sequences

CONSTANTS
    Flags   \* serviceFlags; Service sets none

ASSUME FlagsAssumption ==
    Flags \subseteq {"CanBeSuspended", "CannotBeStopped", "NeedsStopOnShutdown"}

VARIABLES
    installed,  \* "no", "yes", or "deleting": when it has stopped
    scm,        \* the status the SCM knows
    console,    \* one started from a console: "none", "dispatching", "refused"
    main,       \* where the main thread is, "none" without a process
    startSemaphore, startSemaphore2,
    mutex,      \* the thread that holds it, or "none"
    status,     \* status.dwCurrentState
    queue,      \* the events posted to controllerHandler
    thread,     \* ctl and svc
    service     \* "new", "started", "stopped": the QVPNServer of Service

semaphores == <<startSemaphore, startSemaphore2>>
events  == <<mutex, status, queue>>
process == <<main, semaphores, events, thread, service>>
vars    == <<installed, scm, console, process>>

Threads  == {"ctl", "svc"}
Statuses == {"STOPPED", "START_PENDING", "RUNNING", "STOP_PENDING",
             "PAUSE_PENDING", "PAUSED", "CONTINUE_PENDING"}
Controls == {"STOP", "PAUSE", "CONTINUE", "INTERROGATE", "SHUTDOWN", "USER"}
Codes    == Controls \cup {"STARTUP"}

\* at: "off", "idle" (in the dispatcher), "sem" (startSemaphore2), then the steps
\* of handler(code); "over" when serviceMain has returned.
Thread == [at : {"off", "args", "sem", "idle", "lock", "posted", "waiting", "woken",
                 "report", "deliver", "over"},
           code : Codes, seen : Statuses]
NoThread == [at |-> "off", code |-> "STARTUP", seen |-> "STOPPED"]

TypeOK ==
    /\ installed \in {"no", "yes", "deleting"} /\ scm \in Statuses
    /\ console \in {"none", "dispatching", "refused"}
    /\ main \in {"none", "acquire", "create", "exec", "wake", "quit", "ending"}
    /\ startSemaphore \in 0 .. 1 /\ startSemaphore2 \in 0 .. 1
    /\ mutex \in Threads \cup {"none"} /\ status \in Statuses
    /\ queue \in Seq(Codes)
    /\ thread \in [Threads -> Thread]
    /\ service \in {"new", "started", "stopped"}

Init ==
    /\ installed = "no" /\ scm = "STOPPED" /\ console = "none"
    /\ main = "none" /\ startSemaphore = 0 /\ startSemaphore2 = 0
    /\ mutex = "none" /\ status = "STOPPED" /\ queue = <<>>
    /\ thread = [t \in Threads |-> NoThread] /\ service = "new"

At(t, here)   == thread[t].at = here
Goes(t, there) == thread' = [thread EXCEPT ![t].at = there]

-----------------------------------------------------------------------------
(* Outside: the SCM and its controllers.                                   *)

\* A service that is being deleted is still there, and CreateService fails.
isInstalled == installed # "no"

\* -i.
Install ==
    /\ ~isInstalled /\ installed' = "yes"
    /\ UNCHANGED <<scm, console, process>>

\* -u, and DeleteService: a service that runs goes when it has stopped.
Uninstall ==
    /\ isInstalled /\ installed # "deleting"
    /\ installed' = IF main = "none" THEN "no" ELSE "deleting"
    /\ UNCHANGED <<scm, console, process>>

sysInit == status' = "STOPPED"

\* StartService makes a process, whose main() comes to QtServiceBasePrivate::start:
\* sysInit, and the HandlerThread is started.
StartService ==
    /\ installed = "yes" /\ main = "none"
    /\ scm' = "START_PENDING" /\ main' = "acquire" /\ sysInit
    /\ UNCHANGED <<installed, semaphores, mutex, queue, thread, service>>

Start == StartService /\ UNCHANGED console

\* The program run from a console finds that it has no dispatcher to connect to,
\* and asks the SCM to start another one.
ConsoleRun ==
    /\ console = "none" /\ console' = "dispatching"
    /\ UNCHANGED <<installed, scm, process>>

ConsoleRefused ==
    /\ console = "dispatching" /\ console' = "refused"
    /\ UNCHANGED <<installed, scm, process>>

ConsoleStarts ==
    /\ console = "refused" /\ console' = "none"
    /\ IF installed = "yes" /\ main = "none" THEN StartService
       ELSE UNCHANGED <<installed, scm, process>>

\* What the SCM lets through: a service in between two states takes no control.
Accepts(c) ==
    CASE c = "STOP" -> scm \in {"RUNNING", "PAUSED"} /\ "CannotBeStopped" \notin Flags
      [] c = "PAUSE" -> scm = "RUNNING" /\ "CanBeSuspended" \in Flags
      [] c = "CONTINUE" -> scm = "PAUSED" /\ "CanBeSuspended" \in Flags
      [] c = "SHUTDOWN" -> scm # "STOPPED" /\ "NeedsStopOnShutdown" \in Flags
      [] c = "USER" -> scm \in {"RUNNING", "PAUSED"}
      [] c = "INTERROGATE" -> scm \notin {"STOPPED", "START_PENDING"}

\* ControlService: one control at a time, on the thread of the dispatcher.
Control(c) ==
    /\ At("ctl", "idle") /\ Accepts(c)
    /\ thread' = [thread EXCEPT !["ctl"].at = "lock", !["ctl"].code = c]
    /\ UNCHANGED <<installed, scm, console, main, semaphores, events, service>>

\* The process ends with all its threads, and the SCM notices.
ProcessEnds ==
    /\ installed' = IF installed = "deleting" THEN "no" ELSE installed
    /\ scm' = "STOPPED"
    /\ main' = "none" /\ startSemaphore' = 0 /\ startSemaphore2' = 0
    /\ mutex' = "none" /\ status' = "STOPPED" /\ queue' = <<>>
    /\ thread' = [t \in Threads |-> NoThread] /\ service' = "new"
    /\ UNCHANGED console

-----------------------------------------------------------------------------
(* The threads of the SCM.                                                 *)

DispatchM ==                            \* slip: released whether it succeeds or not
    /\ main # "none" /\ At("ctl", "off")
    /\ thread' = [thread EXCEPT !["ctl"].at = "idle", !["svc"].at = "args"]
    /\ startSemaphore' = startSemaphore + 1
    /\ UNCHANGED <<installed, scm, console, main, startSemaphore2, events, service>>

\* HandlerThread::run: connected to the SCM, which calls serviceMain.
Dispatch ==
    /\ main # "none" /\ At("ctl", "off")
    /\ thread' = [thread EXCEPT !["ctl"].at = "idle", !["svc"].at = "args"]
    /\ UNCHANGED <<installed, scm, console, main, semaphores, events, service>>

\* serviceMain has the arguments.
ServiceMain ==
    /\ At("svc", "args")
    /\ startSemaphore' = startSemaphore + 1 /\ Goes("svc", "sem")
    /\ UNCHANGED <<installed, scm, console, main, startSemaphore2, events, service>>

\* It registers handler, and calls it itself.
Register ==
    /\ At("svc", "sem") /\ startSemaphore2 > 0
    /\ startSemaphore2' = startSemaphore2 - 1
    /\ thread' = [thread EXCEPT !["svc"].at = "lock", !["svc"].code = "STARTUP"]
    /\ UNCHANGED <<installed, scm, console, main, startSemaphore, events, service>>

\* The SCM forgets a service that has stopped.
Tell(state) == scm' = IF main = "ending" THEN scm ELSE state

setStatus(state) == status' = state /\ Tell(state)

Pending == [STARTUP |-> "START_PENDING", STOP |-> "STOP_PENDING",
            PAUSE |-> "PAUSE_PENDING", CONTINUE |-> "CONTINUE_PENDING"]
Final   == [STARTUP |-> "RUNNING", PAUSE |-> "PAUSED", CONTINUE |-> "RUNNING"]

HandlerM(t) ==                          \* slip: the status before the event
    /\ At(t, "lock") /\ mutex = "none" /\ mutex' = t /\ Goes(t, "posted")
    /\ LET code == thread[t].code
       IN  /\ IF code \in DOMAIN Final THEN setStatus(Final[code])
              ELSE UNCHANGED <<status, scm>>
           /\ queue' = Append(queue, code)
    /\ UNCHANGED <<installed, console, main, semaphores, service>>

\* handler: the mutex, the pending status, the event.
Handler(t) ==
    /\ At(t, "lock") /\ mutex = "none"
    /\ LET code == thread[t].code
       IN  IF code = "INTERROGATE"
           THEN Goes(t, "report") /\ UNCHANGED <<events, scm>>
           ELSE /\ mutex' = t /\ Goes(t, "posted")
                /\ IF code \in DOMAIN Pending THEN setStatus(Pending[code])
                   ELSE UNCHANGED <<status, scm>>
                /\ queue' = Append(queue, IF code = "SHUTDOWN" THEN "STOP" ELSE code)
    /\ UNCHANGED <<installed, console, main, semaphores, service>>

\* condition.wait releases the mutex ...
Wait(t) ==
    /\ At(t, "posted") /\ Goes(t, "waiting") /\ mutex' = "none"
    /\ UNCHANGED <<installed, scm, console, main, semaphores, status, queue, service>>

\* ... and has it again when it returns; the mutex is unlocked.
Woken(t) ==
    /\ At(t, "woken") /\ mutex = "none" /\ Goes(t, "report")
    /\ IF thread[t].code \in DOMAIN Final THEN setStatus(Final[thread[t].code])
       ELSE UNCHANGED <<status, scm>>
    /\ UNCHANGED <<installed, console, main, semaphores, mutex, queue, service>>

\* handler returns, to the dispatcher or to serviceMain.
Returned(t) == [thread EXCEPT ![t].at = IF t = "ctl" THEN "idle" ELSE "over"]

\* Report current status: it is read here, without the mutex ...
Report(t) ==
    /\ At(t, "report")
    /\ thread' = IF status = "STOPPED" THEN Returned(t)
                 ELSE [thread EXCEPT ![t].at = "deliver", ![t].seen = status]
    /\ UNCHANGED <<installed, scm, console, main, semaphores, events, service>>

\* ... and may reach the SCM after what another thread reported meanwhile.
Deliver(t) ==
    /\ At(t, "deliver")
    /\ Tell(thread[t].seen)
    /\ thread' = Returned(t)
    /\ UNCHANGED <<installed, console, main, semaphores, events, service>>

-----------------------------------------------------------------------------
(* The main thread.                                                        *)

\* tryAcquire(1, 20000).
Acquire ==
    /\ main = "acquire" /\ startSemaphore > 0
    /\ startSemaphore' = startSemaphore - 1 /\ main' = "create"
    /\ UNCHANGED <<installed, scm, console, startSemaphore2, events, thread, service>>

GiveUp == main = "acquire" /\ startSemaphore = 0 /\ ProcessEnds

\* The application, its event filter and the controllerHandler.
CreateApplication ==
    /\ main = "create"
    /\ startSemaphore2' = startSemaphore2 + 1 /\ main' = "exec"
    /\ UNCHANGED <<installed, scm, console, startSemaphore, events, thread, service>>

\* handleCustomEvent up to the mutex.  After quit() the loop may still find an
\* event before it ends.
HandleEvent ==
    /\ main \in {"exec", "quit"} /\ queue # <<>>
    /\ LET code == Head(queue)
       IN  /\ code = "STOP" => service # "stopped"
           /\ service' = CASE code = "STARTUP" -> "started"
                           [] code = "STOP" -> "stopped"
                           [] OTHER -> service
    /\ queue' = Tail(queue) /\ main' = "wake"
    /\ UNCHANGED <<installed, scm, console, semaphores, mutex, status, thread>>

\* Service::stop a second time: the pointer to the server is null.
SecondStop ==
    /\ main = "quit" /\ queue # <<>> /\ Head(queue) = "STOP" /\ service = "stopped"
    /\ ProcessEnds

Wakes(next) ==
    /\ thread' = [t \in Threads |->
          IF At(t, "waiting") THEN [thread[t] EXCEPT !.at = "woken"] ELSE thread[t]]
    /\ main' = next
    /\ UNCHANGED <<installed, scm, console, semaphores, events, service>>

WakeAllM ==                             \* slip: without the mutex
    main = "wake" /\ Wakes(IF service = "stopped" THEN "quit" ELSE "exec")

WakeAllQ ==                             \* slip: quit() forgotten
    main = "wake" /\ mutex = "none" /\ Wakes("exec")

\* condition.wakeAll under the mutex; back in the loop, which ends after quit().
WakeAll ==
    /\ main = "wake" /\ mutex = "none"
    /\ Wakes(IF service = "stopped" THEN "quit" ELSE "exec")

\* executeApplication returns.
Stopped ==
    /\ main = "quit" /\ main' = "ending" /\ setStatus("STOPPED")
    /\ UNCHANGED <<installed, console, semaphores, mutex, queue, thread, service>>

\* ht->wait(1000), whether the thread has finished or not; then all is deleted.
Exit == main = "ending" /\ ProcessEnds

MainSteps == \/ Acquire \/ CreateApplication \/ HandleEvent \/ SecondStop
             \/ WakeAll \/ Stopped \/ Exit
ThreadSteps(t) ==
    Handler(t) \/ Wait(t) \/ Woken(t) \/ Report(t) \/ Deliver(t)

Next ==
    \/ Install \/ Uninstall \/ Start
    \/ ConsoleRun \/ ConsoleRefused \/ ConsoleStarts
    \/ \E c \in Controls : Control(c)
    \/ Dispatch \/ ServiceMain \/ Register
    \/ \E t \in Threads : ThreadSteps(t)
    \/ MainSteps \/ GiveUp

Spec == Init /\ [][Next]_vars

\* The operating system runs every thread.  Nothing is assumed of the user.
FairSpec ==
    /\ Spec
    /\ WF_vars(MainSteps)
    /\ WF_vars(Dispatch) /\ WF_vars(ServiceMain) /\ WF_vars(Register)
    /\ \A t \in Threads : WF_vars(ThreadSteps(t))

-----------------------------------------------------------------------------
(* Properties.                                                             *)

\* The SCM is told of a running service only when Service::start() has returned,
\* however the two threads that report are delayed.
RunningIsStarted == scm \in {"RUNNING", "PAUSED"} => service # "new"

\* A handler that waits has its event still to come, or its wake-up: none is lost
\* although condition.wait tests no condition.
WaiterIsServed ==
    \A t \in Threads : At(t, "waiting") => queue # <<>> \/ main = "wake"

\* A stop the SCM let through ends the process, whatever other controls and
\* reports are under way.
StopCompletes ==
    thread["ctl"].code = "STOP" /\ At("ctl", "waiting") ~> main = "none"
=============================================================================
