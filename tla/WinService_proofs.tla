--------------------------- MODULE WinService_proofs ---------------------------
(***************************************************************************)
(* Theorems about WinService, for whatever flags the service sets.         *)
(*                                                                         *)
(* The threads meet in three ways, each with a part of the invariant:      *)
(*   - the two semaphores take main and svc through the start in step, so  *)
(*     that neither is ever above one (InStep);                            *)
(*   - a handler holds the mutex from before it posts its event until it   *)
(*     waits, so wakeAll, which needs it, cannot come in between (Served); *)
(*   - nothing reports a running service before an event was handled, and  *)
(*     the first that is handled starts the service, or stops it           *)
(*     (Reported).                                                         *)
(***************************************************************************)
EXTENDS WinService, SequenceTheorems, TLAPS

InStep ==
    /\ At("ctl", "off") <=> At("svc", "off")
    /\ main = "none" => At("svc", "off") /\ startSemaphore = 0 /\ startSemaphore2 = 0
    /\ main = "acquire" =>
          /\ thread["svc"].at \in {"off", "args", "sem"} /\ startSemaphore2 = 0
          /\ startSemaphore = IF At("svc", "sem") THEN 1 ELSE 0
    /\ main = "create" => At("svc", "sem") /\ startSemaphore = 0 /\ startSemaphore2 = 0
    /\ main \notin {"none", "acquire", "create"} =>
          /\ thread["svc"].at \notin {"off", "args"} /\ startSemaphore = 0
          /\ startSemaphore2 = IF At("svc", "sem") THEN 1 ELSE 0

Served ==
    \A t \in Threads :
        /\ At(t, "posted") <=> mutex = t
        /\ At(t, "posted") \/ At(t, "waiting") => queue # <<>> \/ main = "wake"

Up      == {"RUNNING", "PAUSED"}
Running == {"PAUSE", "CONTINUE", "USER"}    \* controls of a service that runs

Reported ==
    service = "new" =>
        /\ scm \notin Up /\ status \notin Up /\ main # "wake"
        /\ \A i \in 1 .. Len(queue) : queue[i] \in {"STARTUP", "STOP"}
        /\ \A t \in Threads :
              /\ At(t, "lock") => thread[t].code \notin Running
              /\ ~At(t, "woken")
              /\ At(t, "deliver") => thread[t].seen \notin Up

-----------------------------------------------------------------------------
(* Facts about the values.                                                 *)

LEMMA Values ==
    /\ DOMAIN Pending = {"STARTUP", "STOP", "PAUSE", "CONTINUE"}
    /\ DOMAIN Final = {"STARTUP", "PAUSE", "CONTINUE"}
    /\ \A c \in DOMAIN Pending : Pending[c] \in Statuses \ Up
    /\ \A c \in DOMAIN Final : Final[c] \in Statuses
BY DEF Pending, Final, Statuses, Up

\* What a thread that moves on leaves alone.
LEMMA GoesMoves ==
    ASSUME thread \in [Threads -> Thread], NEW t \in Threads,
           NEW x \in {"off", "args", "sem", "idle", "lock", "posted", "waiting", "woken",
                      "report", "deliver", "over"},
           Goes(t, x)
    PROVE  /\ thread' \in [Threads -> Thread]
           /\ thread'[t].at = x /\ thread'[t].code = thread[t].code
           /\ thread'[t].seen = thread[t].seen
           /\ \A u \in Threads : u # t => thread'[u] = thread[u]
BY DEF Goes, Thread

\* Where handler returns to.
LEMMA ReturnedMoves ==
    ASSUME thread \in [Threads -> Thread], NEW t \in Threads
    PROVE  /\ Returned(t) \in [Threads -> Thread]
           /\ Returned(t)[t].at \in {"idle", "over"}
           /\ Returned(t)[t].at = "idle" <=> t = "ctl"
           /\ \A u \in Threads : u # t => Returned(t)[u] = thread[u]
BY DEF Returned, Thread, Threads

LEMMA WakesMoves ==
    ASSUME thread \in [Threads -> Thread], NEW next, Wakes(next)
    PROVE  /\ thread' \in [Threads -> Thread]
           /\ \A t \in Threads :
                 /\ At(t, "waiting") => thread'[t].at = "woken" /\ thread'[t].code = thread[t].code
                 /\ ~At(t, "waiting") => thread'[t] = thread[t]
<1>1. ASSUME NEW t \in Threads
      PROVE  /\ thread'[t] \in Thread
             /\ At(t, "waiting") => thread'[t].at = "woken" /\ thread'[t].code = thread[t].code
             /\ ~At(t, "waiting") => thread'[t] = thread[t]
  <2>1. thread'[t] = IF At(t, "waiting") THEN [thread[t] EXCEPT !.at = "woken"] ELSE thread[t]
    BY DEF Wakes
  <2>2. QED BY <2>1 DEF Thread, At
<1>2. thread' = [t \in Threads |-> thread'[t]] BY DEF Wakes
<1>3. QED BY <1>1, <1>2

LEMMA QueueSteps ==
    ASSUME queue \in Seq(Codes)
    PROVE  /\ \A c \in Codes : /\ Append(queue, c) \in Seq(Codes)
                               /\ Append(queue, c) # <<>>
                               /\ \A i \in 1 .. Len(Append(queue, c)) :
                                     \/ Append(queue, c)[i] = c
                                     \/ i \in 1 .. Len(queue) /\ Append(queue, c)[i] = queue[i]
           /\ queue # <<>> => /\ Head(queue) \in Codes /\ Head(queue) = queue[1]
                              /\ 1 \in 1 .. Len(queue)
                              /\ Tail(queue) \in Seq(Codes)
                              /\ \A i \in 1 .. Len(Tail(queue)) :
                                    i + 1 \in 1 .. Len(queue) /\ Tail(queue)[i] = queue[i + 1]
<1>1. ASSUME NEW c \in Codes
      PROVE  /\ Append(queue, c) \in Seq(Codes) /\ Append(queue, c) # <<>>
             /\ \A i \in 1 .. Len(Append(queue, c)) :
                   \/ Append(queue, c)[i] = c
                   \/ i \in 1 .. Len(queue) /\ Append(queue, c)[i] = queue[i]
  <2>1. /\ Len(Append(queue, c)) = Len(queue) + 1 /\ Append(queue, c) \in Seq(Codes)
        /\ Append(queue, c)[Len(queue) + 1] = c
        /\ \A i \in 1 .. Len(queue) : Append(queue, c)[i] = queue[i]
    BY AppendProperties
  <2>2. Len(queue) \in Nat BY LenProperties
  <2>3. Append(queue, c) # <<>> BY <2>1, <2>2
  <2>4. QED BY <2>1, <2>2, <2>3
<1>2. ASSUME queue # <<>>
      PROVE  /\ Head(queue) \in Codes /\ Head(queue) = queue[1] /\ 1 \in 1 .. Len(queue)
             /\ Tail(queue) \in Seq(Codes)
             /\ \A i \in 1 .. Len(Tail(queue)) :
                   i + 1 \in 1 .. Len(queue) /\ Tail(queue)[i] = queue[i + 1]
  <2>1. /\ Head(queue) \in Codes /\ Tail(queue) \in Seq(Codes)
        /\ Len(Tail(queue)) = Len(queue) - 1
        /\ \A i \in 1 .. Len(Tail(queue)) : Tail(queue)[i] = queue[i + 1]
    BY <1>2, HeadTailProperties
  <2>2. Len(queue) \in Nat /\ Len(queue) # 0 BY <1>2, LenProperties, EmptySeq
  <2>3. Head(queue) = queue[1] BY <1>2
  <2>4. QED BY <2>1, <2>2, <2>3
<1>3. QED BY <1>1, <1>2

-----------------------------------------------------------------------------
(* Types, and the start in step.                                           *)

\* What steps that touch neither a semaphore nor main leave.
LEMMA InStepKept ==
    ASSUME InStep, UNCHANGED <<main, semaphores>>,
           \A t \in Threads : thread'[t].at = "off" <=> At(t, "off"),
           thread'["svc"].at = "args" <=> At("svc", "args"),
           thread'["svc"].at = "sem" <=> At("svc", "sem")
    PROVE  InStep'
BY DEF InStep, At, semaphores, Threads

LEMMA EndsTypes ==
    ASSUME TypeOK, ProcessEnds
    PROVE  (TypeOK /\ InStep)'
<1>1. TypeOK'
  BY DEF ProcessEnds, TypeOK, NoThread, Thread, Codes, Statuses
<1>2. InStep'
  BY DEF ProcessEnds, InStep, At, NoThread, Threads
<1>3. QED BY <1>1, <1>2

LEMMA OutsideTypes ==
    ASSUME TypeOK, InStep,
           \/ Install \/ Uninstall \/ Start
           \/ ConsoleRun \/ ConsoleRefused \/ ConsoleStarts
    PROVE  (TypeOK /\ InStep)'
<1>1. CASE UNCHANGED process
  <2>1. installed' \in {"no", "yes", "deleting"} /\ scm' \in Statuses
        /\ console' \in {"none", "dispatching", "refused"}
    BY <1>1 DEF TypeOK, Install, Uninstall, Start, StartService, ConsoleRun,
                ConsoleRefused, ConsoleStarts, Statuses, process
  <2>2. TypeOK' BY <1>1, <2>1 DEF TypeOK, process, semaphores, events
  <2>3. InStep' BY <1>1 DEF InStep, At, process, semaphores
  <2>4. QED BY <2>2, <2>3
<1>2. CASE StartService /\ console' \in {"none", "dispatching", "refused"}
  <2>1. main = "none" /\ main' = "acquire" /\ UNCHANGED <<semaphores, thread>>
    BY <1>2 DEF StartService
  <2>2. TypeOK'
    BY <1>2 DEF StartService, sysInit, TypeOK, Statuses, semaphores
  <2>3. InStep' BY <2>1 DEF InStep, At, semaphores
  <2>4. QED BY <2>2, <2>3
<1>3. QED
  BY <1>1, <1>2 DEF Install, Uninstall, Start, ConsoleRun, ConsoleRefused,
                    ConsoleStarts, TypeOK, process

LEMMA ScmTypes ==
    ASSUME TypeOK, InStep,
           (\E c \in Controls : Control(c)) \/ Dispatch \/ ServiceMain \/ Register
    PROVE  (TypeOK /\ InStep)'
<1>0. "svc" \in Threads /\ "ctl" \in Threads BY DEF Threads
<1>1. ASSUME NEW c \in Controls, Control(c) PROVE (TypeOK /\ InStep)'
  <2>1. thread' = [thread EXCEPT !["ctl"].at = "lock", !["ctl"].code = c]
    BY <1>1 DEF Control
  <2>2. thread' \in [Threads -> Thread] /\ thread'["svc"] = thread["svc"]
        /\ thread'["ctl"].at = "lock"
    BY <1>0, <2>1 DEF TypeOK, Thread, Codes
  <2>3. TypeOK' BY <1>1, <2>2 DEF Control, TypeOK, semaphores, events
  <2>4. At("ctl", "idle") /\ UNCHANGED <<main, semaphores>> BY <1>1 DEF Control
  <2>5. InStep' BY <2>2, <2>4, InStepKept DEF At, Threads
  <2>6. QED BY <2>3, <2>5
<1>2. CASE Dispatch
  <2>1. thread' = [thread EXCEPT !["ctl"].at = "idle", !["svc"].at = "args"]
        /\ main # "none" /\ At("ctl", "off") /\ UNCHANGED <<main, semaphores>>
    BY <1>2 DEF Dispatch
  <2>2. thread' \in [Threads -> Thread] /\ thread'["svc"].at = "args"
        /\ thread'["ctl"].at = "idle"
    BY <1>0, <2>1 DEF TypeOK, Thread
  <2>3. TypeOK' BY <1>2, <2>2 DEF Dispatch, TypeOK, semaphores, events
  <2>4. InStep' BY <2>1, <2>2 DEF InStep, At, semaphores
  <2>5. QED BY <2>3, <2>4
<1>3. CASE ServiceMain
  <2>1. /\ At("svc", "args") /\ Goes("svc", "sem") /\ UNCHANGED main
        /\ startSemaphore' = startSemaphore + 1 /\ UNCHANGED startSemaphore2
    BY <1>3 DEF ServiceMain
  <2>2. thread' \in [Threads -> Thread] /\ thread'["svc"].at = "sem"
        /\ thread'["ctl"] = thread["ctl"]
    BY <1>0, <2>1, GoesMoves DEF TypeOK
  <2>3. startSemaphore = 0 /\ main = "acquire"
    BY <2>1 DEF InStep, At, TypeOK
  <2>4. TypeOK' BY <1>3, <2>1, <2>2, <2>3 DEF ServiceMain, TypeOK, events
  <2>5. InStep' BY <2>1, <2>2, <2>3 DEF InStep, At
  <2>6. QED BY <2>4, <2>5
<1>4. CASE Register
  <2>1. /\ thread' = [thread EXCEPT !["svc"].at = "lock", !["svc"].code = "STARTUP"]
        /\ At("svc", "sem") /\ startSemaphore2 > 0 /\ UNCHANGED <<main, startSemaphore>>
        /\ startSemaphore2' = startSemaphore2 - 1
    BY <1>4 DEF Register
  <2>2. thread' \in [Threads -> Thread] /\ thread'["svc"].at = "lock"
        /\ thread'["ctl"] = thread["ctl"]
    BY <1>0, <2>1 DEF TypeOK, Thread, Codes
  <2>3. startSemaphore2' \in 0 .. 1 BY <2>1 DEF TypeOK
  <2>4. TypeOK' BY <1>4, <2>2, <2>3 DEF Register, TypeOK, events
  <2>5. main \notin {"none", "acquire", "create"} /\ startSemaphore2 = 1
    BY <2>1 DEF InStep, TypeOK, At
  <2>6. InStep' BY <2>1, <2>2, <2>5 DEF InStep, At
  <2>7. QED BY <2>4, <2>6
<1>5. QED BY <1>1, <1>2, <1>3, <1>4

LEMMA HandlerTypes ==
    ASSUME TypeOK, InStep, NEW t \in Threads, ThreadSteps(t)
    PROVE  (TypeOK /\ InStep)'
<1>0. /\ thread \in [Threads -> Thread] /\ queue \in Seq(Codes) /\ scm \in Statuses
      /\ status \in Statuses /\ thread[t].code \in Codes /\ thread[t].seen \in Statuses
  BY DEF TypeOK, Thread
<1>1. /\ UNCHANGED <<main, semaphores, installed, console, service>>
      /\ thread[t].at \notin {"off", "args", "sem"}
  BY DEF ThreadSteps, Handler, Wait, Woken, Report, Deliver, At
<1>2. /\ thread' \in [Threads -> Thread] /\ thread'[t].at \notin {"off", "args", "sem"}
      /\ \A u \in Threads : u # t => thread'[u] = thread[u]
  <2>1. CASE Handler(t) \/ Wait(t) \/ Woken(t)
    BY <1>0, <2>1, GoesMoves DEF Handler, Wait, Woken
  <2>2. CASE Report(t)
    <3>1. CASE thread' = Returned(t) BY <1>0, <3>1, ReturnedMoves
    <3>2. CASE thread' = [thread EXCEPT ![t].at = "deliver", ![t].seen = status]
      BY <1>0, <3>2 DEF Thread
    <3>3. QED BY <2>2, <3>1, <3>2 DEF Report
  <2>3. CASE Deliver(t) BY <1>0, <2>3, ReturnedMoves DEF Deliver
  <2>4. QED BY <2>1, <2>2, <2>3 DEF ThreadSteps
<1>3. InStep' BY <1>1, <1>2, InStepKept DEF At, Threads
<1>4. mutex' \in Threads \cup {"none"}
  BY DEF ThreadSteps, Handler, Wait, Woken, Report, Deliver, events, TypeOK
<1>5. queue' \in Seq(Codes)
  <2>1. \A c \in Codes : Append(queue, c) \in Seq(Codes) BY <1>0, QueueSteps
  <2>2. "STOP" \in Codes BY DEF Codes, Controls
  <2>3. QED
    BY <1>0, <2>1, <2>2 DEF ThreadSteps, Handler, Wait, Woken, Report, Deliver, events
<1>6. status' \in Statuses /\ scm' \in Statuses
  <2>1. \A c \in DOMAIN Pending : Pending[c] \in Statuses BY Values
  <2>0. \A c \in DOMAIN Final : Final[c] \in Statuses BY Values
  <2>2. CASE Handler(t)
    BY <1>0, <2>1, <2>2 DEF Handler, events, setStatus, Tell
  <2>3. CASE Wait(t) BY <1>0, <2>3 DEF Wait
  <2>4. CASE Woken(t) BY <1>0, <2>0, <2>4 DEF Woken, setStatus, Tell
  <2>5. CASE Report(t) BY <1>0, <2>5 DEF Report, events
  <2>6. CASE Deliver(t) BY <1>0, <2>6 DEF Deliver, events, Tell
  <2>7. QED BY <2>2, <2>3, <2>4, <2>5, <2>6 DEF ThreadSteps
<1>7. TypeOK' BY <1>1, <1>2, <1>4, <1>5, <1>6 DEF TypeOK, semaphores
<1>8. QED BY <1>3, <1>7

LEMMA MainTypes ==
    ASSUME TypeOK, InStep, MainSteps \/ GiveUp
    PROVE  (TypeOK /\ InStep)'
<1>1. CASE Acquire \/ CreateApplication
  <2>1. TypeOK' BY <1>1 DEF Acquire, CreateApplication, TypeOK, InStep, events
  <2>2. InStep' BY <1>1 DEF Acquire, CreateApplication, TypeOK, InStep, At
  <2>3. QED BY <2>1, <2>2
<1>2. CASE HandleEvent
  <2>1. queue' \in Seq(Codes) BY <1>2, QueueSteps DEF HandleEvent, TypeOK
  <2>2. service' \in {"new", "started", "stopped"} BY <1>2 DEF HandleEvent, TypeOK
  <2>3. TypeOK' BY <1>2, <2>1, <2>2 DEF HandleEvent, TypeOK, semaphores
  <2>4. InStep' BY <1>2 DEF HandleEvent, InStep, At, semaphores
  <2>5. QED BY <2>3, <2>4
<1>3. CASE WakeAll
  <2>1. PICK next \in {"quit", "exec"} : Wakes(next) /\ main = "wake"
    BY <1>3 DEF WakeAll
  <2>2. thread' \in [Threads -> Thread] BY <2>1, WakesMoves DEF TypeOK
  <2>3. TypeOK' BY <2>1, <2>2 DEF Wakes, TypeOK, semaphores, events
  <2>4. \A t \in Threads : \A x \in {"off", "args", "sem"} : thread'[t].at = x <=> At(t, x)
    BY <2>1, WakesMoves DEF TypeOK, At
  <2>5. main' = next /\ UNCHANGED semaphores BY <2>1 DEF Wakes
  <2>6. InStep' BY <2>1, <2>4, <2>5 DEF InStep, At, semaphores, Threads
  <2>7. QED BY <2>3, <2>6
<1>4. CASE Stopped
  <2>1. TypeOK' BY <1>4 DEF Stopped, setStatus, Tell, TypeOK, Statuses, semaphores
  <2>2. InStep' BY <1>4 DEF Stopped, InStep, At, semaphores
  <2>3. QED BY <2>1, <2>2
<1>5. CASE ProcessEnds BY <1>5, EndsTypes
<1>6. QED BY <1>1, <1>2, <1>3, <1>4, <1>5 DEF MainSteps, GiveUp, SecondStop, Exit

LEMMA InitTypes == Init => TypeOK /\ InStep
<1> SUFFICES ASSUME Init PROVE TypeOK /\ InStep
  OBVIOUS
<1>1. TypeOK BY DEF Init, TypeOK, NoThread, Thread, Codes, Statuses
<1>2. InStep BY DEF Init, InStep, At, NoThread, Threads
<1>3. QED BY <1>1, <1>2

LEMMA NextTypes == TypeOK /\ InStep /\ [Next]_vars => (TypeOK /\ InStep)'
<1> SUFFICES ASSUME TypeOK, InStep, [Next]_vars PROVE (TypeOK /\ InStep)'
  OBVIOUS
<1>1. CASE UNCHANGED vars
  <2>1. TypeOK' BY <1>1 DEF vars, process, semaphores, events, TypeOK
  <2>2. InStep' BY <1>1 DEF vars, process, semaphores, events, InStep, At
  <2>3. QED BY <2>1, <2>2
<1>2. QED
  BY <1>1, OutsideTypes, ScmTypes, HandlerTypes, MainTypes DEF Next
\* Types, however the threads interleave: no semaphore is released twice.
THEOREM ServiceTypes == Spec => []TypeOK
BY InitTypes, NextTypes, PTL DEF Spec

-----------------------------------------------------------------------------
(* A handler that waits is woken.                                          *)

LEMMA ServedStep == TypeOK /\ InStep /\ Served /\ [Next]_vars => Served'
<1> SUFFICES ASSUME TypeOK, InStep, Served, [Next]_vars PROVE Served'
  OBVIOUS
<1>0. /\ thread \in [Threads -> Thread] /\ queue \in Seq(Codes)
      /\ "svc" \in Threads /\ "ctl" \in Threads /\ "none" \notin Threads
  BY DEF TypeOK, Threads
<1>1. CASE ProcessEnds BY <1>1 DEF ProcessEnds, Served, At, NoThread, Threads
<1>2. CASE /\ UNCHANGED <<queue, mutex>> /\ (main = "wake" => main' = "wake")
           /\ \A t \in Threads : \A x \in {"posted", "waiting"} :
                 thread'[t].at = x <=> At(t, x)
  BY <1>2 DEF Served, At
<1>3. ASSUME NEW c \in Controls, Control(c) PROVE Served'
  <2>1. thread' = [thread EXCEPT !["ctl"].at = "lock", !["ctl"].code = c] /\ At("ctl", "idle")
    BY <1>3 DEF Control
  <2>2. thread'["svc"] = thread["svc"] /\ thread'["ctl"].at = "lock"
    BY <1>0, <2>1 DEF Thread
  <2>3. \A t \in Threads : \A x \in {"posted", "waiting"} : thread'[t].at = x <=> At(t, x)
    BY <2>1, <2>2 DEF At, Threads
  <2>4. UNCHANGED <<queue, mutex, main>> BY <1>3 DEF Control, events
  <2>5. QED BY <1>2, <2>3, <2>4
<1>4. CASE Dispatch \/ ServiceMain \/ Register
  <2>1. /\ UNCHANGED <<queue, mutex, main>>
        /\ \A t \in Threads : thread[t].at \notin {"posted", "waiting"} \/ thread'[t] = thread[t]
        /\ \A t \in Threads : thread'[t].at \notin {"posted", "waiting"} \/ thread'[t] = thread[t]
    <3>1. CASE Dispatch
      <4>1. At("ctl", "off") /\ At("svc", "off") BY <3>1 DEF Dispatch, InStep
      <4>2. thread' = [thread EXCEPT !["ctl"].at = "idle", !["svc"].at = "args"]
        BY <3>1 DEF Dispatch
      <4>3. thread'["ctl"].at = "idle" /\ thread'["svc"].at = "args"
        BY <1>0, <4>2 DEF Thread
      <4>4. UNCHANGED <<queue, mutex, main>> BY <3>1 DEF Dispatch, events
      <4>5. QED BY <4>1, <4>3, <4>4 DEF At, Threads
    <3>2. CASE ServiceMain
      BY <1>0, <3>2, GoesMoves DEF ServiceMain, Thread, At, events
    <3>3. CASE Register
      BY <1>0, <3>3 DEF Register, Thread, At, events
    <3>4. QED BY <1>4, <3>1, <3>2, <3>3
  <2>2. QED BY <1>2, <2>1 DEF At
<1>5. ASSUME NEW t \in Threads, Handler(t) PROVE Served'
  <2>1. CASE thread[t].code = "INTERROGATE"
    <3>1. Goes(t, "report") /\ At(t, "lock") /\ UNCHANGED <<queue, mutex, main>>
      BY <1>5, <2>1 DEF Handler, events
    <3>2. QED BY <1>0, <1>2, <3>1, GoesMoves DEF At
  <2>2. CASE thread[t].code # "INTERROGATE"
    <3>1. /\ Goes(t, "posted") /\ At(t, "lock") /\ mutex = "none" /\ mutex' = t
          /\ queue' = Append(queue, IF thread[t].code = "SHUTDOWN" THEN "STOP"
                                    ELSE thread[t].code)
      BY <1>5, <2>2 DEF Handler
    <3>2. queue' # <<>>
      BY <1>0, <3>1, QueueSteps DEF Thread, Codes, Controls
    <3>3. /\ thread'[t].at = "posted"
          /\ \A u \in Threads : u # t => thread'[u] = thread[u]
      BY <1>0, <3>1, GoesMoves
    <3>4. QED BY <1>0, <3>1, <3>2, <3>3 DEF Served, At
  <2>3. QED BY <2>1, <2>2
<1>6. ASSUME NEW t \in Threads, Wait(t) PROVE Served'
  <2>1. /\ thread'[t].at = "waiting" /\ At(t, "posted") /\ mutex' = "none"
        /\ \A u \in Threads : u # t => thread'[u] = thread[u]
        /\ UNCHANGED <<queue, main>>
    BY <1>0, <1>6, GoesMoves DEF Wait
  <2>2. QED BY <1>0, <2>1 DEF Served, At
<1>7. ASSUME NEW t \in Threads, Woken(t) \/ Report(t) \/ Deliver(t) PROVE Served'
  <2>1. /\ thread[t].at \notin {"posted", "waiting"} /\ UNCHANGED <<queue, mutex, main>>
    BY <1>7 DEF Woken, Report, Deliver, At, events
  <2>2. /\ thread'[t].at \notin {"posted", "waiting"}
        /\ \A u \in Threads : u # t => thread'[u] = thread[u]
    <3>1. CASE Goes(t, "report") BY <1>0, <3>1, GoesMoves
    <3>2. CASE thread' = Returned(t) BY <1>0, <3>2, ReturnedMoves
    <3>3. CASE thread' = [thread EXCEPT ![t].at = "deliver", ![t].seen = status]
      BY <1>0, <3>3 DEF Thread
    <3>4. QED BY <1>7, <3>1, <3>2, <3>3 DEF Woken, Report, Deliver
  <2>3. QED BY <1>2, <2>1, <2>2 DEF At
<1>8. CASE HandleEvent
  <2>1. main' = "wake" /\ UNCHANGED <<mutex, thread>> BY <1>8 DEF HandleEvent
  <2>2. QED BY <2>1 DEF Served, At
<1>9. CASE WakeAll
  <2>1. PICK next : Wakes(next) BY <1>9 DEF WakeAll
  <2>2. mutex = "none" /\ UNCHANGED mutex BY <1>9, <2>1 DEF WakeAll, Wakes, events
  <2>3. \A t \in Threads : thread'[t].at \notin {"posted", "waiting"}
    BY <1>0, <2>1, <2>2, WakesMoves DEF Served, At
  <2>4. QED BY <1>0, <2>2, <2>3 DEF Served, At
<1>10. CASE UNCHANGED <<queue, mutex, thread>> /\ (main = "wake" => main' = "wake")
  BY <1>2, <1>10 DEF At
<1>11. CASE UNCHANGED process BY <1>10, <1>11 DEF process, events
<1>12. CASE Install \/ Uninstall \/ ConsoleRun \/ ConsoleRefused
  BY <1>11, <1>12 DEF Install, Uninstall, ConsoleRun, ConsoleRefused
<1>13. CASE StartService BY <1>10, <1>13 DEF StartService
<1>14. CASE Start \/ ConsoleStarts
  BY <1>11, <1>13, <1>14 DEF Start, ConsoleStarts, process
<1>15. CASE Acquire \/ CreateApplication \/ Stopped
  BY <1>10, <1>15 DEF Acquire, CreateApplication, Stopped, events
<1>16. CASE UNCHANGED vars BY <1>11, <1>16 DEF vars
<1>17. QED
  BY <1>1, <1>3, <1>4, <1>5, <1>6, <1>7, <1>8, <1>9, <1>12, <1>14, <1>15, <1>16
     DEF Next, ThreadSteps, MainSteps, SecondStop, Exit, GiveUp

\* condition.wait tests no condition, and yet no wake-up is lost, however many
\* controls the service manager lets through.
THEOREM WaitersAreServed == Spec => []WaiterIsServed
<1>1. Init => Served BY DEF Init, Served, At, NoThread, Threads
<1>2. Served => WaiterIsServed BY DEF Served, WaiterIsServed
<1>3. QED BY <1>1, <1>2, InitTypes, NextTypes, ServedStep, PTL DEF Spec

-----------------------------------------------------------------------------
(* Running is said of a service that runs.                                 *)

\* Steps that report nothing new.
LEMMA ReportedKept ==
    ASSUME Reported, UNCHANGED service, scm' = scm \/ scm' \notin Up,
           status' = status \/ status' \notin Up, main' # "wake" \/ UNCHANGED main,
           UNCHANGED <<queue, thread>>
    PROVE  Reported'
BY DEF Reported, At

LEMMA ReportedThreads ==
    ASSUME TypeOK, Reported, NEW t \in Threads, ThreadSteps(t)
    PROVE  Reported'
<1> SUFFICES ASSUME service = "new" PROVE Reported'
  BY DEF Reported, ThreadSteps, Handler, Wait, Woken, Report, Deliver
<1>0. /\ thread \in [Threads -> Thread] /\ queue \in Seq(Codes) /\ thread[t].code \in Codes
      /\ UNCHANGED <<service, main>>
  BY DEF TypeOK, Thread, ThreadSteps, Handler, Wait, Woken, Report, Deliver
<1>1. /\ scm \notin Up /\ status \notin Up /\ main # "wake"
      /\ \A i \in 1 .. Len(queue) : queue[i] \in {"STARTUP", "STOP"}
      /\ ~At(t, "woken")
      /\ At(t, "lock") => thread[t].code \notin Running
      /\ At(t, "deliver") => thread[t].seen \notin Up
  BY DEF Reported
<1>2. SUFFICES
        /\ scm' \notin Up /\ status' \notin Up
        /\ \A i \in 1 .. Len(queue') : queue'[i] \in {"STARTUP", "STOP"}
        /\ thread'[t].at \notin {"lock", "woken"}
        /\ thread'[t].at = "deliver" => thread'[t].seen \notin Up
        /\ \A u \in Threads : u # t => thread'[u] = thread[u]
  BY <1>0, <1>1 DEF Reported, At
<1>3. CASE Handler(t)
  <2>1. CASE thread[t].code = "INTERROGATE"
    BY <1>0, <1>1, <1>3, <2>1, GoesMoves DEF Handler, events
  <2>2. CASE thread[t].code # "INTERROGATE"
    <3> DEFINE c == IF thread[t].code = "SHUTDOWN" THEN "STOP" ELSE thread[t].code
    <3>1. Goes(t, "posted") /\ At(t, "lock") /\ queue' = Append(queue, c)
      BY <1>3, <2>2 DEF Handler
    <3>2. c \in {"STARTUP", "STOP"} /\ c \in Codes
      BY <1>0, <1>1, <2>2, <3>1 DEF Codes, Controls, Running, At
    <3> HIDE DEF c
    <3>3. \A i \in 1 .. Len(queue') : queue'[i] \in {"STARTUP", "STOP"}
      BY <1>0, <1>1, <3>1, <3>2, QueueSteps
    <3>4. scm' \notin Up /\ status' \notin Up
      BY <1>1, <1>3, <2>2, Values DEF Handler, setStatus, Tell, Up
    <3>5. QED BY <1>0, <3>1, <3>3, <3>4, GoesMoves
  <2>3. QED BY <2>1, <2>2
<1>4. CASE Wait(t) BY <1>0, <1>1, <1>4, GoesMoves DEF Wait
<1>5. CASE Woken(t) BY <1>1, <1>5 DEF Woken
<1>6. CASE Report(t)
  <2>1. UNCHANGED <<scm, status, queue>> BY <1>6 DEF Report, events
  <2>2. CASE thread' = Returned(t) BY <1>0, <1>1, <2>1, <2>2, ReturnedMoves
  <2>3. CASE thread' = [thread EXCEPT ![t].at = "deliver", ![t].seen = status]
    <3>1. /\ thread'[t].at = "deliver" /\ thread'[t].seen = status
          /\ \A u \in Threads : u # t => thread'[u] = thread[u]
      BY <1>0, <2>3 DEF Thread
    <3>2. QED BY <1>1, <2>1, <3>1
  <2>4. QED BY <1>6, <2>2, <2>3 DEF Report
<1>7. CASE Deliver(t)
  BY <1>0, <1>1, <1>7, ReturnedMoves DEF Deliver, Tell, events
<1>8. QED BY <1>3, <1>4, <1>5, <1>6, <1>7 DEF ThreadSteps

LEMMA ReportedStep == TypeOK /\ InStep /\ Reported /\ [Next]_vars => Reported'
<1> SUFFICES ASSUME TypeOK, InStep, Reported, [Next]_vars PROVE Reported'
  OBVIOUS
<1>0. /\ thread \in [Threads -> Thread] /\ queue \in Seq(Codes)
      /\ "svc" \in Threads /\ "ctl" \in Threads
  BY DEF TypeOK, Threads
<1>1. CASE ProcessEnds BY <1>1 DEF ProcessEnds, Reported, At, NoThread, Threads, Up
<1>2. CASE \/ Install \/ Uninstall \/ Start \/ ConsoleRun \/ ConsoleRefused \/ ConsoleStarts
  BY <1>2, ReportedKept
     DEF Install, Uninstall, Start, StartService, sysInit, ConsoleRun, ConsoleRefused,
         ConsoleStarts, process, events, Up
<1>3. ASSUME NEW c \in Controls, Control(c) PROVE Reported'
  <2>1. /\ thread' = [thread EXCEPT !["ctl"].at = "lock", !["ctl"].code = c] /\ Accepts(c)
        /\ UNCHANGED <<scm, status, main, queue, service>>
    BY <1>3 DEF Control, events
  <2>2. /\ thread'["svc"] = thread["svc"] /\ thread'["ctl"].at = "lock"
        /\ thread'["ctl"].code = c
    BY <1>0, <2>1 DEF Thread
  <2>3. scm \notin Up => c \notin Running
    BY <2>1 DEF Accepts, Up, Running
  <2>4. QED BY <2>1, <2>2, <2>3 DEF Reported, At, Threads
<1>4. CASE Dispatch
  <2>1. /\ thread' = [thread EXCEPT !["ctl"].at = "idle", !["svc"].at = "args"]
        /\ UNCHANGED <<scm, status, main, queue, service>>
    BY <1>4 DEF Dispatch, events
  <2>2. thread'["ctl"].at = "idle" /\ thread'["svc"].at = "args"
    BY <1>0, <2>1 DEF Thread
  <2>3. QED BY <2>1, <2>2 DEF Reported, At, Threads
<1>5. CASE ServiceMain
  <2>1. Goes("svc", "sem") /\ UNCHANGED <<scm, status, main, queue, service>>
    BY <1>5 DEF ServiceMain, events
  <2>2. thread'["ctl"] = thread["ctl"] /\ thread'["svc"].at = "sem"
    BY <1>0, <2>1, GoesMoves
  <2>3. QED BY <2>1, <2>2 DEF Reported, At, Threads
<1>6. CASE Register
  <2>1. /\ thread' = [thread EXCEPT !["svc"].at = "lock", !["svc"].code = "STARTUP"]
        /\ UNCHANGED <<scm, status, main, queue, service>>
    BY <1>6 DEF Register, events
  <2>2. /\ thread'["ctl"] = thread["ctl"] /\ thread'["svc"].at = "lock"
        /\ thread'["svc"].code = "STARTUP"
    BY <1>0, <2>1 DEF Thread
  <2>3. QED BY <2>1, <2>2 DEF Reported, At, Threads, Running
<1>7. CASE Acquire \/ CreateApplication
  BY <1>7, ReportedKept DEF Acquire, CreateApplication, events
<1>8. CASE HandleEvent
  <2>1. service # "new" => service' # "new" BY <1>8 DEF HandleEvent, TypeOK
  <2>2. service = "new" => service' # "new"
    <3>1. queue # <<>> /\ Head(queue) = queue[1] /\ 1 \in 1 .. Len(queue)
      BY <1>0, <1>8, QueueSteps DEF HandleEvent
    <3>2. service = "new" => Head(queue) \in {"STARTUP", "STOP"} BY <3>1 DEF Reported
    <3>3. QED BY <1>8, <3>2 DEF HandleEvent
  <2>3. QED BY <2>1, <2>2 DEF Reported
<1>9. CASE WakeAll BY <1>9 DEF WakeAll, Wakes, Reported
<1>10. CASE Stopped
  BY <1>10, ReportedKept DEF Stopped, setStatus, Tell, Up
<1>11. CASE UNCHANGED vars BY <1>11, ReportedKept DEF vars, process, events
<1>12. QED
  BY <1>1, <1>2, <1>3, <1>4, <1>5, <1>6, <1>7, <1>8, <1>9, <1>10, <1>11, ReportedThreads
     DEF Next, MainSteps, SecondStop, Exit, GiveUp

\* The service manager is told of a running service only when its start has
\* returned, although the second report is made without the mutex.
THEOREM RunningMeansStarted == Spec => []RunningIsStarted
<1>1. Init => Reported BY DEF Init, Reported, At, NoThread, Threads, Up
<1>2. Reported => RunningIsStarted BY DEF Reported, RunningIsStarted, Up
<1>3. QED BY <1>1, <1>2, InitTypes, NextTypes, ReportedStep, PTL DEF Spec
=============================================================================
