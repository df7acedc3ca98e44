------------------------ MODULE ServiceControl_proofs ------------------------
(***************************************************************************)
(* Theorems about ServiceControl.                                          *)
(*                                                                         *)
(* That the service which answers on the control socket, if it listens for *)
(* the GUIs, is the one they reach is not inductive: Start and Terminate   *)
(* of another process would break it.  They do not come because            *)
(*   - at most one process is being started, and none while the job is     *)
(*     asking (OneStarter);                                                *)
(*   - commands wait only at the process the name leads to, and at no      *)
(*     other once the name is about to move (StopsAtPath, QuietStart).     *)
(***************************************************************************)
EXTENDS ServiceControl, TLAPS

Starting(p) == proc[p] \in {"made", "listening"}

OneStarter ==
    /\ \A p, q \in Procs : Starting(p) /\ Starting(q) => p = q
    /\ \A p \in Procs : Starting(p) => job.at = "off"

\* Only its starter moves the name; a late close may have removed it, and where its
\* listen() failed the name leads to nobody who listens.
NameOfStarter == \A p \in Procs : proc[p] = "listening" /\ Listens => path = p

StopsAtPath ==
    \A p \in Procs : stops[p] > 0 => path \in {p, None} /\ Open(p)

\* While the job asks, whoever stops is the one it asks; accepted connections outlive
\* the name.
JobOfPath ==
    /\ job.at # "off" =>
          \A p \in Procs : /\ stops[p] > 0 => path = p
                           /\ proc[p] = "stopped" => path = p
                           /\ proc[p] = "closed" => path = None
    /\ job.at = "asked" => \/ path = job.to
                           \/ path = None /\ proc[job.to] = "closed"
    /\ job.at # "asked" => job.to = None

\* Nobody is listening and nobody is being stopped when a process is made.
QuietStart ==
    (job.at = "start" \/ \E p \in Procs : proc[p] = "made") =>
        ~Listens /\ \A p \in Procs : stops[p] = 0

IInv ==
    /\ TypeOK
    /\ OneStarter /\ NameOfStarter /\ StopsAtPath /\ JobOfPath /\ QuietStart
    /\ AliveIsReachable

LEMMA InitIInv == Init => IInv
<1> SUFFICES ASSUME Init PROVE IInv
  OBVIOUS
<1> USE ControlAssumption DEF Init, Idle
<1>1. TypeOK BY DEF TypeOK, Open, Reaches
<1>2. OneStarter /\ NameOfStarter /\ StopsAtPath
  BY DEF OneStarter, NameOfStarter, StopsAtPath, Starting, Listens
<1>3. JobOfPath /\ QuietStart BY DEF JobOfPath, QuietStart, Listens
<1>4. AliveIsReachable BY DEF AliveIsReachable, Listens
<1>5. QED BY <1>1, <1>2, <1>3, <1>4 DEF IInv

LEMMA TypeStep == TypeOK /\ [Next]_vars => TypeOK'
<1> SUFFICES ASSUME TypeOK, [Next]_vars PROVE TypeOK'
  OBVIOUS
<1> USE ControlAssumption DEF TypeOK, Open, Reaches
<1>1. CASE JobSteps
  BY <1>1 DEF JobSteps, Launch, Probe, StartDetached, Listens, Idle
<1>2. CASE SendTerminate BY <1>2 DEF SendTerminate, Listens
<1>3. CASE install \/ uninstall BY <1>3 DEF install, uninstall
<1>4. ASSUME NEW p \in Procs, Steps(p) \/ Crash(p) PROVE TypeOK'
  <2>1. CASE Alive(p) BY <2>1 DEF Alive, Idle
  <2>2. CASE Listen(p) BY <2>2 DEF Listen, setPath
  <2>3. CASE Start(p) BY <2>3 DEF Start
  <2>4. CASE Terminate(p) BY <2>4 DEF Terminate, StopListening
  <2>5. CASE SecondTerminate(p) \/ Crash(p)
    BY <2>5 DEF SecondTerminate, Crash, Dies
  <2>6. CASE Close(p) BY <2>6 DEF Close
  <2>7. CASE Unlink(p) BY <2>7 DEF Unlink
  <2>8. QED BY <1>4, <2>1, <2>2, <2>3, <2>4, <2>5, <2>6, <2>7 DEF Steps
<1>5. CASE UNCHANGED vars BY <1>5 DEF vars
<1>6. QED BY <1>1, <1>2, <1>3, <1>4, <1>5 DEF Next

LEMMA NextIInv == IInv /\ [Next]_vars => IInv'
<1> SUFFICES ASSUME IInv, [Next]_vars PROVE IInv'
  OBVIOUS
<1> USE ControlAssumption
    DEF IInv, OneStarter, NameOfStarter, StopsAtPath, JobOfPath, QuietStart,
        AliveIsReachable, Starting, Listens, Open, Reaches
<1>0. TypeOK' BY TypeStep
<1>1. CASE Launch BY <1>0, <1>1 DEF Launch, Settled, TypeOK
<1>2. CASE Probe BY <1>0, <1>2 DEF Probe, Idle, TypeOK
<1>3. ASSUME NEW p \in Procs, StartDetached(p) PROVE IInv'
  BY <1>0, <1>3 DEF StartDetached, Idle, TypeOK
<1>4. CASE SendTerminate BY <1>0, <1>4 DEF SendTerminate, TypeOK
<1>5. CASE install \/ uninstall BY <1>0, <1>5 DEF install, uninstall
<1>6. ASSUME NEW p \in Procs, Alive(p) PROVE IInv'
  BY <1>0, <1>6 DEF Alive, Idle, TypeOK
<1>7. ASSUME NEW p \in Procs, Listen(p) PROVE IInv'
  <2>4. OneStarter' BY <1>7, <1>0 DEF Listen, setPath, TypeOK
  <2>5. NameOfStarter' BY <1>7, <1>0 DEF Listen, setPath, TypeOK
  <2>6. StopsAtPath' BY <1>7, <1>0 DEF Listen, setPath, TypeOK
  <2>7. JobOfPath' BY <1>7, <1>0 DEF Listen, setPath, TypeOK
  <2>8. QuietStart' BY <1>7, <1>0 DEF Listen, setPath, TypeOK
  <2>9. AliveIsReachable' BY <1>7, <1>0 DEF Listen, setPath, TypeOK
  <2>10. QED BY <1>0, <2>4, <2>5, <2>6, <2>7, <2>8, <2>9
<1>8. ASSUME NEW p \in Procs, Start(p) PROVE IInv'
  <2>4. OneStarter' BY <1>8, <1>0 DEF Start, TypeOK
  <2>5. NameOfStarter' BY <1>8, <1>0 DEF Start, TypeOK
  <2>6. StopsAtPath' BY <1>8, <1>0 DEF Start, TypeOK
  <2>7. JobOfPath' BY <1>8, <1>0 DEF Start, TypeOK
  <2>8. QuietStart' BY <1>8, <1>0 DEF Start, TypeOK
  <2>9. AliveIsReachable' BY <1>8, <1>0 DEF Start, TypeOK
  <2>10. QED BY <1>0, <2>4, <2>5, <2>6, <2>7, <2>8, <2>9
<1>9. ASSUME NEW p \in Procs, Terminate(p) PROVE IInv'
  <2>4. OneStarter' BY <1>9, <1>0 DEF Terminate, StopListening, TypeOK
  <2>5. NameOfStarter' BY <1>9, <1>0 DEF Terminate, StopListening, TypeOK
  <2>6. StopsAtPath' BY <1>9, <1>0 DEF Terminate, StopListening, TypeOK
  <2>7. JobOfPath' BY <1>9, <1>0 DEF Terminate, StopListening, TypeOK
  <2>8. QuietStart' BY <1>9, <1>0 DEF Terminate, StopListening, TypeOK
  <2>9. AliveIsReachable' BY <1>9, <1>0 DEF Terminate, StopListening, TypeOK
  <2>10. QED BY <1>0, <2>4, <2>5, <2>6, <2>7, <2>8, <2>9
<1>10. ASSUME NEW p \in Procs, SecondTerminate(p) \/ Crash(p) PROVE IInv'
  <2>1. Dies(p) /\ proc[p] \in {"serving", "stopped"}
    BY <1>10 DEF SecondTerminate, Crash
  <2>4. OneStarter' BY <2>1, <1>0 DEF Dies, TypeOK
  <2>5. NameOfStarter' BY <2>1, <1>0 DEF Dies, TypeOK
  <2>6. StopsAtPath' BY <2>1, <1>0 DEF Dies, TypeOK
  <2>7. JobOfPath' BY <2>1, <1>0 DEF Dies, TypeOK
  <2>8. QuietStart' BY <2>1, <1>0 DEF Dies, TypeOK
  <2>9. AliveIsReachable' BY <2>1, <1>0 DEF Dies, TypeOK
  <2>10. QED BY <1>0, <2>4, <2>5, <2>6, <2>7, <2>8, <2>9
<1>11. ASSUME NEW p \in Procs, Close(p) PROVE IInv'
  <2>4. OneStarter' BY <1>11, <1>0 DEF Close, TypeOK
  <2>5. NameOfStarter' BY <1>11, <1>0 DEF Close, TypeOK
  <2>6. StopsAtPath' BY <1>11, <1>0 DEF Close, TypeOK
  <2>7. JobOfPath' BY <1>11, <1>0 DEF Close, TypeOK
  <2>8. QuietStart' BY <1>11, <1>0 DEF Close, TypeOK
  <2>9. AliveIsReachable' BY <1>11, <1>0 DEF Close, TypeOK
  <2>10. QED BY <1>0, <2>4, <2>5, <2>6, <2>7, <2>8, <2>9
<1>12. ASSUME NEW p \in Procs, Unlink(p) PROVE IInv'
  <2>4. OneStarter' BY <1>12, <1>0 DEF Unlink, TypeOK
  <2>5. NameOfStarter' BY <1>12, <1>0 DEF Unlink, TypeOK
  <2>6. StopsAtPath' BY <1>12, <1>0 DEF Unlink, TypeOK
  <2>7. JobOfPath' BY <1>12, <1>0 DEF Unlink, TypeOK
  <2>8. QuietStart' BY <1>12, <1>0 DEF Unlink, TypeOK
  <2>9. AliveIsReachable' BY <1>12, <1>0 DEF Unlink, TypeOK
  <2>10. QED BY <1>0, <2>4, <2>5, <2>6, <2>7, <2>8, <2>9
<1>13. CASE UNCHANGED vars BY <1>0, <1>13 DEF vars
<1>14. QED
  BY <1>1, <1>2, <1>3, <1>4, <1>5, <1>6, <1>7, <1>8, <1>9, <1>10, <1>11, <1>12,
     <1>13 DEF Next, JobSteps, Steps

\* What launchd's job, the names and the processes are, for any number of them.
THEOREM ControlTypes == Spec => []TypeOK
<1>1. Init => TypeOK BY InitIInv DEF IInv
<1>2. QED BY <1>1, TypeStep, PTL DEF Spec

\* A process that says on the control socket that it is alive is the one the GUIs
\* connect to, if its own listen() for them succeeded, so that start() may leave it
\* at "already running".
THEOREM AliveMeansReachable == Spec => []AliveIsReachable
<1>1. IInv => AliveIsReachable BY DEF IInv
<1>2. QED BY <1>1, InitIInv, NextIInv, PTL DEF Spec
=============================================================================
