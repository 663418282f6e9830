--------------------------- MODULE ServiceWrapper ---------------------------
(***************************************************************************)
(* The wrapper process of one service, systemd-exec.exe: CServiceBase      *)
(* (ServiceBase.cpp) and CWrapperService (service_exec.cpp).               *)
(*                                                                         *)
(* Three threads share one CWrapperService object:                         *)
(*   main  ServiceMain, which starts the service and waits to be stopped;  *)
(*   svc   ServiceThread, which runs the unit's commands and restarts them;*)
(*   ctl   the dispatcher thread, which runs the control handlers.         *)
(* None of them takes a lock, so each step below is the code between two   *)
(* accesses to something another thread can touch: m_status, the handle    *)
(* m_hServiceThread, the stop event, and the PROCESS_INFORMATION that      *)
(* StartProcess keeps in a static variable.                                *)
(***************************************************************************)
EXTENDS Integers, Sequences

CONSTANTS
  Units,        \* the unit files the wrapper may be started for
  Controls,     \* the controls an operator sends
  Faults,       \* the system calls that may fail, and "crash"
  MaxStarts,    \* bound: wrapper processes started for the service
  MaxRuns,      \* bound: iterations of the service thread's restart loop
  MaxControls   \* bound: controls delivered to one wrapper process

RestartAction == {"UNDEFINED", "NO", "ALWAYS", "ON_SUCCESS", "ON_FAILURE",
                  "ON_ABNORMAL", "ON_ABORT", "ON_WATCHDOG"}

(***************************************************************************)
(* What the constructor keeps of a unit.  pre: one entry per ExecStartPre, *)
(* TRUE when it has the '-' prefix (EXECFLAG_IGNORE_FAIL).  main, stop: it *)
(* has an ExecStart, an ExecStop.  post, stopPost: the number of           *)
(* ExecStartPost and ExecStopPost commands.  gated: it has conditions or   *)
(* ordering files.  deps: the SCM lists dependencies of the service.       *)
(***************************************************************************)
Unit == [pre: Seq(BOOLEAN), main: BOOLEAN, post: Nat, stop: BOOLEAN,
         stopPost: Nat, gated: BOOLEAN, deps: BOOLEAN, restart: RestartAction]

Control == {"STOP", "PAUSE", "CONTINUE", "SHUTDOWN"}
Fault   == {"createThread", "spawn", "scm", "crash"}

ASSUME UnitsAssumption  == Units \subseteq Unit /\ Units # {}
ASSUME EventsAssumption == Controls \subseteq Control /\ Faults \subseteq Fault
ASSUME BoundsAssumption == /\ MaxStarts \in Nat \ {0}
                           /\ MaxRuns \in Nat \ {0}
                           /\ MaxControls \in Nat

VARIABLES
  unit,       \* the members the constructor fills from the parameters
  wrapper,    \* the wrapper process: "running" or "exited"
  starts,     \* how many wrapper processes the SCM has started
  scm,        \* the state the SCM last heard of
  released,   \* the SCM has heard of SERVICE_STOPPED: the dispatcher returns
  queued,     \* a STOP the service sent to itself waits in the control pipe
  sent,       \* controls delivered to this wrapper process
  status,     \* m_status.dwCurrentState
  reporting,  \* per thread: m_status is written but not yet reported
  hThread,    \* m_hServiceThread
  doomed,     \* TerminateThread was called on the service thread
  stopEvent,  \* hSvcStopEvent
  mainPc,     \* the program counter of ServiceMain
  svc,        \* the service thread and its locals
  ctl,        \* the control handler and its locals
  pi,         \* hProcess of StartProcess's static processInformation
  call,       \* per thread: its activation of StartProcess
  procs,      \* every process launched so far, in launch order
  open,       \* the processes whose handle this wrapper holds
  early       \* history: a stop arrived before OnStart had finished

lifeVars   == <<unit, wrapper, starts>>
scmVars    == <<scm, released, queued, sent>>
statusVars == <<status, reporting>>
procVars   == <<pi, call, procs, open>>
vars == <<lifeVars, scmVars, statusVars, hThread, doomed, stopEvent, mainPc,
          svc, ctl, procVars, early>>

State == {"STOPPED", "START_PENDING", "STOP_PENDING", "RUNNING",
          "CONTINUE_PENDING", "PAUSE_PENDING", "PAUSED"}
Thread == {"main", "svc", "ctl"}
Caller == {"svc", "ctl"}      \* the threads that call StartProcess
NoProc == 0                   \* a zeroed PROCESS_INFORMATION

NoThread == [pc |-> "none", i |-> 1, thrown |-> 0, run |-> 1, h |-> NoProc]
IdleHandler == [pc |-> "idle", i |-> 1, original |-> "STOPPED"]
NoCall == [pc |-> "idle", h |-> NoProc, out |-> "ok"]

\* A thread of the running wrapper steps when its last status report is out.
Steps(t) == wrapper = "running" /\ ~reporting[t]

\* ServiceMain has not come past OnStart yet.
Starting == mainPc \in {"start", "onStart", "check", "create", "assign"}

\* The service thread has ended, or was never there.
ThreadGone == svc.pc \in {"none", "returned", "killed"} /\ ~reporting["svc"]
Exited(p) == procs[p].st # "running"

-----------------------------------------------------------------------------
(* CServiceBase::SetServiceStatus: fill m_status, then pass it to the SCM. *)
(* Between the two another thread may fill it with something else.         *)

SetServiceStatus(t, state) ==
  /\ status' = state
  /\ reporting' = [reporting EXCEPT ![t] = TRUE]

Report(t) ==
  /\ wrapper = "running"
  /\ reporting[t]
  /\ reporting' = [reporting EXCEPT ![t] = FALSE]
  /\ scm' = status
  /\ released' = (released \/ status = "STOPPED")
  /\ UNCHANGED <<lifeVars, queued, sent, status, hThread, doomed, stopEvent,
                 mainPc, svc, ctl, procVars, early>>

-----------------------------------------------------------------------------
(* ServiceMain: Start, OnStart, the stop event, the wait.                  *)

MainUnchanged == UNCHANGED <<lifeVars, scmVars, doomed, ctl, procVars, early>>

Start ==
  /\ Steps("main") /\ mainPc = "start"
  /\ SetServiceStatus("main", "START_PENDING")
  /\ mainPc' = "onStart"
  /\ MainUnchanged /\ UNCHANGED <<hThread, stopEvent, svc>>

OnStart ==
  /\ Steps("main") /\ mainPc = "onStart"
  /\ SetServiceStatus("main", "RUNNING")
  /\ mainPc' = "check"
  /\ MainUnchanged /\ UNCHANGED <<hThread, stopEvent, svc>>

OnStartCheck ==
  /\ Steps("main") /\ mainPc = "check"
  /\ mainPc' = IF hThread # "NULL" THEN "event" ELSE "create"
  /\ MainUnchanged /\ UNCHANGED <<statusVars, hThread, stopEvent, svc>>

\* CreateThread: the new thread can run before its handle is stored.
OnStartCreate ==
  /\ Steps("main") /\ mainPc = "create"
  /\ svc' = [svc EXCEPT !.pc = "check"]
  /\ mainPc' = "assign"
  /\ MainUnchanged /\ UNCHANGED <<statusVars, hThread, stopEvent>>

OnStartAssign ==
  /\ Steps("main") /\ mainPc = "assign"
  /\ hThread' = "thread"
  /\ mainPc' = "event"
  /\ MainUnchanged /\ UNCHANGED <<statusVars, stopEvent, svc>>

\* CreateThread fails: OnStart throws and Start reports SERVICE_STOPPED.
OnStartFails ==
  /\ "createThread" \in Faults
  /\ Steps("main") /\ mainPc = "create"
  /\ hThread' = "NULL"
  /\ SetServiceStatus("main", "STOPPED")
  /\ mainPc' = "event"
  /\ MainUnchanged /\ UNCHANGED <<stopEvent, svc>>

CreateStopEvent ==
  /\ Steps("main") /\ mainPc = "event"
  /\ stopEvent' = "reset"
  /\ mainPc' = "wait"
  /\ MainUnchanged /\ UNCHANGED <<statusVars, hThread, svc>>

ServiceMainReturns ==
  /\ Steps("main") /\ mainPc = "wait"
  /\ stopEvent = "set"
  /\ mainPc' = "returned"
  /\ MainUnchanged /\ UNCHANGED <<statusVars, hThread, stopEvent, svc>>

ServiceMain ==
  \/ Start \/ OnStart \/ OnStartCheck \/ OnStartCreate \/ OnStartAssign
  \/ OnStartFails \/ CreateStopEvent \/ ServiceMainReturns

-----------------------------------------------------------------------------
(* StartProcess.  Its processInformation is static: every read of pi below *)
(* sees whatever the last caller, of either thread, left there.            *)

CallUnchanged == UNCHANGED <<lifeVars, scmVars, statusVars, hThread, doomed,
                             stopEvent, mainPc, svc, ctl, early>>

\* The caller's part: memset(&processInformation, 0, ...).
CallStartProcess(t) ==
  /\ call[t].pc = "idle"
  /\ pi' = NoProc
  /\ call' = [call EXCEPT ![t].pc = "spawn"]
  /\ UNCHANGED <<procs, open>>

Command(t) == IF t = "svc" THEN svc.pc ELSE ctl.pc
Index(t)   == IF t = "svc" THEN svc.i ELSE ctl.i

\* CreateProcessW; only ExecStart is launched without waiting for it.
Spawn(t) ==
  /\ Steps(t) /\ call[t].pc = "spawn"
  /\ procs' = Append(procs, [cmd |-> Command(t), i |-> Index(t), run |-> svc.run,
                             start |-> starts, st |-> "running"])
  /\ pi' = Len(procs) + 1
  /\ open' = open \cup {Len(procs) + 1}
  /\ call' = [call EXCEPT ![t].pc = IF Command(t) = "main" THEN "done" ELSE "wait"]
  /\ CallUnchanged

SpawnFails(t) ==
  /\ "spawn" \in Faults
  /\ Steps(t) /\ call[t].pc = "spawn"
  /\ call' = [call EXCEPT ![t] = [@ EXCEPT !.pc = "done", !.out = "fail"]]
  /\ CallUnchanged /\ UNCHANGED <<pi, procs, open>>

\* WaitForSingleObject takes the handle that is in pi when it is called...
WaitForProcess(t) ==
  /\ Steps(t) /\ call[t].pc = "wait"
  /\ call' = [call EXCEPT ![t] = [@ EXCEPT !.pc = "exit", !.h = pi]]
  /\ CallUnchanged /\ UNCHANGED <<pi, procs, open>>

\* ...and GetExitCodeProcess, once the wait is over, the one there is by then.
\* A process that still runs has exit code STILL_ACTIVE, which is not zero; the
\* exit code stays 0 when the call fails.
GetExitCode(t) ==
  /\ Steps(t) /\ call[t].pc = "exit"
  /\ call[t].h \in open => Exited(call[t].h)
  /\ call' = [call EXCEPT ![t] =
       [@ EXCEPT !.pc = "close",
                 !.out = IF pi \notin open THEN "nocode"
                         ELSE IF procs[pi].st = "ok" THEN "ok" ELSE "fail"]]
  /\ CallUnchanged /\ UNCHANGED <<pi, procs, open>>

CloseProcess(t) ==
  /\ Steps(t) /\ call[t].pc = "close"
  /\ open' = open \ {pi}
  /\ call' = [call EXCEPT ![t].pc = "done"]
  /\ CallUnchanged /\ UNCHANGED <<pi, procs>>

StartProcess(t) ==
  \/ Spawn(t) \/ SpawnFails(t) \/ WaitForProcess(t) \/ GetExitCode(t) \/ CloseProcess(t)

\* The caller's part again: it has the result, or catches the exception.
Returned(t) == call[t].pc = "done"
EndCall(t) == call' = [call EXCEPT ![t] = NoCall] /\ UNCHANGED <<pi, procs, open>>
\* Mutant of ThrownBy: the exit code (STILL_ACTIVE, say) is thrown as it is.
ThrownAsIs(out) == IF out = "fail" THEN 259 ELSE 0
ThrownBy(out) == IF out = "fail" THEN 1 ELSE 0

-----------------------------------------------------------------------------
(* ServiceThread.  An exception leaves the body of the loop for the catch  *)
(* clause, which asks the restart policy whether to run the body again.    *)

SvcUnchanged == UNCHANGED <<lifeVars, scmVars, hThread, doomed, stopEvent, mainPc,
                            ctl, early>>
SvcAt(pc) == Steps("svc") /\ svc.pc = pc
Goto(pc)  == svc' = [svc EXCEPT !.pc = pc, !.i = 1]
Throw(code) == svc' = [svc EXCEPT !.pc = "catch", !.thrown = code]

\* A condition does not hold: the thread reports SERVICE_STOPPED and goes on.
ConditionFails ==
  /\ SvcAt("check") /\ unit.gated
  /\ SetServiceStatus("svc", "STOPPED")
  /\ Throw(1)
  /\ SvcUnchanged /\ UNCHANGED procVars

\* A file of Before= is there, or one of After= is not.
OrderingFileFails ==
  /\ SvcAt("check") /\ unit.gated
  /\ Throw(1)
  /\ SvcUnchanged /\ UNCHANGED <<statusVars, procVars>>

ChecksPass ==
  /\ SvcAt("check")
  /\ SetServiceStatus("svc", "START_PENDING")
  /\ Goto("after")
  /\ SvcUnchanged /\ UNCHANGED procVars

\* WaitForDependents(m_ServicesAfter) returns, after 500 polls at the latest.
AfterServices ==
  /\ SvcAt("after")
  /\ SetServiceStatus("svc", "RUNNING")
  /\ Goto("pre")
  /\ SvcUnchanged /\ UNCHANGED procVars

\* It returns false when the SCM cannot be asked.
AfterServicesFail ==
  /\ "scm" \in Faults
  /\ SvcAt("after") /\ Throw(1)
  /\ SvcUnchanged /\ UNCHANGED <<statusVars, procVars>>

RunPre ==
  /\ SvcAt("pre") /\ svc.i <= Len(unit.pre)
  /\ CallStartProcess("svc")
  /\ SvcUnchanged /\ UNCHANGED <<statusVars, svc>>

\* Mutant of PreReturns: the '-' prefix is read the wrong way round.
PreReturnsInverted ==
  /\ SvcAt("pre") /\ Returned("svc")
  /\ IF call["svc"].out = "ok" \/ ~unit.pre[svc.i]
       THEN svc' = [svc EXCEPT !.i = @ + 1]
       ELSE Throw(ThrownBy(call["svc"].out))
  /\ EndCall("svc")
  /\ SvcUnchanged /\ UNCHANGED statusVars

PreReturns ==
  /\ SvcAt("pre") /\ Returned("svc")
  /\ IF call["svc"].out = "ok" \/ unit.pre[svc.i]
       THEN svc' = [svc EXCEPT !.i = @ + 1]
       ELSE Throw(ThrownBy(call["svc"].out))
  /\ EndCall("svc")
  /\ SvcUnchanged /\ UNCHANGED statusVars

PreEnds ==
  /\ SvcAt("pre") /\ svc.i > Len(unit.pre)
  /\ SetServiceStatus("svc", "RUNNING")
  /\ Goto("main")
  /\ SvcUnchanged /\ UNCHANGED procVars

NoMain ==
  /\ SvcAt("main") /\ ~unit.main
  /\ Goto("post")
  /\ SvcUnchanged /\ UNCHANGED <<statusVars, procVars>>

RunMain ==
  /\ SvcAt("main") /\ unit.main
  /\ CallStartProcess("svc")
  /\ SvcUnchanged /\ UNCHANGED <<statusVars, svc>>

\* StartProcess returns a reference: the copy is made from the static variable.
MainLaunched ==
  /\ SvcAt("main") /\ Returned("svc")
  /\ IF call["svc"].out = "fail"
       THEN Throw(1)
       ELSE svc' = [svc EXCEPT !.pc = "waitMain", !.h = pi]
  /\ EndCall("svc")
  /\ SvcUnchanged /\ UNCHANGED statusVars

\* Wait for the local copy's handle, read the exit code and close the handle.
\* m_ExecStartFlags is not consulted, so a '-' prefix makes no difference here.
MainEnds ==
  /\ SvcAt("waitMain")
  /\ svc.h \in open => Exited(svc.h)
  /\ IF svc.h \in open /\ procs[svc.h].st = "fail"
       THEN svc' = [svc EXCEPT !.pc = "catch", !.thrown = 1, !.h = NoProc]
       ELSE svc' = [svc EXCEPT !.pc = "post", !.i = 1, !.h = NoProc]
  /\ open' = open \ {svc.h}
  /\ SvcUnchanged /\ UNCHANGED <<statusVars, pi, call, procs>>

RunPost ==
  /\ SvcAt("post") /\ svc.i <= unit.post
  /\ CallStartProcess("svc")
  /\ SvcUnchanged /\ UNCHANGED <<statusVars, svc>>

\* The flag looked up for ExecStartPost i is that of ExecStartPre i, which is
\* read out of bounds when there are fewer of those.
PostFlags == IF svc.i <= Len(unit.pre) THEN {unit.pre[svc.i]} ELSE BOOLEAN

PostReturns ==
  /\ SvcAt("post") /\ Returned("svc")
  /\ \E ignore \in PostFlags :
       IF call["svc"].out = "ok" \/ ignore
         THEN svc' = [svc EXCEPT !.i = @ + 1]
         ELSE Throw(ThrownBy(call["svc"].out))
  /\ EndCall("svc")
  /\ SvcUnchanged /\ UNCHANGED statusVars

\* WaitForDependents(m_Dependencies), whose result is not used, and "success".
PostEnds ==
  /\ SvcAt("post") /\ svc.i > unit.post
  /\ Throw(0)
  /\ SvcUnchanged /\ UNCHANGED <<statusVars, procVars>>

Catch ==
  /\ SvcAt("catch")
  /\ SetServiceStatus("svc", "PAUSED")
  /\ Goto("decide")
  /\ SvcUnchanged /\ UNCHANGED procVars

\* Mutant of Restarts: the exit code is not looked at.
RestartsUnlessNo(action, code) == action \notin {"NO", "UNDEFINED"}

\* on-failure is treated as on-success is.
Restarts(action, code) ==
  \/ action \in {"ALWAYS", "ON_ABNORMAL", "ON_ABORT", "ON_WATCHDOG"}
  \/ action \in {"ON_SUCCESS", "ON_FAILURE"} /\ code = 0

Decide ==
  /\ SvcAt("decide")
  /\ Goto(IF Restarts(unit.restart, svc.thrown) THEN "sleep" ELSE "done")
  /\ SvcUnchanged /\ UNCHANGED <<statusVars, procVars>>

\* SleepEx(m_RestartMillis) is over.
WakeUp ==
  /\ SvcAt("sleep") /\ svc.run < MaxRuns
  /\ svc' = [svc EXCEPT !.pc = "check", !.run = @ + 1, !.thrown = 0]
  /\ SvcUnchanged /\ UNCHANGED <<statusVars, procVars>>

\* Mutant of Finish: the thread ends without reporting SERVICE_STOPPED.
FinishPaused ==
  /\ SvcAt("done")
  /\ SetServiceStatus("svc", "PAUSED")
  /\ Goto("returned")
  /\ SvcUnchanged /\ UNCHANGED procVars

Finish ==
  /\ SvcAt("done")
  /\ SetServiceStatus("svc", "STOPPED")
  /\ Goto("returned")
  /\ SvcUnchanged /\ UNCHANGED procVars

ServiceThread ==
  \/ ConditionFails \/ OrderingFileFails \/ ChecksPass \/ AfterServices
  \/ AfterServicesFail \/ RunPre \/ PreReturns \/ PreEnds \/ NoMain \/ RunMain
  \/ MainLaunched \/ MainEnds \/ RunPost \/ PostReturns \/ PostEnds
  \/ Catch \/ Decide \/ WakeUp \/ Finish

\* The terminated thread ends: its StartProcess call is abandoned, the process
\* it launched and a status it has not reported yet are left as they are.
ThreadDies ==
  /\ wrapper = "running" /\ doomed /\ ~ThreadGone
  /\ svc' = [NoThread EXCEPT !.pc = "killed", !.run = svc.run]
  /\ call' = [call EXCEPT !["svc"] = NoCall]
  /\ reporting' = [reporting EXCEPT !["svc"] = FALSE]
  /\ SvcUnchanged /\ UNCHANGED <<status, pi, procs, open>>

-----------------------------------------------------------------------------
(* ServiceCtrlHandler: Stop with OnStop, Pause, Continue, Shutdown.        *)

CtlUnchanged == UNCHANGED <<lifeVars, mainPc, svc, early>>
CtlAt(pc) == Steps("ctl") /\ ctl.pc = pc
CtlGoto(pc) == ctl' = [ctl EXCEPT !.pc = pc, !.i = 1]

\* The SCM passes a control on when the state it last heard of allows it.
Accepting == scm \in {"RUNNING", "CONTINUE_PENDING", "PAUSE_PENDING", "PAUSED"}

Deliver(control) ==
  /\ CtlAt("idle") /\ Accepting /\ sent < MaxControls
  /\ sent' = sent + 1
  /\ \/ /\ control = "STOP"
        /\ ctl' = [pc |-> "stopping", i |-> 1, original |-> status]
        /\ early' = (early \/ Starting)
        /\ UNCHANGED statusVars
     \/ /\ control = "PAUSE"
        /\ SetServiceStatus("ctl", "PAUSE_PENDING")
        /\ CtlGoto("pausing") /\ UNCHANGED early
     \/ /\ control = "CONTINUE"
        /\ SetServiceStatus("ctl", "CONTINUE_PENDING")
        /\ CtlGoto("continuing") /\ UNCHANGED early
     \/ /\ control = "SHUTDOWN"
        /\ SetServiceStatus("ctl", "STOPPED")
        /\ UNCHANGED <<ctl, early>>
  /\ UNCHANGED <<lifeVars, scm, released, queued, hThread, doomed, stopEvent,
                 mainPc, svc, procVars>>

\* The STOP that StopServiceDependencies sent to the service itself.
DeliverQueued ==
  /\ CtlAt("idle") /\ queued
  /\ queued' = FALSE
  /\ ctl' = [pc |-> "stopping", i |-> 1, original |-> status]
  /\ early' = (early \/ Starting)
  /\ UNCHANGED <<lifeVars, scm, released, sent, statusVars, hThread, doomed,
                 stopEvent, mainPc, svc, procVars>>

EndPause ==
  /\ CtlAt("pausing")
  /\ SetServiceStatus("ctl", "PAUSED")
  /\ ctl' = IdleHandler
  /\ CtlUnchanged /\ UNCHANGED <<scmVars, hThread, doomed, stopEvent, procVars>>

EndContinue ==
  /\ CtlAt("continuing")
  /\ SetServiceStatus("ctl", "RUNNING")
  /\ ctl' = IdleHandler
  /\ CtlUnchanged /\ UNCHANGED <<scmVars, hThread, doomed, stopEvent, procVars>>

StopPending ==
  /\ CtlAt("stopping")
  /\ SetServiceStatus("ctl", "STOP_PENDING")
  /\ CtlGoto("stop")
  /\ CtlUnchanged /\ UNCHANGED <<scmVars, hThread, doomed, stopEvent, procVars>>

RunStop ==
  /\ CtlAt("stop") /\ unit.stop
  /\ CallStartProcess("ctl")
  /\ CtlUnchanged /\ UNCHANGED <<scmVars, statusVars, hThread, doomed, stopEvent, ctl>>

StopReturns ==
  /\ CtlAt("stop")
  /\ \/ ~unit.stop /\ CtlGoto("stopDeps") /\ UNCHANGED procVars
     \/ /\ Returned("ctl") /\ EndCall("ctl")
        /\ CtlGoto(IF call["ctl"].out = "ok" THEN "stopDeps" ELSE "stopFailed")
  /\ CtlUnchanged /\ UNCHANGED <<scmVars, statusVars, hThread, doomed, stopEvent>>

\* StopServiceDependencies opens m_ServiceName for every dependency, so the
\* STOP it sends goes to the service itself; then WaitForDependents returns.
StopServiceDependencies ==
  /\ CtlAt("stopDeps")
  /\ queued' = (queued \/ (unit.deps /\ Accepting))
  /\ CtlGoto("terminate")
  /\ CtlUnchanged
  /\ UNCHANGED <<scm, released, sent, statusVars, hThread, doomed, stopEvent, procVars>>

StopServiceDependenciesFails ==
  /\ "scm" \in Faults
  /\ CtlAt("stopDeps") /\ CtlGoto("stopFailed")
  /\ CtlUnchanged
  /\ UNCHANGED <<scmVars, statusVars, hThread, doomed, stopEvent, procVars>>

\* Mutants of TerminateServiceThread: the thread is not terminated; the wait
\* for its end is left out.
TerminateNobody ==
  /\ CtlAt("terminate") /\ CtlGoto("waitThread")
  /\ CtlUnchanged
  /\ UNCHANGED <<scmVars, statusVars, hThread, doomed, stopEvent, procVars>>
TerminateWithoutWait ==
  /\ CtlAt("terminate") /\ CtlGoto("disown")
  /\ doomed' = (doomed \/ hThread = "thread")
  /\ CtlUnchanged
  /\ UNCHANGED <<scmVars, statusVars, hThread, stopEvent, procVars>>

\* TerminateThread(m_hServiceThread) asks for the end of the thread, which
\* comes, wherever the thread is by then, in ThreadDies.
TerminateServiceThread ==
  /\ CtlAt("terminate")
  /\ doomed' = (doomed \/ hThread = "thread")
  /\ CtlGoto("waitThread")
  /\ CtlUnchanged
  /\ UNCHANGED <<scmVars, statusVars, hThread, stopEvent, procVars>>

\* Mutant of WaitForServiceThread: the wait has a timeout nobody looks at.
WaitOrTimeout ==
  /\ CtlAt("waitThread") /\ CtlGoto("disown")
  /\ CtlUnchanged
  /\ UNCHANGED <<scmVars, statusVars, hThread, doomed, stopEvent, procVars>>

\* WaitForSingleObject(m_hServiceThread, INFINITE) fails at once on NULL.
\* INVALID_HANDLE_VALUE is the current process: that wait never ends.
WaitForServiceThread ==
  /\ CtlAt("waitThread")
  /\ \/ hThread = "NULL"
     \/ hThread = "thread" /\ ThreadGone
  /\ CtlGoto("disown")
  /\ CtlUnchanged
  /\ UNCHANGED <<scmVars, statusVars, hThread, doomed, stopEvent, procVars>>

DisownServiceThread ==
  /\ CtlAt("disown")
  /\ hThread' = "INVALID"
  /\ CtlGoto("stopPost")
  /\ CtlUnchanged
  /\ UNCHANGED <<scmVars, statusVars, doomed, stopEvent, procVars>>

RunStopPost ==
  /\ CtlAt("stopPost") /\ ctl.i <= unit.stopPost
  /\ CallStartProcess("ctl")
  /\ CtlUnchanged /\ UNCHANGED <<scmVars, statusVars, hThread, doomed, stopEvent, ctl>>

StopPostReturns ==
  /\ CtlAt("stopPost") /\ Returned("ctl") /\ EndCall("ctl")
  /\ IF call["ctl"].out = "ok"
       THEN ctl' = [ctl EXCEPT !.i = @ + 1]
       ELSE CtlGoto("stopFailed")
  /\ CtlUnchanged /\ UNCHANGED <<scmVars, statusVars, hThread, doomed, stopEvent>>

StopSucceeds ==
  /\ CtlAt("stopPost") /\ ctl.i > unit.stopPost
  /\ SetServiceStatus("ctl", "STOPPED")
  /\ CtlGoto("setEvent")
  /\ CtlUnchanged /\ UNCHANGED <<scmVars, hThread, doomed, stopEvent, procVars>>

\* SetEvent fails, unnoticed, when ServiceMain has not created the event yet.
SetStopEvent ==
  /\ CtlAt("setEvent")
  /\ stopEvent' = IF stopEvent = "none" THEN "none" ELSE "set"
  /\ ctl' = IdleHandler
  /\ CtlUnchanged /\ UNCHANGED <<scmVars, statusVars, hThread, doomed, procVars>>

\* The catch clauses of Stop put the state it found back.
RestoreOriginalState ==
  /\ CtlAt("stopFailed")
  /\ SetServiceStatus("ctl", ctl.original)
  /\ ctl' = IdleHandler
  /\ CtlUnchanged /\ UNCHANGED <<scmVars, hThread, doomed, stopEvent, procVars>>

\* What the handler does once it has been called.
HandlerStep ==
  \/ EndPause \/ EndContinue \/ StopPending \/ RunStop \/ StopReturns
  \/ StopServiceDependencies \/ StopServiceDependenciesFails
  \/ TerminateServiceThread \/ WaitForServiceThread \/ DisownServiceThread
  \/ RunStopPost \/ StopPostReturns \/ StopSucceeds \/ SetStopEvent
  \/ RestoreOriginalState

ServiceCtrlHandler == DeliverQueued \/ HandlerStep \/ \E c \in Controls : Deliver(c)

-----------------------------------------------------------------------------
(* The wrapper process and the processes it launched.                      *)

\* The process ends and its threads with it; the processes it launched do not.
Exit ==
  /\ wrapper' = "exited" /\ scm' = "STOPPED"
  /\ status' = "START_PENDING" /\ reporting' = [t \in Thread |-> FALSE]
  /\ hThread' = "NULL" /\ doomed' = FALSE /\ stopEvent' = "none"
  /\ mainPc' = "start" /\ svc' = NoThread /\ ctl' = IdleHandler
  /\ pi' = NoProc /\ call' = [t \in Caller |-> NoCall] /\ open' = {}
  /\ released' = FALSE /\ queued' = FALSE /\ sent' = 0 /\ early' = FALSE
  /\ UNCHANGED <<unit, starts, procs>>

\* StartServiceCtrlDispatcher returns, on the thread that runs the handlers.
DispatcherReturns == CtlAt("idle") /\ released /\ Exit

Crash == "crash" \in Faults /\ wrapper = "running" /\ Exit

\* The SCM starts the service again.
StartAgain ==
  /\ wrapper = "exited" /\ starts < MaxStarts
  /\ wrapper' = "running" /\ starts' = starts + 1
  /\ scm' = "START_PENDING"
  /\ UNCHANGED <<unit, released, queued, sent, statusVars, hThread, doomed,
                 stopEvent, mainPc, svc, ctl, procVars, early>>

ProcessExits(p, result) ==
  /\ procs[p].st = "running"
  /\ procs' = [procs EXCEPT ![p].st = result]
  /\ UNCHANGED <<lifeVars, scmVars, statusVars, hThread, doomed, stopEvent, mainPc,
                 svc, ctl, pi, call, open, early>>

-----------------------------------------------------------------------------
Init ==
  /\ unit \in Units
  /\ wrapper = "running" /\ starts = 1 /\ scm = "START_PENDING"
  /\ procs = << >>
  /\ status = "START_PENDING" /\ reporting = [t \in Thread |-> FALSE]
  /\ hThread = "NULL" /\ doomed = FALSE /\ stopEvent = "none"
  /\ mainPc = "start" /\ svc = NoThread /\ ctl = IdleHandler
  /\ pi = NoProc /\ call = [t \in Caller |-> NoCall] /\ open = {}
  /\ released = FALSE /\ queued = FALSE /\ sent = 0 /\ early = FALSE

Next ==
  \/ ServiceMain \/ ServiceThread \/ ThreadDies \/ ServiceCtrlHandler
  \/ \E t \in Thread : Report(t)
  \/ \E t \in Caller : StartProcess(t)
  \/ \E p \in DOMAIN procs, result \in {"ok", "fail"} : ProcessExits(p, result)
  \/ DispatcherReturns \/ Crash \/ StartAgain

Spec == Init /\ [][Next]_vars

\* The commands of the unit file, the main one aside, are expected to end.
CommandEnds(p) == /\ procs[p].cmd # "main"
                  /\ \E result \in {"ok", "fail"} : ProcessExits(p, result)

(***************************************************************************)
(* The operating system schedules every thread; the SCM takes reports and  *)
(* lets the dispatcher return.  Nothing makes an operator send a control,  *)
(* or a main process end.                                                  *)
(***************************************************************************)
Fairness ==
  /\ WF_vars(ServiceMain) /\ WF_vars(ServiceThread) /\ WF_vars(HandlerStep)
  /\ WF_vars(ThreadDies) /\ WF_vars(DeliverQueued) /\ WF_vars(DispatcherReturns)
  /\ \A t \in Thread : WF_vars(Report(t))
  /\ \A t \in Caller : WF_vars(StartProcess(t))
  /\ WF_vars(\E p \in DOMAIN procs : CommandEnds(p))

FairSpec == Spec /\ Fairness

-----------------------------------------------------------------------------
MainPc == {"start", "onStart", "check", "create", "assign", "event", "wait", "returned"}
SvcPc  == {"none", "check", "after", "pre", "main", "waitMain", "post", "catch",
           "decide", "sleep", "done", "returned", "killed"}
CtlPc  == {"idle", "pausing", "continuing", "stopping", "stop", "stopDeps",
           "terminate", "waitThread", "disown", "stopPost", "setEvent", "stopFailed"}
CallPc == {"idle", "spawn", "wait", "exit", "close", "done"}
Process == [cmd: SvcPc \cup CtlPc, i: Nat, run: Nat, start: Nat,
            st: {"running", "ok", "fail"}]

LifeOK == unit \in Units /\ wrapper \in {"running", "exited"} /\ starts \in 1..MaxStarts
ScmOK  == scm \in State /\ released \in BOOLEAN /\ queued \in BOOLEAN /\ sent \in 0..MaxControls
StatusOK == status \in State /\ reporting \in [Thread -> BOOLEAN]
MainOK ==
  /\ hThread \in {"NULL", "thread", "INVALID"} /\ doomed \in BOOLEAN
  /\ stopEvent \in {"none", "reset", "set"} /\ mainPc \in MainPc /\ early \in BOOLEAN
SvcOK == svc \in [pc: SvcPc, i: Nat \ {0}, thrown: {0, 1}, run: 1..MaxRuns, h: Nat]
CtlOK == ctl \in [pc: CtlPc, i: Nat, original: State]
CallOK ==
  /\ pi \in Nat
  /\ call \in [Caller -> [pc: CallPc, h: Nat, out: {"ok", "fail", "nocode"}]]
ProcsOK == procs \in Seq(Process) /\ open \subseteq 1..Len(procs)

(* The shape of the state; every handle belongs to a process that was launched. *)
TypeOK == LifeOK /\ ScmOK /\ StatusOK /\ MainOK /\ SvcOK /\ CtlOK /\ CallOK /\ ProcsOK

(* Stop leaves no service thread behind: from the moment OnStop has waited *)
(* for m_hServiceThread, and for good once Stop has signalled the event or *)
(* disowned the handle, the thread neither runs nor has a status report in *)
(* flight, if OnStart had finished when the stop arrived.                  *)
StopKillsThread ==
  ~early /\ (ctl.pc \in {"disown", "stopPost", "setEvent"} \/ hThread = "INVALID"
             \/ stopEvent = "set")
     => ThreadGone

(* SERVICE_STOPPED is the last word of a Stop: once it has signalled the   *)
(* event, no status the service thread was about to report replaces it.  A *)
(* second stop, which a service with dependencies sends itself, may.       *)
StoppedIsLast ==
  stopEvent = "set" /\ ~early => status \in {"STOPPED", "STOP_PENDING"}

(* StartProcess reads the exit code of, and closes, the process it waited  *)
(* for, although the handle is in a static variable both threads use: true *)
(* of a unit without ExecStop that is not stopped while it starts.         *)
WaitedProcessIsRead ==
  ~early /\ ~unit.stop
     => \A t \in Caller : call[t].pc \in {"exit", "close"} => pi = call[t].h

(* OnStop never waits for INVALID_HANDLE_VALUE, which would be for ever:   *)
(* no second stop reaches a handler that has disowned the service thread,  *)
(* unless the service sends itself one (it has dependencies), or a command *)
(* that runs after the thread's end can fail and put the old state back.   *)
StopWaitsForThread ==
  ~early /\ ~unit.deps /\ unit.stopPost = 0 /\ ctl.pc \in {"terminate", "waitThread"}
    => hThread # "INVALID"

NewMain(q) == q \in DOMAIN procs' \ DOMAIN procs /\ procs'[q].cmd = "main"

(* ServiceThread launches ExecStart only when every ExecStartPre command   *)
(* without '-' of the same run has ended with exit code 0.                 *)
MainAfterPre ==
  [][\A q \in DOMAIN procs' : NewMain(q) /\ ~early /\ ~unit.stop =>
       \A i \in 1..Len(unit.pre) : unit.pre[i] \/ \E p \in DOMAIN procs :
          procs[p] = [cmd |-> "pre", i |-> i, run |-> svc.run, start |-> starts, st |-> "ok"]]_vars

(* A wrapper launches ExecStart again only when every main process before  *)
(* it has ended, and as the switch over m_RestartAction lets it: never for *)
(* Restart=no or none, after exit code 0 for on-success and, against its   *)
(* name, for on-failure too; for the other actions after any exit code.    *)
MainRestartedByPolicy ==
  [][\A q \in DOMAIN procs' : NewMain(q) /\ ~early /\ ~unit.stop =>
       \A p \in DOMAIN procs : procs[p].cmd = "main" /\ procs[p].start = starts =>
          /\ Exited(p)
          /\ unit.restart \notin {"NO", "UNDEFINED"}
          /\ unit.restart \in {"ON_SUCCESS", "ON_FAILURE"} => procs[p].st = "ok"]_vars

(* Stop does not hang: it ends, or the process does.                       *)
StopCompletes ==
  (ctl.pc = "stop" /\ ~early /\ ~unit.stop /\ hThread = "thread") ~> ctl.pc = "idle"

(* A wrapper whose service thread has finished does not linger: the SCM    *)
(* hears of SERVICE_STOPPED and the process ends, unless a stop came before*)
(* OnStart had finished, or can fail because the unit has ExecStop or      *)
(* ExecStopPost.                                                           *)
FinishedWrapperExits ==
  (svc.pc = "returned" /\ ThreadGone /\ ~unit.stop /\ unit.stopPost = 0)
     ~> (wrapper = "exited" \/ early)

(* "kill stopping service" (the log line of OnStop): once Stop has ended   *)
(* and signalled the event, the main process of the service has ended too. *)
StopEndsMain ==
  stopEvent = "set" /\ ~early => \A p \in DOMAIN procs :
     procs[p].cmd = "main" /\ procs[p].start = starts => Exited(p)

(* "The function sets the service status and reports the status to the     *)
(* SCM" (SetServiceStatus): when the service thread has returned, having   *)
(* set SERVICE_STOPPED, and nothing is under way, the SCM has heard of it. *)
FinishedThreadIsReported ==
  (svc.pc = "returned" /\ ctl.pc = "idle" /\ \A t \in Thread : ~reporting[t]) => released

(* What is true of it: when no pause and no continue is sent, and a stop   *)
(* cannot fail, the SCM hears of SERVICE_STOPPED, however the thread's     *)
(* last report and those of a stop or a shutdown overtake each other.      *)
FinishedIsHeard ==
  Controls \cap {"PAUSE", "CONTINUE"} = {} /\ "scm" \notin Faults /\ ~unit.stop /\ unit.stopPost = 0
    => FinishedThreadIsReported

(* "If an error occurs [in Stop] ... the service will be restored to the   *)
(* original state" (ServiceBase.cpp): a Stop that fails has not ended the  *)
(* service thread of a service it reports as running again.                *)
FailedStopRestores ==
  ctl.pc = "stopFailed" /\ ~early => svc.pc # "killed"
=============================================================================
