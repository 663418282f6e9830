------------------------- MODULE ServiceWrapperRuns -------------------------
(***************************************************************************)
(* The order of the commands and the restarts of the main one, proved of   *)
(* ServiceWrapper for every set of units, controls and faults and every    *)
(* bound.                                                                  *)
(*                                                                         *)
(* The argument: the handler launches nothing while the service thread is  *)
(* there (ServiceWrapperProofs), so the thread finds in the static         *)
(* processInformation what it put there, and where it is in its loop says  *)
(* what has run and how it ended.                                          *)
(***************************************************************************)
EXTENDS ServiceWrapperProofs

-----------------------------------------------------------------------------
(* What has run, in terms of where the service thread is.                  *)

PreProcess(i, st) == [cmd |-> "pre", i |-> i, run |-> svc.run, start |-> starts, st |-> st]
PreRan(i) == \E p \in DOMAIN procs : procs[p] = PreProcess(i, "ok")

\* The first n ExecStartPre commands ran in this round, and none failed that must not.
Passed(n) == \A i \in 1..n : unit.pre[i] \/ PreRan(i)

\* p is the process of the ExecStartPre that the thread is at.
IsPre(p) == p \in DOMAIN procs /\ procs[p] = PreProcess(svc.i, procs[p].st)

PreInv ==
  /\ svc.pc = "pre" =>
       /\ svc.i <= Len(unit.pre) + 1
       /\ Passed(svc.i - 1)
       /\ call["svc"].pc = "wait" => IsPre(pi)
       /\ call["svc"].pc = "exit" => IsPre(call["svc"].h)
       /\ call["svc"].pc \in {"close", "done"} /\ call["svc"].out = "ok" => PreRan(svc.i)
  /\ svc.pc = "main" => Passed(Len(unit.pre))

\* The main processes of this start, and what the restart action asks of those that ran.
Mains == {p \in DOMAIN procs : procs[p].cmd = "main" /\ procs[p].start = starts}
Ended(S) == \A p \in S : Exited(p)
Succeeded(S) == unit.restart \in {"ON_SUCCESS", "ON_FAILURE"} => \A p \in S : procs[p].st = "ok"
MayRun(S) == Ended(S) /\ Succeeded(S) /\ (S # {} => unit.restart \notin {"NO", "UNDEFINED"})

\* p is the last main process, with a handle to wait for; those before it are over.
Last(p) == p \in Mains /\ p \in open /\ Ended(Mains \ {p}) /\ Succeeded(Mains \ {p})

PolicyInv ==
  /\ svc.pc = "none" /\ wrapper = "running" => Mains = {}
  /\ svc.pc \in {"check", "after", "pre", "sleep"} => MayRun(Mains)
  /\ svc.pc = "main" =>
       \/ call["svc"].pc \in {"idle", "spawn"} /\ MayRun(Mains)
       \/ call["svc"].pc = "done" /\ call["svc"].out = "fail" /\ MayRun(Mains)
       \/ call["svc"].pc = "done" /\ call["svc"].out = "ok" /\ Last(pi)
  /\ svc.pc = "waitMain" => Last(svc.h)
  /\ svc.pc = "post" => Ended(Mains) /\ Succeeded(Mains)
  /\ svc.pc \in {"catch", "decide"} => Ended(Mains) /\ (svc.thrown = 0 => Succeeded(Mains))

\* Whoever calls StartProcess, and which start a process is of.
LaunchInv ==
  /\ wrapper = "exited" => svc.pc = "none"
  /\ \A p \in DOMAIN procs : procs[p].start <= starts
  /\ call["svc"].pc \in {"idle", "spawn"} => call["svc"].out = "ok"

\* Inductive, with StopInv, CallInv and WaitedProcessIsRead.
RunInv == LaunchInv /\ (~early /\ ~unit.stop => PreInv /\ PolicyInv)

-----------------------------------------------------------------------------
(* How the state the invariant is about changes.                           *)

LEMMA RunTypes ==
  ASSUME TypeOK
  PROVE  /\ procs \in Seq(Process) /\ Len(procs) \in Nat /\ DOMAIN procs = 1..Len(procs)
         /\ open \subseteq DOMAIN procs
         /\ \A p \in DOMAIN procs : procs[p] \in Process
         /\ starts \in Nat /\ starts \in 1..MaxStarts
         /\ Len(unit.pre) \in Nat /\ unit.post \in Nat /\ unit.stop \in BOOLEAN /\ early \in BOOLEAN
         /\ svc.pc \in SvcPc /\ svc.i \in Nat \ {0} /\ svc.run \in Nat
         /\ call \in [Caller -> [pc: CallPc, h: Nat, out: {"ok", "fail", "nocode"}]]
<1>1. procs \in Seq(Process) /\ open \subseteq 1..Len(procs)
  BY DEF TypeOK, ProcsOK
<1>2. unit \in Unit
  BY UnitsAssumption DEF UnitsAssumption, TypeOK, LifeOK
<1>3. starts \in Nat /\ starts \in 1..MaxStarts /\ early \in BOOLEAN
  BY BoundsAssumption DEF BoundsAssumption, TypeOK, LifeOK, MainOK
<1>4. svc.pc \in SvcPc /\ svc.i \in Nat \ {0} /\ svc.run \in Nat
  BY SvcParts, BoundsAssumption DEF BoundsAssumption
<1>5. QED
  BY <1>1, <1>2, <1>3, <1>4 DEF Unit, TypeOK, CallOK

LEMMA SvcMoves ==
  ASSUME TypeOK
  PROVE  /\ \A pc : Goto(pc) => /\ svc'.pc = pc /\ svc'.i = 1 /\ svc'.thrown = svc.thrown
                                /\ svc'.run = svc.run /\ svc'.h = svc.h
         /\ \A x : Throw(x) => svc'.pc = "catch" /\ svc'.thrown = x /\ svc'.run = svc.run
         /\ svc' = [svc EXCEPT !.i = @ + 1] =>
              svc'.pc = svc.pc /\ svc'.i = svc.i + 1 /\ svc'.run = svc.run /\ svc'.thrown = svc.thrown
BY SvcParts DEF Goto, Throw

\* A process more.
LEMMA Launched ==
  ASSUME TypeOK, NEW o \in Process, procs' = Append(procs, o)
  PROVE  /\ DOMAIN procs' = DOMAIN procs \cup {Len(procs) + 1} /\ Len(procs) + 1 \notin DOMAIN procs
         /\ \A p \in DOMAIN procs : procs'[p] = procs[p]
         /\ procs'[Len(procs) + 1] = o
<1>1. procs \in Seq(Process) /\ Len(procs) \in Nat /\ DOMAIN procs = 1..Len(procs)
  BY RunTypes
<1>2. /\ procs' \in Seq(Process) /\ Len(procs') = Len(procs) + 1 /\ DOMAIN procs' = 1..Len(procs) + 1
      /\ procs'[Len(procs) + 1] = o /\ \A p \in 1..Len(procs) : procs'[p] = procs[p]
  BY <1>1
<1>3. 1..Len(procs) + 1 = 1..Len(procs) \cup {Len(procs) + 1} /\ Len(procs) + 1 \notin 1..Len(procs)
  BY <1>1
<1>4. QED
  BY <1>1, <1>2, <1>3

\* A process that ends.
LEMMA ProcessEnds ==
  ASSUME TypeOK, NEW p \in DOMAIN procs, NEW r \in {"ok", "fail"}, ProcessExits(p, r)
  PROVE  /\ DOMAIN procs' = DOMAIN procs
         /\ \A q \in DOMAIN procs :
              /\ procs[q].st # "running" => procs'[q] = procs[q]
              /\ procs'[q].cmd = procs[q].cmd /\ procs'[q].start = procs[q].start
              /\ procs'[q] = [cmd |-> procs[q].cmd, i |-> procs[q].i, run |-> procs[q].run,
                              start |-> procs[q].start, st |-> procs'[q].st]
<1>1. procs[p].st = "running" /\ procs' = [procs EXCEPT ![p].st = r]
  BY DEF ProcessExits
<1>2. \A q \in DOMAIN procs : procs[q] \in Process
  BY RunTypes
<1>3. \A q \in DOMAIN procs : q # p => procs'[q] = procs[q]
  BY <1>1
<1>4. procs'[p] = [procs[p] EXCEPT !.st = r] /\ DOMAIN procs' = DOMAIN procs
  BY <1>1
<1>5. procs'[p] = [cmd |-> procs[p].cmd, i |-> procs[p].i, run |-> procs[p].run,
                   start |-> procs[p].start, st |-> procs'[p].st]
  BY <1>2, <1>4 DEF Process
<1>6. \A q \in DOMAIN procs : procs[q] = [cmd |-> procs[q].cmd, i |-> procs[q].i, run |-> procs[q].run,
                                        start |-> procs[q].start, st |-> procs[q].st]
  BY <1>2 DEF Process
<1>7. procs'[p].cmd = procs[p].cmd /\ procs'[p].start = procs[p].start
  BY <1>2, <1>4 DEF Process
<1>8. SUFFICES ASSUME NEW q \in DOMAIN procs
               PROVE  /\ procs[q].st # "running" => procs'[q] = procs[q]
                      /\ procs'[q].cmd = procs[q].cmd /\ procs'[q].start = procs[q].start
                      /\ procs'[q] = [cmd |-> procs[q].cmd, i |-> procs[q].i, run |-> procs[q].run,
                                      start |-> procs[q].start, st |-> procs'[q].st]
  BY <1>4
<1>9. CASE q = p
  BY <1>1, <1>5, <1>7, <1>9
<1>10. CASE q # p
  BY <1>3, <1>6, <1>10
<1>11. QED
  BY <1>9, <1>10

\* The processes and what is asked of them stay the same.
LEMMA RunFrame ==
  ASSUME UNCHANGED <<procs, starts, unit>>
  PROVE  /\ Mains' = Mains
         /\ Ended(Mains)' <=> Ended(Mains)
         /\ Succeeded(Mains)' <=> Succeeded(Mains)
         /\ MayRun(Mains)' <=> MayRun(Mains)
         /\ svc'.run = svc.run => \A i : PreRan(i)' <=> PreRan(i)
BY DEF Mains, Ended, Succeeded, MayRun, Exited, PreRan, PreProcess

LEMMA RunKept ==
  ASSUME RunInv, UNCHANGED <<unit, wrapper, starts, svc, procs, open, pi>>,
         call'["svc"] = call["svc"], early => early'
  PROVE  RunInv'
<1>1. PreInv' <=> PreInv
  BY DEF PreInv, Passed, PreRan, PreProcess, IsPre
<1>2. PolicyInv' <=> PolicyInv
  BY DEF PolicyInv, MayRun, Last, Mains, Ended, Succeeded, Exited
<1>3. LaunchInv'
  BY DEF RunInv, LaunchInv
<1>4. QED
  BY <1>1, <1>2, <1>3 DEF RunInv

\* Without the service thread only the rest of LaunchInv is left to show.
LEMMA RunWithoutThread ==
  ASSUME RunInv, svc.pc \in {"none", "returned", "killed"}, UNCHANGED <<unit, wrapper, starts, svc>>,
         early => early', Mains' = Mains, LaunchInv'
  PROVE  RunInv'
BY DEF RunInv, PreInv, PolicyInv

\* The handler launches commands when the service thread is gone.
LEMMA HandlerAlone ==
  ASSUME StopInv, CallInv, ~early, ~unit.stop,
         call["ctl"].pc # "idle" \/ RunStop \/ RunStopPost
  PROVE  ThreadGone /\ ~RunStop
BY DEF CallInv, StopInv, StopKillsThread, RunStop, RunStopPost, CtlAt

-----------------------------------------------------------------------------
LEMMA LaunchNext == TypeOK /\ LaunchInv /\ [Next]_vars => LaunchInv'
<1> SUFFICES ASSUME TypeOK, LaunchInv, [Next]_vars PROVE LaunchInv'
  OBVIOUS
<1> USE DEF lifeVars, procVars, Caller
<1>0. /\ call \in [Caller -> [pc: CallPc, h: Nat, out: {"ok", "fail", "nocode"}]]
      /\ starts \in Nat
  BY RunTypes
<1>1. CASE ServiceMain
  <2>1. wrapper = "running" /\ UNCHANGED <<wrapper, starts, procs, call>>
    BY <1>1 DEF ServiceMain, Start, OnStart, OnStartCheck, OnStartCreate, OnStartAssign,
                OnStartFails, CreateStopEvent, ServiceMainReturns, MainUnchanged, Steps
  <2>2. QED
    BY <2>1 DEF LaunchInv
<1>2. CASE ServiceThread
  <2>1. wrapper = "running" /\ UNCHANGED <<wrapper, starts, procs>>
    BY <1>2 DEF ServiceThread, ConditionFails, OrderingFileFails, ChecksPass, AfterServices,
       AfterServicesFail, RunPre, PreReturns, PreEnds, NoMain, RunMain, MainLaunched, MainEnds,
       RunPost, PostReturns, PostEnds, Catch, Decide, WakeUp, Finish, SvcAt, Steps, SvcUnchanged,
       CallStartProcess, EndCall
  <2>2. call'["svc"].pc \in {"idle", "spawn"} => call'["svc"].out = "ok"
    <3>1. CASE RunPre \/ RunMain \/ RunPost
      <4>1. CallStartProcess("svc")
        BY <3>1 DEF RunPre, RunMain, RunPost
      <4>2. call["svc"].pc = "idle" /\ call'["svc"].out = call["svc"].out
        BY <1>0, <4>1 DEF CallStartProcess
      <4>3. QED
        BY <4>2 DEF LaunchInv
    <3>2. CASE PreReturns \/ MainLaunched \/ PostReturns
      <4>1. call' = [call EXCEPT !["svc"] = NoCall]
        BY <3>2 DEF PreReturns, MainLaunched, PostReturns, EndCall
      <4>2. QED
        BY <1>0, <4>1 DEF NoCall
    <3>3. CASE \/ ConditionFails \/ OrderingFileFails \/ ChecksPass \/ AfterServices
               \/ AfterServicesFail \/ PreEnds \/ NoMain \/ MainEnds \/ PostEnds
               \/ Catch \/ Decide \/ WakeUp \/ Finish
      <4>1. UNCHANGED call
        BY <3>3 DEF ConditionFails, OrderingFileFails, ChecksPass, AfterServices,
           AfterServicesFail, PreEnds, NoMain, MainEnds, PostEnds, Catch, Decide, WakeUp, Finish
      <4>2. QED
        BY <4>1 DEF LaunchInv
    <3>4. QED
      BY <1>2, <3>1, <3>2, <3>3 DEF ServiceThread
  <2>3. QED
    BY <2>1, <2>2 DEF LaunchInv
<1>3. CASE ThreadDies
  <2>1. /\ wrapper = "running" /\ UNCHANGED <<wrapper, starts, procs>>
        /\ call' = [call EXCEPT !["svc"] = NoCall]
    BY <1>3 DEF ThreadDies, SvcUnchanged
  <2>2. call'["svc"].out = "ok"
    BY <1>0, <2>1 DEF NoCall
  <2>3. QED
    BY <2>1, <2>2 DEF LaunchInv
<1>4. CASE HandlerStep
  <2>1. UNCHANGED <<wrapper, starts, svc>>
    BY <1>4, HandlerSteps
  <2>2. UNCHANGED procs /\ call'["svc"] = call["svc"]
    <3>1. UNCHANGED <<procs, call>> \/ CallStartProcess("ctl") \/ EndCall("ctl")
      BY <1>4 DEF HandlerStep, EndPause, EndContinue, StopPending, RunStop, StopReturns,
         StopServiceDependencies, StopServiceDependenciesFails, TerminateServiceThread,
         WaitForServiceThread, DisownServiceThread, RunStopPost, StopPostReturns, StopSucceeds,
         SetStopEvent, RestoreOriginalState
    <3>2. QED
      BY <3>1, OthersCall DEF CallStartProcess, EndCall
  <2>3. QED
    BY <2>1, <2>2 DEF LaunchInv
<1>5. CASE DeliverQueued \/ \E c \in Controls : Deliver(c)
  <2>1. UNCHANGED <<wrapper, starts, svc, procs, call>>
    BY <1>5 DEF DeliverQueued, Deliver
  <2>2. QED
    BY <2>1 DEF LaunchInv
<1>6. CASE Exit
  BY <1>6 DEF Exit, LaunchInv, NoThread, NoCall
<1>7. ASSUME NEW t \in Caller, StartProcess(t) PROVE LaunchInv'
  <2>1. UNCHANGED <<wrapper, starts, svc>>
    BY <1>7 DEF StartProcess, Spawn, SpawnFails, WaitForProcess, GetExitCode, CloseProcess,
       CallUnchanged
  <2>2. \A p \in DOMAIN procs' : procs'[p].start <= starts
    <3>1. CASE Spawn(t)
      <4> DEFINE o == [cmd |-> Command(t), i |-> Index(t), run |-> svc.run,
                       start |-> starts, st |-> "running"]
      <4>1. o \in Process /\ procs' = Append(procs, o) /\ o.start = starts
        BY <3>1, LaunchedProcess DEF Spawn
      <4> HIDE DEF o
      <4>2. QED
        BY <1>0, <4>1, Launched DEF LaunchInv
    <3>2. CASE ~Spawn(t)
      BY <1>7, <3>2 DEF StartProcess, SpawnFails, WaitForProcess, GetExitCode, CloseProcess,
         LaunchInv
    <3>3. QED
      BY <3>1, <3>2
  <2>3. call'["svc"].pc \in {"idle", "spawn"} => call'["svc"].out = "ok"
    <3>1. CASE t = "ctl"
      BY <1>7, <3>1, OthersCall DEF LaunchInv
    <3>2. CASE t = "svc"
      <4>1. CASE Spawn("svc") \/ SpawnFails("svc") \/ WaitForProcess("svc")
        <5>1. CASE Spawn("svc")
          <6>1. PICK at \in {"done", "wait"} : call' = [call EXCEPT !["svc"].pc = at]
            BY <5>1 DEF Spawn
          <6>2. QED
            BY <1>0, <6>1
        <5>2. CASE SpawnFails("svc")
          <6>1. call' = [call EXCEPT !["svc"] = [@ EXCEPT !.pc = "done", !.out = "fail"]]
            BY <5>2 DEF SpawnFails
          <6>2. QED
            BY <1>0, <6>1
        <5>3. CASE WaitForProcess("svc")
          <6>1. call' = [call EXCEPT !["svc"] = [@ EXCEPT !.pc = "exit", !.h = pi]]
            BY <5>3 DEF WaitForProcess
          <6>2. QED
            BY <1>0, <6>1
        <5>4. QED
          BY <4>1, <5>1, <5>2, <5>3
      <4>2. CASE GetExitCode("svc")
        <5>1. PICK out : call' = [call EXCEPT !["svc"] = [@ EXCEPT !.pc = "close", !.out = out]]
          BY <4>2 DEF GetExitCode
        <5>2. call'["svc"].pc = "close"
          BY <1>0, <5>1
        <5>3. QED
          BY <5>2
      <4>3. CASE CloseProcess("svc")
        <5>1. call' = [call EXCEPT !["svc"].pc = "done"]
          BY <4>3 DEF CloseProcess
        <5>2. call'["svc"].pc = "done"
          BY <1>0, <5>1
        <5>3. QED
          BY <5>2
      <4>4. QED
        BY <1>7, <3>2, <4>1, <4>2, <4>3 DEF StartProcess
    <3>3. QED
      BY <3>1, <3>2
  <2>4. QED
    BY <2>1, <2>2, <2>3 DEF LaunchInv
<1>8. ASSUME NEW p \in DOMAIN procs, NEW r \in {"ok", "fail"}, ProcessExits(p, r)
      PROVE  LaunchInv'
  <2>1. UNCHANGED <<wrapper, starts, svc, call>>
    BY <1>8 DEF ProcessExits
  <2>2. DOMAIN procs' = DOMAIN procs /\ \A q \in DOMAIN procs : procs'[q].start = procs[q].start
    BY <1>8, ProcessEnds
  <2>3. QED
    BY <2>1, <2>2 DEF LaunchInv
<1>9. CASE (\E t \in Thread : Report(t)) \/ UNCHANGED vars
  <2>1. UNCHANGED <<wrapper, starts, svc, procs, call>>
    BY <1>9 DEF Report, vars
  <2>2. QED
    BY <2>1 DEF LaunchInv
<1>10. CASE StartAgain
  <2>1. UNCHANGED <<svc, procs, call>> /\ starts' = starts + 1 /\ wrapper' = "running"
    BY <1>10 DEF StartAgain
  <2>2. \A p \in DOMAIN procs : procs[p].start \in Nat
    BY RunTypes DEF Process
  <2>3. QED
    BY <1>0, <2>1, <2>2 DEF LaunchInv
<1>11. QED
  BY <1>1, <1>2, <1>3, <1>4, <1>5, <1>6, <1>7, <1>8, <1>9, <1>10, NextGroups


-----------------------------------------------------------------------------
(* The steps of the service thread.                                        *)

\* What each step of the thread leaves alone.
LEMMA SvcStepFrame ==
  ASSUME StopInv, CallInv, ServiceThread
  PROVE  /\ UNCHANGED <<unit, wrapper, starts, procs, early>> /\ wrapper = "running"
         /\ svc.pc \notin {"pre", "main", "post"} => call["svc"].pc = "idle"
         /\ svc.i > Len(unit.pre) /\ svc.pc = "pre" => call["svc"].pc = "idle"
         /\ ~unit.main /\ svc.pc = "main" => call["svc"].pc = "idle"
<1>1. UNCHANGED <<unit, wrapper, starts, early>>
  BY SvcThreadSteps DEF StopInv, lifeVars
<1>2. UNCHANGED procs /\ wrapper = "running"
  BY DEF ServiceThread, ConditionFails, OrderingFileFails, ChecksPass, AfterServices,
     AfterServicesFail, RunPre, PreReturns, PreEnds, NoMain, RunMain, MainLaunched, MainEnds,
     RunPost, PostReturns, PostEnds, Catch, Decide, WakeUp, Finish, SvcAt, Steps, SvcUnchanged,
     CallStartProcess, EndCall, procVars
<1>3. svc.i \in Nat /\ Len(unit.pre) \in Nat
  BY RunTypes DEF StopInv
<1>4. QED
  BY <1>1, <1>2, <1>3 DEF CallInv

\* Those that neither begin nor end a call.
LEMMA SvcStepRun ==
  ASSUME StopInv, CallInv, RunInv, ~early, ~unit.stop, ServiceThread,
         ~(RunPre \/ PreReturns \/ RunMain \/ MainLaunched \/ RunPost \/ PostReturns)
  PROVE  PreInv' /\ PolicyInv'
<1> USE DEF procVars
<1>0. PreInv /\ PolicyInv /\ TypeOK
  BY DEF RunInv, StopInv
<1>1. /\ UNCHANGED <<unit, wrapper, starts, procs, early>> /\ wrapper = "running"
      /\ svc.pc \notin {"pre", "main", "post"} => call["svc"].pc = "idle"
      /\ svc.i > Len(unit.pre) /\ svc.pc = "pre" => call["svc"].pc = "idle"
      /\ ~unit.main /\ svc.pc = "main" => call["svc"].pc = "idle"
  BY SvcStepFrame
<1>2. /\ Mains' = Mains
      /\ Ended(Mains)' <=> Ended(Mains)
      /\ Succeeded(Mains)' <=> Succeeded(Mains)
      /\ MayRun(Mains)' <=> MayRun(Mains)
      /\ svc'.run = svc.run => \A i : PreRan(i)' <=> PreRan(i)
  BY <1>1, RunFrame
<1>3. MayRun(Mains) => Ended(Mains) /\ Succeeded(Mains)
  BY DEF MayRun
<1>4. svc.i \in Nat \ {0} /\ Len(unit.pre) \in Nat
  BY <1>0, RunTypes
<1>5. CASE ConditionFails \/ OrderingFileFails \/ AfterServicesFail
  <2>1. svc.pc \in {"check", "after"} /\ svc'.pc = "catch"
    BY <1>0, <1>5, SvcMoves DEF ConditionFails, OrderingFileFails, AfterServicesFail, SvcAt
  <2>2. QED
    BY <1>0, <1>2, <1>3, <2>1 DEF PreInv, PolicyInv
<1>6. CASE ChecksPass
  <2>1. svc.pc = "check" /\ svc'.pc = "after"
    BY <1>0, <1>6, SvcMoves DEF ChecksPass, SvcAt
  <2>2. QED
    BY <1>0, <1>2, <2>1 DEF PreInv, PolicyInv
<1>7. CASE AfterServices
  <2>1. svc.pc = "after" /\ svc'.pc = "pre" /\ svc'.i = 1 /\ UNCHANGED call
    BY <1>0, <1>7, SvcMoves DEF AfterServices, SvcAt
  <2>2. PolicyInv'
    BY <1>0, <1>2, <2>1 DEF PolicyInv
  <2>3. call'["svc"].pc = "idle"
    BY <1>1, <2>1
  <2>4. Passed(svc.i - 1)'
    BY <2>1 DEF Passed
  <2>5. QED
    BY <1>1, <1>4, <2>1, <2>2, <2>3, <2>4 DEF PreInv
<1>8. CASE PreEnds
  <2>1. svc.pc = "pre" /\ svc'.pc = "main" /\ svc'.run = svc.run /\ UNCHANGED call /\ svc.i > Len(unit.pre)
    BY <1>0, <1>8, SvcMoves DEF PreEnds, SvcAt
  <2>2. call'["svc"].pc = "idle"
    BY <1>1, <2>1
  <2>3. Passed(svc.i - 1) /\ svc.i - 1 = Len(unit.pre)
    BY <1>0, <1>4, <2>1 DEF PreInv
  <2>4. Passed(Len(unit.pre))'
    BY <1>1, <1>2, <2>1, <2>3 DEF Passed
  <2>5. QED
    BY <1>0, <1>2, <2>1, <2>2, <2>4 DEF PreInv, PolicyInv
<1>9. CASE NoMain
  <2>1. svc.pc = "main" /\ svc'.pc = "post" /\ ~unit.main
    BY <1>0, <1>9, SvcMoves DEF NoMain, SvcAt
  <2>2. MayRun(Mains)
    BY <1>0, <1>1, <2>1 DEF PolicyInv
  <2>3. QED
    BY <1>2, <1>3, <2>1, <2>2 DEF PreInv, PolicyInv
<1>10. CASE MainEnds
  <2>1. svc.pc = "waitMain" /\ Last(svc.h) /\ Exited(svc.h)
    BY <1>0, <1>10 DEF MainEnds, SvcAt, PolicyInv, Last
  <2>2. svc.h \in DOMAIN procs /\ procs[svc.h].st \in {"ok", "fail"}
    BY <1>0, <2>1, RunTypes DEF Last, Mains, Exited, Process
  <2>3. Ended(Mains) /\ (procs[svc.h].st = "ok" => Succeeded(Mains))
    BY <2>1 DEF Last, Ended, Succeeded
  <2>4. CASE procs[svc.h].st = "fail"
    <3>1. svc'.pc = "catch" /\ svc'.thrown = 1
      BY <1>0, <1>10, <2>1, <2>4, SvcParts DEF MainEnds, Last
    <3>2. QED
      BY <1>2, <2>3, <3>1 DEF PreInv, PolicyInv
  <2>5. CASE procs[svc.h].st = "ok"
    <3>1. svc'.pc = "post"
      BY <1>0, <1>10, <2>1, <2>5, SvcParts DEF MainEnds, Last
    <3>2. QED
      BY <1>2, <2>3, <2>5, <3>1 DEF PreInv, PolicyInv
  <2>6. QED
    BY <2>2, <2>4, <2>5
<1>11. CASE PostEnds
  <2>1. svc.pc = "post" /\ svc'.pc = "catch"
    BY <1>0, <1>11, SvcMoves DEF PostEnds, SvcAt
  <2>2. QED
    BY <1>0, <1>2, <2>1 DEF PreInv, PolicyInv
<1>12. CASE Catch
  <2>1. svc.pc = "catch" /\ svc'.pc = "decide" /\ svc'.thrown = svc.thrown
    BY <1>0, <1>12, SvcMoves DEF Catch, SvcAt
  <2>2. QED
    BY <1>0, <1>2, <2>1 DEF PreInv, PolicyInv
<1>13. CASE Decide
  <2>1. svc.pc = "decide" /\ Ended(Mains) /\ (svc.thrown = 0 => Succeeded(Mains))
    BY <1>0, <1>13 DEF Decide, SvcAt, PolicyInv
  <2>2. CASE Restarts(unit.restart, svc.thrown)
    <3>1. svc'.pc = "sleep"
      BY <1>0, <1>13, <2>2, SvcMoves DEF Decide
    <3>2. Succeeded(Mains) /\ unit.restart \notin {"NO", "UNDEFINED"}
      BY <2>1, <2>2 DEF Restarts, Succeeded
    <3>3. MayRun(Mains)
      BY <2>1, <3>2 DEF MayRun
    <3>4. QED
      BY <1>2, <3>1, <3>3 DEF PreInv, PolicyInv
  <2>3. CASE ~Restarts(unit.restart, svc.thrown)
    <3>1. svc'.pc = "done"
      BY <1>0, <1>13, <2>3, SvcMoves DEF Decide
    <3>2. QED
      BY <3>1 DEF PreInv, PolicyInv
  <2>4. QED
    BY <2>2, <2>3
<1>14. CASE WakeUp
  <2>1. svc.pc = "sleep" /\ svc'.pc = "check"
    BY <1>0, <1>14, SvcParts DEF WakeUp, SvcAt
  <2>2. QED
    BY <1>0, <1>2, <2>1 DEF PreInv, PolicyInv
<1>15. CASE Finish
  <2>1. svc'.pc = "returned"
    BY <1>0, <1>15, SvcMoves DEF Finish
  <2>2. QED
    BY <2>1 DEF PreInv, PolicyInv
<1>16. QED
  BY <1>5, <1>6, <1>7, <1>8, <1>9, <1>10, <1>11, <1>12, <1>13, <1>14, <1>15 DEF ServiceThread

\* Those that begin or end a call.
LEMMA SvcCallRun ==
  ASSUME StopInv, CallInv, RunInv, ~early, ~unit.stop, ServiceThread,
         RunPre \/ PreReturns \/ RunMain \/ MainLaunched \/ RunPost \/ PostReturns
  PROVE  PreInv' /\ PolicyInv'
<1> USE DEF Caller
<1>0. PreInv /\ PolicyInv /\ TypeOK /\ LaunchInv
  BY DEF RunInv, StopInv
<1>1. UNCHANGED <<unit, wrapper, starts, procs, early>>
  BY SvcStepFrame
<1>2. /\ Mains' = Mains
      /\ Ended(Mains)' <=> Ended(Mains)
      /\ Succeeded(Mains)' <=> Succeeded(Mains)
      /\ MayRun(Mains)' <=> MayRun(Mains)
      /\ svc'.run = svc.run => \A i : PreRan(i)' <=> PreRan(i)
  BY <1>1, RunFrame
<1>3. MayRun(Mains) => Ended(Mains) /\ Succeeded(Mains)
  BY DEF MayRun
<1>4. /\ svc.i \in Nat \ {0} /\ Len(unit.pre) \in Nat
      /\ call \in [Caller -> [pc: CallPc, h: Nat, out: {"ok", "fail", "nocode"}]]
  BY <1>0, RunTypes
<1>5. CASE RunPre \/ RunMain \/ RunPost
  <2>1. UNCHANGED svc /\ CallStartProcess("svc")
    BY <1>5 DEF RunPre, RunMain, RunPost
  <2>2. call["svc"].pc = "idle" /\ call'["svc"].pc = "spawn" /\ svc.pc \in {"pre", "main", "post"}
    BY <1>4, <1>5, <2>1 DEF CallStartProcess, RunPre, RunMain, RunPost, SvcAt
  <2>3. PreInv'
    <3>1. Passed(svc.i - 1) => Passed(svc.i - 1)'
      BY <1>1, <1>2, <2>1 DEF Passed
    <3>2. Passed(Len(unit.pre)) => Passed(Len(unit.pre))'
      BY <1>1, <1>2, <2>1 DEF Passed
    <3>3. QED
      BY <1>0, <1>1, <2>1, <2>2, <3>1, <3>2 DEF PreInv
  <2>4. PolicyInv'
    BY <1>0, <1>2, <2>1, <2>2 DEF PolicyInv
  <2>5. QED
    BY <2>3, <2>4
<1>6. CASE PreReturns \/ MainLaunched \/ PostReturns
  <2>1. EndCall("svc") /\ call["svc"].pc = "done"
    BY <1>6 DEF PreReturns, MainLaunched, PostReturns, Returned
  <2>2. call'["svc"].pc = "idle" /\ UNCHANGED <<pi, open>>
    BY <1>0, <2>1, CallBegins DEF EndCall
  <2>3. CASE PreReturns
    <3>1. svc.pc = "pre" /\ svc.i <= Len(unit.pre) /\ MayRun(Mains) /\ Passed(svc.i - 1)
      BY <1>0, <2>1, <2>3 DEF PreReturns, SvcAt, CallInv, PolicyInv, PreInv
    <3>2. CASE call["svc"].out = "ok" \/ unit.pre[svc.i]
      <4>1. svc'.pc = "pre" /\ svc'.i = svc.i + 1 /\ svc'.run = svc.run
        BY <1>0, <2>3, <3>1, <3>2, SvcMoves DEF PreReturns
      <4>2. unit.pre[svc.i] \/ PreRan(svc.i)
        BY <1>0, <2>1, <3>1, <3>2 DEF PreInv
      <4>3. \A i \in 1..svc.i : unit.pre[i] \/ PreRan(i)
        <5>1. \A i \in 1..svc.i : i = svc.i \/ i \in 1..(svc.i - 1)
          BY <1>4
        <5>2. QED
          BY <3>1, <4>2, <5>1 DEF Passed
      <4>4. svc'.i - 1 = svc.i /\ svc'.i <= Len(unit.pre) + 1
        BY <1>4, <3>1, <4>1
      <4>5. Passed(svc.i - 1)'
        BY <1>1, <1>2, <4>1, <4>3, <4>4 DEF Passed
      <4>6. QED
        BY <1>1, <1>2, <2>2, <3>1, <4>1, <4>4, <4>5 DEF PreInv, PolicyInv
    <3>3. CASE ~(call["svc"].out = "ok" \/ unit.pre[svc.i])
      <4>1. svc'.pc = "catch"
        BY <1>0, <2>3, <3>3, SvcMoves DEF PreReturns
      <4>2. QED
        BY <1>2, <1>3, <3>1, <4>1 DEF PreInv, PolicyInv
    <3>4. QED
      BY <3>2, <3>3
  <2>4. CASE MainLaunched
    <3>1. svc.pc = "main"
      BY <2>4 DEF MainLaunched, SvcAt
    <3>2. CASE call["svc"].out = "fail"
      <4>1. svc'.pc = "catch" /\ MayRun(Mains)
        BY <1>0, <2>1, <2>4, <3>1, <3>2, SvcMoves DEF MainLaunched, PolicyInv
      <4>2. QED
        BY <1>2, <1>3, <4>1 DEF PreInv, PolicyInv
    <3>3. CASE call["svc"].out # "fail"
      <4>1. svc'.pc = "waitMain" /\ svc'.h = pi
        BY <1>0, <2>4, <3>3, SvcParts DEF MainLaunched
      <4>2. Last(pi)
        BY <1>0, <2>1, <3>1, <3>3 DEF PolicyInv
      <4>3. Last(svc.h)'
        BY <1>1, <1>2, <2>2, <4>1, <4>2 DEF Last, Ended, Succeeded, Exited
      <4>4. QED
        BY <4>1, <4>3 DEF PreInv, PolicyInv
    <3>4. QED
      BY <3>2, <3>3
  <2>5. CASE PostReturns
    <3>1. svc.pc = "post" /\ Ended(Mains) /\ Succeeded(Mains)
      BY <1>0, <2>5 DEF PostReturns, SvcAt, PolicyInv
    <3>2. svc'.pc \in {"post", "catch"}
      BY <1>0, <2>5, <3>1, SvcMoves DEF PostReturns
    <3>3. QED
      BY <1>2, <3>1, <3>2 DEF PreInv, PolicyInv
  <2>6. QED
    BY <1>6, <2>3, <2>4, <2>5
<1>7. QED
  BY <1>5, <1>6

-----------------------------------------------------------------------------
(* The steps of StartProcess.                                              *)

\* What more processes, and their ends, leave of what has run.
LEMMA HistoryKept ==
  ASSUME TypeOK, UNCHANGED <<unit, starts>>, svc'.run = svc.run, DOMAIN procs \subseteq DOMAIN procs',
         \A p \in DOMAIN procs : procs[p].st # "running" => procs'[p] = procs[p]
  PROVE  \A i : PreRan(i) => PreRan(i)'
<1> SUFFICES ASSUME NEW i, PreRan(i) PROVE PreRan(i)'
  OBVIOUS
<1>1. PICK p \in DOMAIN procs : procs[p] = PreProcess(i, "ok")
  BY DEF PreRan
<1>2. procs[p].st = "ok"
  BY <1>1 DEF PreProcess
<1>3. procs'[p] = PreProcess(i, "ok")' /\ p \in DOMAIN procs'
  BY <1>1, <1>2 DEF PreProcess
<1>4. QED
  BY <1>3 DEF PreRan

LEMMA SvcSpawnRun ==
  ASSUME StopInv, CallInv, RunInv, ~early, ~unit.stop, Spawn("svc")
  PROVE  PreInv' /\ PolicyInv'
<1> DEFINE n == Len(procs) + 1
           o == [cmd |-> Command("svc"), i |-> Index("svc"), run |-> svc.run,
                 start |-> starts, st |-> "running"]
<1>0. PreInv /\ PolicyInv /\ TypeOK /\ LaunchInv
  BY DEF RunInv, StopInv
<1>1. /\ UNCHANGED <<unit, wrapper, starts, svc, early>> /\ procs' = Append(procs, o) /\ o \in Process
      /\ pi' = n /\ open' = open \cup {n} /\ call["svc"].pc = "spawn"
  BY <1>0, LaunchedProcess DEF Spawn, CallUnchanged, lifeVars, Caller
<1>2. o.cmd = svc.pc /\ o.start = starts /\ o = [cmd |-> svc.pc, i |-> svc.i, run |-> svc.run,
        start |-> starts, st |-> "running"] /\ o.st = "running"
  BY DEF Command, Index
<1>3. /\ svc.i \in Nat \ {0} /\ Len(unit.pre) \in Nat /\ open \subseteq DOMAIN procs
      /\ call \in [Caller -> [pc: CallPc, h: Nat, out: {"ok", "fail", "nocode"}]]
  BY <1>0, RunTypes
<1>4. /\ call'["svc"].pc = IF svc.pc = "main" THEN "done" ELSE "wait"
      /\ call'["svc"].out = "ok"
  BY <1>0, <1>1, <1>3 DEF Spawn, Command, LaunchInv, Caller
<1>5. svc.pc \in {"pre", "main", "post"}
  BY <1>1 DEF CallInv
<1> HIDE DEF o, n
<1>6. /\ DOMAIN procs' = DOMAIN procs \cup {n} /\ n \notin DOMAIN procs
      /\ \A p \in DOMAIN procs : procs'[p] = procs[p]
      /\ procs'[n] = o
  BY <1>0, <1>1, Launched DEF n
<1>7. \A i : PreRan(i) => PreRan(i)'
  BY <1>0, <1>1, <1>6, HistoryKept
<1>8. (Passed(svc.i - 1) => Passed(svc.i - 1)') /\ (Passed(Len(unit.pre)) => Passed(Len(unit.pre))')
  BY <1>1, <1>7 DEF Passed
<1>9. Mains' = IF svc.pc = "main" THEN Mains \cup {n} ELSE Mains
  BY <1>1, <1>2, <1>6 DEF Mains
<1>10. \A p \in Mains : p \in DOMAIN procs
  BY DEF Mains
<1>11. CASE svc.pc = "pre"
  <2>1. MayRun(Mains)'
    BY <1>0, <1>1, <1>6, <1>9, <1>10, <1>11 DEF PolicyInv, MayRun, Ended, Succeeded, Exited
  <2>2. IsPre(pi)'
    BY <1>1, <1>2, <1>6, <1>11 DEF IsPre, PreProcess
  <2>3. QED
    BY <1>0, <1>1, <1>4, <1>8, <1>11, <2>1, <2>2 DEF PreInv, PolicyInv
<1>12. CASE svc.pc = "main"
  <2>1. MayRun(Mains)
    BY <1>0, <1>1, <1>12 DEF PolicyInv
  <2>2. Mains' \ {n} = Mains
    BY <1>6, <1>9, <1>10, <1>12
  <2>3. Last(pi)'
    BY <1>1, <1>6, <1>9, <1>10, <1>12, <2>1, <2>2 DEF Last, MayRun, Ended, Succeeded, Exited
  <2>4. QED
    BY <1>0, <1>1, <1>4, <1>8, <1>12, <2>3 DEF PreInv, PolicyInv
<1>13. CASE svc.pc = "post"
  <2>1. Ended(Mains)' /\ Succeeded(Mains)'
    BY <1>0, <1>1, <1>6, <1>9, <1>10, <1>13 DEF PolicyInv, Ended, Succeeded, Exited
  <2>2. QED
    BY <1>1, <1>13, <2>1 DEF PreInv, PolicyInv
<1>14. QED
  BY <1>5, <1>11, <1>12, <1>13

\* The other steps launch nothing.
LEMMA SvcProcessRun ==
  ASSUME StopInv, CallInv, WaitedProcessIsRead, RunInv, ~early, ~unit.stop,
         StartProcess("svc"), ~Spawn("svc")
  PROVE  PreInv' /\ PolicyInv'
<1> USE DEF Caller
<1>0. PreInv /\ PolicyInv /\ TypeOK
  BY DEF RunInv, StopInv
<1>1. UNCHANGED <<unit, wrapper, starts, svc, early, procs, pi>>
  BY DEF StartProcess, SpawnFails, WaitForProcess, GetExitCode, CloseProcess, CallUnchanged,
         lifeVars
<1>2. /\ Mains' = Mains
      /\ Ended(Mains)' <=> Ended(Mains)
      /\ Succeeded(Mains)' <=> Succeeded(Mains)
      /\ MayRun(Mains)' <=> MayRun(Mains)
      /\ \A i : PreRan(i)' <=> PreRan(i)
  BY <1>1, RunFrame
<1>3. (Passed(svc.i - 1) => Passed(svc.i - 1)') /\ (Passed(Len(unit.pre)) => Passed(Len(unit.pre))')
  BY <1>1, <1>2 DEF Passed
<1>4. call \in [Caller -> [pc: CallPc, h: Nat, out: {"ok", "fail", "nocode"}]]
  BY <1>0, RunTypes
<1>5. svc.pc \in {"pre", "main", "post"}
  BY DEF CallInv, StartProcess, SpawnFails, WaitForProcess, GetExitCode, CloseProcess
<1>6. CASE SpawnFails("svc")
  <2>1. call["svc"].pc = "spawn" /\ call'["svc"].pc = "done" /\ call'["svc"].out = "fail"
    BY <1>4, <1>6 DEF SpawnFails
  <2>2. QED
    BY <1>0, <1>1, <1>2, <1>3, <1>5, <2>1 DEF PreInv, PolicyInv
<1>7. CASE WaitForProcess("svc")
  <2>1. call["svc"].pc = "wait" /\ call'["svc"].pc = "exit" /\ call'["svc"].h = pi
    BY <1>4, <1>7 DEF WaitForProcess
  <2>2. svc.pc # "main"
    BY <1>0, <2>1 DEF PolicyInv
  <2>3. svc.pc = "pre" => IsPre(call["svc"].h)'
    BY <1>0, <1>1, <2>1 DEF PreInv, IsPre, PreProcess
  <2>4. QED
    BY <1>0, <1>1, <1>2, <1>3, <1>5, <2>1, <2>2, <2>3 DEF PreInv, PolicyInv
<1>8. CASE GetExitCode("svc")
  <2>1. /\ call["svc"].pc = "exit" /\ call'["svc"].pc = "close" /\ pi = call["svc"].h
        /\ call'["svc"].out = "ok" => procs[pi].st = "ok"
    BY <1>4, <1>8 DEF GetExitCode, WaitedProcessIsRead
  <2>2. svc.pc # "main"
    BY <1>0, <2>1 DEF PolicyInv
  <2>3. svc.pc = "pre" /\ call'["svc"].out = "ok" => PreRan(svc.i)
    BY <1>0, <2>1 DEF PreInv, IsPre, PreRan
  <2>4. svc.pc = "pre" /\ call'["svc"].out = "ok" => PreRan(svc.i)'
    BY <1>1, <1>2, <2>3
  <2>5. QED
    BY <1>0, <1>1, <1>2, <1>3, <1>5, <2>1, <2>2, <2>4 DEF PreInv, PolicyInv
<1>9. CASE CloseProcess("svc")
  <2>1. call["svc"].pc = "close" /\ call'["svc"].pc = "done" /\ call'["svc"].out = call["svc"].out
    BY <1>4, <1>9 DEF CloseProcess
  <2>2. svc.pc # "main"
    BY <1>0, <2>1 DEF PolicyInv
  <2>3. svc.pc = "pre" /\ call'["svc"].out = "ok" => PreRan(svc.i)'
    BY <1>0, <1>1, <1>2, <2>1 DEF PreInv
  <2>4. QED
    BY <1>0, <1>1, <1>2, <1>3, <1>5, <2>1, <2>2, <2>3 DEF PreInv, PolicyInv
<1>10. QED
  BY <1>6, <1>7, <1>8, <1>9 DEF StartProcess

\* The handler's calls: the service thread is gone, and they launch no main process.
LEMMA CtlProcessRun ==
  ASSUME StopInv, CallInv, RunInv, ~early, ~unit.stop, StartProcess("ctl")
  PROVE  PreInv' /\ PolicyInv'
<1>0. TypeOK
  BY DEF StopInv
<1>1. call["ctl"].pc # "idle" /\ UNCHANGED <<unit, wrapper, starts, svc>>
  BY DEF StartProcess, Spawn, SpawnFails, WaitForProcess, GetExitCode, CloseProcess,
         CallUnchanged, lifeVars
<1>2. svc.pc \in {"none", "returned", "killed"}
  BY <1>1, HandlerAlone DEF ThreadGone
<1>3. Mains' = Mains
  <2>1. CASE Spawn("ctl")
    <3> DEFINE o == [cmd |-> Command("ctl"), i |-> Index("ctl"), run |-> svc.run,
                     start |-> starts, st |-> "running"]
    <3>1. o \in Process /\ procs' = Append(procs, o)
      BY <1>0, <2>1, LaunchedProcess DEF Spawn, Caller
    <3>2. o.cmd # "main"
      BY <1>1 DEF Command, CallInv
    <3> HIDE DEF o
    <3>3. QED
      BY <1>0, <1>1, <3>1, <3>2, Launched DEF Mains
  <2>2. CASE ~Spawn("ctl")
    <3>1. UNCHANGED procs
      BY <2>2 DEF StartProcess, SpawnFails, WaitForProcess, GetExitCode, CloseProcess
    <3>2. QED
      BY <1>1, <3>1 DEF Mains
  <2>3. QED
    BY <2>1, <2>2
<1>4. QED
  BY <1>1, <1>2, <1>3 DEF RunInv, PreInv, PolicyInv


\* A process ends: it is none of those that had to be over already.
LEMMA ExitRun ==
  ASSUME StopInv, RunInv, ~early, ~unit.stop, NEW p \in DOMAIN procs, NEW r \in {"ok", "fail"},
         ProcessExits(p, r)
  PROVE  PreInv' /\ PolicyInv'
<1>0. PreInv /\ PolicyInv /\ TypeOK
  BY DEF RunInv, StopInv
<1>1. UNCHANGED <<unit, wrapper, starts, svc, pi, call, open>>
  BY DEF ProcessExits, lifeVars
<1>2. /\ DOMAIN procs' = DOMAIN procs
      /\ \A q \in DOMAIN procs :
           /\ procs[q].st # "running" => procs'[q] = procs[q]
           /\ procs'[q].cmd = procs[q].cmd /\ procs'[q].start = procs[q].start
           /\ procs'[q] = [cmd |-> procs[q].cmd, i |-> procs[q].i, run |-> procs[q].run,
                           start |-> procs[q].start, st |-> procs'[q].st]
  BY <1>0, ProcessEnds
<1>3. Mains' = Mains /\ Mains \subseteq DOMAIN procs
  BY <1>1, <1>2 DEF Mains
<1>4. /\ Ended(Mains) => Ended(Mains)'
      /\ Ended(Mains) /\ Succeeded(Mains) => Succeeded(Mains)'
  BY <1>1, <1>2, <1>3 DEF Ended, Succeeded, Exited
<1>5. MayRun(Mains) => MayRun(Mains)'
  BY <1>1, <1>3, <1>4 DEF MayRun
<1>6. Last(pi) => Last(pi)'
  BY <1>1, <1>2, <1>3 DEF Last, Ended, Succeeded, Exited
<1>7. Last(svc.h) => Last(svc.h)'
  BY <1>1, <1>2, <1>3 DEF Last, Ended, Succeeded, Exited
<1>8. PolicyInv'
  BY <1>0, <1>1, <1>3, <1>4, <1>5, <1>6, <1>7 DEF PolicyInv, MayRun
<1>9. \A i : PreRan(i) => PreRan(i)'
  BY <1>0, <1>1, <1>2, HistoryKept
<1>10. \A n : Passed(n) => Passed(n)'
  BY <1>1, <1>9 DEF Passed
<1>11. \A q : IsPre(q) => IsPre(q)'
  <2> SUFFICES ASSUME NEW q, IsPre(q) PROVE IsPre(q)'
    OBVIOUS
  <2>1. q \in DOMAIN procs /\ procs[q] = PreProcess(svc.i, procs[q].st)
    BY DEF IsPre
  <2>2. procs[q].cmd = "pre" /\ procs[q].i = svc.i /\ procs[q].run = svc.run
        /\ procs[q].start = starts
    BY <2>1 DEF PreProcess
  <2>3. procs'[q] = [cmd |-> "pre", i |-> svc.i, run |-> svc.run, start |-> starts,
                     st |-> procs'[q].st]
    BY <1>2, <2>1, <2>2
  <2>4. QED
    BY <1>1, <1>2, <2>1, <2>3 DEF IsPre, PreProcess
<1>12. IsPre(pi) => IsPre(pi)'
  BY <1>1, <1>11
<1>13. IsPre(call["svc"].h) => IsPre(call["svc"].h)'
  BY <1>1, <1>11
<1>14. Passed(svc.i - 1) => Passed(svc.i - 1)'
  BY <1>1, <1>10
<1>15. Passed(Len(unit.pre)) => Passed(Len(unit.pre))'
  BY <1>1, <1>10
<1>16. PreRan(svc.i) => PreRan(svc.i)'
  BY <1>1, <1>9
<1>17. PreInv'
  BY <1>0, <1>1, <1>12, <1>13, <1>14, <1>15, <1>16 DEF PreInv
<1>18. QED
  BY <1>8, <1>17

-----------------------------------------------------------------------------
(* Every step keeps the invariant.                                         *)

LEMMA RunNext ==
  StopInv /\ CallInv /\ WaitedProcessIsRead /\ RunInv /\ [Next]_vars => RunInv'
<1> SUFFICES ASSUME StopInv, CallInv, WaitedProcessIsRead, RunInv, [Next]_vars
             PROVE  RunInv'
  OBVIOUS
<1> SUFFICES ASSUME ~early', ~unit'.stop
             PROVE  PreInv' /\ PolicyInv'
  <2>1. LaunchInv'
    BY LaunchNext DEF StopInv, RunInv
  <2>2. QED
    BY <2>1 DEF RunInv
<1> USE DEF lifeVars, procVars, Caller
<1>0. TypeOK /\ StartInv /\ LaunchInv
  BY DEF StopInv, RunInv
<1>1. CASE ServiceMain
  <2>1. /\ UNCHANGED <<unit, wrapper, starts, procs, open, pi, call, early>> /\ wrapper = "running"
    BY <1>1 DEF ServiceMain, Start, OnStart, OnStartCheck, OnStartCreate, OnStartAssign,
                OnStartFails, CreateStopEvent, ServiceMainReturns, MainUnchanged, Steps
  <2>2. CASE OnStartCreate
    <3>1. svc.pc = "none" /\ svc'.pc = "check"
      BY <1>0, <2>2, SvcParts DEF OnStartCreate, StartInv
    <3>2. Mains = {} /\ Mains' = Mains
      BY <2>1, <3>1, RunFrame DEF RunInv, PolicyInv
    <3>3. MayRun(Mains)'
      BY <3>2 DEF MayRun, Ended, Succeeded
    <3>4. QED
      BY <3>1, <3>3 DEF PreInv, PolicyInv
  <2>3. CASE ~OnStartCreate
    <3>1. UNCHANGED svc
      BY <1>1, <2>3 DEF ServiceMain, Start, OnStart, OnStartCheck, OnStartAssign,
                OnStartFails, CreateStopEvent, ServiceMainReturns
    <3>2. RunInv'
      BY <2>1, <3>1, RunKept
    <3>3. QED
      BY <3>2 DEF RunInv
  <2>4. QED
    BY <2>2, <2>3
<1>2. CASE ServiceThread
  <2>1. ~early /\ ~unit.stop
    BY <1>2, SvcStepFrame
  <2>2. QED
    BY <1>2, <2>1, SvcStepRun, SvcCallRun
<1>3. CASE ThreadDies
  <2>1. svc'.pc = "killed"
    BY <1>3 DEF ThreadDies, NoThread
  <2>2. QED
    BY <2>1 DEF PreInv, PolicyInv
<1>4. CASE HandlerStep
  <2>1. UNCHANGED <<unit, wrapper, starts, svc, early>>
    BY <1>0, <1>4, HandlerSteps
  <2>2. UNCHANGED procVars \/ CallStartProcess("ctl") \/ EndCall("ctl")
    BY <1>4 DEF HandlerStep, EndPause, EndContinue, StopPending, RunStop, StopReturns,
       StopServiceDependencies, StopServiceDependenciesFails, TerminateServiceThread,
       WaitForServiceThread, DisownServiceThread, RunStopPost, StopPostReturns, StopSucceeds,
       SetStopEvent, RestoreOriginalState
  <2>3. UNCHANGED <<procs, open>> /\ call'["svc"] = call["svc"]
    BY <1>0, <2>2, OthersCall DEF CallStartProcess, EndCall
  <2>4. CASE UNCHANGED pi
    <3>1. RunInv'
      BY <2>1, <2>3, <2>4, RunKept
    <3>2. QED
      BY <3>1 DEF RunInv
  <2>5. CASE ~UNCHANGED pi
    <3>1. RunStop \/ RunStopPost
      BY <1>4, <2>5 DEF HandlerStep, EndPause, EndContinue, StopPending, StopReturns,
       StopServiceDependencies, StopServiceDependenciesFails, TerminateServiceThread,
       WaitForServiceThread, DisownServiceThread, StopPostReturns, StopSucceeds,
       SetStopEvent, RestoreOriginalState, EndCall
    <3>2. ThreadGone
      BY <2>1, <3>1, HandlerAlone
    <3>3. svc'.pc \in {"none", "returned", "killed"} /\ Mains' = Mains
      BY <2>1, <2>3, <3>2, RunFrame DEF ThreadGone
    <3>4. QED
      BY <2>1, <3>3 DEF RunInv, PreInv, PolicyInv
  <2>6. QED
    BY <2>4, <2>5
<1>5. CASE DeliverQueued \/ \E c \in Controls : Deliver(c)
  <2>1. UNCHANGED <<unit, wrapper, starts, svc, procs, open, pi, call>>
    BY <1>5 DEF DeliverQueued, Deliver
  <2>2. early => early'
    BY <1>0, <1>5, DeliverSteps
  <2>3. RunInv'
    BY <2>1, <2>2, RunKept
  <2>4. QED
    BY <2>1, <2>3 DEF RunInv
<1>6. CASE Exit
  <2>1. svc'.pc = "none" /\ wrapper' = "exited"
    BY <1>6 DEF Exit, NoThread
  <2>2. QED
    BY <2>1 DEF PreInv, PolicyInv
<1>7. ASSUME NEW t \in Caller, StartProcess(t)
      PROVE  PreInv' /\ PolicyInv'
  <2>1. UNCHANGED <<unit, early>>
    BY <1>7 DEF StartProcess, Spawn, SpawnFails, WaitForProcess, GetExitCode, CloseProcess,
       CallUnchanged
  <2>2. QED
    BY <1>7, <2>1, SvcSpawnRun, SvcProcessRun, CtlProcessRun
<1>8. ASSUME NEW p \in DOMAIN procs, NEW r \in {"ok", "fail"}, ProcessExits(p, r)
      PROVE  PreInv' /\ PolicyInv'
  <2>1. UNCHANGED <<unit, early>>
    BY <1>8 DEF ProcessExits
  <2>2. QED
    BY <1>8, <2>1, ExitRun
<1>9. CASE (\E t \in Thread : Report(t)) \/ UNCHANGED vars
  <2>1. UNCHANGED <<unit, wrapper, starts, svc, procs, open, pi, call, early>>
    BY <1>9 DEF Report, vars
  <2>2. RunInv'
    BY <2>1, RunKept
  <2>3. QED
    BY <2>1, <2>2 DEF RunInv
<1>10. CASE StartAgain
  <2>1. wrapper = "exited" /\ starts' = starts + 1 /\ UNCHANGED <<svc, procs>>
    BY <1>10 DEF StartAgain
  <2>2. svc'.pc = "none"
    BY <1>0, <2>1 DEF LaunchInv
  <2>3. starts \in Nat /\ \A p \in DOMAIN procs : procs[p] \in Process
    BY <1>0, RunTypes
  <2>4. \A p \in DOMAIN procs : procs[p].start # starts + 1
    <3> SUFFICES ASSUME NEW p \in DOMAIN procs PROVE procs[p].start # starts + 1
      OBVIOUS
    <3>1. procs[p].start \in Nat
      BY <2>3 DEF Process
    <3>2. procs[p].start <= starts
      BY <1>0 DEF LaunchInv
    <3>3. QED
      BY <2>3, <3>1, <3>2
  <2>5. Mains' = {}
    BY <2>1, <2>4 DEF Mains
  <2>6. QED
    BY <2>2, <2>5 DEF PreInv, PolicyInv
<1>11. QED
  BY <1>1, <1>2, <1>3, <1>4, <1>5, <1>6, <1>7, <1>8, <1>9, <1>10, NextGroups

LEMMA RunInit == Init => RunInv
BY DEF Init, RunInv, LaunchInv, PreInv, PolicyInv, NoThread, NoCall, Mains, Caller

\* The invariant, with those it needs.
OrderInv == StopInv /\ CallInv /\ WaitedProcessIsRead /\ RunInv

LEMMA OrderInvariant == Spec => []OrderInv
<1>1. Init => CallInv /\ WaitedProcessIsRead /\ RunInv
  BY RunInit DEF Init, CallInv, WaitedProcessIsRead, NoCall, Caller
<1>2. StopInv /\ CallInv /\ WaitedProcessIsRead /\ RunInv /\ [Next]_vars
        => (CallInv /\ WaitedProcessIsRead /\ RunInv)'
  BY CallNext, ReadNext, RunNext DEF StopInv
<1>3. StopInv /\ CallInv /\ WaitedProcessIsRead /\ RunInv <=> OrderInv
  BY DEF OrderInv
<1>4. QED
  BY <1>1, <1>2, <1>3, StopInvariant, PTL DEF Spec

-----------------------------------------------------------------------------
(* What a step that launches ExecStart can rely on.                        *)

\* Only the service thread launches it.
LEMMA NewMainSpawned ==
  ASSUME OrderInv, [Next]_vars, NEW q \in DOMAIN procs', NewMain(q)
  PROVE  Spawn("svc") /\ svc.pc = "main"
<1> USE DEF Caller, lifeVars, procVars
<1>0. TypeOK /\ CallInv
  BY DEF OrderInv, StopInv
<1>1. q \in DOMAIN procs' /\ q \notin DOMAIN procs /\ procs'[q].cmd = "main"
  BY DEF NewMain
<1>2. \E t \in Caller : StartProcess(t)
  <2>1. CASE ServiceMain
    BY <1>1, <2>1 DEF ServiceMain, Start, OnStart, OnStartCheck, OnStartCreate, OnStartAssign,
                OnStartFails, CreateStopEvent, ServiceMainReturns, MainUnchanged
  <2>2. CASE ServiceThread
    BY <1>0, <1>1, <2>2, SvcStepFrame DEF OrderInv
  <2>3. CASE ThreadDies
    BY <1>1, <2>3 DEF ThreadDies
  <2>4. CASE HandlerStep
    BY <1>1, <2>4 DEF HandlerStep, EndPause, EndContinue, StopPending, RunStop, StopReturns,
         StopServiceDependencies, StopServiceDependenciesFails, TerminateServiceThread,
         WaitForServiceThread, DisownServiceThread, RunStopPost, StopPostReturns, StopSucceeds,
         SetStopEvent, RestoreOriginalState, CallStartProcess, EndCall
  <2>5. CASE DeliverQueued \/ \E c \in Controls : Deliver(c)
    BY <1>1, <2>5 DEF DeliverQueued, Deliver
  <2>6. CASE Exit
    BY <1>1, <2>6 DEF Exit
  <2>7. ASSUME NEW p \in DOMAIN procs, NEW r \in {"ok", "fail"}, ProcessExits(p, r)
        PROVE  FALSE
    BY <1>0, <1>1, <2>7, ProcessEnds
  <2>8. CASE (\E t \in Thread : Report(t)) \/ StartAgain \/ UNCHANGED vars
    BY <1>1, <2>8 DEF Report, StartAgain, vars
  <2>9. QED
    BY <2>1, <2>2, <2>3, <2>4, <2>5, <2>6, <2>7, <2>8, NextGroups
<1>3. PICK t \in Caller : StartProcess(t)
  BY <1>2
<1>4. Spawn(t)
  BY <1>1, <1>3 DEF StartProcess, SpawnFails, WaitForProcess, GetExitCode, CloseProcess
<1> DEFINE o == [cmd |-> Command(t), i |-> Index(t), run |-> svc.run,
                 start |-> starts, st |-> "running"]
<1>5. o \in Process /\ procs' = Append(procs, o) /\ o.cmd = Command(t)
  BY <1>0, <1>4, LaunchedProcess DEF Spawn
<1> HIDE DEF o
<1>6. procs'[q] = o
  BY <1>0, <1>1, <1>5, Launched
<1>7. Command(t) = "main"
  BY <1>1, <1>5, <1>6
<1>8. t = "svc"
  BY <1>0, <1>4, <1>7 DEF Spawn, Command, CallInv
<1>9. QED
  BY <1>4, <1>7, <1>8 DEF Command

\* What the invariant says of the moment before.
LEMMA NewMainAllowed ==
  ASSUME OrderInv, ~early, ~unit.stop, Spawn("svc"), svc.pc = "main"
  PROVE  Passed(Len(unit.pre)) /\ MayRun(Mains)
<1>1. call["svc"].pc = "spawn"
  BY DEF Spawn
<1>2. PreInv /\ PolicyInv
  BY DEF OrderInv, RunInv
<1>3. QED
  BY <1>1, <1>2 DEF PreInv, PolicyInv

(* The commands of a round run in the order of the unit file: ServiceThread*)
(* launches ExecStart only when each ExecStartPre without the '-' prefix   *)
(* has ended in that round with exit code 0, as read from the process that *)
(* ran it, for every unit without ExecStop that is not stopped too early.  *)
THEOREM MainFollowsPre == Spec => MainAfterPre
<1> DEFINE PreDone == \A i \in 1..Len(unit.pre) : unit.pre[i] \/ \E p \in DOMAIN procs :
             procs[p] = [cmd |-> "pre", i |-> i, run |-> svc.run, start |-> starts, st |-> "ok"]
<1>1. OrderInv /\ [Next]_vars =>
        [\A q \in DOMAIN procs' : NewMain(q) /\ ~early /\ ~unit.stop => PreDone]_vars
  <2> SUFFICES ASSUME OrderInv, [Next]_vars, NEW q \in DOMAIN procs', NewMain(q), ~early, ~unit.stop
               PROVE  PreDone
    OBVIOUS
  <2>1. Passed(Len(unit.pre))
    BY NewMainSpawned, NewMainAllowed
  <2>2. QED
    BY <2>1 DEF Passed, PreRan, PreProcess
<1>2. QED
  BY <1>1, OrderInvariant, PTL DEF Spec, MainAfterPre

(* What each restart action comes to: ServiceThread launches ExecStart     *)
(* again only when every main process of this wrapper has ended, never for *)
(* a unit with Restart=no or none, and both for on-success and for         *)
(* on-failure only when each ended with exit code 0.                       *)
THEOREM RestartsFollowPolicy == Spec => MainRestartedByPolicy
<1> DEFINE Allowed == \A p \in DOMAIN procs : procs[p].cmd = "main" /\ procs[p].start = starts =>
             /\ Exited(p)
             /\ unit.restart \notin {"NO", "UNDEFINED"}
             /\ unit.restart \in {"ON_SUCCESS", "ON_FAILURE"} => procs[p].st = "ok"
<1>1. OrderInv /\ [Next]_vars =>
        [\A q \in DOMAIN procs' : NewMain(q) /\ ~early /\ ~unit.stop => Allowed]_vars
  <2> SUFFICES ASSUME OrderInv, [Next]_vars, NEW q \in DOMAIN procs', NewMain(q), ~early, ~unit.stop
               PROVE  Allowed
    OBVIOUS
  <2>1. MayRun(Mains)
    BY NewMainSpawned, NewMainAllowed
  <2>2. QED
    BY <2>1 DEF MayRun, Mains, Ended, Succeeded
<1>2. QED
  BY <1>1, OrderInvariant, PTL DEF Spec, MainRestartedByPolicy
=============================================================================
