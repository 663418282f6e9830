------------------------ MODULE ServiceWrapperProofs ------------------------
(***************************************************************************)
(* Type correctness of ServiceWrapper, and the safety of its stop protocol *)
(* and of its use of StartProcess, for every set of units, controls and    *)
(* faults and every bound.                                                 *)
(*                                                                         *)
(* Types: first what the building blocks of the actions do to each part of *)
(* TypeOK, then one case per action.                                       *)
(*                                                                         *)
(* The stop: a stop that overlaps OnStart is recorded as early; any        *)
(* other finds the handle of the service thread, or finds none because     *)
(* there is no thread, so that OnStop's wait is a wait for its end.  All   *)
(* that the later parts need is that the thread is then gone for good.     *)
(*                                                                         *)
(* The last report: a service thread that has returned has written         *)
(* SERVICE_STOPPED over m_status, and whoever writes it next is the        *)
(* control handler, whose stop, where it cannot fail, ends with            *)
(* SERVICE_STOPPED again.                                                  *)
(*                                                                         *)
(* A second stop: after a stop that cannot fail any more the SCM hears of  *)
(* nothing but SERVICE_STOPPED, and so sends no other.                     *)
(***************************************************************************)
EXTENDS ServiceWrapper, TLAPS

-----------------------------------------------------------------------------
(* Type correctness: what the building blocks of the actions preserve.     *)

LEMMA Kept ==
  ASSUME TypeOK
  PROVE  /\ UNCHANGED lifeVars => LifeOK'
         /\ UNCHANGED scmVars => ScmOK'
         /\ UNCHANGED statusVars => StatusOK'
         /\ UNCHANGED <<hThread, doomed, stopEvent, mainPc, early>> => MainOK'
         /\ UNCHANGED svc => SvcOK'
         /\ UNCHANGED ctl => CtlOK'
         /\ UNCHANGED <<pi, call>> => CallOK'
         /\ UNCHANGED <<procs, open>> => ProcsOK'
         /\ UNCHANGED procVars => CallOK' /\ ProcsOK'
BY DEF TypeOK, LifeOK, ScmOK, StatusOK, MainOK, SvcOK, CtlOK, CallOK, ProcsOK,
       lifeVars, scmVars, statusVars, procVars

LEMMA StatusType ==
  ASSUME TypeOK, NEW t \in Thread, NEW s \in State, SetServiceStatus(t, s)
  PROVE  StatusOK'
BY DEF TypeOK, StatusOK, SetServiceStatus

LEMMA SvcParts ==
  ASSUME TypeOK
  PROVE  /\ svc.pc \in SvcPc /\ svc.i \in Nat \ {0} /\ svc.thrown \in {0, 1}
         /\ svc.run \in 1..MaxRuns /\ svc.h \in Nat
         /\ svc = [pc |-> svc.pc, i |-> svc.i, thrown |-> svc.thrown,
                   run |-> svc.run, h |-> svc.h]
BY DEF TypeOK, SvcOK

\* Where a step leaves svc, member by member.
LEMMA SvcType ==
  ASSUME TypeOK, NEW pc \in SvcPc, NEW i \in Nat \ {0}, NEW x \in {0, 1},
         NEW r \in 1..MaxRuns, NEW h \in Nat,
         svc' = [pc |-> pc, i |-> i, thrown |-> x, run |-> r, h |-> h]
  PROVE  SvcOK'
BY DEF SvcOK

LEMMA GotoType ==
  ASSUME TypeOK, NEW pc \in SvcPc, Goto(pc)
  PROVE  SvcOK'
<1>1. svc' = [pc |-> pc, i |-> 1, thrown |-> svc.thrown, run |-> svc.run, h |-> svc.h]
  BY SvcParts DEF Goto
<1>2. QED
  BY <1>1, SvcParts, SvcType

LEMMA ThrowType ==
  ASSUME TypeOK, NEW code \in {0, 1}, Throw(code)
  PROVE  SvcOK'
<1>1. svc' = [pc |-> "catch", i |-> svc.i, thrown |-> code, run |-> svc.run, h |-> svc.h]
  BY SvcParts DEF Throw
<1>2. QED
  BY <1>1, SvcParts, SvcType DEF SvcPc

LEMMA NextCommandType ==
  ASSUME TypeOK, svc' = [svc EXCEPT !.i = @ + 1]
  PROVE  SvcOK'
<1>1. svc' = [pc |-> svc.pc, i |-> svc.i + 1, thrown |-> svc.thrown,
              run |-> svc.run, h |-> svc.h]
  BY SvcParts
<1>2. svc.i + 1 \in Nat \ {0}
  BY SvcParts
<1>3. QED
  BY <1>1, <1>2, SvcParts, SvcType

LEMMA CtlGotoType ==
  ASSUME TypeOK, NEW pc \in CtlPc, CtlGoto(pc)
  PROVE  CtlOK'
BY DEF TypeOK, CtlOK, CtlGoto

LEMMA IdleType == IdleHandler \in [pc: CtlPc, i: Nat, original: State]
BY DEF IdleHandler, CtlPc, State

LEMMA CallType ==
  ASSUME TypeOK, NEW t \in Caller, CallStartProcess(t)
  PROVE  CallOK' /\ ProcsOK'
BY DEF TypeOK, CallOK, ProcsOK, CallStartProcess, NoProc, CallPc

LEMMA EndCallType ==
  ASSUME TypeOK, NEW t \in Caller, EndCall(t)
  PROVE  CallOK' /\ ProcsOK'
BY DEF TypeOK, CallOK, ProcsOK, EndCall, NoProc, NoCall, CallPc

LEMMA ThrownByType == \A out : ThrownBy(out) \in {0, 1}
BY DEF ThrownBy

-----------------------------------------------------------------------------
(* Type correctness: the three threads.                                    *)

LEMMA MainType ==
  ASSUME TypeOK, ServiceMain
  PROVE  TypeOK'
<1> USE DEF MainUnchanged, Thread, State
<1>0. TypeOK => MainOK
  BY DEF TypeOK
<1>1. CASE Start
  <2>1. MainOK' /\ StatusOK'
    BY <1>0, <1>1, StatusType DEF Start, MainOK, MainPc
  <2>2. QED
    BY <1>1, <2>1, Kept DEF Start, TypeOK
<1>2. CASE OnStart
  <2>1. MainOK' /\ StatusOK'
    BY <1>0, <1>2, StatusType DEF OnStart, MainOK, MainPc
  <2>2. QED
    BY <1>2, <2>1, Kept DEF OnStart, TypeOK
<1>3. CASE OnStartCheck
  <2>1. MainOK'
    BY <1>0, <1>3 DEF OnStartCheck, MainOK, MainPc
  <2>2. QED
    BY <1>3, <2>1, Kept DEF OnStartCheck, TypeOK
<1>4. CASE OnStartCreate
  <2>1. MainOK'
    BY <1>0, <1>4 DEF OnStartCreate, MainOK, MainPc
  <2>2. svc' = [pc |-> "check", i |-> svc.i, thrown |-> svc.thrown,
                run |-> svc.run, h |-> svc.h]
    BY <1>4, SvcParts DEF OnStartCreate
  <2>3. SvcOK'
    BY <2>2, SvcParts, SvcType DEF SvcPc
  <2>4. QED
    BY <1>4, <2>1, <2>3, Kept DEF OnStartCreate, TypeOK
<1>5. CASE OnStartAssign
  <2>1. MainOK'
    BY <1>0, <1>5 DEF OnStartAssign, MainOK, MainPc
  <2>2. QED
    BY <1>5, <2>1, Kept DEF OnStartAssign, TypeOK
<1>6. CASE OnStartFails
  <2>1. MainOK' /\ StatusOK'
    BY <1>0, <1>6, StatusType DEF OnStartFails, MainOK, MainPc
  <2>2. QED
    BY <1>6, <2>1, Kept DEF OnStartFails, TypeOK
<1>7. CASE CreateStopEvent
  <2>1. MainOK'
    BY <1>0, <1>7 DEF CreateStopEvent, MainOK, MainPc
  <2>2. QED
    BY <1>7, <2>1, Kept DEF CreateStopEvent, TypeOK
<1>8. CASE ServiceMainReturns
  <2>1. MainOK'
    BY <1>0, <1>8 DEF ServiceMainReturns, MainOK, MainPc
  <2>2. QED
    BY <1>8, <2>1, Kept DEF ServiceMainReturns, TypeOK
<1>9. QED
  BY <1>1, <1>2, <1>3, <1>4, <1>5, <1>6, <1>7, <1>8 DEF ServiceMain

LEMMA SvcThreadType ==
  ASSUME TypeOK, ServiceThread
  PROVE  TypeOK'
<1> USE DEF SvcUnchanged, Thread, Caller, State, SvcPc
<1>1. CASE ConditionFails
  BY <1>1, Kept, StatusType, ThrowType DEF ConditionFails, TypeOK
<1>2. CASE OrderingFileFails
  BY <1>2, Kept, ThrowType DEF OrderingFileFails, TypeOK
<1>3. CASE ChecksPass
  BY <1>3, Kept, StatusType, GotoType DEF ChecksPass, TypeOK
<1>4. CASE AfterServices
  BY <1>4, Kept, StatusType, GotoType DEF AfterServices, TypeOK
<1>5. CASE AfterServicesFail
  BY <1>5, Kept, ThrowType DEF AfterServicesFail, TypeOK
<1>6. CASE RunPre
  BY <1>6, Kept, CallType DEF RunPre, TypeOK
<1>7. CASE PreReturns
  <2>1. SvcOK'
    BY <1>7, NextCommandType, ThrowType, ThrownByType DEF PreReturns
  <2>2. QED
    BY <1>7, <2>1, Kept, EndCallType DEF PreReturns, TypeOK
<1>8. CASE PreEnds
  BY <1>8, Kept, StatusType, GotoType DEF PreEnds, TypeOK
<1>9. CASE NoMain
  BY <1>9, Kept, GotoType DEF NoMain, TypeOK
<1>10. CASE RunMain
  BY <1>10, Kept, CallType DEF RunMain, TypeOK
<1>11. CASE MainLaunched
  <2>1. CASE Throw(1)
    BY <1>11, <2>1, Kept, EndCallType, ThrowType DEF MainLaunched, TypeOK
  <2>2. CASE svc' = [svc EXCEPT !.pc = "waitMain", !.h = pi]
    <3>1. svc' = [pc |-> "waitMain", i |-> svc.i, thrown |-> svc.thrown,
                  run |-> svc.run, h |-> pi]
      BY <2>2, SvcParts
    <3>2. SvcOK'
      BY <3>1, SvcParts, SvcType DEF TypeOK, CallOK
    <3>3. QED
      BY <1>11, <3>2, Kept, EndCallType DEF MainLaunched, TypeOK
  <2>3. QED
    BY <1>11, <2>1, <2>2 DEF MainLaunched
<1>12. CASE MainEnds
  <2>1. svc' \in {[pc |-> "catch", i |-> svc.i, thrown |-> 1, run |-> svc.run, h |-> NoProc],
                  [pc |-> "post", i |-> 1, thrown |-> svc.thrown, run |-> svc.run, h |-> NoProc]}
    BY <1>12, SvcParts DEF MainEnds
  <2>2. SvcOK'
    BY <2>1, SvcParts, SvcType DEF NoProc
  <2>3. ProcsOK'
    BY <1>12 DEF MainEnds, TypeOK, ProcsOK
  <2>4. QED
    BY <1>12, <2>2, <2>3, Kept DEF MainEnds, TypeOK
<1>13. CASE RunPost
  BY <1>13, Kept, CallType DEF RunPost, TypeOK
<1>14. CASE PostReturns
  <2>1. SvcOK'
    BY <1>14, NextCommandType, ThrowType, ThrownByType DEF PostReturns
  <2>2. QED
    BY <1>14, <2>1, Kept, EndCallType DEF PostReturns, TypeOK
<1>15. CASE PostEnds
  BY <1>15, Kept, ThrowType DEF PostEnds, TypeOK
<1>16. CASE Catch
  BY <1>16, Kept, StatusType, GotoType DEF Catch, TypeOK
<1>17. CASE Decide
  BY <1>17, Kept, GotoType DEF Decide, TypeOK
<1>18. CASE WakeUp
  <2>1. svc' = [pc |-> "check", i |-> svc.i, thrown |-> 0, run |-> svc.run + 1, h |-> svc.h]
    BY <1>18, SvcParts DEF WakeUp
  <2>2. svc.run + 1 \in 1..MaxRuns
    BY <1>18, SvcParts, BoundsAssumption DEF WakeUp, SvcAt, BoundsAssumption
  <2>3. SvcOK'
    BY <2>1, <2>2, SvcParts, SvcType
  <2>4. QED
    BY <1>18, <2>3, Kept DEF WakeUp, TypeOK
<1>19. CASE Finish
  BY <1>19, Kept, StatusType, GotoType DEF Finish, TypeOK
<1>20. QED
  BY <1>1, <1>2, <1>3, <1>4, <1>5, <1>6, <1>7, <1>8, <1>9, <1>10, <1>11, <1>12,
     <1>13, <1>14, <1>15, <1>16, <1>17, <1>18, <1>19 DEF ServiceThread

LEMMA HandlerType ==
  ASSUME TypeOK, HandlerStep
  PROVE  TypeOK'
<1> USE DEF CtlUnchanged, Thread, Caller, State, CtlPc
<1>0. MainOK /\ CtlOK
  BY DEF TypeOK
<1>1. CASE EndPause
  BY <1>1, Kept, StatusType, IdleType DEF EndPause, CtlOK, TypeOK
<1>2. CASE EndContinue
  BY <1>2, Kept, StatusType, IdleType DEF EndContinue, CtlOK, TypeOK
<1>3. CASE StopPending
  BY <1>3, Kept, StatusType, CtlGotoType DEF StopPending, TypeOK
<1>4. CASE RunStop
  BY <1>4, Kept, CallType DEF RunStop, TypeOK
<1>5. CASE StopReturns
  BY <1>5, Kept, CtlGotoType, EndCallType DEF StopReturns, TypeOK
<1>6. CASE StopServiceDependencies
  <2>1. ScmOK'
    BY <1>6 DEF StopServiceDependencies, TypeOK, ScmOK
  <2>2. QED
    BY <1>6, <2>1, Kept, CtlGotoType DEF StopServiceDependencies, TypeOK
<1>7. CASE StopServiceDependenciesFails
  BY <1>7, Kept, CtlGotoType DEF StopServiceDependenciesFails, TypeOK
<1>8. CASE TerminateServiceThread
  <2>1. MainOK'
    BY <1>0, <1>8 DEF TerminateServiceThread, MainOK
  <2>2. QED
    BY <1>8, <2>1, Kept, CtlGotoType DEF TerminateServiceThread, TypeOK
<1>9. CASE WaitForServiceThread
  BY <1>9, Kept, CtlGotoType DEF WaitForServiceThread, TypeOK
<1>10. CASE DisownServiceThread
  <2>1. MainOK'
    BY <1>0, <1>10 DEF DisownServiceThread, MainOK
  <2>2. QED
    BY <1>10, <2>1, Kept, CtlGotoType DEF DisownServiceThread, TypeOK
<1>11. CASE RunStopPost
  BY <1>11, Kept, CallType DEF RunStopPost, TypeOK
<1>12. CASE StopPostReturns
  <2>1. CASE ctl' = [ctl EXCEPT !.i = @ + 1]
    <3>1. CtlOK'
      BY <1>0, <2>1 DEF CtlOK
    <3>2. QED
      BY <1>12, <3>1, Kept, EndCallType DEF StopPostReturns, TypeOK
  <2>2. CASE CtlGoto("stopFailed")
    BY <1>12, <2>2, Kept, CtlGotoType, EndCallType DEF StopPostReturns, TypeOK
  <2>3. QED
    BY <1>12, <2>1, <2>2 DEF StopPostReturns
<1>13. CASE StopSucceeds
  BY <1>13, Kept, StatusType, CtlGotoType DEF StopSucceeds, TypeOK
<1>14. CASE SetStopEvent
  <2>1. MainOK'
    BY <1>0, <1>14 DEF SetStopEvent, MainOK
  <2>2. QED
    BY <1>14, <2>1, Kept, IdleType DEF SetStopEvent, CtlOK, TypeOK
<1>15. CASE RestoreOriginalState
  <2>1. ctl.original \in State
    BY <1>0 DEF CtlOK
  <2>2. QED
    BY <1>15, <2>1, Kept, StatusType, IdleType DEF RestoreOriginalState, CtlOK, TypeOK
<1>16. QED
  BY <1>1, <1>2, <1>3, <1>4, <1>5, <1>6, <1>7, <1>8, <1>9, <1>10, <1>11, <1>12,
     <1>13, <1>14, <1>15 DEF HandlerStep

LEMMA DeliverType ==
  ASSUME TypeOK, DeliverQueued \/ \E c \in Controls : Deliver(c)
  PROVE  TypeOK'
<1> USE DEF Thread, State, CtlPc
<1>0. ScmOK /\ StatusOK /\ MainOK /\ CtlOK
  BY DEF TypeOK
<1>1. CASE DeliverQueued
  <2>1. ScmOK' /\ MainOK'
    BY <1>0, <1>1 DEF DeliverQueued, ScmOK, MainOK, scmVars
  <2>2. CtlOK'
    BY <1>0, <1>1 DEF DeliverQueued, CtlOK, StatusOK, statusVars
  <2>3. QED
    BY <1>1, <2>1, <2>2, Kept DEF DeliverQueued, TypeOK
<1>2. ASSUME NEW c \in Controls, Deliver(c)
      PROVE  TypeOK'
  <2>1. ScmOK'
    BY <1>0, <1>2, BoundsAssumption DEF Deliver, ScmOK, BoundsAssumption
  <2>2. MainOK'
    BY <1>0, <1>2 DEF Deliver, MainOK
  <2>3. StatusOK'
    BY <1>0, <1>2, StatusType, Kept DEF Deliver
  <2>4. CtlOK'
    <3>1. CASE ctl' = [pc |-> "stopping", i |-> 1, original |-> status]
      BY <1>0, <3>1 DEF CtlOK, StatusOK
    <3>2. CASE CtlGoto("pausing") \/ CtlGoto("continuing")
      BY <3>2, CtlGotoType
    <3>3. CASE UNCHANGED ctl
      BY <3>3, Kept
    <3>4. QED
      BY <1>2, <3>1, <3>2, <3>3 DEF Deliver
  <2>5. QED
    BY <1>2, <2>1, <2>2, <2>3, <2>4, Kept DEF Deliver, TypeOK
<1>3. QED
  BY <1>1, <1>2

-----------------------------------------------------------------------------
(* Type correctness: StartProcess and the processes.                       *)

\* Appending a process, or ending one, leaves a sequence of processes.
LEMMA AppendProcess ==
  ASSUME NEW s \in Seq(Process), NEW e \in Process
  PROVE  Append(s, e) \in Seq(Process) /\ Len(Append(s, e)) = Len(s) + 1
OBVIOUS

LEMMA EndProcess ==
  ASSUME NEW s \in Seq(Process), NEW p \in DOMAIN s, NEW r \in {"ok", "fail"}
  PROVE  /\ [s EXCEPT ![p].st = r] \in Seq(Process)
         /\ Len([s EXCEPT ![p].st = r]) = Len(s)
<1>1. s[p] \in Process
  OBVIOUS
<1>2. [s[p] EXCEPT !.st = r] \in Process
  BY <1>1 DEF Process
<1>3. QED
  BY <1>2

LEMMA LaunchedProcess ==
  ASSUME TypeOK, NEW t \in Caller
  PROVE  [cmd |-> Command(t), i |-> Index(t), run |-> svc.run, start |-> starts,
          st |-> "running"] \in Process
<1>1. svc.pc \in SvcPc /\ svc.i \in Nat /\ svc.run \in Nat
  BY SvcParts, BoundsAssumption DEF BoundsAssumption
<1>2. ctl.pc \in CtlPc /\ ctl.i \in Nat
  BY DEF TypeOK, CtlOK
<1>3. starts \in Nat
  BY BoundsAssumption DEF BoundsAssumption, TypeOK, LifeOK
<1>4. QED
  BY <1>1, <1>2, <1>3 DEF Process, Command, Index, Caller

LEMMA StartProcessType ==
  ASSUME TypeOK, NEW t \in Caller, StartProcess(t)
  PROVE  TypeOK'
<1> USE DEF CallUnchanged
<1>0. CallOK /\ ProcsOK
  BY DEF TypeOK
<1>1. CASE Spawn(t)
  <2> DEFINE e == [cmd |-> Command(t), i |-> Index(t), run |-> svc.run,
                   start |-> starts, st |-> "running"]
  <2>1. e \in Process
    BY LaunchedProcess
  <2>2. procs' \in Seq(Process) /\ Len(procs') = Len(procs) + 1
    <3> HIDE DEF e
    <3>1. procs' = Append(procs, e)
      BY <1>1 DEF Spawn, e
    <3>2. QED
      BY <1>0, <2>1, <3>1, AppendProcess DEF ProcsOK
  <2>3. Len(procs) \in Nat
    BY <1>0 DEF ProcsOK
  <2>4. ProcsOK'
    BY <1>0, <1>1, <2>2, <2>3 DEF ProcsOK, Spawn
  <2>5. CallOK'
    <3>1. pi' \in Nat
      BY <1>1, <2>3 DEF Spawn
    <3>2. call' \in [Caller -> [pc: CallPc, h: Nat, out: {"ok", "fail", "nocode"}]]
      BY <1>0, <1>1 DEF CallOK, Spawn, CallPc
    <3>3. QED
      BY <3>1, <3>2 DEF CallOK
  <2>6. QED
    BY <1>1, <2>4, <2>5, Kept DEF Spawn, TypeOK
<1>2. CASE SpawnFails(t)
  <2>1. CallOK'
    BY <1>0, <1>2 DEF SpawnFails, CallOK, CallPc
  <2>2. QED
    BY <1>2, <2>1, Kept DEF SpawnFails, TypeOK
<1>3. CASE WaitForProcess(t)
  <2>1. CallOK'
    BY <1>0, <1>3 DEF WaitForProcess, CallOK, CallPc
  <2>2. QED
    BY <1>3, <2>1, Kept DEF WaitForProcess, TypeOK
<1>4. CASE GetExitCode(t)
  <2>1. PICK out \in {"ok", "fail", "nocode"} :
          call' = [call EXCEPT ![t] = [@ EXCEPT !.pc = "close", !.out = out]]
    BY <1>4 DEF GetExitCode
  <2>2. CallOK'
    <3>1. pi' = pi /\ "close" \in CallPc
      BY <1>4 DEF GetExitCode, CallPc
    <3>2. QED
      BY <1>0, <2>1, <3>1 DEF CallOK
  <2>3. QED
    BY <1>4, <2>2, Kept DEF GetExitCode, TypeOK
<1>5. CASE CloseProcess(t)
  <2>1. CallOK' /\ ProcsOK'
    BY <1>0, <1>5 DEF CloseProcess, CallOK, CallPc, ProcsOK
  <2>2. QED
    BY <1>5, <2>1, Kept DEF CloseProcess, TypeOK
<1>6. QED
  BY <1>1, <1>2, <1>3, <1>4, <1>5 DEF StartProcess

LEMMA ProcessExitsType ==
  ASSUME TypeOK, NEW p \in DOMAIN procs, NEW r \in {"ok", "fail"}, ProcessExits(p, r)
  PROVE  TypeOK'
<1>1. ProcsOK'
  BY EndProcess DEF TypeOK, ProcsOK, ProcessExits
<1>2. QED
  BY <1>1, Kept DEF ProcessExits, TypeOK

LEMMA ReportType ==
  ASSUME TypeOK, NEW t \in Thread, Report(t)
  PROVE  TypeOK'
<1>1. ScmOK' /\ StatusOK'
  BY DEF Report, TypeOK, ScmOK, StatusOK
<1>2. QED
  BY <1>1, Kept DEF Report, TypeOK

LEMMA ThreadDiesType ==
  ASSUME TypeOK, ThreadDies
  PROVE  TypeOK'
<1>1. svc' = [pc |-> "killed", i |-> 1, thrown |-> 0, run |-> svc.run, h |-> NoProc]
  BY DEF ThreadDies, NoThread
<1>2. SvcOK'
  BY <1>1, SvcParts, SvcType DEF SvcPc, NoProc
<1>3. StatusOK' /\ CallOK'
  BY DEF ThreadDies, TypeOK, StatusOK, CallOK, NoCall, NoProc, CallPc
<1>4. QED
  BY <1>2, <1>3, Kept DEF ThreadDies, SvcUnchanged, TypeOK

LEMMA ExitType ==
  ASSUME TypeOK, Exit
  PROVE  TypeOK'
<1>1. LifeOK' /\ ScmOK'
  <2>1. 0 \in 0..MaxControls
    BY BoundsAssumption DEF BoundsAssumption
  <2>2. QED
    BY <2>1 DEF Exit, TypeOK, LifeOK, ScmOK, State
<1>2. StatusOK' /\ MainOK'
  BY DEF Exit, StatusOK, MainOK, State, MainPc
<1>3. svc' = [pc |-> "none", i |-> 1, thrown |-> 0, run |-> 1, h |-> NoProc]
  BY DEF Exit, NoThread
<1>4. 1 \in 1..MaxRuns /\ 1 \in Nat \ {0} /\ NoProc \in Nat /\ "none" \in SvcPc
  BY BoundsAssumption DEF BoundsAssumption, NoProc, SvcPc
<1>5. SvcOK'
  BY <1>3, <1>4 DEF SvcOK
<1>6. CtlOK' /\ CallOK' /\ ProcsOK'
  BY IdleType DEF Exit, TypeOK, CtlOK, CallOK, ProcsOK, NoCall, NoProc, CallPc
<1>7. QED
  BY <1>1, <1>2, <1>5, <1>6 DEF TypeOK

LEMMA StartAgainType ==
  ASSUME TypeOK, StartAgain
  PROVE  TypeOK'
<1>1. LifeOK' /\ ScmOK'
  BY BoundsAssumption DEF BoundsAssumption, StartAgain, TypeOK, LifeOK, ScmOK, State
<1>2. QED
  BY <1>1, Kept DEF StartAgain, TypeOK

LEMMA TypeInit == Init => TypeOK
<1> SUFFICES ASSUME Init
             PROVE  TypeOK
  OBVIOUS
<1> USE UnitsAssumption, BoundsAssumption DEF UnitsAssumption, BoundsAssumption, Init
<1>1. LifeOK
  BY DEF LifeOK
<1>2. ScmOK
  <2>1. 0 \in 0..MaxControls
    OBVIOUS
  <2>2. QED
    BY <2>1 DEF ScmOK, State
<1>3. StatusOK
  BY DEF StatusOK, State
<1>4. MainOK
  BY DEF MainOK, MainPc
<1>5. SvcOK
  BY DEF SvcOK, NoThread, SvcPc, NoProc
<1>6. CtlOK
  BY IdleType DEF CtlOK
<1>7. CallOK
  BY DEF CallOK, NoCall, NoProc, CallPc
<1>8. ProcsOK
  BY DEF ProcsOK
<1>9. QED
  BY <1>1, <1>2, <1>3, <1>4, <1>5, <1>6, <1>7, <1>8 DEF TypeOK

LEMMA TypeNext == TypeOK /\ [Next]_vars => TypeOK'
<1> SUFFICES ASSUME TypeOK, [Next]_vars
             PROVE  TypeOK'
  OBVIOUS
<1>1. CASE UNCHANGED vars
  <2>1. /\ UNCHANGED <<lifeVars, scmVars, statusVars, procVars, svc, ctl>>
        /\ UNCHANGED <<hThread, doomed, stopEvent, mainPc, early>>
    BY <1>1 DEF vars
  <2>2. QED
    BY <2>1, Kept DEF TypeOK
<1>2. CASE ServiceMain
  BY <1>2, MainType
<1>3. CASE ServiceThread \/ ThreadDies
  BY <1>3, SvcThreadType, ThreadDiesType
<1>4. CASE ServiceCtrlHandler
  BY <1>4, HandlerType, DeliverType DEF ServiceCtrlHandler
<1>5. CASE \E t \in Thread : Report(t)
  BY <1>5, ReportType
<1>6. CASE \E t \in Caller : StartProcess(t)
  BY <1>6, StartProcessType
<1>7. CASE \E p \in DOMAIN procs, result \in {"ok", "fail"} : ProcessExits(p, result)
  BY <1>7, ProcessExitsType
<1>8. CASE DispatcherReturns \/ Crash
  BY <1>8, ExitType DEF DispatcherReturns, Crash
<1>9. CASE StartAgain
  BY <1>9, StartAgainType
<1>10. QED
  BY <1>1, <1>2, <1>3, <1>4, <1>5, <1>6, <1>7, <1>8, <1>9 DEF Next

(* The state keeps its shape, whatever the units, the controls, the faults *)
(* and the bounds: no thread of the wrapper gets lost, and a handle is that*)
(* of a process StartProcess has launched.                                 *)
THEOREM TypeCorrect == Spec => []TypeOK
<1>1. Init => TypeOK
  BY TypeInit
<1>2. TypeOK /\ [Next]_vars => TypeOK'
  BY TypeNext
<1>3. QED
  BY <1>1, <1>2, PTL DEF Spec

-----------------------------------------------------------------------------
(* The stop protocol.                                                      *)

StopPc == {"stopping", "stop", "stopDeps", "terminate", "waitThread", "disown",
           "stopPost", "setEvent", "stopFailed"}

\* Before OnStart has created the service thread there is none, and when
\* OnStart is over without having stored a handle there never was one.
StartInv ==
  /\ mainPc \in {"start", "onStart", "check", "create"} => svc.pc = "none"
  /\ svc.pc = "none" => ~reporting["svc"]
  /\ hThread = "NULL" /\ ~Starting => svc.pc = "none"
  /\ stopEvent # "none" => ~Starting

\* A stop that overlaps OnStart is early, whichever trace it has left.
EarlyInv == Starting /\ (ctl.pc \in StopPc \/ hThread = "INVALID") => early

\* The order of Stop's last steps, as the SCM sees them.
Down == {"STOPPED", "STOP_PENDING"}
StoppedInv ==
  ~early =>
    /\ ctl.pc = "setEvent" => status = "STOPPED" /\ (reporting["ctl"] \/ scm = "STOPPED")
    /\ stopEvent = "set" =>
         /\ status \in Down /\ scm \in Down
         /\ ctl.pc \in StopPc \cup {"idle"}
         /\ ctl.pc \in StopPc => ctl.original \in Down

\* A thread is inside StartProcess only where it has a command to run.
CallInv ==
  /\ call["svc"].pc # "idle" => \/ svc.pc = "pre" /\ svc.i <= Len(unit.pre)
                                \/ svc.pc = "main" /\ unit.main
                                \/ svc.pc = "post" /\ svc.i <= unit.post
  /\ call["ctl"].pc # "idle" => \/ ctl.pc = "stop" /\ unit.stop
                                \/ ctl.pc = "stopPost" /\ ctl.i <= unit.stopPost

\* The inductive invariant of the stop protocol.
StopInv == TypeOK /\ StartInv /\ EarlyInv /\ StopKillsThread

-----------------------------------------------------------------------------
(* Stop ends the service thread.  What each thread can do to the state the *)
(* stop protocol is about.                                                 *)

LEMMA SvcThreadSteps ==
  ASSUME TypeOK, ServiceThread
  PROVE  /\ svc.pc \notin {"none", "returned", "killed"}
         /\ svc'.pc # "none"
         /\ UNCHANGED <<lifeVars, scmVars, hThread, stopEvent, mainPc, ctl, early>>
         /\ reporting'["ctl"] = reporting["ctl"]
<1> USE DEF SvcUnchanged, SvcAt, Goto, Throw
<1>0. /\ svc \in [pc: SvcPc, i: Nat \ {0}, thrown: {0, 1}, run: 1..MaxRuns, h: Nat]
      /\ reporting \in [Thread -> BOOLEAN]
  BY DEF TypeOK, SvcOK, StatusOK
<1>1. ASSUME NEW s, SetServiceStatus("svc", s)
      PROVE  reporting'["ctl"] = reporting["ctl"]
  BY <1>0, <1>1 DEF SetServiceStatus, Thread
<1>2. CASE ConditionFails \/ ChecksPass \/ AfterServices \/ PreEnds \/ Catch \/ Finish
  <2>1. reporting'["ctl"] = reporting["ctl"]
    BY <1>1, <1>2 DEF ConditionFails, ChecksPass, AfterServices, PreEnds, Catch, Finish
  <2>2. /\ svc.pc \notin {"none", "returned", "killed"}
        /\ \E at \in SvcPc \ {"none"} : svc'.pc = at
    BY <1>0, <1>2 DEF ConditionFails, ChecksPass, AfterServices, PreEnds, Catch, Finish, SvcPc
  <2>3. UNCHANGED <<lifeVars, scmVars, hThread, stopEvent, mainPc, ctl, early>>
    BY <1>2 DEF ConditionFails, ChecksPass, AfterServices, PreEnds, Catch, Finish
  <2>4. QED
    BY <2>1, <2>2, <2>3
<1>3. CASE \/ OrderingFileFails \/ AfterServicesFail \/ RunPre \/ PreReturns \/ NoMain
           \/ RunMain \/ MainLaunched
  BY <1>0, <1>3 DEF OrderingFileFails, AfterServicesFail, RunPre, PreReturns, NoMain,
                    RunMain, MainLaunched, statusVars
<1>4. CASE \/ MainEnds \/ RunPost \/ PostReturns \/ PostEnds \/ Decide \/ WakeUp
  BY <1>0, <1>4 DEF MainEnds, RunPost, PostReturns, PostEnds, Decide, WakeUp, statusVars
<1>5. QED
  BY <1>2, <1>3, <1>4 DEF ServiceThread

LEMMA HandlerSteps ==
  ASSUME TypeOK, HandlerStep
  PROVE  /\ UNCHANGED <<lifeVars, svc, mainPc, early>>
         /\ reporting'["svc"] = reporting["svc"]
         /\ ctl'.pc \in StopPc => ctl.pc \in StopPc
         /\ hThread' # hThread => ctl.pc = "disown" /\ hThread' = "INVALID"
         /\ stopEvent' # stopEvent =>
              ctl.pc = "setEvent" /\ stopEvent # "none" /\ stopEvent' = "set"
         /\ ctl'.pc \in {"disown", "stopPost", "setEvent"} =>
              ctl.pc \in {"disown", "stopPost", "setEvent"} \/ WaitForServiceThread
<1> USE DEF CtlUnchanged, CtlAt, CtlGoto, StopPc, IdleHandler
<1>0. /\ ctl \in [pc: CtlPc, i: Nat, original: State]
      /\ reporting \in [Thread -> BOOLEAN]
  BY DEF TypeOK, CtlOK, StatusOK
<1>1. ASSUME NEW s, SetServiceStatus("ctl", s)
      PROVE  reporting'["svc"] = reporting["svc"]
  BY <1>0, <1>1 DEF SetServiceStatus, Thread
<1>2. CASE EndPause \/ EndContinue \/ StopPending \/ StopSucceeds \/ RestoreOriginalState
  <2>1. reporting'["svc"] = reporting["svc"]
    BY <1>1, <1>2 DEF EndPause, EndContinue, StopPending, StopSucceeds,
                      RestoreOriginalState
  <2>2. CASE EndPause \/ EndContinue \/ RestoreOriginalState
    BY <1>0, <2>1, <2>2 DEF EndPause, EndContinue, RestoreOriginalState
  <2>3. CASE StopPending \/ StopSucceeds
    BY <1>0, <2>1, <2>3 DEF StopPending, StopSucceeds
  <2>4. QED
    BY <1>2, <2>2, <2>3
<1>3. CASE RunStop \/ StopReturns \/ StopServiceDependencies \/ StopServiceDependenciesFails
  BY <1>0, <1>3 DEF RunStop, StopReturns, StopServiceDependencies,
                    StopServiceDependenciesFails, statusVars
<1>4. CASE TerminateServiceThread \/ WaitForServiceThread \/ DisownServiceThread
  BY <1>0, <1>4 DEF TerminateServiceThread, WaitForServiceThread, DisownServiceThread,
                    statusVars
<1>5. CASE RunStopPost \/ StopPostReturns
  BY <1>0, <1>5 DEF RunStopPost, StopPostReturns, statusVars
<1>6. CASE SetStopEvent
  BY <1>0, <1>6 DEF SetStopEvent, statusVars
<1>7. QED
  BY <1>2, <1>3, <1>4, <1>5, <1>6 DEF HandlerStep

LEMMA DeliverSteps ==
  ASSUME TypeOK, DeliverQueued \/ \E c \in Controls : Deliver(c)
  PROVE  /\ UNCHANGED <<lifeVars, hThread, stopEvent, mainPc, svc>>
         /\ reporting'["svc"] = reporting["svc"]
         /\ ctl.pc = "idle"
         /\ ctl'.pc \in {"idle", "pausing", "continuing", "stopping"}
         /\ early => early'
         /\ ctl'.pc = "stopping" /\ Starting => early'
<1>0. /\ ctl \in [pc: CtlPc, i: Nat, original: State]
      /\ reporting \in [Thread -> BOOLEAN]
  BY DEF TypeOK, CtlOK, StatusOK
<1>1. CASE DeliverQueued
  BY <1>0, <1>1 DEF DeliverQueued, CtlAt, statusVars
<1>2. ASSUME NEW c \in Controls, Deliver(c)
      PROVE  /\ reporting'["svc"] = reporting["svc"]
             /\ ctl.pc = "idle"
             /\ ctl'.pc \in {"idle", "pausing", "continuing", "stopping"}
             /\ early => early'
             /\ ctl'.pc = "stopping" /\ Starting => early'
             /\ UNCHANGED <<lifeVars, hThread, stopEvent, mainPc, svc>>
  <2>1. /\ ctl.pc = "idle"
        /\ UNCHANGED <<lifeVars, hThread, stopEvent, mainPc, svc>>
    BY <1>2 DEF Deliver, CtlAt
  <2>2. reporting'["svc"] = reporting["svc"]
    BY <1>0, <1>2 DEF Deliver, SetServiceStatus, statusVars, Thread
  <2>3. CASE ctl' = [pc |-> "stopping", i |-> 1, original |-> status]
             /\ early' = (early \/ Starting)
    BY <2>1, <2>2, <2>3
  <2>4. CASE CtlGoto("pausing") /\ UNCHANGED early
    BY <1>0, <2>1, <2>2, <2>4 DEF CtlGoto
  <2>5. CASE CtlGoto("continuing") /\ UNCHANGED early
    BY <1>0, <2>1, <2>2, <2>5 DEF CtlGoto
  <2>6. CASE UNCHANGED <<ctl, early>>
    BY <1>0, <2>1, <2>2, <2>6
  <2>7. QED
    BY <1>2, <2>3, <2>4, <2>5, <2>6 DEF Deliver
<1>3. QED
  BY <1>1, <1>2

LEMMA MainSteps ==
  ASSUME TypeOK, StartInv, ServiceMain
  PROVE  /\ UNCHANGED <<lifeVars, ctl, early>>
         /\ reporting'["svc"] = reporting["svc"]
         /\ Starting' => Starting
         /\ hThread' = "INVALID" => hThread = "INVALID"
         /\ stopEvent' = "set" => stopEvent = "set"
         /\ UNCHANGED svc \/ (svc.pc = "none" /\ Starting')
<1> USE DEF MainUnchanged, Steps, Starting, SetServiceStatus, statusVars, Thread
<1>0. reporting \in [Thread -> BOOLEAN]
  BY DEF TypeOK, StatusOK
<1>1. CASE Start \/ OnStart \/ OnStartFails
  BY <1>0, <1>1 DEF Start, OnStart, OnStartFails
<1>2. CASE OnStartCheck \/ OnStartAssign \/ CreateStopEvent \/ ServiceMainReturns
  BY <1>0, <1>2 DEF OnStartCheck, OnStartAssign, CreateStopEvent, ServiceMainReturns
<1>3. CASE OnStartCreate
  BY <1>0, <1>3 DEF OnStartCreate, StartInv
<1>4. QED
  BY <1>1, <1>2, <1>3 DEF ServiceMain

\* Every other step of a running wrapper leaves the protocol's state alone,
\* apart from reports that go out and the end of a doomed thread.
LEMMA OtherSteps ==
  ASSUME TypeOK,
         \/ \E t \in Thread : Report(t)
         \/ \E t \in Caller : StartProcess(t)
         \/ \E p \in DOMAIN procs, result \in {"ok", "fail"} : ProcessExits(p, result)
         \/ StartAgain
         \/ UNCHANGED vars
  PROVE  /\ UNCHANGED <<hThread, stopEvent, mainPc, svc, ctl, early>>
         /\ reporting'["svc"] => reporting["svc"]
<1> USE DEF statusVars
<1>0. reporting \in [Thread -> BOOLEAN]
  BY DEF TypeOK, StatusOK
<1>1. ASSUME NEW t \in Thread, Report(t)
      PROVE  /\ UNCHANGED <<hThread, stopEvent, mainPc, svc, ctl, early>>
             /\ reporting'["svc"] => reporting["svc"]
  BY <1>0, <1>1 DEF Report, Thread
<1>2. ASSUME NEW t \in Caller, StartProcess(t)
      PROVE  UNCHANGED <<hThread, stopEvent, mainPc, svc, ctl, early, reporting>>
  BY <1>2 DEF StartProcess, Spawn, SpawnFails, WaitForProcess, GetExitCode, CloseProcess,
              CallUnchanged
<1>3. ASSUME NEW p \in DOMAIN procs, NEW r \in {"ok", "fail"}, ProcessExits(p, r)
      PROVE  UNCHANGED <<hThread, stopEvent, mainPc, svc, ctl, early, reporting>>
  BY <1>3 DEF ProcessExits
<1>4. ASSUME StartAgain \/ UNCHANGED vars
      PROVE  UNCHANGED <<hThread, stopEvent, mainPc, svc, ctl, early, reporting>>
  BY <1>4 DEF StartAgain, vars
<1>5. QED
  BY <1>1, <1>2, <1>3, <1>4

\* The steps of the specification, in the groups the lemmas above treat.
LEMMA NextGroups ==
  [Next]_vars =>
    \/ ServiceMain
    \/ ServiceThread
    \/ ThreadDies
    \/ HandlerStep
    \/ DeliverQueued \/ \E c \in Controls : Deliver(c)
    \/ Exit
    \/ \/ \E t \in Thread : Report(t)
       \/ \E t \in Caller : StartProcess(t)
       \/ \E p \in DOMAIN procs, result \in {"ok", "fail"} : ProcessExits(p, result)
       \/ StartAgain
       \/ UNCHANGED vars
BY Zenon DEF Next, ServiceCtrlHandler, DispatcherReturns, Crash

LEMMA StartNext == TypeOK /\ StartInv /\ [Next]_vars => StartInv'
<1> SUFFICES ASSUME TypeOK, StartInv, [Next]_vars
             PROVE  StartInv'
  OBVIOUS
<1> USE DEF Starting
<1>0. /\ svc \in [pc: SvcPc, i: Nat \ {0}, thrown: {0, 1}, run: 1..MaxRuns, h: Nat]
      /\ reporting \in [Thread -> BOOLEAN]
      /\ mainPc \in MainPc /\ hThread \in {"NULL", "thread", "INVALID"}
  BY DEF TypeOK, SvcOK, StatusOK, MainOK
<1>1. CASE ServiceMain
  <2> USE DEF StartInv, MainUnchanged
  <2>0. reporting'["svc"] = reporting["svc"]
    BY <1>1, MainSteps
  <2>1. CASE Start \/ OnStart
    BY <2>0, <2>1 DEF Start, OnStart
  <2>2. CASE OnStartCheck
    BY <2>0, <2>2 DEF OnStartCheck
  <2>3. CASE OnStartCreate
    BY <1>0, <2>0, <2>3 DEF OnStartCreate
  <2>4. CASE OnStartAssign
    BY <2>0, <2>4 DEF OnStartAssign
  <2>5. CASE OnStartFails
    BY <2>0, <2>5 DEF OnStartFails
  <2>6. CASE CreateStopEvent \/ ServiceMainReturns
    BY <2>0, <2>6 DEF CreateStopEvent, ServiceMainReturns
  <2>7. QED
    BY <1>1, <2>1, <2>2, <2>3, <2>4, <2>5, <2>6 DEF ServiceMain
<1>2. CASE ServiceThread
  BY <1>2, SvcThreadSteps DEF StartInv
<1>3. CASE ThreadDies
  <2>1. svc.pc # "none" /\ svc'.pc = "killed"
    BY <1>3 DEF ThreadDies, ThreadGone, StartInv, NoThread
  <2>2. UNCHANGED <<mainPc, hThread, stopEvent>>
    BY <1>3 DEF ThreadDies, SvcUnchanged
  <2>3. QED
    BY <2>1, <2>2 DEF StartInv
<1>4. CASE HandlerStep
  BY <1>4, HandlerSteps DEF StartInv
<1>5. CASE DeliverQueued \/ \E c \in Controls : Deliver(c)
  BY <1>5, DeliverSteps DEF StartInv
<1>6. CASE Exit
  BY <1>6 DEF Exit, StartInv, NoThread, Thread
<1>7. CASE \/ \E t \in Thread : Report(t)
           \/ \E t \in Caller : StartProcess(t)
           \/ \E p \in DOMAIN procs, result \in {"ok", "fail"} : ProcessExits(p, result)
           \/ StartAgain
           \/ UNCHANGED vars
  BY <1>7, OtherSteps DEF StartInv
<1>8. QED
  BY <1>1, <1>2, <1>3, <1>4, <1>5, <1>6, <1>7, NextGroups

LEMMA EarlyNext == TypeOK /\ StartInv /\ EarlyInv /\ [Next]_vars => EarlyInv'
<1> SUFFICES ASSUME TypeOK, StartInv, EarlyInv, [Next]_vars
             PROVE  EarlyInv'
  OBVIOUS
<1>1. CASE ServiceMain
  BY <1>1, MainSteps DEF EarlyInv
<1>2. CASE ServiceThread
  BY <1>2, SvcThreadSteps DEF EarlyInv, Starting
<1>3. CASE ThreadDies
  BY <1>3 DEF ThreadDies, SvcUnchanged, EarlyInv, Starting
<1>4. CASE HandlerStep
  BY <1>4, HandlerSteps DEF EarlyInv, Starting, StopPc
<1>5. CASE DeliverQueued \/ \E c \in Controls : Deliver(c)
  BY <1>5, DeliverSteps DEF EarlyInv, Starting, StopPc
<1>6. CASE Exit
  BY <1>6 DEF Exit, EarlyInv, IdleHandler, StopPc
<1>7. CASE \/ \E t \in Thread : Report(t)
           \/ \E t \in Caller : StartProcess(t)
           \/ \E p \in DOMAIN procs, result \in {"ok", "fail"} : ProcessExits(p, result)
           \/ StartAgain
           \/ UNCHANGED vars
  BY <1>7, OtherSteps DEF EarlyInv, Starting
<1>8. QED
  BY <1>1, <1>2, <1>3, <1>4, <1>5, <1>6, <1>7, NextGroups

LEMMA KillsNext ==
  TypeOK /\ StartInv /\ EarlyInv /\ StopKillsThread /\ [Next]_vars => StopKillsThread'
<1> SUFFICES ASSUME TypeOK, StartInv, EarlyInv, StopKillsThread, [Next]_vars,
                    ~early',
                    \/ ctl'.pc \in {"disown", "stopPost", "setEvent"}
                    \/ hThread' = "INVALID"
                    \/ stopEvent' = "set"
             PROVE  ThreadGone'
  BY DEF StopKillsThread
<1>0. reporting \in [Thread -> BOOLEAN]
  BY DEF TypeOK, StatusOK
<1>1. CASE ServiceMain
  <2>1. ~early /\ (\/ ctl.pc \in {"disown", "stopPost", "setEvent"}
                   \/ hThread = "INVALID" \/ stopEvent = "set")
    BY <1>1, MainSteps
  <2>2. ~Starting'
    BY <1>1, <2>1, MainSteps DEF StartInv, EarlyInv, StopPc
  <2>3. QED
    BY <1>1, <2>1, <2>2, MainSteps DEF StopKillsThread, ThreadGone
<1>2. CASE ServiceThread
  BY <1>2, SvcThreadSteps DEF StopKillsThread, ThreadGone
<1>3. CASE ThreadDies
  BY <1>0, <1>3 DEF ThreadDies, ThreadGone, NoThread, Thread
<1>4. CASE HandlerStep
  <2>1. CASE WaitForServiceThread
    <3>1. ctl.pc = "waitThread" /\ ~early /\ UNCHANGED svc /\ UNCHANGED reporting
      BY <2>1 DEF WaitForServiceThread, CtlAt, CtlUnchanged, statusVars
    <3>2. ~Starting
      BY <3>1 DEF EarlyInv, StopPc
    <3>3. ThreadGone
      BY <2>1, <3>2 DEF WaitForServiceThread, StartInv, ThreadGone
    <3>4. QED
      BY <3>1, <3>3 DEF ThreadGone
  <2>2. CASE ~WaitForServiceThread
    <3>1. ThreadGone
      BY <1>4, <2>2, HandlerSteps DEF StopKillsThread
    <3>2. QED
      BY <1>4, <3>1, HandlerSteps DEF ThreadGone
  <2>3. QED
    BY <2>1, <2>2
<1>5. CASE DeliverQueued \/ \E c \in Controls : Deliver(c)
  BY <1>5, DeliverSteps DEF StopKillsThread, ThreadGone
<1>6. CASE Exit
  BY <1>6 DEF Exit, IdleHandler
<1>7. CASE \/ \E t \in Thread : Report(t)
           \/ \E t \in Caller : StartProcess(t)
           \/ \E p \in DOMAIN procs, result \in {"ok", "fail"} : ProcessExits(p, result)
           \/ StartAgain
           \/ UNCHANGED vars
  BY <1>7, OtherSteps DEF StopKillsThread, ThreadGone
<1>8. QED
  BY <1>1, <1>2, <1>3, <1>4, <1>5, <1>6, <1>7, NextGroups

LEMMA StopInvariant == Spec => []StopInv
<1>1. Init => StopInv
  <2>1. Init => TypeOK
    BY TypeInit
  <2>2. Init => StartInv /\ EarlyInv /\ StopKillsThread
    BY DEF Init, StartInv, EarlyInv, StopKillsThread, NoThread, IdleHandler, Thread, StopPc,
           Starting
  <2>3. QED
    BY <2>1, <2>2 DEF StopInv
<1>2. StopInv /\ [Next]_vars => StopInv'
  BY TypeNext, StartNext, EarlyNext, KillsNext DEF StopInv
<1>3. QED
  BY <1>1, <1>2, PTL DEF Spec

(* A stop that comes after OnStart leaves no service thread behind: once   *)
(* OnStop has waited for it, nothing of it is left that could run a command*)
(* or report a status, whatever the interleaving of the three threads.     *)
THEOREM StopIsFinal == Spec => []StopKillsThread
<1>1. StopInv => StopKillsThread
  BY DEF StopInv
<1>2. QED
  BY <1>1, StopInvariant, PTL

-----------------------------------------------------------------------------
(* SERVICE_STOPPED is the last word of a Stop.                             *)

\* An exited wrapper has neither a handler nor an event.
ExitedInv == wrapper = "exited" => stopEvent = "none" /\ ctl.pc = "idle"

LEMMA ExitedNext == TypeOK /\ ExitedInv /\ [Next]_vars => ExitedInv'
<1> SUFFICES ASSUME TypeOK, ExitedInv, [Next]_vars
             PROVE  ExitedInv'
  OBVIOUS
<1> USE DEF ExitedInv, lifeVars
<1>1. CASE ServiceMain
  <2>1. wrapper = "running"
    BY <1>1 DEF ServiceMain, Start, OnStart, OnStartCheck, OnStartCreate, OnStartAssign,
                OnStartFails, CreateStopEvent, ServiceMainReturns, Steps
  <2>2. UNCHANGED lifeVars
    BY <1>1 DEF ServiceMain, Start, OnStart, OnStartCheck, OnStartCreate, OnStartAssign,
                OnStartFails, CreateStopEvent, ServiceMainReturns, MainUnchanged
  <2>3. QED
    BY <2>1, <2>2
<1>2. CASE ServiceThread
  BY <1>2, SvcThreadSteps
<1>3. CASE ThreadDies
  BY <1>3 DEF ThreadDies, SvcUnchanged
<1>4. CASE HandlerStep
  <2>1. wrapper = "running"
    BY <1>4 DEF HandlerStep, EndPause, EndContinue, StopPending, RunStop, StopReturns,
                StopServiceDependencies, StopServiceDependenciesFails,
                TerminateServiceThread, WaitForServiceThread, DisownServiceThread,
                RunStopPost, StopPostReturns, StopSucceeds, SetStopEvent,
                RestoreOriginalState, CtlAt, Steps
  <2>2. QED
    BY <1>4, <2>1, HandlerSteps
<1>5. CASE DeliverQueued \/ \E c \in Controls : Deliver(c)
  <2>1. wrapper = "running"
    BY <1>5 DEF DeliverQueued, Deliver, CtlAt, Steps
  <2>2. QED
    BY <1>5, <2>1, DeliverSteps
<1>6. CASE Exit
  BY <1>6 DEF Exit, IdleHandler
<1>7. CASE StartAgain
  BY <1>7 DEF StartAgain
<1>8. CASE \/ \E t \in Thread : Report(t)
           \/ \E t \in Caller : StartProcess(t)
           \/ \E p \in DOMAIN procs, result \in {"ok", "fail"} : ProcessExits(p, result)
           \/ UNCHANGED vars
  <2>1. UNCHANGED wrapper
    BY <1>8 DEF Report, StartProcess, Spawn, SpawnFails, WaitForProcess, GetExitCode,
                CloseProcess, CallUnchanged, ProcessExits, vars
  <2>2. QED
    BY <1>8, <2>1, OtherSteps
<1>9. QED
  BY <1>1, <1>2, <1>3, <1>4, <1>5, <1>6, <1>7, <1>8, NextGroups

\* A step that touches neither the status nor the handler keeps StoppedInv.
LEMMA StoppedKept ==
  ASSUME StoppedInv, early => early', UNCHANGED <<status, scm, ctl, stopEvent>>,
         reporting'["ctl"] = reporting["ctl"]
  PROVE  StoppedInv'
BY DEF StoppedInv, StopPc, Down

LEMMA StoppedNext ==
  StopInv /\ ExitedInv /\ StoppedInv /\ [Next]_vars => StoppedInv'
<1> SUFFICES ASSUME StopInv, ExitedInv, StoppedInv, [Next]_vars
             PROVE  StoppedInv'
  OBVIOUS
<1>0. /\ TypeOK /\ StartInv /\ EarlyInv /\ StopKillsThread
      /\ ctl \in [pc: CtlPc, i: Nat, original: State]
      /\ reporting \in [Thread -> BOOLEAN]
  BY DEF StopInv, TypeOK, CtlOK, StatusOK
\* While OnStart runs, a stop is early: StoppedInv promises nothing.
<1>1. CASE ServiceMain
  <2> USE DEF MainUnchanged, scmVars, statusVars
  <2>1. CASE OnStartCheck \/ OnStartCreate \/ OnStartAssign \/ ServiceMainReturns
    BY <1>0, <2>1, StoppedKept
       DEF OnStartCheck, OnStartCreate, OnStartAssign, ServiceMainReturns
  <2>2. CASE CreateStopEvent
    BY <1>0, <2>2 DEF CreateStopEvent, StoppedInv
  <2>3. CASE Start \/ OnStart \/ OnStartFails
    <3>1. Starting /\ UNCHANGED <<ctl, stopEvent, early>>
      BY <2>3 DEF Start, OnStart, OnStartFails, Starting
    <3>2. QED
      BY <1>0, <3>1 DEF StartInv, EarlyInv, StoppedInv, StopPc
  <2>4. QED
    BY <1>1, <2>1, <2>2, <2>3 DEF ServiceMain
\* The service thread runs only while Stop has not waited for it.
<1>2. CASE ServiceThread
  <2>1. ~ThreadGone /\ UNCHANGED <<ctl, stopEvent, early>>
    BY <1>0, <1>2, SvcThreadSteps DEF ThreadGone
  <2>2. QED
    BY <1>0, <2>1 DEF StopKillsThread, StoppedInv
<1>3. CASE ThreadDies
  BY <1>0, <1>3, StoppedKept DEF ThreadDies, SvcUnchanged, scmVars, Thread
<1>4. CASE HandlerStep
  <2> USE DEF CtlUnchanged, CtlAt, CtlGoto, scmVars, statusVars, SetServiceStatus,
              IdleHandler, StopPc, Down, Thread, Steps, StoppedInv
  <2>1. CASE EndPause \/ EndContinue
    BY <1>0, <2>1 DEF EndPause, EndContinue
  <2>2. CASE StopPending
    BY <1>0, <2>2 DEF StopPending
  <2>3. CASE RunStop \/ StopReturns \/ StopServiceDependencies \/ StopServiceDependenciesFails
    BY <1>0, <2>3 DEF RunStop, StopReturns, StopServiceDependencies,
                      StopServiceDependenciesFails
  <2>4. CASE TerminateServiceThread \/ WaitForServiceThread \/ DisownServiceThread
    BY <1>0, <2>4 DEF TerminateServiceThread, WaitForServiceThread, DisownServiceThread
  <2>5. CASE RunStopPost \/ StopPostReturns
    BY <1>0, <2>5 DEF RunStopPost, StopPostReturns
  <2>6. CASE StopSucceeds
    BY <1>0, <2>6 DEF StopSucceeds
  <2>7. CASE SetStopEvent
    BY <1>0, <2>7 DEF SetStopEvent
  <2>8. CASE RestoreOriginalState
    BY <1>0, <2>8 DEF RestoreOriginalState
  <2>9. QED
    BY <1>4, <2>1, <2>2, <2>3, <2>4, <2>5, <2>6, <2>7, <2>8 DEF HandlerStep
\* The SCM holds a control back from a service it knows to be down; the STOP
\* the service sent itself finds it down.
<1>5. CASE DeliverQueued
  BY <1>0, <1>5 DEF DeliverQueued, StoppedInv, statusVars, CtlAt, StopPc
<1>6. ASSUME NEW c \in Controls, Deliver(c)
      PROVE  StoppedInv'
  <2>1. scm \notin Down /\ (early => early') /\ UNCHANGED stopEvent
    BY <1>0, <1>6, DeliverSteps DEF Deliver, Accepting, Down
  <2>2. ctl'.pc # "setEvent"
    BY <1>0, <1>6, DeliverSteps
  <2>3. QED
    BY <2>1, <2>2 DEF StoppedInv
<1>7. CASE Exit
  BY <1>7 DEF Exit, StoppedInv, IdleHandler
<1>8. CASE StartAgain
  BY <1>8 DEF StartAgain, ExitedInv, StoppedInv, statusVars
<1>9. ASSUME NEW t \in Thread, Report(t)
      PROVE  StoppedInv'
  BY <1>0, <1>9 DEF Report, StoppedInv, Down, StopPc, Thread
<1>10. CASE \E t \in Caller : StartProcess(t)
  BY <1>10, StoppedKept DEF StartProcess, Spawn, SpawnFails, WaitForProcess, GetExitCode,
     CloseProcess, CallUnchanged, scmVars, statusVars
<1>11. CASE \E p \in DOMAIN procs, result \in {"ok", "fail"} : ProcessExits(p, result)
  BY <1>11, StoppedKept DEF ProcessExits, scmVars, statusVars
<1>12. CASE UNCHANGED vars
  BY <1>12, StoppedKept DEF vars, scmVars, statusVars
<1>13. QED
  BY <1>1, <1>2, <1>3, <1>4, <1>5, <1>6, <1>7, <1>8, <1>9, <1>10, <1>11, <1>12, NextGroups

(* Once a Stop has signalled the event, neither the service thread nor     *)
(* ServiceMain nor a later control replaces SERVICE_STOPPED by anything but*)
(* the SERVICE_STOP_PENDING of a second stop.                              *)
THEOREM StoppedStays == Spec => []StoppedIsLast
<1>1. Init => ExitedInv /\ StoppedInv
  BY DEF Init, ExitedInv, StoppedInv, IdleHandler
<1>2. StopInv /\ ExitedInv /\ StoppedInv /\ [Next]_vars => (ExitedInv /\ StoppedInv)'
  BY ExitedNext, StoppedNext DEF StopInv
<1>3. StoppedInv => StoppedIsLast
  BY DEF StoppedInv, StoppedIsLast, Down
<1>4. QED
  BY <1>1, <1>2, <1>3, StopInvariant, PTL DEF Spec

-----------------------------------------------------------------------------
(* StartProcess's static processInformation belongs to one thread.         *)

\* An activation of StartProcess is not shared with the other thread.
LEMMA OthersCall ==
  ASSUME TypeOK, NEW t \in Caller, NEW u \in Caller \ {t},
         CallStartProcess(t) \/ EndCall(t) \/ StartProcess(t)
  PROVE  call'[u] = call[u]
BY DEF CallStartProcess, EndCall, StartProcess, Spawn, SpawnFails, WaitForProcess,
       GetExitCode, CloseProcess, TypeOK, CallOK

LEMMA CallBegins ==
  ASSUME TypeOK, NEW t \in Caller, EndCall(t)
  PROVE  call'[t].pc = "idle"
BY DEF EndCall, NoCall, TypeOK, CallOK

LEMMA CallNext == TypeOK /\ StartInv /\ CallInv /\ [Next]_vars => CallInv'
<1> SUFFICES ASSUME TypeOK, StartInv, CallInv, [Next]_vars
             PROVE  CallInv'
  OBVIOUS
<1> USE DEF Caller
<1>0. /\ svc \in [pc: SvcPc, i: Nat \ {0}, thrown: {0, 1}, run: 1..MaxRuns, h: Nat]
      /\ ctl \in [pc: CtlPc, i: Nat, original: State]
      /\ Len(unit.pre) \in Nat /\ unit.post \in Nat /\ unit.stopPost \in Nat
  BY UnitsAssumption DEF UnitsAssumption, Unit, TypeOK, LifeOK, SvcOK, CtlOK
<1> DEFINE CtlPart == call["ctl"].pc # "idle" =>
                        \/ ctl.pc = "stop" /\ unit.stop
                        \/ ctl.pc = "stopPost" /\ ctl.i <= unit.stopPost
           SvcPart == call["svc"].pc # "idle" =>
                        \/ svc.pc = "pre" /\ svc.i <= Len(unit.pre)
                        \/ svc.pc = "main" /\ unit.main
                        \/ svc.pc = "post" /\ svc.i <= unit.post
<1>1. CASE ServiceMain
  <2>1. CASE OnStartCreate
    BY <2>1 DEF OnStartCreate, MainUnchanged, StartInv, procVars, lifeVars, CallInv
  <2>2. CASE ~OnStartCreate
    BY <1>1, <2>2 DEF ServiceMain, Start, OnStart, OnStartCheck, OnStartAssign,
       OnStartFails, CreateStopEvent, ServiceMainReturns, MainUnchanged, procVars,
       lifeVars, CallInv
  <2>3. QED
    BY <2>1, <2>2
<1>2. CASE ServiceThread
  <2> USE DEF SvcUnchanged, SvcAt, Goto, Throw, procVars
  <2>1. UNCHANGED <<ctl, unit>>
    BY <1>2, SvcThreadSteps DEF lifeVars
  <2>2. CtlPart' /\ SvcPart'
    <3>1. CASE \/ ConditionFails \/ OrderingFileFails \/ ChecksPass \/ AfterServices
               \/ AfterServicesFail \/ Catch \/ Decide \/ WakeUp \/ Finish
      BY <1>0, <2>1, <3>1 DEF ConditionFails, OrderingFileFails, ChecksPass,
         AfterServices, AfterServicesFail, Catch, Decide, WakeUp, Finish, CallInv
    <3>2. CASE PreEnds \/ NoMain \/ PostEnds
      BY <1>0, <2>1, <3>2 DEF PreEnds, NoMain, PostEnds, CallInv
    <3>3. CASE MainEnds
      BY <1>0, <2>1, <3>3 DEF MainEnds, CallInv
    <3>4. CASE RunPre \/ RunMain \/ RunPost
      <4>1. call'["ctl"] = call["ctl"] /\ UNCHANGED svc
        BY <3>4, OthersCall DEF RunPre, RunMain, RunPost
      <4>2. SvcPart'
        BY <2>1, <3>4, <4>1 DEF RunPre, RunMain, RunPost
      <4>3. QED
        BY <2>1, <4>1, <4>2 DEF CallInv
    <3>5. CASE PreReturns \/ MainLaunched \/ PostReturns
      <4>1. call'["ctl"] = call["ctl"] /\ call'["svc"].pc = "idle"
        BY <3>5, OthersCall, CallBegins DEF PreReturns, MainLaunched, PostReturns
      <4>2. QED
        BY <2>1, <4>1 DEF CallInv
    <3>6. QED
      BY <1>2, <3>1, <3>2, <3>3, <3>4, <3>5 DEF ServiceThread
  <2>3. QED
    BY <2>2 DEF CallInv
<1>3. CASE ThreadDies
  <2>1. call'["svc"].pc = "idle" /\ call'["ctl"] = call["ctl"]
    BY <1>3 DEF ThreadDies, TypeOK, CallOK, NoCall
  <2>2. UNCHANGED <<ctl, unit>>
    BY <1>3 DEF ThreadDies, SvcUnchanged, lifeVars
  <2>3. QED
    BY <2>1, <2>2 DEF CallInv
<1>4. CASE HandlerStep
  <2> USE DEF CtlUnchanged, CtlAt, CtlGoto, IdleHandler, procVars
  <2>1. UNCHANGED <<svc, unit>>
    BY <1>4, HandlerSteps DEF lifeVars
  <2>2. CtlPart' /\ SvcPart'
    <3>1. CASE \/ EndPause \/ EndContinue \/ StopPending \/ StopServiceDependencies
               \/ StopServiceDependenciesFails \/ TerminateServiceThread
               \/ WaitForServiceThread \/ DisownServiceThread \/ SetStopEvent
               \/ RestoreOriginalState
      BY <1>0, <2>1, <3>1 DEF EndPause, EndContinue, StopPending, StopServiceDependencies,
         StopServiceDependenciesFails, TerminateServiceThread, WaitForServiceThread,
         DisownServiceThread, SetStopEvent, RestoreOriginalState, CallInv
    <3>2. CASE StopSucceeds
      BY <1>0, <2>1, <3>2 DEF StopSucceeds, CallInv
    <3>3. CASE RunStop \/ RunStopPost
      <4>1. call'["svc"] = call["svc"] /\ UNCHANGED ctl
        BY <3>3, OthersCall DEF RunStop, RunStopPost
      <4>2. CtlPart'
        BY <2>1, <3>3, <4>1 DEF RunStop, RunStopPost
      <4>3. QED
        BY <2>1, <4>1, <4>2 DEF CallInv
    <3>4. CASE StopReturns \/ StopPostReturns
      <4>1. CASE EndCall("ctl")
        <5>1. call'["svc"] = call["svc"] /\ call'["ctl"].pc = "idle"
          BY <4>1, OthersCall, CallBegins
        <5>2. QED
          BY <2>1, <5>1 DEF CallInv
      <4>2. CASE StopReturns /\ ~unit.stop /\ UNCHANGED procVars
        BY <1>0, <2>1, <4>2 DEF StopReturns, CallInv
      <4>3. QED
        BY <3>4, <4>1, <4>2 DEF StopReturns, StopPostReturns
    <3>5. QED
      BY <1>4, <3>1, <3>2, <3>3, <3>4 DEF HandlerStep
  <2>3. QED
    BY <2>2 DEF CallInv
<1>5. CASE DeliverQueued \/ \E c \in Controls : Deliver(c)
  <2>1. ctl.pc = "idle" /\ UNCHANGED <<svc, unit>> /\ UNCHANGED call
    BY <1>5, DeliverSteps DEF DeliverQueued, Deliver, procVars, lifeVars
  <2>2. QED
    BY <2>1 DEF CallInv
<1>6. CASE Exit
  BY <1>6 DEF Exit, CallInv, NoCall
<1>7. CASE \E t \in Caller : StartProcess(t)
  <2> SUFFICES ASSUME NEW t \in Caller, StartProcess(t)
               PROVE  CallInv'
    BY <1>7
  <2>1. UNCHANGED <<svc, ctl, unit>>
    BY DEF StartProcess, Spawn, SpawnFails, WaitForProcess, GetExitCode, CloseProcess,
           CallUnchanged, lifeVars
  <2>2. call[t].pc # "idle"
    BY DEF StartProcess, Spawn, SpawnFails, WaitForProcess, GetExitCode, CloseProcess
  <2>3. \A u \in Caller \ {t} : call'[u] = call[u]
    BY OthersCall
  <2>4. QED
    BY <2>1, <2>2, <2>3 DEF CallInv
<1>8. CASE \/ \E t \in Thread : Report(t)
           \/ \E p \in DOMAIN procs, result \in {"ok", "fail"} : ProcessExits(p, result)
           \/ StartAgain
           \/ UNCHANGED vars
  <2>1. UNCHANGED <<svc, ctl, unit, call>>
    BY <1>8 DEF Report, ProcessExits, StartAgain, vars, lifeVars, procVars
  <2>2. QED
    BY <2>1 DEF CallInv
<1>9. QED
  BY <1>1, <1>2, <1>3, <1>4, <1>5, <1>6, <1>7, <1>8, NextGroups

\* While neither a stop has been early nor the unit has an ExecStop, at most
\* one of the two threads is inside StartProcess.
LEMMA OneCaller ==
  ASSUME StopInv, CallInv, ~early, ~unit.stop, call["ctl"].pc # "idle"
  PROVE  call["svc"].pc = "idle"
<1>1. ctl.pc = "stopPost"
  BY DEF CallInv
<1>2. ThreadGone
  BY <1>1 DEF StopInv, StopKillsThread
<1>3. QED
  BY <1>2 DEF CallInv, ThreadGone

\* The steps that concern neither StartProcess nor its static variable.
LEMMA ReadKept ==
  ASSUME WaitedProcessIsRead, early => early', UNCHANGED <<pi, call, unit>>
  PROVE  WaitedProcessIsRead'
BY DEF WaitedProcessIsRead

\* A call that begins or ends: the caller was, or is now, not waiting.
LEMMA ReadCalled ==
  ASSUME StopInv, CallInv, WaitedProcessIsRead, NEW t \in Caller,
         UNCHANGED <<unit, early>>,
         \/ CallStartProcess(t) /\ \A u \in Caller \ {t} : call[u].pc = "idle"
         \/ CallStartProcess(t) /\ (early \/ unit.stop)
         \/ EndCall(t)
  PROVE  WaitedProcessIsRead'
<1>1. \A u \in Caller \ {t} : call'[u] = call[u]
  BY OthersCall DEF StopInv
<1>2. call'[t].pc \in {"idle", "spawn"}
  BY DEF CallStartProcess, EndCall, NoCall, StopInv, TypeOK, CallOK
<1>3. CASE EndCall(t)
  <2>1. UNCHANGED pi
    BY <1>3 DEF EndCall
  <2>2. QED
    BY <1>1, <1>2, <2>1 DEF WaitedProcessIsRead
<1>4. CASE CallStartProcess(t)
  BY <1>1, <1>2, <1>4 DEF WaitedProcessIsRead, EndCall, CallStartProcess
<1>5. QED
  BY <1>3, <1>4

LEMMA ReadNext ==
  StopInv /\ CallInv /\ WaitedProcessIsRead /\ [Next]_vars => WaitedProcessIsRead'
<1> SUFFICES ASSUME StopInv, CallInv, WaitedProcessIsRead, [Next]_vars
             PROVE  WaitedProcessIsRead'
  OBVIOUS
<1> USE DEF Caller, procVars, lifeVars
<1>0. TypeOK
  BY DEF StopInv
<1>1. CASE ServiceMain
  <2>1. UNCHANGED <<pi, call, unit, early>>
    BY <1>1 DEF ServiceMain, Start, OnStart, OnStartCheck, OnStartCreate, OnStartAssign,
                OnStartFails, CreateStopEvent, ServiceMainReturns, MainUnchanged
  <2>2. QED
    BY <2>1, ReadKept
<1>2. CASE ServiceThread
  <2> USE DEF SvcUnchanged
  <2>1. UNCHANGED <<unit, early>>
    BY <1>0, <1>2, SvcThreadSteps
  <2>2. CASE RunPre \/ RunMain \/ RunPost
    <3>1. CallStartProcess("svc") /\ ~ThreadGone
      BY <1>0, <1>2, <2>2, SvcThreadSteps DEF RunPre, RunMain, RunPost, ThreadGone
    <3>2. early \/ unit.stop \/ call["ctl"].pc = "idle"
      BY <3>1 DEF CallInv, StopInv, StopKillsThread
    <3>3. QED
      BY <2>1, <3>1, <3>2, ReadCalled
  <2>3. CASE PreReturns \/ MainLaunched \/ PostReturns
    BY <2>1, <2>3, ReadCalled DEF PreReturns, MainLaunched, PostReturns
  <2>4. CASE \/ ConditionFails \/ OrderingFileFails \/ ChecksPass \/ AfterServices
             \/ AfterServicesFail \/ PreEnds \/ NoMain \/ MainEnds \/ PostEnds
             \/ Catch \/ Decide \/ WakeUp \/ Finish
    <3>1. UNCHANGED <<pi, call>>
      BY <2>4 DEF ConditionFails, OrderingFileFails, ChecksPass, AfterServices,
         AfterServicesFail, PreEnds, NoMain, MainEnds, PostEnds, Catch, Decide, WakeUp,
         Finish
    <3>2. QED
      BY <2>1, <3>1, ReadKept
  <2>5. QED
    BY <1>2, <2>2, <2>3, <2>4 DEF ServiceThread
<1>3. CASE ThreadDies
  <2>1. call'["svc"].pc = "idle" /\ call'["ctl"] = call["ctl"] /\ UNCHANGED <<pi, unit, early>>
    BY <1>0, <1>3 DEF ThreadDies, SvcUnchanged, TypeOK, CallOK, NoCall
  <2>2. QED
    BY <2>1 DEF WaitedProcessIsRead
<1>4. CASE HandlerStep
  <2>1. UNCHANGED <<unit, early>>
    BY <1>0, <1>4, HandlerSteps
  <2>2. CASE RunStop
    BY <2>1, <2>2, ReadCalled DEF RunStop
  <2>3. CASE RunStopPost
    <3>1. CallStartProcess("ctl") /\ (early \/ ThreadGone)
      BY <2>3 DEF RunStopPost, CtlAt, StopInv, StopKillsThread
    <3>2. early \/ call["svc"].pc = "idle"
      BY <3>1 DEF CallInv, ThreadGone
    <3>3. QED
      BY <2>1, <3>1, <3>2, ReadCalled
  <2>4. CASE EndCall("ctl")
    BY <2>1, <2>4, ReadCalled
  <2>5. CASE UNCHANGED <<pi, call>>
    BY <2>1, <2>5, ReadKept
  <2>6. QED
    BY <1>4, <2>2, <2>3, <2>4, <2>5 DEF HandlerStep, EndPause, EndContinue, StopPending,
       StopReturns, StopServiceDependencies, StopServiceDependenciesFails,
       TerminateServiceThread, WaitForServiceThread, DisownServiceThread,
       StopPostReturns, StopSucceeds, SetStopEvent, RestoreOriginalState
<1>5. CASE DeliverQueued \/ \E c \in Controls : Deliver(c)
  <2>1. UNCHANGED <<pi, call, unit>>
    BY <1>5 DEF DeliverQueued, Deliver
  <2>2. QED
    BY <1>0, <1>5, <2>1, DeliverSteps, ReadKept
<1>6. CASE Exit
  BY <1>6 DEF Exit, WaitedProcessIsRead, NoCall
<1>7. ASSUME NEW t \in Caller, StartProcess(t)
      PROVE  WaitedProcessIsRead'
  <2>1. UNCHANGED <<unit, early>> /\ \A u \in Caller \ {t} : call'[u] = call[u]
    BY <1>0, <1>7, OthersCall DEF StartProcess, Spawn, SpawnFails, WaitForProcess,
       GetExitCode, CloseProcess, CallUnchanged
  <2>2. call[t].pc # "idle"
    BY <1>7 DEF StartProcess, Spawn, SpawnFails, WaitForProcess, GetExitCode, CloseProcess
  <2>3. early \/ unit.stop \/ \A u \in Caller \ {t} : call[u].pc = "idle"
    BY <2>2, OneCaller
  <2>4. call \in [Caller -> [pc: CallPc, h: Nat, out: {"ok", "fail", "nocode"}]]
    BY <1>0 DEF TypeOK, CallOK
  <2>5. CASE Spawn(t) \/ SpawnFails(t)
    <3>1. call'[t].pc \notin {"exit", "close"}
      <4>1. CASE Spawn(t)
        <5>1. PICK at \in {"done", "wait"} : call' = [call EXCEPT ![t].pc = at]
          BY <4>1 DEF Spawn
        <5>2. QED
          BY <2>4, <5>1
      <4>2. CASE SpawnFails(t)
        BY <2>4, <4>2 DEF SpawnFails
      <4>3. QED
        BY <2>5, <4>1, <4>2
    <3>2. QED
      BY <2>1, <2>3, <3>1 DEF WaitedProcessIsRead
  <2>6. CASE WaitForProcess(t)
    <3>1. call'[t].h = pi /\ UNCHANGED pi
      BY <2>4, <2>6 DEF WaitForProcess
    <3>2. QED
      BY <2>1, <2>3, <3>1 DEF WaitedProcessIsRead
  <2>7. CASE GetExitCode(t)
    <3>1. call[t].pc = "exit" /\ call'[t].h = call[t].h /\ UNCHANGED pi
      BY <2>4, <2>7 DEF GetExitCode
    <3>2. QED
      BY <2>1, <3>1 DEF WaitedProcessIsRead
  <2>8. CASE CloseProcess(t)
    <3>1. call'[t].pc = "done" /\ UNCHANGED pi
      BY <2>4, <2>8 DEF CloseProcess
    <3>2. QED
      BY <2>1, <3>1 DEF WaitedProcessIsRead
  <2>9. QED
    BY <1>7, <2>5, <2>6, <2>7, <2>8 DEF StartProcess
<1>8. CASE \/ \E t \in Thread : Report(t)
           \/ \E p \in DOMAIN procs, result \in {"ok", "fail"} : ProcessExits(p, result)
           \/ StartAgain
           \/ UNCHANGED vars
  <2>1. UNCHANGED <<pi, call, unit, early>>
    BY <1>8 DEF Report, ProcessExits, StartAgain, vars
  <2>2. QED
    BY <2>1, ReadKept
<1>9. QED
  BY <1>1, <1>2, <1>3, <1>4, <1>5, <1>6, <1>7, <1>8, NextGroups

(* StartProcess keeps the process it waits for in a static variable, and   *)
(* both the service thread and the control handler call it.  Without       *)
(* ExecStop the two never meet there, because OnStop waits for the end of  *)
(* the service thread before it runs the first ExecStopPost.               *)
THEOREM StaticIsPrivate == Spec => []WaitedProcessIsRead
<1>1. Init => CallInv /\ WaitedProcessIsRead
  BY DEF Init, CallInv, WaitedProcessIsRead, NoCall, Caller
<1>2. StopInv /\ CallInv /\ WaitedProcessIsRead /\ [Next]_vars
        => (CallInv /\ WaitedProcessIsRead)'
  BY CallNext, ReadNext DEF StopInv
<1>3. QED
  BY <1>1, <1>2, StopInvariant, PTL DEF Spec

-----------------------------------------------------------------------------
(* The SCM hears of the end of the service thread.                         *)

\* Nothing but a stop that cannot fail, or a shutdown, reaches the handler.
Surely ==
  /\ Controls \cap {"PAUSE", "CONTINUE"} = {}
  /\ "scm" \notin Faults
  /\ ~unit.stop /\ unit.stopPost = 0

\* Where m_status is that of a stop under way, which will write it again.
StopUnderWay == {"stop", "stopDeps", "terminate", "waitThread", "disown", "stopPost"}

HandlerInv ==
  Surely => ctl.i # 0 /\ ctl.pc \notin {"pausing", "continuing", "stopFailed"}

\* Unless a stop is under way, m_status is still SERVICE_STOPPED, and whoever
\* wrote it has reported it or is about to.
HeardInv ==
  Surely /\ svc.pc = "returned" =>
    \/ ctl.pc \in StopUnderWay
    \/ status = "STOPPED" /\ (released \/ reporting["svc"] \/ reporting["ctl"])

\* The members of the unit never change.
LEMMA UnitKept == [Next]_vars /\ TypeOK /\ StartInv => UNCHANGED unit
<1> SUFFICES ASSUME [Next]_vars, TypeOK, StartInv
             PROVE  UNCHANGED unit
  OBVIOUS
<1> USE DEF lifeVars
<1>1. CASE ServiceMain \/ ServiceThread \/ HandlerStep
  BY <1>1, MainSteps, SvcThreadSteps, HandlerSteps
<1>2. CASE DeliverQueued \/ \E c \in Controls : Deliver(c)
  BY <1>2, DeliverSteps
<1>3. CASE ThreadDies \/ Exit \/ StartAgain \/ UNCHANGED vars
  BY <1>3 DEF ThreadDies, SvcUnchanged, Exit, StartAgain, vars
<1>4. CASE \/ \E t \in Thread : Report(t)
           \/ \E t \in Caller : StartProcess(t)
           \/ \E p \in DOMAIN procs, result \in {"ok", "fail"} : ProcessExits(p, result)
  BY <1>4 DEF Report, StartProcess, Spawn, SpawnFails, WaitForProcess, GetExitCode,
              CloseProcess, CallUnchanged, ProcessExits
<1>5. QED
  BY <1>1, <1>2, <1>3, <1>4, NextGroups

\* A stop that has nothing to run never returns from StartProcess.
LEMMA NothingReturns ==
  ASSUME TypeOK, CallInv, HandlerInv, Surely
  PROVE  ~StopPostReturns /\ ~(ctl.pc = "stop" /\ Returned("ctl"))
BY DEF TypeOK, CtlOK, CallInv, HandlerInv, Surely, StopPostReturns, CtlAt, Returned

LEMMA HandlerAt ==
  ASSUME TypeOK
  PROVE  /\ \A at \in CtlPc : CtlGoto(at) => ctl'.pc = at /\ ctl'.i = 1
         /\ ctl' = IdleHandler => ctl'.pc = "idle" /\ ctl'.i = 1
<1>0. ctl \in [pc: CtlPc, i: Nat, original: State]
  BY DEF TypeOK, CtlOK
<1>1. ASSUME NEW at \in CtlPc, CtlGoto(at)
      PROVE  ctl'.pc = at /\ ctl'.i = 1
  BY <1>0, <1>1 DEF CtlGoto
<1>2. ASSUME ctl' = IdleHandler
      PROVE  ctl'.pc = "idle" /\ ctl'.i = 1
  BY <1>2 DEF IdleHandler
<1>3. QED
  BY <1>1, <1>2

LEMMA HandlerNext ==
  StopInv /\ CallInv /\ HandlerInv /\ [Next]_vars => HandlerInv'
<1> SUFFICES ASSUME StopInv, CallInv, HandlerInv, [Next]_vars, Surely'
             PROVE  ctl'.i # 0 /\ ctl'.pc \notin {"pausing", "continuing", "stopFailed"}
  BY DEF HandlerInv
<1>0. /\ TypeOK /\ StartInv
      /\ \A at \in CtlPc : CtlGoto(at) => ctl'.pc = at /\ ctl'.i = 1
      /\ ctl' = IdleHandler => ctl'.pc = "idle" /\ ctl'.i = 1
  BY HandlerAt DEF StopInv
<1>1. Surely
  BY <1>0, UnitKept DEF Surely
<1>2. ctl.i # 0 /\ ctl.pc \notin {"pausing", "continuing", "stopFailed"}
  BY <1>1 DEF HandlerInv
<1>3. CASE UNCHANGED ctl
  BY <1>2, <1>3
<1>4. CASE HandlerStep
  <2> USE DEF CtlAt, CtlPc
  <2>1. CASE \/ EndPause \/ EndContinue \/ StopPending \/ StopSucceeds \/ SetStopEvent
             \/ RestoreOriginalState
    BY <1>0, <2>1 DEF EndPause, EndContinue, StopPending, StopSucceeds, SetStopEvent,
                      RestoreOriginalState
  <2>2. CASE StopReturns
    BY <1>0, <1>1, <2>2, NothingReturns DEF StopReturns
  <2>3. CASE StopServiceDependencies \/ StopServiceDependenciesFails
    BY <1>0, <1>1, <2>3 DEF StopServiceDependencies, StopServiceDependenciesFails, Surely
  <2>4. CASE TerminateServiceThread \/ WaitForServiceThread \/ DisownServiceThread
    BY <1>0, <2>4 DEF TerminateServiceThread, WaitForServiceThread, DisownServiceThread
  <2>5. CASE RunStop \/ RunStopPost
    BY <1>3, <2>5 DEF RunStop, RunStopPost
  <2>6. CASE StopPostReturns
    BY <1>0, <1>1, <2>6, NothingReturns
  <2>7. QED
    BY <1>4, <2>1, <2>2, <2>3, <2>4, <2>5, <2>6 DEF HandlerStep
<1>5. CASE DeliverQueued
  BY <1>5 DEF DeliverQueued
<1>6. ASSUME NEW c \in Controls, Deliver(c)
      PROVE  ctl'.i # 0 /\ ctl'.pc \notin {"pausing", "continuing", "stopFailed"}
  <2>1. c # "PAUSE" /\ c # "CONTINUE"
    BY <1>1 DEF Surely
  <2>2. \/ ctl' = [pc |-> "stopping", i |-> 1, original |-> status]
        \/ UNCHANGED ctl
    BY <1>6, <2>1 DEF Deliver
  <2>3. QED
    BY <1>2, <2>2
<1>7. CASE Exit
  BY <1>7 DEF Exit, IdleHandler
<1>8. CASE ServiceMain \/ ServiceThread \/ ThreadDies
  BY <1>0, <1>3, <1>8, MainSteps, SvcThreadSteps DEF ThreadDies, SvcUnchanged
<1>9. CASE \/ \E t \in Thread : Report(t)
           \/ \E t \in Caller : StartProcess(t)
           \/ \E p \in DOMAIN procs, result \in {"ok", "fail"} : ProcessExits(p, result)
           \/ StartAgain
           \/ UNCHANGED vars
  BY <1>0, <1>3, <1>9, OtherSteps
<1>10. QED
  BY <1>4, <1>5, <1>6, <1>7, <1>8, <1>9, NextGroups

LEMMA ThreadEnds == ThreadDies \/ Exit => svc'.pc # "returned"
<1>1. CASE ThreadDies
  BY <1>1 DEF ThreadDies, NoThread
<1>2. CASE Exit
  BY <1>2 DEF Exit, NoThread
<1>3. QED
  BY <1>1, <1>2

LEMMA HeardNext ==
  StopInv /\ CallInv /\ HandlerInv /\ HeardInv /\ [Next]_vars => HeardInv'
<1> SUFFICES ASSUME StopInv, CallInv, HandlerInv, HeardInv, [Next]_vars,
                    Surely', svc'.pc = "returned"
             PROVE  \/ ctl'.pc \in StopUnderWay
                    \/ /\ status' = "STOPPED"
                       /\ released' \/ reporting'["svc"] \/ reporting'["ctl"]
  BY DEF HeardInv
<1>0. /\ TypeOK /\ StartInv
      /\ ctl \in [pc: CtlPc, i: Nat, original: State]
      /\ svc \in [pc: SvcPc, i: Nat \ {0}, thrown: {0, 1}, run: 1..MaxRuns, h: Nat]
      /\ reporting \in [Thread -> BOOLEAN]
  BY DEF StopInv, TypeOK, CtlOK, SvcOK, StatusOK
<1>1. Surely
  BY <1>0, UnitKept DEF Surely
<1>2. CASE svc.pc # "returned"
  <2>1. CASE ServiceMain
    BY <1>0, <1>2, <2>1, MainSteps DEF ServiceMain, Start, OnStart, OnStartCheck,
       OnStartCreate, OnStartAssign, OnStartFails, CreateStopEvent, ServiceMainReturns
  <2>2. CASE Finish
    BY <1>0, <2>2 DEF Finish, SetServiceStatus, Thread
  <2>3. CASE ServiceThread /\ ~Finish
    <3> USE DEF SvcAt, Goto, Throw
    <3>1. CASE \/ ConditionFails \/ OrderingFileFails \/ ChecksPass \/ AfterServices
               \/ AfterServicesFail \/ PreEnds \/ NoMain
      BY <1>0, <1>2, <3>1 DEF ConditionFails, OrderingFileFails, ChecksPass, AfterServices,
         AfterServicesFail, PreEnds, NoMain
    <3>2. CASE RunPre \/ RunMain \/ RunPost \/ PreReturns \/ PostReturns
      BY <1>0, <1>2, <3>2 DEF RunPre, RunMain, RunPost, PreReturns, PostReturns
    <3>3. CASE MainLaunched \/ MainEnds \/ PostEnds \/ Catch \/ Decide \/ WakeUp
      BY <1>0, <1>2, <3>3 DEF MainLaunched, MainEnds, PostEnds, Catch, Decide, WakeUp
    <3>4. QED
      BY <2>3, <3>1, <3>2, <3>3 DEF ServiceThread
  <2>4. CASE ThreadDies \/ Exit
    BY <2>4, ThreadEnds
  <2>5. CASE HandlerStep
    BY <1>0, <1>2, <2>5, HandlerSteps
  <2>6. CASE DeliverQueued \/ \E c \in Controls : Deliver(c)
    BY <1>0, <1>2, <2>6, DeliverSteps
  <2>7. CASE \/ \E t \in Thread : Report(t)
             \/ \E t \in Caller : StartProcess(t)
             \/ \E p \in DOMAIN procs, result \in {"ok", "fail"} : ProcessExits(p, result)
             \/ StartAgain
             \/ UNCHANGED vars
    BY <1>0, <1>2, <2>7, OtherSteps
  <2>8. QED
    BY <2>1, <2>2, <2>3, <2>4, <2>5, <2>6, <2>7, NextGroups
<1>3. CASE svc.pc = "returned"
  <2>0. \/ ctl.pc \in StopUnderWay
        \/ status = "STOPPED" /\ (released \/ reporting["svc"] \/ reporting["ctl"])
    BY <1>1, <1>3 DEF HeardInv
  \* OnStart is over, so ServiceMain reports no state any more.
  <2>1. CASE ServiceMain
    <3>1. mainPc \notin {"start", "onStart", "create"}
      BY <1>0, <1>3 DEF StartInv
    <3>2. UNCHANGED <<status, reporting, released, ctl>>
      BY <2>1, <3>1 DEF ServiceMain, Start, OnStart, OnStartCheck, OnStartCreate,
         OnStartAssign, OnStartFails, CreateStopEvent, ServiceMainReturns, MainUnchanged,
         statusVars, scmVars
    <3>3. QED
      BY <2>0, <3>2
  <2>2. CASE ServiceThread
    BY <1>0, <1>3, <2>2, SvcThreadSteps
  <2>3. CASE ThreadDies \/ Exit
    BY <2>3, ThreadEnds
  <2>4. CASE HandlerStep
    <3> USE DEF CtlAt, CtlGoto, Steps, scmVars, statusVars, StopUnderWay
    <3>1. CASE EndPause \/ EndContinue \/ RestoreOriginalState
      BY <1>1, <3>1 DEF EndPause, EndContinue, RestoreOriginalState, HandlerInv
    <3>2. CASE StopPending
      BY <1>0, <3>2 DEF StopPending
    <3>3. CASE RunStop \/ RunStopPost
      BY <3>3 DEF RunStop, RunStopPost
    <3>4. CASE StopReturns
      BY <1>0, <1>1, <3>4, NothingReturns DEF StopReturns
    <3>5. CASE StopServiceDependencies \/ StopServiceDependenciesFails
      BY <1>0, <1>1, <3>5 DEF StopServiceDependencies, StopServiceDependenciesFails, Surely
    <3>6. CASE TerminateServiceThread \/ WaitForServiceThread \/ DisownServiceThread
      BY <1>0, <3>6 DEF TerminateServiceThread, WaitForServiceThread, DisownServiceThread
    <3>7. CASE StopPostReturns
      BY <1>0, <1>1, <3>7, NothingReturns
    <3>8. CASE StopSucceeds
      BY <1>0, <3>8 DEF StopSucceeds, SetServiceStatus, Thread
    <3>9. CASE SetStopEvent
      BY <2>0, <3>9 DEF SetStopEvent
    <3>10. QED
      BY <2>4, <3>1, <3>2, <3>3, <3>4, <3>5, <3>6, <3>7, <3>8, <3>9 DEF HandlerStep
  <2>5. CASE DeliverQueued
    <3>1. ctl.pc = "idle" /\ UNCHANGED <<status, reporting, released>>
      BY <2>5 DEF DeliverQueued, CtlAt, statusVars
    <3>2. QED
      BY <2>0, <3>1 DEF StopUnderWay
  <2>6. ASSUME NEW c \in Controls, Deliver(c)
        PROVE  /\ status' = "STOPPED"
               /\ released' \/ reporting'["svc"] \/ reporting'["ctl"]
    <3>1. ctl.pc = "idle" /\ UNCHANGED released /\ c # "PAUSE" /\ c # "CONTINUE"
      BY <1>1, <2>6 DEF Deliver, CtlAt, Surely
    <3>2. UNCHANGED <<status, reporting>> \/ SetServiceStatus("ctl", "STOPPED")
      BY <2>6, <3>1 DEF Deliver, statusVars
    <3>3. QED
      BY <1>0, <2>0, <3>1, <3>2 DEF StopUnderWay, SetServiceStatus, Thread
  <2>7. ASSUME NEW t \in Thread, Report(t)
        PROVE  \/ ctl'.pc \in StopUnderWay
               \/ status' = "STOPPED" /\ released'
    BY <2>0, <2>7 DEF Report
  <2>8. CASE \/ \E t \in Caller : StartProcess(t)
             \/ \E p \in DOMAIN procs, result \in {"ok", "fail"} : ProcessExits(p, result)
             \/ StartAgain
             \/ UNCHANGED vars
    <3>1. UNCHANGED <<status, reporting, released, ctl>>
      BY <2>8 DEF StartProcess, Spawn, SpawnFails, WaitForProcess, GetExitCode,
         CloseProcess, CallUnchanged, ProcessExits, StartAgain, vars, statusVars, scmVars
    <3>2. QED
      BY <2>0, <3>1
  <2>9. QED
    BY <2>1, <2>2, <2>3, <2>4, <2>5, <2>6, <2>7, <2>8, NextGroups
<1>4. QED
  BY <1>2, <1>3

(* When no pause and no continue is sent and a stop cannot fail, the SCM   *)
(* hears of the end of a service thread that has returned, in whatever     *)
(* order its last SetServiceStatus and those of a stop, of a shutdown and  *)
(* of the stop a service sends itself fill m_status and report it.         *)
THEOREM FinishedReachesScm == Spec => []FinishedIsHeard
<1>1. Init => CallInv /\ HandlerInv /\ HeardInv
  BY DEF Init, CallInv, HandlerInv, HeardInv, NoCall, Caller, IdleHandler, NoThread
<1>2. StopInv /\ CallInv /\ HandlerInv /\ HeardInv /\ [Next]_vars
        => (CallInv /\ HandlerInv /\ HeardInv)'
  BY CallNext, HandlerNext, HeardNext DEF StopInv
<1>3. HeardInv => FinishedIsHeard
  BY DEF HeardInv, FinishedIsHeard, FinishedThreadIsReported, Surely, StopUnderWay, Thread
<1>4. QED
  BY <1>1, <1>2, <1>3, StopInvariant, PTL DEF Spec

-----------------------------------------------------------------------------
(* OnStop never waits for INVALID_HANDLE_VALUE.                            *)

\* Only a service with dependencies sends itself a stop.
NoneQueued == ~unit.deps => ~queued

\* A stop that has disowned the thread goes through to SERVICE_STOPPED, and the
\* SCM, which has heard of it, sends no control any more.
DisownedInv ==
  /\ wrapper = "exited" => hThread = "NULL"
  /\ ~early /\ ~unit.deps /\ unit.stopPost = 0 /\ hThread = "INVALID" =>
       \/ ctl.pc = "stopPost" /\ ctl.i # 0
       \/ ctl.pc = "setEvent" /\ status = "STOPPED" /\ (reporting["ctl"] \/ scm = "STOPPED")
       \/ ctl.pc = "idle" /\ status = "STOPPED" /\ scm = "STOPPED"

LEMMA QueuedNext == TypeOK /\ StartInv /\ NoneQueued /\ [Next]_vars => NoneQueued'
<1> SUFFICES ASSUME TypeOK, StartInv, NoneQueued, [Next]_vars, ~unit.deps
             PROVE  ~queued'
  BY UnitKept DEF NoneQueued
<1> USE DEF NoneQueued, scmVars
<1>1. CASE ServiceMain \/ ServiceThread \/ ThreadDies
  BY <1>1, SvcThreadSteps
     DEF ServiceMain, Start, OnStart, OnStartCheck, OnStartCreate, OnStartAssign, OnStartFails,
         CreateStopEvent, ServiceMainReturns, MainUnchanged, ThreadDies, SvcUnchanged
<1>2. CASE HandlerStep
  BY <1>2 DEF HandlerStep, EndPause, EndContinue, StopPending, RunStop, StopReturns,
     StopServiceDependencies, StopServiceDependenciesFails, TerminateServiceThread,
     WaitForServiceThread, DisownServiceThread, RunStopPost, StopPostReturns, StopSucceeds,
     SetStopEvent, RestoreOriginalState
<1>3. CASE DeliverQueued \/ (\E c \in Controls : Deliver(c)) \/ Exit
  BY <1>3 DEF DeliverQueued, Deliver, Exit
<1>4. CASE \/ \E t \in Thread : Report(t)
           \/ \E t \in Caller : StartProcess(t)
           \/ \E p \in DOMAIN procs, result \in {"ok", "fail"} : ProcessExits(p, result)
           \/ StartAgain
           \/ UNCHANGED vars
  BY <1>4 DEF Report, StartProcess, Spawn, SpawnFails, WaitForProcess, GetExitCode,
     CloseProcess, CallUnchanged, ProcessExits, StartAgain, vars
<1>5. QED
  BY <1>1, <1>2, <1>3, <1>4, NextGroups

\* An exited wrapper has no handle: what leaves it exited leaves the handle.
LEMMA ExitedHandle ==
  ASSUME TypeOK, StartInv, [Next]_vars, wrapper = "exited" => hThread = "NULL"
  PROVE  wrapper' = "exited" => hThread' = "NULL"
<1> USE DEF lifeVars
<1>1. CASE ServiceMain
  <2>1. wrapper = "running"
    BY <1>1 DEF ServiceMain, Start, OnStart, OnStartCheck, OnStartCreate, OnStartAssign,
                OnStartFails, CreateStopEvent, ServiceMainReturns, Steps
  <2>2. QED
    BY <1>1, <2>1, MainSteps
<1>2. CASE ServiceThread \/ DeliverQueued \/ \E c \in Controls : Deliver(c)
  BY <1>2, SvcThreadSteps, DeliverSteps
<1>3. CASE HandlerStep
  <2>1. wrapper = "running"
    BY <1>3 DEF HandlerStep, EndPause, EndContinue, StopPending, RunStop, StopReturns,
                StopServiceDependencies, StopServiceDependenciesFails,
                TerminateServiceThread, WaitForServiceThread, DisownServiceThread,
                RunStopPost, StopPostReturns, StopSucceeds, SetStopEvent,
                RestoreOriginalState, CtlAt, Steps
  <2>2. QED
    BY <1>3, <2>1, HandlerSteps
<1>4. CASE ThreadDies \/ Exit \/ StartAgain \/ UNCHANGED vars
  BY <1>4 DEF ThreadDies, SvcUnchanged, Exit, StartAgain, vars
<1>5. CASE \/ \E t \in Thread : Report(t)
           \/ \E t \in Caller : StartProcess(t)
           \/ \E p \in DOMAIN procs, result \in {"ok", "fail"} : ProcessExits(p, result)
  BY <1>5 DEF Report, StartProcess, Spawn, SpawnFails, WaitForProcess, GetExitCode,
              CloseProcess, CallUnchanged, ProcessExits
<1>6. QED
  BY <1>1, <1>2, <1>3, <1>4, <1>5, NextGroups

LEMMA DisownedNext ==
  StopInv /\ CallInv /\ NoneQueued /\ DisownedInv /\ [Next]_vars => DisownedInv'
<1> SUFFICES ASSUME StopInv, CallInv, NoneQueued, DisownedInv, [Next]_vars,
                    ~early', ~unit'.deps, unit'.stopPost = 0, hThread' = "INVALID"
             PROVE  \/ ctl'.pc = "stopPost" /\ ctl'.i # 0
                    \/ /\ ctl'.pc = "setEvent" /\ status' = "STOPPED"
                       /\ reporting'["ctl"] \/ scm' = "STOPPED"
                    \/ ctl'.pc = "idle" /\ status' = "STOPPED" /\ scm' = "STOPPED"
  BY ExitedHandle DEF DisownedInv, StopInv
<1>0. /\ TypeOK /\ StartInv /\ EarlyInv /\ StopKillsThread
      /\ ctl \in [pc: CtlPc, i: Nat, original: State]
      /\ reporting \in [Thread -> BOOLEAN]
  BY DEF StopInv, TypeOK, CtlOK, StatusOK
<1>1. ~unit.deps /\ unit.stopPost = 0
  BY <1>0, UnitKept
<1>2. ASSUME ~early, hThread = "INVALID"
      PROVE  /\ \/ ctl.pc = "stopPost" /\ ctl.i # 0
                \/ ctl.pc = "setEvent" /\ status = "STOPPED" /\ (reporting["ctl"] \/ scm = "STOPPED")
                \/ ctl.pc = "idle" /\ status = "STOPPED" /\ scm = "STOPPED"
             /\ ThreadGone /\ ~Starting /\ wrapper # "exited"
  BY <1>0, <1>1, <1>2 DEF DisownedInv, StopKillsThread, EarlyInv
\* ServiceMain has made its reports before any stop that is not early.
<1>3. CASE ServiceMain
  <2>1. ~early /\ hThread = "INVALID"
    BY <1>0, <1>3, MainSteps
  <2>2. UNCHANGED <<status, reporting, scm, ctl>>
    BY <1>2, <1>3, <2>1 DEF ServiceMain, Start, OnStart, OnStartCheck, OnStartCreate,
       OnStartAssign, OnStartFails, CreateStopEvent, ServiceMainReturns, MainUnchanged,
       Starting, statusVars, scmVars
  <2>3. QED
    BY <1>2, <2>1, <2>2
<1>4. CASE ServiceThread \/ ThreadDies
  <2>1. ~early /\ hThread = "INVALID" /\ ~ThreadGone
    BY <1>0, <1>4, SvcThreadSteps DEF ThreadDies, SvcUnchanged, ThreadGone
  <2>2. QED
    BY <1>2, <2>1
<1>5. CASE HandlerStep
  <2> USE DEF CtlAt, CtlPc, scmVars, statusVars
  <2>0. ~early
    BY <1>0, <1>5, HandlerSteps
  <2>1. CASE DisownServiceThread
    BY <1>0, <2>1, HandlerAt DEF DisownServiceThread
  <2>2. CASE ~DisownServiceThread
    <3>1. hThread = "INVALID"
      BY <1>5, <2>2 DEF HandlerStep, EndPause, EndContinue, StopPending, RunStop, StopReturns,
         StopServiceDependencies, StopServiceDependenciesFails, TerminateServiceThread,
         WaitForServiceThread, RunStopPost, StopPostReturns, StopSucceeds,
         SetStopEvent, RestoreOriginalState
    <3>2. ctl.pc \in {"stopPost", "setEvent", "idle"}
      BY <1>2, <2>0, <3>1
    <3>3. RunStopPost \/ StopPostReturns \/ StopSucceeds \/ SetStopEvent
      BY <1>5, <2>2, <3>2 DEF HandlerStep, EndPause, EndContinue, StopPending, RunStop,
         StopReturns, StopServiceDependencies, StopServiceDependenciesFails,
         TerminateServiceThread, WaitForServiceThread, RestoreOriginalState
    <3>4. CASE RunStopPost
      BY <1>2, <2>0, <3>1, <3>4 DEF RunStopPost
    <3>5. CASE StopPostReturns
      <4>1. ctl.pc = "stopPost" /\ ctl.i # 0 /\ call["ctl"].pc # "idle"
        BY <1>2, <2>0, <3>1, <3>5 DEF StopPostReturns, Returned
      <4>2. QED
        BY <1>0, <1>1, <4>1 DEF CallInv
    <3>6. CASE StopSucceeds
      BY <1>0, <3>6, HandlerAt DEF StopSucceeds, SetServiceStatus, Thread
    <3>7. CASE SetStopEvent
      BY <1>0, <1>2, <2>0, <3>1, <3>7, HandlerAt DEF SetStopEvent, Steps
    <3>8. QED
      BY <3>3, <3>4, <3>5, <3>6, <3>7
  <2>3. QED
    BY <2>1, <2>2
\* The SCM has heard of SERVICE_STOPPED when the handler is idle again.
<1>6. CASE DeliverQueued \/ \E c \in Controls : Deliver(c)
  <2>1. ~early /\ hThread = "INVALID" /\ ctl.pc = "idle"
    BY <1>0, <1>6, DeliverSteps
  <2>2. scm = "STOPPED"
    BY <1>2, <2>1
  <2>3. ~queued /\ ~Accepting
    BY <1>1, <2>2 DEF NoneQueued, Accepting
  <2>4. QED
    BY <1>6, <2>3 DEF DeliverQueued, Deliver
<1>7. CASE Exit
  BY <1>7 DEF Exit
<1>8. ASSUME NEW t \in Thread, Report(t)
      PROVE  \/ ctl'.pc = "stopPost" /\ ctl'.i # 0
             \/ ctl'.pc = "setEvent" /\ status' = "STOPPED" /\ scm' = "STOPPED"
             \/ ctl'.pc = "idle" /\ status' = "STOPPED" /\ scm' = "STOPPED"
  BY <1>2, <1>8 DEF Report
<1>9. CASE \/ \E t \in Caller : StartProcess(t)
           \/ \E p \in DOMAIN procs, result \in {"ok", "fail"} : ProcessExits(p, result)
           \/ UNCHANGED vars
  <2>1. UNCHANGED <<status, reporting, scm, ctl, hThread, early>>
    BY <1>9 DEF StartProcess, Spawn, SpawnFails, WaitForProcess, GetExitCode,
       CloseProcess, CallUnchanged, ProcessExits, vars, statusVars, scmVars
  <2>2. QED
    BY <1>2, <2>1
<1>10. CASE StartAgain
  BY <1>2, <1>10 DEF StartAgain
<1>11. QED
  BY <1>3, <1>4, <1>5, <1>6, <1>7, <1>8, <1>9, <1>10, NextGroups

(* The wait of OnStop is for the service thread: once a stop has disowned  *)
(* the thread no other stop reaches the handler, in whatever order reports *)
(* go out, if the service has no dependencies and no ExecStopPost.         *)
THEOREM NoWaitForEver == Spec => []StopWaitsForThread
<1>1. Init => CallInv /\ NoneQueued /\ DisownedInv
  BY DEF Init, CallInv, NoneQueued, DisownedInv, NoCall, Caller
<1>2. StopInv /\ CallInv /\ NoneQueued /\ DisownedInv /\ [Next]_vars
        => (CallInv /\ NoneQueued /\ DisownedInv)'
  BY CallNext, QueuedNext, DisownedNext DEF StopInv
<1>3. DisownedInv => StopWaitsForThread
  BY DEF DisownedInv, StopWaitsForThread
<1>4. QED
  BY <1>1, <1>2, <1>3, StopInvariant, PTL DEF Spec

=============================================================================
