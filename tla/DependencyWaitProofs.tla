------------------------- MODULE DependencyWaitProofs -------------------------
(***************************************************************************)
(* Safety of DependencyWait for every set of services, every unit files    *)
(* and dependencies of theirs, and every bound.                            *)
(***************************************************************************)
EXTENDS DependencyWait, TLAPS

-----------------------------------------------------------------------------
(* Type correctness.                                                       *)

SeenType == [up: SUBSET Services, met: SUBSET Services, unopened: SUBSET Services,
             gaveUp: BOOLEAN]
WaitType == [i: Nat \ {0}, polls: 0..MaxPolls - 1]

LEMMA SetupParts ==
  ASSUME TypeOK
  PROVE  /\ setup.units \subseteq Services /\ setup.restarted \subseteq Services
         /\ setup.deps \in [Services -> Seq(Services)]
         /\ setup.after \in [Services -> Seq(Names)]
BY SetupsAssumption DEF TypeOK, Setup

LEMMA SeenField ==
  ASSUME NEW e \in SeenType, NEW S \in SUBSET Services
  PROVE  /\ e.up \subseteq Services /\ e.met \subseteq Services
         /\ [e EXCEPT !.up = S] \in SeenType /\ [e EXCEPT !.met = S] \in SeenType
BY DEF SeenType

LEMMA Typed ==
  ASSUME TypeOK
  PROVE  /\ scm \in [Services -> State]
         /\ wait \in [Caller -> [Services -> WaitType]]
         /\ seen \in [Services -> SeenType]
BY DEF TypeOK, WaitType, SeenType

LEMMA ReportType ==
  ASSUME TypeOK, NEW s \in Services, NEW state \in State, SetServiceStatus(s, state)
  PROVE  /\ scm' \in [Services -> State]
         /\ seen' \in [Services -> SeenType]
<1>1. scm' \in [Services -> State]
  BY DEF TypeOK, SetServiceStatus
<1>2. ASSUME NEW r \in Services
      PROVE  seen[r] \in SeenType /\ [seen[r] EXCEPT !.up = @ \ {s}] \in SeenType
  <2>1. seen[r] \in SeenType
    BY Typed
  <2>2. seen[r].up \ {s} \in SUBSET Services
    BY <2>1, SeenField
  <2>3. QED
    BY <2>1, <2>2, SeenField
<1>3. seen' \in [Services -> SeenType]
  BY <1>2 DEF SetServiceStatus
<1>4. QED
  BY <1>1, <1>3

LEMMA CountType ==
  ASSUME TypeOK, NEW e \in Event, CountOne(e)
  PROVE  count' \in [Event -> Nat]
BY DEF TypeOK, CountOne

\* What a step of a wait does to its locals.
LEMMA WaitStepType ==
  ASSUME TypeOK, NEW c \in Caller, NEW s \in Services, NEW list,
         AskNext(c, s, list) \/ SleepAndRetry(c, s, list)
  PROVE  wait' \in [Caller -> [Services -> WaitType]]
<1>1. wait[c][s] \in WaitType
  BY DEF TypeOK, WaitType
<1>2. CASE AskNext(c, s, list)
  <2>1. [wait[c][s] EXCEPT !.i = @ + 1] \in WaitType
    BY <1>1 DEF WaitType
  <2>2. QED
    BY <1>2, <2>1 DEF TypeOK, AskNext, WaitType
<1>3. CASE SleepAndRetry(c, s, list)
  <2>1. [i |-> 1, polls |-> wait[c][s].polls + 1] \in WaitType
    BY <1>1, <1>3, BoundsAssumption DEF SleepAndRetry, LastRound, WaitType
  <2>2. QED
    BY <1>3, <2>1 DEF TypeOK, SleepAndRetry, WaitType
<1>4. QED
  BY <1>2, <1>3

LEMMA LeaveType ==
  ASSUME TypeOK, NEW c \in Caller, NEW s \in Services, Leave(c, s)
  PROVE  wait' \in [Caller -> [Services -> WaitType]]
BY BoundsAssumption DEF TypeOK, Leave, Begun, WaitType

LEMMA TypeInit == Init => TypeOK
BY BoundsAssumption DEF Init, TypeOK, State, ThreadPc, HandlerPc, Idle, Begun, Unseen

LEMMA StartType ==
  ASSUME TypeOK, NEW s \in Services, StartService(s) \/ Launch(s) \/ GetServiceDependenciesFails(s) \/ Finish(s)
  PROVE  TypeOK'
<1>1. /\ scm' \in [Services -> State]
         /\ seen' \in [Services -> SeenType]
  BY ReportType DEF StartService, Launch, GetServiceDependenciesFails, Finish, State
<1>2. count' \in [Event -> Nat]
  BY CountType DEF StartService, Launch, GetServiceDependenciesFails, Finish, Event, TypeOK
<1>3. thread' \in [Services -> ThreadPc]
  BY DEF StartService, Launch, GetServiceDependenciesFails, Finish, Goto, TypeOK, ThreadPc
<1>4. UNCHANGED <<setup, handler, wait, queued>>
  BY DEF StartService, Launch, GetServiceDependenciesFails, Finish, ThreadUnchanged
<1>5. QED
  BY <1>1, <1>2, <1>3, <1>4 DEF TypeOK, SeenType

LEMMA AfterType ==
  ASSUME TypeOK, NEW s \in Services, BeginAfter(s) \/ WaitAfter(s) \/ AfterReturns(s) \/ AfterFails(s)
  PROVE  TypeOK'
<1>0. UNCHANGED <<setup, handler, queued>>
  BY DEF BeginAfter, WaitAfter, AfterReturns, AfterFails, ThreadUnchanged
<1>1. scm' \in [Services -> State]
  BY DEF BeginAfter, WaitAfter, AfterReturns, AfterFails, TypeOK, State
<1>2. count' \in [Event -> Nat]
  BY CountType DEF BeginAfter, WaitAfter, AfterReturns, AfterFails, CannotOpen, Fails, Event,
                   TypeOK
<1>3. thread' \in [Services -> ThreadPc]
  BY DEF BeginAfter, WaitAfter, AfterReturns, AfterFails, Goto, TypeOK, ThreadPc
<1>4. wait' \in [Caller -> [Services -> WaitType]]
  <2>1. CASE BeginAfter(s)
    BY <2>1 DEF BeginAfter, TypeOK, WaitType
  <2>2. CASE WaitAfter(s)
    BY <2>2, WaitStepType DEF WaitAfter, Caller
  <2>3. CASE AfterReturns(s) \/ AfterFails(s)
    BY <2>3, LeaveType DEF AfterReturns, AfterFails, Caller
  <2>4. QED
    BY <2>1, <2>2, <2>3
<1>5. seen' \in [Services -> SeenType]
  <2>0. seen \in [Services -> SeenType]
    BY DEF TypeOK, SeenType
  <2>1. CASE BeginAfter(s)
    <3>1. [Unseen EXCEPT !.up = {t \in Services : Up(scm[t])}] \in SeenType
      BY DEF Unseen, SeenType
    <3>2. QED
      BY <2>0, <2>1, <3>1 DEF BeginAfter
  <2>2. CASE WaitAfter(s)
    <3>1. CASE AskNext("thread", s, After(s))
      <4> DEFINE Met == {t \in {Asked("thread", s, After(s))} : scm[t] = "STOP_PENDING"}
      <4>1. seen' = [seen EXCEPT ![s].met = @ \cup Met]
        BY <2>2, <3>1 DEF WaitAfter, AskNext, SleepAndRetry
      <4>2. seen[s].met \cup Met \in SUBSET Services
        <5>1. Asked("thread", s, After(s)) \in Services
          BY <3>1 DEF AskNext, Asking
        <5>2. seen[s] \in SeenType
          BY <2>0
        <5>3. seen[s].met \subseteq Services
          BY <5>2, SeenField
        <5>4. QED
          BY <5>1, <5>3
      <4> HIDE DEF Met
      <4>3. seen[s] \in SeenType
        BY <2>0
      <4>4. \A M \in SUBSET Services : [seen[s] EXCEPT !.met = M] \in SeenType
        BY <4>3 DEF SeenType
      <4>5. QED
        <5>1. seen' = [seen EXCEPT ![s] = [seen[s] EXCEPT !.met = seen[s].met \cup Met]]
          BY <4>1
        <5>2. [seen[s] EXCEPT !.met = seen[s].met \cup Met] \in SeenType
          BY <4>2, <4>4, Zenon
        <5>3. QED
          BY <2>0, <5>1, <5>2, Zenon
    <3>2. CASE SleepAndRetry("thread", s, After(s))
      <4>1. [seen[s] EXCEPT !.met = {}] \in SeenType
        BY <2>0 DEF SeenType
      <4>2. QED
        BY <2>0, <2>2, <3>2, <4>1 DEF WaitAfter, AskNext, SleepAndRetry
    <3>3. QED
      BY <2>2, <3>1, <3>2 DEF WaitAfter
  <2>3. CASE AfterReturns(s)
    <3>1. \A b \in BOOLEAN : [seen[s] EXCEPT !.gaveUp = b] \in SeenType
      BY <2>0 DEF SeenType
    <3>2. GivesUp("thread", s, After(s)) \in BOOLEAN
      BY DEF GivesUp
    <3>3. [seen[s] EXCEPT !.gaveUp = GivesUp("thread", s, After(s))] \in SeenType
      BY <3>1, <3>2, Zenon
    <3>4. CASE seen' = [seen EXCEPT ![s].gaveUp = GivesUp("thread", s, After(s))]
      BY <2>0, <3>3, <3>4, Zenon
    <3>5. CASE /\ CannotOpen("thread", s, After(s))
               /\ seen' = [seen EXCEPT ![s].unopened = {Asked("thread", s, After(s))}]
      <4>1. {Asked("thread", s, After(s))} \in SUBSET Services
        BY <3>5 DEF CannotOpen, Asking
      <4>2. \A S \in SUBSET Services : [seen[s] EXCEPT !.unopened = S] \in SeenType
        BY <2>0 DEF SeenType
      <4>3. [seen[s] EXCEPT !.unopened = {Asked("thread", s, After(s))}] \in SeenType
        BY <4>1, <4>2, Zenon
      <4>4. QED
        BY <2>0, <3>5, <4>3, Zenon
    <3>6. QED
      BY <2>3, <3>4, <3>5 DEF AfterReturns
  <2>4. CASE AfterFails(s)
    BY <2>0, <2>4 DEF AfterFails, Forget, Unseen, SeenType
  <2>5. QED
    BY <2>1, <2>2, <2>3, <2>4
<1>6. QED
  BY <1>0, <1>1, <1>2, <1>3, <1>4, <1>5 DEF TypeOK, SeenType, WaitType

LEMMA ThreadType ==
  ASSUME TypeOK, NEW s \in Services,
         CommandsEnd(s) \/ WaitDependents(s) \/ DependentsReturn(s) \/ Catch(s) \/ WakeUp(s)
  PROVE  TypeOK'
<1>0. UNCHANGED <<setup, handler, queued>>
  BY DEF CommandsEnd, WaitDependents, DependentsReturn, Catch, WakeUp, ThreadUnchanged
<1>1. scm' \in [Services -> State]
  BY DEF CommandsEnd, WaitDependents, DependentsReturn, Catch, WakeUp, TypeOK, State
<1>2. count' \in [Event -> Nat]
  BY CountType DEF CommandsEnd, WaitDependents, DependentsReturn, Catch, WakeUp, Fails, Event,
                   TypeOK
<1>3. thread' \in [Services -> ThreadPc]
  BY DEF CommandsEnd, WaitDependents, DependentsReturn, Catch, WakeUp, Goto, TypeOK, ThreadPc
<1>4. wait' \in [Caller -> [Services -> WaitType]]
  <2>1. CASE CommandsEnd(s) \/ Catch(s) \/ WakeUp(s)
    BY <2>1 DEF CommandsEnd, Catch, WakeUp, TypeOK, WaitType
  <2>2. CASE WaitDependents(s)
    BY <2>2, WaitStepType DEF WaitDependents, Caller
  <2>3. CASE DependentsReturn(s)
    BY <2>3, LeaveType DEF DependentsReturn, Caller
  <2>4. QED
    BY <2>1, <2>2, <2>3
<1>5. seen' \in [Services -> SeenType]
  <2>1. CASE CommandsEnd(s)
    BY <2>1, Typed DEF CommandsEnd, Forget, SeenType, Unseen
  <2>2. CASE WaitDependents(s) \/ DependentsReturn(s) \/ Catch(s) \/ WakeUp(s)
    BY <2>2, Typed DEF WaitDependents, DependentsReturn, Catch, WakeUp
  <2>3. QED
    BY <2>1, <2>2
<1>6. QED
  BY <1>0, <1>1, <1>2, <1>3, <1>4, <1>5 DEF TypeOK, SeenType, WaitType

LEMMA HandlerType ==
  ASSUME TypeOK, NEW s \in Services,
         Stop(s) \/ StopServiceDependencies(s) \/ StopFails(s) \/ WaitToStop(s)
           \/ ProcessEnds(s) \/ StopAgain(s)
  PROVE  TypeOK'
<1>0. setup' = setup
  BY DEF Stop, StopServiceDependencies, StopFails, WaitToStop, ProcessEnds, StopAgain
<1>1. scm' \in [Services -> State] /\ seen' \in [Services -> SeenType]
  <2>1. CASE Stop(s) \/ StopFails(s) \/ StopAgain(s)
    <3>1. handler[s].original \in State
      BY DEF TypeOK
    <3>2. PICK state \in State : SetServiceStatus(s, state)
      BY <2>1, <3>1 DEF Stop, StopFails, StopAgain, State
    <3>3. QED
      BY <3>2, ReportType
  <2>2. CASE StopServiceDependencies(s) \/ WaitToStop(s) \/ ProcessEnds(s)
    BY <2>2, Typed DEF StopServiceDependencies, WaitToStop, ProcessEnds
  <2>3. QED
    BY <2>1, <2>2
<1>2. count' \in [Event -> Nat]
  BY CountType DEF Stop, StopServiceDependencies, StopFails, WaitToStop, ProcessEnds, StopAgain,
                   Event, TypeOK
<1>3. thread' \in [Services -> ThreadPc]
  BY DEF Stop, StopServiceDependencies, StopFails, WaitToStop, ProcessEnds, StopAgain, TypeOK
<1>4. wait' \in [Caller -> [Services -> WaitType]]
  <2>1. CASE WaitToStop(s)
    BY <2>1, WaitStepType DEF WaitToStop, Caller
  <2>2. CASE ~WaitToStop(s)
    BY <2>2, Typed DEF Stop, StopServiceDependencies, StopFails, ProcessEnds, StopAgain
  <2>3. QED
    BY <2>1, <2>2
<1>5. handler' \in [Services -> [pc: HandlerPc, original: State]]
  BY DEF Stop, StopServiceDependencies, StopFails, WaitToStop, ProcessEnds, StopAgain, TypeOK,
         HandlerGoto, HandlerPc, Idle, State
<1>6. queued' \subseteq Services
  BY DEF Stop, StopServiceDependencies, StopFails, WaitToStop, ProcessEnds, StopAgain, TypeOK
<1>7. QED
  BY <1>0, <1>1, <1>2, <1>3, <1>4, <1>5, <1>6 DEF TypeOK, SeenType, WaitType

LEMMA TerminateType ==
  ASSUME TypeOK, NEW s \in Services, TerminateServiceThread(s)
  PROVE  TypeOK'
<1>1. UNCHANGED <<setup, queued>>
  BY DEF TerminateServiceThread
<1>2. scm' \in [Services -> State] /\ thread' \in [Services -> ThreadPc]
  BY DEF TerminateServiceThread, TypeOK, State, ThreadPc
<1>3. count' \in [Event -> Nat]
  BY CountType DEF TerminateServiceThread, Fails, Event, TypeOK
<1>4. wait' \in [Caller -> [Services -> WaitType]]
  <2>1. Begun \in WaitType
    BY BoundsAssumption DEF Begun, WaitType
  <2>2. QED
    BY <2>1, Typed DEF TerminateServiceThread
<1>5. handler' \in [Services -> [pc: HandlerPc, original: State]]
  BY DEF TerminateServiceThread, TypeOK, HandlerPc, Idle, State
<1>6. seen' \in [Services -> SeenType]
  <2>1. ASSUME NEW r \in Services
        PROVE  Unseen \in SeenType /\ [seen[r] EXCEPT !.up = @ \ {s}] \in SeenType
    <3>1. seen[r] \in SeenType
      BY Typed
    <3>2. seen[r].up \ {s} \in SUBSET Services
      BY <3>1, SeenField
    <3>3. QED
      BY <3>1, <3>2, SeenField DEF Unseen, SeenType
  <2>2. QED
    BY <2>1 DEF TerminateServiceThread
<1>7. QED
  BY <1>1, <1>2, <1>3, <1>4, <1>5, <1>6 DEF TypeOK, SeenType, WaitType

LEMMA TypeNext == TypeOK /\ [Next]_vars => TypeOK'
<1> SUFFICES ASSUME TypeOK, [Next]_vars
             PROVE  TypeOK'
  OBVIOUS
<1>1. CASE UNCHANGED vars
  BY <1>1 DEF vars, TypeOK
<1>2. ASSUME NEW s \in Services,
             \/ StartService(s) \/ ThreadStep(s) \/ CommandsEnd(s) \/ WakeUp(s)
             \/ GetServiceDependenciesFails(s) \/ AfterFails(s)
             \/ Stop(s) \/ HandlerStep(s) \/ StopFails(s)
      PROVE  TypeOK'
  BY <1>2, StartType, AfterType, ThreadType, HandlerType, TerminateType
     DEF ThreadStep, HandlerStep
<1>3. QED
  BY <1>1, <1>2 DEF Next

(* The state keeps its shape; a wait makes no more than MaxPolls rounds.   *)
THEOREM TypeCorrect == Spec => []TypeOK
BY TypeInit, TypeNext, PTL DEF Spec

-----------------------------------------------------------------------------
(* The waits for After=.                                                   *)

\* s has found t over: in the round that its wait is in, or in the last one of
\* the wait before the commands that run.
PassedBy(s, t) ==
  \/ /\ thread[s] = "after"
     /\ \E j \in DOMAIN After(s) : j < wait["thread"][s].i /\ After(s)[j] = t
  \/ thread[s] = "main" /\ ~seen[s].gaveUp /\ t \in WaitedFor(s)

\* A stopped service has no service thread; Stop never finds one.
StoppedInv ==
  /\ \A s \in Services : scm[s] = "STOPPED" => thread[s] = "none"
  /\ \A s \in Services : handler[s].pc = "stop" => handler[s].original # "STOPPED"

\* A wait begins with the first name of its list.
BeginInv == \A s \in Services :
              thread[s] \notin {"after", "dependents"} => wait["thread"][s].i = 1

\* The history is true: a service that has been up all the time is up.
UpInv == \A s, t \in Services : t \in seen[s].up => Up(scm[t])

PassedInv == \A s, t \in Services : PassedBy(s, t) => t \notin seen[s].up

\* Of two services, the one that passed the other last found it stopped, that is
\* with no thread, unless it was stopping.
MutualInv == \A s, t \in Services :
               s # t /\ PassedBy(s, t) /\ PassedBy(t, s)
                 => t \in seen[s].met \/ s \in seen[t].met

Step(s) == \/ StartService(s) \/ ThreadStep(s) \/ CommandsEnd(s) \/ WakeUp(s)
           \/ GetServiceDependenciesFails(s) \/ AfterFails(s)
           \/ Stop(s) \/ HandlerStep(s) \/ StopFails(s)

LEMMA StoppedNext ==
  ASSUME TypeOK, StoppedInv, NEW s \in Services, Step(s)
  PROVE  StoppedInv'
<1>0. /\ scm \in [Services -> State] /\ thread \in [Services -> ThreadPc]
      /\ handler \in [Services -> [pc: HandlerPc, original: State]]
  BY DEF TypeOK
<1> USE <1>0 DEF StoppedInv
<1>1. CASE StartService(s) \/ Launch(s) \/ GetServiceDependenciesFails(s) \/ Finish(s)
  BY <1>1 DEF StartService, Launch, GetServiceDependenciesFails, Finish, SetServiceStatus,
              Goto, ThreadUnchanged
<1>2. CASE BeginAfter(s) \/ WaitAfter(s) \/ AfterReturns(s) \/ AfterFails(s)
  BY <1>2 DEF BeginAfter, WaitAfter, AfterReturns, AfterFails, Goto, ThreadAt, ThreadUnchanged
<1>3. CASE \/ CommandsEnd(s) \/ WaitDependents(s) \/ DependentsReturn(s) \/ Catch(s)
           \/ WakeUp(s)
  BY <1>3 DEF CommandsEnd, WaitDependents, DependentsReturn, Catch, WakeUp, Goto, ThreadAt,
              ThreadUnchanged
<1>4. CASE Stop(s)
  BY <1>4 DEF Stop, SetServiceStatus, Stoppable
<1>5. CASE StopServiceDependencies(s) \/ WaitToStop(s) \/ ProcessEnds(s)
  BY <1>5 DEF StopServiceDependencies, WaitToStop, ProcessEnds, HandlerGoto
<1>6. CASE StopFails(s) \/ StopAgain(s)
  BY <1>6 DEF StopFails, StopAgain, SetServiceStatus, HandlerGoto, HandlerAt, Idle
<1>7. CASE TerminateServiceThread(s)
  BY <1>7 DEF TerminateServiceThread, Idle
<1>8. QED
  BY <1>1, <1>2, <1>3, <1>4, <1>5, <1>6, <1>7 DEF Step, ThreadStep, HandlerStep

LEMMA BeginNext ==
  ASSUME TypeOK, BeginInv, NEW s \in Services, Step(s)
  PROVE  BeginInv'
<1>0. /\ wait \in [Caller -> [Services -> WaitType]]
      /\ thread \in [Services -> ThreadPc]
  BY Typed DEF TypeOK
<1> USE <1>0 DEF BeginInv, Caller, WaitType
<1>1. CASE StartService(s) \/ Launch(s) \/ GetServiceDependenciesFails(s) \/ Finish(s)
  BY <1>1 DEF StartService, Launch, GetServiceDependenciesFails, Finish,
              Goto, ThreadAt, ThreadUnchanged
<1>2. CASE BeginAfter(s) \/ CommandsEnd(s) \/ Catch(s) \/ WakeUp(s)
  BY <1>2 DEF BeginAfter, CommandsEnd, Catch, WakeUp, Goto, ThreadAt, ThreadUnchanged
<1>3. CASE WaitAfter(s) \/ WaitDependents(s)
  BY <1>3 DEF WaitAfter, WaitDependents, AskNext, SleepAndRetry, ThreadAt, ThreadUnchanged
<1>4. CASE AfterReturns(s) \/ AfterFails(s) \/ DependentsReturn(s)
  BY <1>4 DEF AfterReturns, AfterFails, DependentsReturn, Leave, Begun, Goto, ThreadAt,
              ThreadUnchanged
<1>5. CASE \/ Stop(s) \/ StopServiceDependencies(s) \/ ProcessEnds(s) \/ StopFails(s)
           \/ StopAgain(s)
  BY <1>5 DEF Stop, StopServiceDependencies, ProcessEnds, StopFails, StopAgain
<1>6. CASE WaitToStop(s)
  BY <1>6 DEF WaitToStop, AskNext, SleepAndRetry
<1>7. CASE TerminateServiceThread(s)
  BY <1>7 DEF TerminateServiceThread, Begun
<1>8. QED
  BY <1>1, <1>2, <1>3, <1>4, <1>5, <1>6, <1>7 DEF Step, ThreadStep, HandlerStep

\* A report of any kind keeps the history true.
LEMMA ReportUp ==
  ASSUME TypeOK, UpInv, NEW s \in Services, NEW state \in State, SetServiceStatus(s, state)
  PROVE  /\ UpInv'
         /\ \A r \in Services : seen'[r].up \subseteq seen[r].up
<1>1. ASSUME NEW r \in Services
      PROVE  /\ seen[r] \in SeenType
             /\ seen'[r].up = IF Up(state) THEN seen[r].up ELSE seen[r].up \ {s}
  BY Typed DEF SetServiceStatus, SeenType
<1>2. scm' = [scm EXCEPT ![s] = state] /\ scm \in [Services -> State]
  BY Typed DEF SetServiceStatus
<1>3. QED
  BY <1>1, <1>2 DEF UpInv, Up

LEMMA UpNext ==
  ASSUME TypeOK, UpInv, NEW s \in Services, Step(s)
  PROVE  /\ UpInv'
         /\ \A r \in Services : seen'[r].up \subseteq seen[r].up \/ (r = s /\ BeginAfter(s))
<1>0. scm \in [Services -> State] /\ seen \in [Services -> SeenType]
  BY Typed
<1>1. CASE \/ StartService(s) \/ Launch(s) \/ GetServiceDependenciesFails(s) \/ Finish(s)
           \/ Stop(s) \/ StopFails(s) \/ StopAgain(s)
  <2>1. handler[s].original \in State
    BY DEF TypeOK
  <2>2. PICK state \in State : SetServiceStatus(s, state)
    BY <1>1, <2>1 DEF StartService, Launch, GetServiceDependenciesFails, Finish, Stop,
                      StopFails, StopAgain, State
  <2>3. QED
    BY <2>2, ReportUp
<1>2. CASE BeginAfter(s)
  <2>1. scm' = [scm EXCEPT ![s] = "START_PENDING"]
    BY <1>2 DEF BeginAfter
  <2>2. /\ seen'[s].up = {t \in Services : Up(scm[t])}
        /\ \A r \in Services : r # s => seen'[r] = seen[r]
    BY <1>0, <1>2 DEF BeginAfter, Unseen
  <2>3. QED
    BY <1>0, <1>2, <2>1, <2>2 DEF UpInv, Up
<1>3. CASE \/ WaitAfter(s) \/ AfterReturns(s) \/ WaitDependents(s) \/ DependentsReturn(s)
           \/ Catch(s) \/ WakeUp(s) \/ StopServiceDependencies(s) \/ WaitToStop(s)
           \/ ProcessEnds(s)
  <2>1. \A r \in Services : seen'[r].up = seen[r].up
    <3>1. CASE WaitAfter(s) \/ AfterReturns(s)
      BY <1>0, <3>1 DEF WaitAfter, AfterReturns, SeenType
    <3>2. CASE ~(WaitAfter(s) \/ AfterReturns(s))
      BY <1>3, <3>2 DEF WaitDependents, DependentsReturn, Catch, WakeUp,
                        StopServiceDependencies, WaitToStop, ProcessEnds
    <3>3. QED
      BY <3>1, <3>2
  <2>2. \A t \in Services : scm'[t] = scm[t] \/ scm'[t] \in {"RUNNING", "PAUSED"}
    BY <1>0, <1>3 DEF WaitAfter, AfterReturns, WaitDependents, DependentsReturn, Catch, WakeUp,
                      StopServiceDependencies, WaitToStop, ProcessEnds
  <2>3. QED
    BY <2>1, <2>2 DEF UpInv, Up
<1>4. CASE AfterFails(s) \/ CommandsEnd(s)
  <2>1. scm' = scm /\ seen' = [seen EXCEPT ![s] = Unseen]
    BY <1>4 DEF AfterFails, CommandsEnd, Forget
  <2>2. QED
    BY <1>0, <2>1 DEF UpInv, Unseen
<1>5. CASE TerminateServiceThread(s)
  <2>1. scm' = [scm EXCEPT ![s] = "STOPPED"]
    BY <1>5 DEF TerminateServiceThread
  <2>2. ASSUME NEW r \in Services
        PROVE  seen'[r].up \subseteq seen[r].up \ {s}
    BY <1>0, <1>5 DEF TerminateServiceThread, Unseen, SeenType
  <2>3. QED
    BY <1>0, <2>1, <2>2 DEF UpInv
<1>6. QED
  BY <1>1, <1>2, <1>3, <1>4, <1>5 DEF Step, ThreadStep, HandlerStep

\* A step of s leaves the service thread of another service where it is, with its
\* wait and the history of that but for the services that are still up.
LEMMA OthersNext ==
  ASSUME TypeOK, NEW s \in Services, Step(s), NEW r \in Services, r # s
  PROVE  /\ thread'[r] = thread[r] /\ wait'["thread"][r] = wait["thread"][r]
         /\ seen'[r].met = seen[r].met /\ seen'[r].gaveUp = seen[r].gaveUp
         /\ seen'[r].unopened = seen[r].unopened
<1>0. /\ thread \in [Services -> ThreadPc] /\ wait \in [Caller -> [Services -> WaitType]]
      /\ seen \in [Services -> SeenType]
  BY Typed DEF TypeOK
<1>1. thread'[r] = thread[r]
  BY <1>0 DEF Step, ThreadStep, HandlerStep, StartService, Launch, BeginAfter, WaitAfter, AfterReturns,
     WaitDependents, DependentsReturn, Catch, Finish, CommandsEnd, WakeUp,
     GetServiceDependenciesFails, AfterFails, Stop, StopServiceDependencies, WaitToStop,
     TerminateServiceThread, ProcessEnds, StopAgain, StopFails, Goto
<1>2. wait'["thread"][r] = wait["thread"][r]
  BY <1>0 DEF Step, ThreadStep, HandlerStep, StartService, Launch, BeginAfter, WaitAfter, AfterReturns,
     WaitDependents, DependentsReturn, Catch, Finish, CommandsEnd, WakeUp,
     GetServiceDependenciesFails, AfterFails, Stop, StopServiceDependencies, WaitToStop,
     TerminateServiceThread, ProcessEnds, StopAgain, StopFails, Leave, AskNext, SleepAndRetry,
     Caller
<1>3. /\ seen'[r].met = seen[r].met /\ seen'[r].gaveUp = seen[r].gaveUp
      /\ seen'[r].unopened = seen[r].unopened
  <2>1. CASE \/ StartService(s) \/ Launch(s) \/ GetServiceDependenciesFails(s) \/ Finish(s)
             \/ Stop(s) \/ StopFails(s) \/ StopAgain(s) \/ TerminateServiceThread(s)
    <3>1. seen'[r] \in {seen[r], [seen[r] EXCEPT !.up = @ \ {s}]}
      BY <2>1 DEF StartService, Launch, GetServiceDependenciesFails, Finish, Stop, StopFails,
                  StopAgain, TerminateServiceThread, SetServiceStatus
    <3>2. seen[r] \in SeenType
      BY <1>0
    <3>3. QED
      BY <3>1, <3>2 DEF SeenType
  <2>2. CASE \/ BeginAfter(s) \/ WaitAfter(s) \/ AfterReturns(s) \/ AfterFails(s)
             \/ CommandsEnd(s)
    <3>1. seen'[r] = seen[r]
      BY <1>0, <2>2 DEF BeginAfter, WaitAfter, AfterReturns, AfterFails, CommandsEnd, Forget
    <3>2. QED
      BY <3>1
  <2>3. CASE \/ WaitDependents(s) \/ DependentsReturn(s) \/ Catch(s) \/ WakeUp(s)
             \/ StopServiceDependencies(s) \/ WaitToStop(s) \/ ProcessEnds(s)
    BY <2>3 DEF WaitDependents, DependentsReturn, Catch, WakeUp, StopServiceDependencies,
                WaitToStop, ProcessEnds
  <2>4. QED
    BY <2>1, <2>2, <2>3 DEF Step, ThreadStep, HandlerStep
<1>4. QED
  BY <1>1, <1>2, <1>3

\* The units stay as they are.
LEMMA SetupNext ==
  ASSUME NEW s \in Services, Step(s)
  PROVE  setup' = setup
BY DEF Step, ThreadStep, HandlerStep, StartService, Launch, BeginAfter, WaitAfter, AfterReturns,
   WaitDependents, DependentsReturn, Catch, Finish, CommandsEnd, WakeUp,
   GetServiceDependenciesFails, AfterFails, Stop, StopServiceDependencies, WaitToStop,
   TerminateServiceThread, ProcessEnds, StopAgain, StopFails, ThreadUnchanged

\* What s has passed after a step of its own it had passed before, or it has just
\* found it over, and remembers if it was stopping.
LEMMA PassedNext ==
  ASSUME TypeOK, BeginInv, NEW s \in Services, Step(s), NEW t \in Services, PassedBy(s, t)'
  PROVE  /\ ~BeginAfter(s) /\ seen[s].met \subseteq seen'[s].met
         /\ PassedBy(s, t) \/ (Over(t) /\ (scm[t] = "STOP_PENDING" => t \in seen'[s].met))
<1>0. /\ thread \in [Services -> ThreadPc] /\ wait \in [Caller -> [Services -> WaitType]]
      /\ seen \in [Services -> SeenType] /\ setup' = setup
      /\ After(s) \in Seq(Names)
  BY Typed, SetupNext, SetupParts DEF TypeOK, After
<1>a. After(s)' = After(s)
  BY <1>0 DEF After
<1>b. DOMAIN After(s) = 1..Len(After(s)) /\ Len(After(s)) \in Nat
  BY <1>0
<1>c. wait["thread"][s] \in WaitType /\ seen[s] \in SeenType
  BY <1>0 DEF Caller
<1>1. thread'[s] \in {"after", "main"}
  BY DEF PassedBy
<1>2. CASE BeginAfter(s)
  <2>1. wait'["thread"][s].i = 1 /\ thread'[s] = "after"
    BY <1>0, <1>2 DEF BeginAfter, BeginInv, ThreadAt, Goto
  <2>2. QED
    BY <1>a, <1>b, <2>1 DEF PassedBy
<1>3. CASE WaitAfter(s)
  <2>1. thread'[s] = "after" /\ thread[s] = "after"
    BY <1>3 DEF WaitAfter, ThreadAt
  <2>2. PICK j \in DOMAIN After(s) : j < wait'["thread"][s].i /\ After(s)[j] = t
    BY <1>a, <2>1 DEF PassedBy
  <2>3. ~SleepAndRetry("thread", s, After(s))
    <3>1. SUFFICES ASSUME SleepAndRetry("thread", s, After(s)) PROVE FALSE
      OBVIOUS
    <3>2. wait'["thread"][s].i = 1
      BY <1>0, <3>1 DEF SleepAndRetry, Caller
    <3>3. QED
      BY <1>b, <2>2, <3>2
  <2>4. /\ AskNext("thread", s, After(s))
        /\ seen' = [seen EXCEPT ![s].met =
             @ \cup {u \in {Asked("thread", s, After(s))} : scm[u] = "STOP_PENDING"}]
    BY <1>3, <2>3 DEF WaitAfter
  <2>5. seen'[s].met = seen[s].met \cup
             {u \in {Asked("thread", s, After(s))} : scm[u] = "STOP_PENDING"}
    BY <1>0, <2>4 DEF SeenType
  <2>6. wait'["thread"][s].i = wait["thread"][s].i + 1
    BY <1>0, <2>4 DEF AskNext, Caller, WaitType
  <2>7. CASE j < wait["thread"][s].i
    <3>1. PassedBy(s, t)
      BY <2>1, <2>2, <2>7 DEF PassedBy
    <3>2. ~BeginAfter(s)
      BY <2>1 DEF BeginAfter, ThreadAt
    <3>3. QED
      BY <2>5, <3>1, <3>2
  <2>8. CASE ~(j < wait["thread"][s].i)
    <3>1. t = Asked("thread", s, After(s))
      BY <1>b, <1>c, <2>2, <2>6, <2>8 DEF Asked, WaitType
    <3>2. ~BeginAfter(s)
      BY <2>1 DEF BeginAfter, ThreadAt
    <3>3. QED
      BY <2>4, <2>5, <3>1, <3>2 DEF AskNext
  <2>9. QED
    BY <2>7, <2>8
<1>4. CASE AfterReturns(s)
  <2>1. thread[s] = "after" /\ thread'[s] = "main"
    BY <1>0, <1>4 DEF AfterReturns, ThreadAt, Goto
  <2>2. ~seen'[s].gaveUp /\ t \in WaitedFor(s)'
    BY <2>1 DEF PassedBy
  <2>3. PICK k \in DOMAIN After(s) :
               /\ After(s)[k] = t
               /\ \A j \in 1..k : After(s)[j] \in Services \ seen'[s].unopened
    BY <1>a, <2>2 DEF WaitedFor, NamedBefore
  \* It stopped asking behind t: at the end, at no service, or at one it could not open.
  <2>4. /\ seen'[s].met = seen[s].met
        /\ ~Asking("thread", s, After(s)) \/ Asked("thread", s, After(s)) \in seen'[s].unopened
    <3>1. CASE /\ Returns("thread", s, After(s))
               /\ seen' = [seen EXCEPT ![s].gaveUp = GivesUp("thread", s, After(s))]
      BY <1>0, <1>c, <2>2, <3>1 DEF Returns, SeenType
    <3>2. CASE seen' = [seen EXCEPT ![s].unopened = {Asked("thread", s, After(s))}]
      BY <1>0, <1>c, <3>2 DEF SeenType
    <3>3. QED
      BY <1>4, <3>1, <3>2 DEF AfterReturns
  <2>5. k < wait["thread"][s].i
    BY <1>b, <1>c, <2>3, <2>4 DEF Asking, Asked, WaitType
  <2>6. PassedBy(s, t)
    BY <2>1, <2>3, <2>5 DEF PassedBy
  <2>7. ~BeginAfter(s)
    BY <2>1 DEF BeginAfter, ThreadAt
  <2>8. QED
    BY <2>4, <2>6, <2>7
<1>5. CASE \/ Stop(s) \/ StopServiceDependencies(s) \/ WaitToStop(s) \/ ProcessEnds(s)
           \/ StopFails(s) \/ StopAgain(s)
  <2>1. thread' = thread
    BY <1>5 DEF Stop, StopServiceDependencies, WaitToStop, ProcessEnds, StopFails, StopAgain
  <2>2. wait'["thread"][s].i = wait["thread"][s].i
    BY <1>0, <1>5 DEF Stop, StopServiceDependencies, WaitToStop, ProcessEnds, StopFails,
                      StopAgain, AskNext, SleepAndRetry, Caller
  <2>3. seen'[s] \in {seen[s], [seen[s] EXCEPT !.up = @ \ {s}]}
    BY <1>5 DEF Stop, StopServiceDependencies, WaitToStop, ProcessEnds, StopFails, StopAgain,
                SetServiceStatus
  <2>4. /\ seen'[s].met = seen[s].met /\ seen'[s].gaveUp = seen[s].gaveUp
        /\ seen'[s].unopened = seen[s].unopened
    BY <1>c, <2>3 DEF SeenType
  <2>5. PassedBy(s, t)
    BY <1>a, <2>1, <2>2, <2>4 DEF PassedBy, WaitedFor, NamedBefore
  <2>6. ~BeginAfter(s)
    BY <1>0, <2>1 DEF BeginAfter, ThreadAt, Goto
  <2>7. QED
    BY <2>4, <2>5, <2>6
<1>6. CASE \/ StartService(s) \/ Launch(s) \/ GetServiceDependenciesFails(s) \/ Finish(s)
           \/ Catch(s) \/ WakeUp(s) \/ TerminateServiceThread(s)
  BY <1>0, <1>1, <1>6 DEF StartService, Launch, GetServiceDependenciesFails, Finish, Catch,
     WakeUp, TerminateServiceThread, Goto
<1>7. CASE \/ CommandsEnd(s) \/ AfterFails(s) \/ DependentsReturn(s) \/ WaitDependents(s)
  BY <1>0, <1>1, <1>7 DEF CommandsEnd, AfterFails, DependentsReturn, WaitDependents, Goto,
                          ThreadAt
<1>8. QED
  BY <1>2, <1>3, <1>4, <1>5, <1>6, <1>7 DEF Step, ThreadStep, HandlerStep

\* What another service has passed does not change.
LEMMA PassedByOther ==
  ASSUME TypeOK, NEW s \in Services, Step(s), NEW r \in Services, r # s,
         NEW t \in Services, PassedBy(r, t)'
  PROVE  PassedBy(r, t)
<1>1. After(r)' = After(r) /\ WaitedFor(r)' = WaitedFor(r)
  BY SetupNext, OthersNext DEF After, WaitedFor, NamedBefore
<1>2. QED
  BY <1>1, OthersNext DEF PassedBy

LEMMA PassedInvNext ==
  ASSUME TypeOK, BeginInv, UpInv, PassedInv, NEW s \in Services, Step(s)
  PROVE  PassedInv'
<1>1. SUFFICES ASSUME NEW r \in Services, NEW t \in Services, PassedBy(r, t)'
               PROVE  t \notin seen'[r].up
  BY DEF PassedInv
<1>2. ~(r = s /\ BeginAfter(s)) /\ (PassedBy(r, t) \/ Over(t))
  BY <1>1, PassedNext, PassedByOther
<1>3. seen'[r].up \subseteq seen[r].up
  BY <1>2, UpNext
<1>4. t \notin seen[r].up
  BY <1>2 DEF PassedInv, UpInv, Over, Up
<1>5. QED
  BY <1>3, <1>4

LEMMA MutualNext ==
  ASSUME TypeOK, StoppedInv, BeginInv, MutualInv, NEW s \in Services, Step(s)
  PROVE  MutualInv'
<1>1. ASSUME NEW r \in Services, NEW t \in Services, PassedBy(r, t)'
      PROVE  seen[r].met \subseteq seen'[r].met
  BY <1>1, PassedNext, OthersNext
\* By symmetry it is enough that the one which has just taken a step passed first.
<1>2. ASSUME NEW t \in Services, s # t, PassedBy(s, t)', PassedBy(t, s)'
      PROVE  t \in seen'[s].met \/ s \in seen'[t].met
  <2>1. PassedBy(t, s)
    BY <1>2, PassedByOther
  <2>2. CASE PassedBy(s, t)
    BY <1>1, <1>2, <2>1, <2>2 DEF MutualInv
  <2>3. CASE ~PassedBy(s, t)
    <3>1. Over(t) /\ (scm[t] = "STOP_PENDING" => t \in seen'[s].met)
      BY <1>2, <2>3, PassedNext
    <3>2. thread[t] # "none"
      BY <2>1 DEF PassedBy
    <3>3. scm[t] # "STOPPED"
      BY <3>2 DEF StoppedInv
    <3>4. QED
      BY <3>1, <3>3 DEF Over
  <2>4. QED
    BY <2>2, <2>3
<1>3. ASSUME NEW r \in Services, NEW t \in Services, r # s, t # s, r # t,
             PassedBy(r, t)', PassedBy(t, r)'
      PROVE  t \in seen'[r].met \/ r \in seen'[t].met
  <2>1. PassedBy(r, t) /\ PassedBy(t, r)
    BY <1>3, PassedByOther
  <2>2. QED
    BY <1>1, <1>3, <2>1 DEF MutualInv
<1>4. QED
  BY <1>2, <1>3 DEF MutualInv

-----------------------------------------------------------------------------
(* Together they are inductive.                                            *)

WaitInv == TypeOK /\ StoppedInv /\ BeginInv /\ UpInv /\ PassedInv /\ MutualInv

LEMMA WaitInit ==
  ASSUME Init
  PROVE  WaitInv
<1>1. TypeOK
  BY TypeInit
<1>2. StoppedInv /\ MutualInv /\ PassedInv
  BY DEF Init, StoppedInv, MutualInv, PassedInv, PassedBy, Idle
<1>3. BeginInv
  BY DEF Init, BeginInv, Begun, Caller
<1>4. UpInv
  BY DEF Init, UpInv, Unseen
<1>5. QED
  BY <1>1, <1>2, <1>3, <1>4 DEF WaitInv

LEMMA WaitNext ==
  ASSUME WaitInv, [Next]_vars
  PROVE  WaitInv'
<1>1. TypeOK'
  BY TypeNext DEF WaitInv
<1>2. CASE Next
  <2>1. PICK s \in Services : Step(s)
    BY <1>2 DEF Next, Step
  <2>2. QED
    BY <1>1, <2>1, StoppedNext, BeginNext, UpNext, PassedInvNext, MutualNext DEF WaitInv
<1>3. CASE UNCHANGED vars
  BY <1>1, <1>3 DEF vars, WaitInv, StoppedInv, BeginInv, UpInv, PassedInv, MutualInv, PassedBy,
                    WaitedFor, NamedBefore, After, Up
<1>4. QED
  BY <1>2, <1>3

LEMMA WaitInvariant == Spec => []WaitInv
BY WaitInit, WaitNext, PTL DEF Spec

(* A service runs its commands only after each service it waits for was    *)
(* seen down at some moment since the wait began, unless the rounds of     *)
(* WaitForDependents were used up, for every length of the lists; those    *)
(* named before a service that could not be opened are among them.         *)
THEOREM AfterWaitsForEach == Spec => []RunsAfterEachWasDown
<1>1. WaitInv => RunsAfterEachWasDown
  <2>1. SUFFICES ASSUME WaitInv, NEW s \in Services, thread[s] = "main", ~seen[s].gaveUp
                 PROVE  WaitedFor(s) \cap seen[s].up = {}
    BY DEF RunsAfterEachWasDown
  <2>2. \A t \in WaitedFor(s) : t \in Services /\ PassedBy(s, t)
    BY <2>1 DEF PassedBy, WaitedFor, NamedBefore
  <2>3. QED
    BY <2>1, <2>2 DEF WaitInv, PassedInv
<1>2. QED
  BY <1>1, WaitInvariant, PTL

(* Two services that name each other in After= exclude each other, unless  *)
(* one gave up, failed to open the other or one named before it, or met    *)
(* the other while that was stopping.                                      *)
THEOREM MutualExclusion == Spec => []MutualAfterExcludes
<1>1. WaitInv => MutualAfterExcludes
  BY DEF WaitInv, MutualInv, MutualAfterExcludes, PassedBy
<1>2. QED
  BY <1>1, WaitInvariant, PTL
=============================================================================
