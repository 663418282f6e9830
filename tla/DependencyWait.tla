--------------------------- MODULE DependencyWait ---------------------------
(***************************************************************************)
(* Several wrapper services that wait for one another (service_exec.cpp:   *)
(* WaitForDependents and its three callers) under the SCM's rules for      *)
(* services that depend on each other.                                     *)
(*                                                                         *)
(* ServiceWrapper has one wrapper in detail and takes a wait as one step.  *)
(* Here a wrapper is what another one sees of it, the state the SCM last   *)
(* heard, and where its two threads are with their waits.  A wait asks for *)
(* one service at a time, so that the others may change in between.        *)
(* Conditions, ordering files and the commands' own order are left to      *)
(* ServiceWrapper: a unit here has passed its conditions.                  *)
(***************************************************************************)
EXTENDS Naturals, Sequences

CONSTANTS
  Services,   \* the services in the SCM's database
  Names,      \* the names a unit may list, those of no service included
  Setups,     \* the sets of units that may be installed
  MaxPolls,   \* rounds WaitForDependents makes: 500 in the code
  Bound       \* bounds on the events of a behaviour, by kind (Event)

(***************************************************************************)
(* units: the services with a unit file; deps: lpDependencies of each;     *)
(* after: the .service names of its After=; restarted: the services with   *)
(* Restart=always (the others: no).                                        *)
(***************************************************************************)
Setup == [units: SUBSET Services, deps: [Services -> Seq(Services)],
          after: [Services -> Seq(Names)], restarted: SUBSET Services]

\* The SCM starts a service, a service thread restarts its commands, an
\* operator stops a service, a call to the SCM fails.
Event == {"start", "restart", "stop", "fault"}

ASSUME SetupsAssumption ==
  /\ Services \subseteq Names /\ Setups \subseteq Setup
  /\ \A p \in Setups, S \in SUBSET Services :   \* CreateService refuses a cycle
       S # {} => \E s \in S : \A i \in DOMAIN p.deps[s] : p.deps[s][i] \notin S
ASSUME BoundsAssumption ==
  MaxPolls \in Nat \ {0} /\ Bound \in [Event -> Nat]

VARIABLES
  setup,    \* the units installed
  scm,      \* the state of each service the SCM last heard of
  thread,   \* where the service thread is
  handler,  \* where the control handler is, and the state Stop found
  wait,     \* the locals of WaitForDependents, per caller and service
  queued,   \* services with a STOP in the pipe that they sent to themselves
  count,    \* the events so far
  seen      \* history of the last wait for After=, until the commands end:
            \* up: the services that have been up all the time since it began,
            \* met: those found stopping in its last round, unopened: the one
            \* that OpenServiceW failed for, if any, gaveUp: it ran out

vars == <<setup, scm, thread, handler, wait, queued, count, seen>>

State  == {"STOPPED", "START_PENDING", "RUNNING", "STOP_PENDING", "PAUSED"}
Caller == {"thread", "handler"}
Begun  == [i |-> 1, polls |-> 0]
Idle   == [pc |-> "idle", original |-> "STOPPED"]
Unseen == [up |-> {}, met |-> {}, unopened |-> {}, gaveUp |-> FALSE]

Up(state) == state \notin {"STOPPED", "STOP_PENDING"}
DependsOn(m, s) == \E i \in DOMAIN setup.deps[m] : setup.deps[m][i] = s

CountOne(event) ==
  count[event] < Bound[event] /\ count' = [count EXCEPT ![event] = @ + 1]

SetServiceStatus(s, state) ==
  /\ scm' = [scm EXCEPT ![s] = state]
  /\ seen' = [r \in Services |->
               IF Up(state) THEN seen[r] ELSE [seen[r] EXCEPT !.up = @ \ {s}]]

-----------------------------------------------------------------------------
(* WaitForDependents: round after round over the list, until none of the   *)
(* services in it is up.  It returns true as well when one cannot be       *)
(* opened, because it does not exist or for any other reason, or when the  *)
(* rounds are used up.  It returns false when the SCM itself cannot be     *)
(* opened or does not tell the status of a service.                        *)

Asked(c, s, list) == list[wait[c][s].i]
Asking(c, s, list) == wait[c][s].i <= Len(list) /\ Asked(c, s, list) \in Services

\* Mutant of LastRound: one round too many (<= for <).
LastRoundLate(c, s) == wait[c][s].polls = MaxPolls

LastRound(c, s) == wait[c][s].polls + 1 = MaxPolls

\* Mutant of Over: a service that is starting does not count as up.
OverIfStarting(s) == scm[s] \in {"STOPPED", "STOP_PENDING", "START_PENDING"}

Over(s) == scm[s] \in {"STOPPED", "STOP_PENDING"}

\* This one is over: ask for the next.
AskNext(c, s, list) ==
  /\ Asking(c, s, list) /\ Over(Asked(c, s, list))
  /\ wait' = [wait EXCEPT ![c][s].i = @ + 1]

\* Mutants of SleepAndRetry: the rounds are not counted; the next round goes on
\* where this one stopped, behind the service that was up.
RetryUncounted(c, s, list) ==
  /\ Asking(c, s, list) /\ ~Over(Asked(c, s, list)) /\ ~LastRound(c, s)
  /\ wait' = [wait EXCEPT ![c][s].i = 1]
RetryBehind(c, s, list) ==
  /\ Asking(c, s, list) /\ ~Over(Asked(c, s, list)) /\ ~LastRound(c, s)
  /\ wait' = [wait EXCEPT ![c][s] = [i |-> @.i + 1, polls |-> @.polls + 1]]

\* This one is up: sleep a second and start again with the first.
SleepAndRetry(c, s, list) ==
  /\ Asking(c, s, list) /\ ~Over(Asked(c, s, list)) /\ ~LastRound(c, s)
  /\ wait' = [wait EXCEPT ![c][s] = [i |-> 1, polls |-> @.polls + 1]]

GivesUp(c, s, list) == /\ Asking(c, s, list) /\ ~Over(Asked(c, s, list))
                       /\ LastRound(c, s)
Returns(c, s, list) == ~Asking(c, s, list) \/ GivesUp(c, s, list)

\* OpenServiceW fails for a service that exists: true, as if it did not exist.
CannotOpen(c, s, list) == Asking(c, s, list) /\ CountOne("fault")

\* OpenSCManager or QueryServiceStatus fails: false.
Fails(c, s, list) == (wait[c][s] = Begun \/ Asking(c, s, list)) /\ CountOne("fault")

-----------------------------------------------------------------------------
(* The SCM and the wrapper process.                                        *)

\* The SCM starts a service when those it depends on run and no process is left.
StartService(s) ==
  /\ s \in setup.units /\ scm[s] = "STOPPED" /\ thread[s] = "none" /\ handler[s].pc = "idle"
  /\ \A d \in Services : DependsOn(s, d) => scm[d] = "RUNNING"
  /\ CountOne("start")
  /\ SetServiceStatus(s, "START_PENDING")
  /\ thread' = [thread EXCEPT ![s] = "new"]
  /\ UNCHANGED <<setup, handler, wait, queued>>

\* The constructor, ServiceMain and OnStart: the service thread is there.
Launch(s) ==
  /\ thread[s] = "new"
  /\ SetServiceStatus(s, "RUNNING")
  /\ thread' = [thread EXCEPT ![s] = "check"]
  /\ UNCHANGED <<setup, handler, wait, queued, count>>

\* The constructor throws when GetServiceDependencies cannot ask the SCM.
GetServiceDependenciesFails(s) ==
  /\ thread[s] = "new" /\ CountOne("fault")
  /\ SetServiceStatus(s, "STOPPED")
  /\ thread' = [thread EXCEPT ![s] = "none"]
  /\ UNCHANGED <<setup, handler, wait, queued>>

-----------------------------------------------------------------------------
(* ServiceThread.                                                          *)

After(s) == setup.after[s]
Deps(s)  == setup.deps[s]
ThreadAt(s, pc) == thread[s] = pc
Goto(s, pc) == thread' = [thread EXCEPT ![s] = pc]
ThreadUnchanged == UNCHANGED <<setup, handler, queued>>

\* A wait that returns, or is cut off, leaves its locals.
Leave(c, s) == wait' = [wait EXCEPT ![c][s] = Begun]
Forget(s) == seen' = [seen EXCEPT ![s] = Unseen]

\* The wait for After= begins when the SCM knows that the service starts.
BeginAfter(s) ==
  /\ ThreadAt(s, "check") /\ Goto(s, "after")
  /\ scm' = [scm EXCEPT ![s] = "START_PENDING"]
  /\ seen' = [seen EXCEPT ![s] = [Unseen EXCEPT !.up = {t \in Services : Up(scm[t])}]]
  /\ ThreadUnchanged /\ UNCHANGED <<wait, count>>

WaitAfter(s) ==
  /\ ThreadAt(s, "after")
  /\ \/ /\ AskNext("thread", s, After(s))
        /\ seen' = [seen EXCEPT ![s].met =
             @ \cup {t \in {Asked("thread", s, After(s))} : scm[t] = "STOP_PENDING"}]
     \/ /\ SleepAndRetry("thread", s, After(s))
        /\ seen' = [seen EXCEPT ![s].met = {}]
  /\ ThreadUnchanged /\ UNCHANGED <<scm, thread, count>>

\* Run the commands.
AfterReturns(s) ==
  /\ ThreadAt(s, "after") /\ Goto(s, "main")
  /\ \/ /\ Returns("thread", s, After(s)) /\ UNCHANGED count
        /\ seen' = [seen EXCEPT ![s].gaveUp = GivesUp("thread", s, After(s))]
     \/ /\ CannotOpen("thread", s, After(s))
        /\ seen' = [seen EXCEPT ![s].unopened = {Asked("thread", s, After(s))}]
  /\ scm' = [scm EXCEPT ![s] = "RUNNING"]
  /\ Leave("thread", s) /\ ThreadUnchanged

AfterFails(s) ==
  /\ ThreadAt(s, "after") /\ Fails("thread", s, After(s)) /\ Goto(s, "catch")
  /\ Leave("thread", s) /\ Forget(s) /\ ThreadUnchanged /\ UNCHANGED scm

\* The commands have ended; if they succeeded, wait for the dependencies.
CommandsEnd(s) ==
  /\ ThreadAt(s, "main") /\ Forget(s)
  /\ Goto(s, "catch") \/ Goto(s, "dependents")
  /\ ThreadUnchanged /\ UNCHANGED <<scm, wait, count>>

WaitDependents(s) ==
  /\ ThreadAt(s, "dependents")
  /\ AskNext("thread", s, Deps(s)) \/ SleepAndRetry("thread", s, Deps(s))
  /\ ThreadUnchanged /\ UNCHANGED <<scm, thread, count, seen>>

\* Nobody looks at what this wait returns, so that its failures are all alike.
DependentsReturn(s) ==
  /\ ThreadAt(s, "dependents") /\ Goto(s, "catch")
  /\ \/ Returns("thread", s, Deps(s)) /\ UNCHANGED count
     \/ Fails("thread", s, Deps(s))
  /\ Leave("thread", s) /\ ThreadUnchanged /\ UNCHANGED <<scm, seen>>

Catch(s) ==
  /\ ThreadAt(s, "catch")
  /\ scm' = [scm EXCEPT ![s] = "PAUSED"]
  /\ Goto(s, IF s \in setup.restarted THEN "sleep" ELSE "done")
  /\ ThreadUnchanged /\ UNCHANGED <<wait, count, seen>>

WakeUp(s) ==
  /\ ThreadAt(s, "sleep") /\ Goto(s, "check")
  /\ CountOne("restart")
  /\ ThreadUnchanged /\ UNCHANGED <<scm, wait, seen>>

\* The thread returns, and the process ends if no handler runs.
Finish(s) ==
  /\ ThreadAt(s, "done") /\ Goto(s, "none")
  /\ SetServiceStatus(s, "STOPPED")
  /\ ThreadUnchanged /\ UNCHANGED <<wait, count>>

\* What a service thread does without waiting for its commands to end.
ThreadStep(s) ==
  \/ Launch(s) \/ BeginAfter(s) \/ WaitAfter(s) \/ AfterReturns(s) \/ WaitDependents(s)
  \/ DependentsReturn(s) \/ Catch(s) \/ Finish(s)

-----------------------------------------------------------------------------
(* Stop and OnStop.                                                        *)

HandlerAt(s, pc) == handler[s].pc = pc
HandlerGoto(s, pc) == handler' = [handler EXCEPT ![s].pc = pc]

\* The SCM takes a STOP for a service that runs, and that no other needs.
Stoppable(s) ==
  /\ scm[s] \in {"RUNNING", "PAUSED"}
  /\ \A m \in Services : DependsOn(m, s) => scm[m] = "STOPPED"

Stop(s) ==
  /\ Stoppable(s) /\ HandlerAt(s, "idle")
  /\ CountOne("stop")
  /\ handler' = [handler EXCEPT ![s] = [pc |-> "stop", original |-> scm[s]]]
  /\ SetServiceStatus(s, "STOP_PENDING")
  /\ UNCHANGED <<setup, thread, wait, queued>>

\* For each dependency a STOP goes to the service itself, which the SCM refuses
\* unless the service thread has reported meanwhile.
StopServiceDependencies(s) ==
  /\ HandlerAt(s, "stop") /\ HandlerGoto(s, "wait")
  /\ queued' = IF Deps(s) # << >> /\ Stoppable(s) THEN queued \cup {s} ELSE queued
  /\ UNCHANGED <<setup, scm, thread, wait, count, seen>>

\* It throws: Stop puts the state it found back, and the thread goes on.  When
\* the thread has returned the process ends instead.
StopFails(s) ==
  /\ HandlerAt(s, "stop") /\ CountOne("fault")
  /\ handler' = [handler EXCEPT ![s] = Idle]
  /\ SetServiceStatus(s, IF thread[s] = "none" THEN "STOPPED" ELSE handler[s].original)
  /\ UNCHANGED <<setup, thread, wait, queued>>

WaitToStop(s) ==
  /\ HandlerAt(s, "wait")
  /\ AskNext("handler", s, Deps(s)) \/ SleepAndRetry("handler", s, Deps(s))
  /\ UNCHANGED <<setup, scm, thread, handler, queued, count, seen>>

\* The service thread is terminated wherever it is, its wait included.
TerminateServiceThread(s) ==
  /\ HandlerAt(s, "wait")
  /\ \/ Returns("handler", s, Deps(s)) /\ UNCHANGED count
     \/ Fails("handler", s, Deps(s))
  /\ thread' = [thread EXCEPT ![s] = "none"]
  /\ scm' = [scm EXCEPT ![s] = "STOPPED"]
  /\ seen' = [r \in Services |->
               IF r = s THEN Unseen ELSE [seen[r] EXCEPT !.up = @ \ {s}]]
  /\ wait' = [c \in Caller |-> [wait[c] EXCEPT ![s] = Begun]]
  /\ handler' = [handler EXCEPT ![s] = IF s \in queued THEN [Idle EXCEPT !.pc = "ended"] ELSE Idle]
  /\ UNCHANGED <<setup, queued>>

\* With a STOP in the pipe either the process ends first, ...
ProcessEnds(s) ==
  /\ HandlerAt(s, "ended") /\ HandlerGoto(s, "idle")
  /\ queued' = queued \ {s}
  /\ UNCHANGED <<setup, scm, thread, wait, count, seen>>

\* ... or a second OnStop waits for INVALID_HANDLE_VALUE, which never ends.
StopAgain(s) ==
  /\ HandlerAt(s, "ended") /\ HandlerGoto(s, "hung")
  /\ SetServiceStatus(s, "STOP_PENDING")
  /\ queued' = queued \ {s}
  /\ UNCHANGED <<setup, thread, wait, count>>

HandlerStep(s) ==
  \/ StopServiceDependencies(s) \/ WaitToStop(s) \/ TerminateServiceThread(s)
  \/ ProcessEnds(s) \/ StopAgain(s)

-----------------------------------------------------------------------------
Init ==
  /\ setup \in Setups
  /\ scm = [s \in Services |-> "STOPPED"]
  /\ thread = [s \in Services |-> "none"] /\ handler = [s \in Services |-> Idle]
  /\ wait = [c \in Caller |-> [s \in Services |-> Begun]] /\ queued = {}
  /\ count = [e \in Event |-> 0] /\ seen = [s \in Services |-> Unseen]

Next == \E s \in Services :
  \/ StartService(s) \/ ThreadStep(s) \/ CommandsEnd(s) \/ WakeUp(s)
  \/ GetServiceDependenciesFails(s) \/ AfterFails(s)
  \/ Stop(s) \/ HandlerStep(s) \/ StopFails(s)

Spec == Init /\ [][Next]_vars

\* The threads of a wrapper are scheduled; no operator need start or stop a
\* service, and its commands need not end.
FairSpec == Spec /\ \A s \in Services : WF_vars(ThreadStep(s)) /\ WF_vars(HandlerStep(s))

-----------------------------------------------------------------------------
ThreadPc  == {"none", "new", "check", "after", "main", "dependents", "catch", "sleep", "done"}
HandlerPc == {"idle", "stop", "wait", "ended", "hung"}

(* The shape of the state; no wait makes more than MaxPolls rounds.        *)
TypeOK ==
  /\ setup \in Setups /\ scm \in [Services -> State] /\ thread \in [Services -> ThreadPc]
  /\ handler \in [Services -> [pc: HandlerPc, original: State]]
  /\ wait \in [Caller -> [Services -> [i: Nat \ {0}, polls: 0..MaxPolls - 1]]]
  /\ queued \subseteq Services /\ count \in [Event -> Nat]
  /\ seen \in [Services -> [up: SUBSET Services, met: SUBSET Services,
                         unopened: SUBSET Services, gaveUp: BOOLEAN]]

\* The services that After= of s names before the first name not in S.
NamedBefore(s, S) == {t \in Services : \E i \in DOMAIN After(s) :
                        After(s)[i] = t /\ \A j \in 1..i : After(s)[j] \in S}

\* The services s waits for: a name that is no service, or a service that could
\* not be opened, ends the wait with those before it.
WaitedFor(s) == NamedBefore(s, Services \ seen[s].unopened)

(* WaitForDependents is no snapshot of the list, but a service runs its    *)
(* commands only when each of the services it waits for was seen down at   *)
(* some moment since the wait began, unless the rounds were used up.  A    *)
(* failing OpenServiceW takes its service and those behind it out of the   *)
(* wait, and none of those before it.                                      *)
RunsAfterEachWasDown ==
  \A s \in Services : thread[s] = "main" /\ ~seen[s].gaveUp
     => WaitedFor(s) \cap seen[s].up = {}

(* Two services that each list the other in After= do not run their        *)
(* commands at the same time, however their waits interleave, unless one   *)
(* gave up, could not open the other (or one named before it), or met the  *)
(* other while that was stopping (STOP_PENDING counts as down although the *)
(* commands still run).                                                    *)
MutualAfterExcludes ==
  \A s, t \in Services :
     /\ s # t /\ t \in WaitedFor(s) /\ s \in WaitedFor(t)
     /\ ~seen[s].gaveUp /\ ~seen[t].gaveUp /\ t \notin seen[s].met /\ s \notin seen[t].met
     => ~(thread[s] = "main" /\ thread[t] = "main")

(* No wait for After= is for ever: services that wait for each other, and  *)
(* one that waits for what it depends on, all get on.  In START_PENDING    *)
(* the SCM would not let anyone stop them.                                 *)
WaitEnds == \A s \in Services : thread[s] = "after" ~> thread[s] # "after"

(* A Stop ends although OnStop waits for dependencies that nobody stops:   *)
(* the SCM refuses to while this service still counts as one that needs    *)
(* them.                                                                   *)
StopEnds == \A s \in Services : handler[s].pc = "stop" ~> handler[s].pc \notin {"stop", "wait"}
=============================================================================
