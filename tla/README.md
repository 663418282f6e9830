# A TLA+ development for systemctl-win

systemctl-win brings systemd units to Windows. Two programs make it up:

- `systemctl.exe` (`src/src/`) reads unit files, copies the enabled ones into an
  *active* directory and registers a Windows service for each of them;
- `systemd-exec.exe` (`src/exec/`) is the wrapper process the service control manager
  (SCM) starts for such a service. It runs the commands of the unit file, restarts the
  main one according to the unit's policy and stops it on request.

The two never talk to each other: what passes between them is on disk (the active unit
file, which the service's command line names) and in the SCM's database.

## 1. Inventory

### systemd-exec.exe

| Part | State | Operations | What makes it correct |
|---|---|---|---|
| Service base, `ServiceBase.cpp` | `m_status`, the stop event | `ServiceMain`, `Start`, `Stop`, `Pause`, `Continue`, `Shutdown`, `SetServiceStatus` | the SCM's last report says what the service is; a stop ends |
| Wrapper, `service_exec.cpp` | `m_hServiceThread`, `m_hProcess`, the static `processInformation` of `StartProcess` | `OnStart`, `ServiceThread`, `StartProcess`, `OnStop`, `StopServiceDependencies` | commands run in their order, restarts follow the policy, a stopped service has no thread left |
| Waiting for other services | the SCM's view of the others | `GetServiceDependencies`, `WaitForDependents` | two services that wait for each other get on |
| Conditions, ordering files | file system | `EvaluateConditions` and the file checks of `ServiceThread` | a unit whose condition fails does not run |
| Environment files | `m_Env`, the environment of the process | `GetCurrentEnv`, `LoadEnvVarsFromFile`, `LoadPShellEnvVarsFromFile` | expansion ends, with the value the file means; a restart gets what the first start got |
| Command line, `systemd-exec.cpp` | the parameters | `ParseArgs`, `string_duration_to_millis` | it takes from a unit file what systemctl takes |
| Journal stream | `m_buffer`, `m_current`, file handle (twice) | `overflow`, `sync`, `open` | whole lines reach the file that is open |

Three threads of one wrapper share one object, without a lock: `ServiceMain`, the service
thread that `OnStart` creates, and the dispatcher's thread, which runs the control
handlers. The hard part is their interleavings: reports of the status overtake each other,
a stop arrives while the service starts or ends by itself, and `OnStop` calls
`TerminateThread` on a thread that may be anywhere.

### systemctl.exe

| Part | State | Operations | What makes it correct |
|---|---|---|---|
| Unit pool, `service_unit.cpp` | `SystemDUnitPool::pool`; the active directory with its `.wants` directories | `LoadPool`, `ReloadPool`, `Enable`, `Disable`, `Mask`, `Unmask`, `Kill` | what an interrupted or failed command leaves is consistent, and the next one can go on |
| Service control, `service_control.cpp` | the SCM's database | `RegisterService`, `UnregisterService`, `StartService`, `StopService`, `IsEnabled`, `IsActive` | a service exists only with the unit file it is to run |
| Command dispatch, `main.cpp` | none | the command functions, `ParseArgs`, `wmain` | a command ends, with an exit code |
| Parser, `service_unit.cpp` | the stream, the line, the unit object | `ParseSystemDServiceUnit`, `split_elems`, the section parsers, the attribute functions | parsing ends; each pair counts in the section it stands in |
| Credentials; `show` | LSA; none | `GetUserCreds`, `AddUserServiceLogonPrivilege`; `ShowService`, `ShowGlobal` | input and output only |

Every command first loads the pool, and loading registers every active unit that has no
service. The hard part here is partial effect: a command is a series of changes to two
stores with no transaction, may be killed between any two, may have an SCM call refused,
may recurse through a cyclic library, and leaves null entries in its pool behind.

The hazards met while reading are listed in `PROJECT.json`, each at its line.

## 2. Plan

1. **Wrapper** - `ServiceWrapper`; `ServiceWrapperProofs` and `ServiceWrapperRuns` prove
   its safety. *Done.*
2. **Pool** - `UnitPool`, refining the abstract `UnitLifecycle`; `UnitPoolTypes` and
   `UnitPoolProofs` prove its safety and the refinement. *Done.*
3. **Composition** - `DependencyWait`: several wrappers that wait for each other with the
   500-poll limit of `WaitForDependents` and the SCM's dependency rules;
   `DependencyWaitProofs`. *Done.*
4. **Parts that stand by themselves** - `UnitReader`, `EnvFile`, `JournalStream`, in one run;
   `UnitReaderProofs`, `EnvFileProofs`, `JournalStreamProofs`. *Done.*

Modules that theorems are about use no `RECURSIVE` operator: the recursion of `Enable` is
a stack of call records, transitive dependencies are least closed sets, what the lines of an
environment file mean and the concatenation of lists are recursive functions.

## 3. `ServiceWrapper`

One wrapper service, from one start by the SCM to the next. The step of an action is the
code between two accesses to something another thread can touch.

| TLA+ | Code |
|---|---|
| `status`, `reporting[t]`, `Report(t)` | `m_status`; thread t has filled it and not yet called the API's `SetServiceStatus`, which then passes on whatever is in it |
| `scm`, `released`, `queued`, `sent`, `Deliver` | the SCM: the last state heard, whether the dispatcher may return, a STOP the service sent to itself, controls delivered |
| `mainPc` and `Start` ... `ServiceMainReturns` | `ServiceMain`, `Start`, `OnStart` |
| `svc` and `ServiceThread`'s disjuncts | `ServiceThread`: conditions, ordering files, `WaitForDependents`, ExecStartPre, ExecStart, ExecStartPost, restart decision |
| `ctl` and `HandlerStep`'s disjuncts | `Stop`/`OnStop`, `Pause`, `Continue`, `Shutdown` |
| `pi`, `call[t]`, `StartProcess(t)` | `StartProcess`: the static `processInformation`, an activation per thread |
| `hThread`, `doomed`, `stopEvent` | `m_hServiceThread`, a pending `TerminateThread`, `hSvcStopEvent` |
| `procs`, `open` | the processes launched and the handles held |
| `early` | history: a stop arrived before `OnStart` had finished |

What the environment does: the SCM delivers one control at a time, to an idle handler, if
the last state it heard accepts the control; it starts a service again only when the
process has ended. A report after `SERVICE_STOPPED` is still taken, which allows more than
Windows does. Processes end when they like; the wrapper may crash. A constructor that fails is
a crash. `WaitForDependents` is one step here (`DependencyWait` opens it up); conditions and ordering files pass or fail;
`m_IsStopping`, which is only written, is left out; `RestartSec` is a sleep that ends.

**Properties.** `StopKillsThread`: once `OnStop` has waited, no service thread and no
report of it is left. `StoppedIsLast`: after the stop event only `STOPPED` or a second
stop's `STOP_PENDING` is reported. `StopWaitsForThread`: `OnStop` never waits for the
`INVALID_HANDLE_VALUE` an earlier stop has left, a wait without end; three conditions, each
needed: no early stop, no dependencies (the service sends itself a STOP for those, whatever the
SCM thinks of it), no ExecStopPost (if it fails the old state is restored and the SCM
may send another stop). `WaitedProcessIsRead`: although two threads share
`processInformation`, the one that waited reads its own process. `FinishedIsHeard`: the SCM
hears of the end of a service thread that returned, whichever thread fills `m_status` last and
whichever passes it on, if no PAUSE and no CONTINUE is sent and a stop cannot fail.
`MainAfterPre`: order. `MainRestartedByPolicy`: a restart follows the end of the main
processes before it, and `m_RestartAction` as the code's switch has it. There on-failure is a
second on-success: its case (service_exec.cpp:877-885) is a copy of the one above it, log line
included, so that a unit with `Restart=on-failure` is started again after success and never
after failure. `StopCompletes`, `FinishedWrapperExits`: liveness. Their guards (`~early`,
`~unit.stop`) exclude the cases in which the code breaks them: a stop that overlaps
`OnStart`, and an ExecStop that runs beside a command of the service thread.
`FinishedIsHeard` needs its guards for the same reason: a pause handler fills `m_status` over
`STOPPED` (`status_lost`), and a stop that fails puts the state it found back. The comments at
the properties say so.

| Run | Instance | Distinct states |
|---|---|---|
| `wrapper_run` | 4 units with pre, post, restart ALWAYS/ON_SUCCESS/ON_FAILURE/NO; 2 iterations; one STOP | 1.40 M |
| `wrapper_stop` | 2 units with ExecStop; any 2 controls; CreateThread, CreateProcess, SCM fail | 1.34 M |
| `wrapper_live` | 2 units; one STOP; crash and one restart by the SCM; fair | 117 k |
| `stop_leaves_main`, `status_lost`, `failed_stop` | the smallest instance that shows the finding | stops at the violation |

*Bounds.* Two ExecStartPre commands (one with `-`) tell order and exemption apart; two
iterations are the least in which a restart happens, and every decision looks at one
iteration; two controls are the least in which a stop meets another control. Runs with more
only repeat these. The proofs of section 7 hold without bounds.

*Fairness.* Windows schedules each thread, so each has weak fairness; the SCM delivers what
is queued and lets the dispatcher return; commands other than ExecStart are expected to end.
Nothing is assumed of operators, the main process, crashes or SCM restarts. Deadlock is not
checked: a service whose main process runs on, with the controls used up, really stops.

**Findings.** `stop_leaves_main`: the call that would kill the processes is commented out,
so a stop leaves the main process running. `status_lost`: a pause handler overwrites
`STOPPED` before it is reported, and the wrapper stays for good. `failed_stop`: a failed
ExecStopPost restores the status of a service whose thread is gone.

## 4. `UnitPool` and `UnitLifecycle`

`UnitPool` is a sequence of systemctl processes. Each loads the pool, carries out one
command effect by effect, and ends; wrappers end on their own.

| TLA+ | Code |
|---|---|
| `library` | the unit library; a unit is the name sets the parser yields and its `.wants` directory |
| `file`, `link` | the active directory: unit files (`empty`: created, not written), hard links in `.wants` directories |
| `svc`, `deps`, `marked` | the SCM's database, with services deleted while they run |
| `pool`, `nulls` | `SystemDUnitPool::pool`: units, and names whose entry is a null pointer, made by `pool[name]` |
| `Invoke`, `QueryRegister`, `PoolLoaded` | `LoadPool` |
| `stack`, `ret` and the actions of `Enable`, `Mask`, `Unmask` | those functions, which call each other and themselves |
| `ReloadMask`, `ReadLibrary`, `RegisterUnit` | `ReloadPool` |
| `EndProcess`, `Die`, `Killed` | exit codes of `wmain`; a null pointer or a stack overflow; Ctrl-C |

Details that matter and are kept: the constructor's `insert` does not replace an entry, not
even a null one; only `read_unit` adds the `.wants` directory; a unit read through a link
has no `.wants` path; a required unit is enabled only if it is not in the pool, a wanted one
always; a wanted unit without a file is dereferenced; the walk of daemon-reload masks units
also through links; a marked service blocks `CreateService`.

Abstractions: names are values, so loops over directories and maps take any order; text is
`empty` or `whole` (the trailing garbage `Unmask` writes, from a text-mode read of a file
whose length it measured, is not told apart); the library does not change during a run;
one process at a time; duplicates in a list are dropped, as a second visit changes nothing;
a refused logon with its one retry is a failed SCM call. is-failed and show only read.

`UnitLifecycle` is what the commands promise of one unit: its file comes first and goes
last. `UnitPool` implements it (`LifecycleSpec`) with `installed` the units with a file and
`registered` the services not marked for deletion. Left out are units that a `.wants`
directory of the library lists: masking one removes its file and leaves its link, from
which the next `LoadPool` registers it again without a file.

| Run | Instance | Shows |
|---|---|---|
| `pool_files` (227 k states) | 3 units in 5 libraries (Requires/Wants chain, `.wants` directory, missing required, missing wanted, cycle), 11 commands, up to 4 of them, kills at any point | `TypeOK`; `LinkHasParent`: no link without its directory's unit; `RequiredIsActive`: an `Enable` past its Requires has them all active; `LifecycleSpec` |
| `pool_reload` (163 k) | 4 libraries, 8 commands with daemon-reload, up to 5, SCM failures | `WantedIsLinked`; `ReloadClears`: daemon-reload registers only when the active directory is empty; `FilesAreWhole`: without kills no half-written file is met; `SoundLibrarySurvives`: with an acyclic library that has the wanted units, `Enable` dereferences no missing unit and does not overflow the stack, with daemon-reload among the commands; `CommandEnds` under fair scheduling of the process |
| `disable_undone` | one unit | the command after `disable` registers the service again |
| `reload_strips` | one unit | daemon-reload leaves services without unit files |

*Bounds.* Three units are the least with a chain, a diamond over `.wants` and Requires, and
a cycle with a bystander; three commands are the least for enable, mask and a third that
meets what is left, four let a kill come in between, five a daemon-reload behind enable,
mask and others. `MaxDepth` is the stack: three is enough for every acyclic
library of three units, so an overflow in the model is a recursion that does not end.

*Fairness.* Weak fairness of the systemctl process only. Deadlock is not checked: when the
commands are used up, nothing need happen.

A process can die in three ways, and the properties keep them apart. `Enable` asks a wanted
unit that has no file for its name (exit `null`), or calls itself without end (`overflow`):
neither happens with a sound library. `register_unit` in daemon-reload does the first with a
null entry of the pool (`null entry`), and that the library is sound and has every unit that is
named does not prevent that: a requires b, b wants c, all three are in the library;
after `enable a` and `mask c` the pool has a null entry for c, which b names and no active file
defines; reading the library does not replace it, and daemon-reload dies there (service_unit.cpp:1540).

`pool_files` has no daemon-reload and no failing SCM call: with them the code breaks
`LifecycleSpec` (that is `reload_strips`, and a `Mask` whose unregistration fails deletes
the file all the same).

## 5. `DependencyWait`

Several wrappers and the SCM between them. A wrapper is what another one can see of it,
the state the SCM last heard, and where its two threads are with their waits; a wait asks
for one service at a time, so the others change between two questions. `ServiceWrapper`
keeps the details inside one wrapper, this module keeps what happens between them.

| TLA+ | Code |
|---|---|
| `setup` | the unit files and the services installed: `lpDependencies`, the `.service` names of `After=`, the restart policy |
| `scm` | the state each service last reported |
| `thread` and `ThreadStep`, `CommandsEnd`, `WakeUp` | `OnStart` and `ServiceThread`: the wait for `After=`, the commands, the wait for the dependencies, the restart |
| `handler` and `HandlerStep`, `StopFails` | `Stop`, `OnStop`, `StopServiceDependencies` |
| `wait[c][s]`, `AskNext`, `SleepAndRetry`, `GivesUp` | `i` and the poll counter of `WaitForDependents` |
| `StartService`, `Stoppable` | the SCM: a service starts when those it depends on run, and is not stopped while one that depends on it is not stopped |
| `CannotOpen`, `Fails` | `OpenServiceW` fails for a service that exists: true; `OpenSCManager` or `QueryServiceStatus` fails: false |
| `seen` | history of the wait for `After=`: who has been up all the time, who was met stopping or could not be opened, did the rounds run out |

Facts the model keeps: a round that meets a service up begins again with the first; a name
that is no service, or a service that `OpenServiceW` does not open for any other reason, makes
`WaitForDependents` return true at once, with the rest of the list not looked at, while an SCM
that does not answer makes it return false and the commands do not run; STOP_PENDING counts as down; giving up counts as success; nobody looks at what
the wait after the commands returns; a stop waits for the very services the SCM will not
stop while this one is not stopped, so that wait always runs its 500 rounds out unless they
end by themselves; a STOP a service sent to itself may arrive after the handler is done.

**Properties.** `RunsAfterEachWasDown`: the list is no snapshot, but each service in it was
down at some moment of the wait, but for those from the first on that could not be opened
(`WaitedFor`). `MutualAfterExcludes`: two services that wait for each other do not run their
commands together, unless one gave up, met the other stopping or could not open it.
`WaitEnds`, `StopEnds`: all waits end, which only the poll limit guarantees.

| Run | Instance | Distinct states |
|---|---|---|
| `dependency_wait` | `Mutual`: a and b list each other, b restarts; `OnDependency`: b depends on a and waits for it and for c, c lists a name that is no service; two rounds; 3 starts, 1 restart, 1 stop, 1 failing call, in any order | 65 k |

*Bounds.* Two rounds are the least in which a retry and a last round differ; one restart
lets a wait begin while the other service is anywhere; two lists of two names are the least
in which the order of the questions matters. *Fairness*: the threads of a wrapper are
scheduled; nobody need start or stop a service and its commands need not end.

The comment at the return of a failing `OpenServiceW` ("If it doesn't exist we cant wait for it")
gives one reason of several: the code returns true whatever the call failed of, and the commands run
beside a service that is up. The two safety properties name this exception.

## 6. `UnitReader`, `EnvFile`, `JournalStream`

Three parts that touch nothing else while they run. They share the run `helpers`, each
behaviour belonging to one of them (`part` in `MCHelpers`).

`UnitReader` has the two readings of a unit file: systemctl's line by line, and what the
wrapper gets from `boost::program_options`. A line is a record of what the code tells apart:
heading or other text, comment, pair; its place in the order of characters (`Texts`); blanks
beside `=`; too long for the buffer. What a section has collected is the set of its lines
(`attrs`), which come in the order of the file (`InOrder`).

| TLA+ | Code |
|---|---|
| `stream`, `next`, `GetLine`, `Buffer` | `fs`, `getline` into `BUFFER` and the eof and fail bits |
| `OpenUnit`, `SkipComment`, `ParseSection`, `EndReading` | `ParseSystemDServiceUnit` |
| `SectionOf`, `Compared` | `line.compare(..) != npos`, where npos is the -1 of "less" |
| `SplitLine`, `SplitHeading`, `SplitEnd` | `split_elems` |
| `Assign` (`AssignUnit`, `AssignService`, `AssignInstall`), `PushForever` | the section parsers and their list loops |
| `Accepts`, `PairsOf`, `WrapperType`, `WrapperAfter` | `parse_config_file`, `store` and `ParseArgs` |

`SectionsRight`: of a well-formed file every pair is read in the section it stands in,
although a heading is compared by order and handed from one section parser to the next.
`ReadersAgree`: of a file both programs accept both have the same services in `After=`, the same
targets, each in the order of the file, and the same type. `ReadingAdvances`: every step
of the reader's loops lowers a count of what is left (`StepsLeft`); `ReadingEnds`: it ends. The
guards name the files that the code does treat otherwise, all in the model: text that sorts
behind a heading begins its section ("[Timer]" is a service, "[Path]" an install section, a
continuation line in small letters a unit section); a comment as the first line makes the
rest unread; the names in the middle of a list run together, and those of `[Install]` with
a blank loop for ever, as does a line of `MAX_BUFFER_SIZE` characters; a second `[Service]`
section puts the default type back; a `BusName` alone is `oneshot` to systemctl and `dbus`
to the wrapper, which takes an `After=` line with blanks as one name, drops a name that is neither a
service's nor a target's, and leaves the type unset when it is none of the six.

`EnvFile` is the loading of the environment before each round of the commands: `mEnv` is
`m_Env`, `environment` that of the process, and both live on. A value is a sequence of
tokens, one of them `$env:`. `ExpandedRight`: references get the value that PowerShell would
give them. `RestartSameEnv`: a restart runs with the variables of the first start, unless a
line refers to what it or a later line defines (`PATH='x;$env:PATH'` grows each time).
`ExpansionEnds`: unless values that a shell-syntax file stored unexpanded lead in a circle.
Kept too: the name of a reference is all that follows `$env:`, as a `;` does not end it;
names are stored as written but looked up in upper case; a look-up makes an empty entry.
The two properties speak of files that use the syntax as it is meant (`Plain`: names in upper
case, a reference at the end of a `.ps1` value and nowhere else, none in the environment
that the process begins with), the second also of `Settled` ones (no such line). What a value
means is `Meant`, recursive over the lines: a reference is the value of the last line before
that defines the name, or what the environment has.

`JournalStream` is one `wojournalstream` access by access: the opens (`OpenStream`,
`OpenFails`), then the characters of each thread's line through `overflow` (`Put`, `Load`,
`Store`: `*m_current++ = c`; `Flush`, `Reset`) and `sync`. `held` and `handle` are the two
copies of the file handle. `StaysInBuffer` and `LinesIntact` hold until two threads are
inside a line at once; then lines mix and `m_current` may go past the end of `m_buffer`
without a limit (TLC cuts that off at `Beyond`). `NoStaleWrite`: only the message about a
failed open goes to a handle that was closed. An `open` that needs no file would leave the
closed handle in the buffer as well, but no stream is opened so a second time: the only one
that is opened twice is the log, and that as a file (`StreamAssumption`).
The default constructor leaves `m_filehandle` alone, and the streams that it makes are global, so
that it begins as null: `Invalid` stands for that too, since neither can be written to.

| Part | Instance in `helpers` |
|---|---|
| `UnitReader` | 14617 files (every file of up to two of 24 lines, every one of two lines behind each of three first lines, and of four of the 8 commonest), with and without a newline at the end |
| `EnvFile` | 4369 sets of up to three of 16 lines (`.ps1` and shell syntax, references with either spelling, to itself, to nothing, with a `;`), three rounds |
| `JournalStream` | two threads whose lines race, one longer than the buffer of 2; a log opened twice; one that needs no file; unused |

Together 405 k distinct states. *Bounds.* Three lines are the least for a heading, what it
collects and what follows it, five let a second section come in; three definitions are the
least for a circle of two with a way into it, and the third round is the first whose
environment a restart has made. *Fairness*: the reader and the loading thread are single
threads that run on. The writers need none, they have no liveness property.

## 7. Proofs

TLAPS checks 35 theorems (12244 obligations) and the lemmas under them. They hold for every value of the constants that
the named assumptions allow: sets of the declared kinds and positive bounds, no finiteness unless
a theorem says so. Each safety invariant and each action property that a passing run checks on a
small instance is stated by one of them.

| Module | Theorems | Obligations |
|---|---|---|
| `ServiceWrapperProofs` | `TypeCorrect`, `StopIsFinal`, `StoppedStays`, `StaticIsPrivate`, `FinishedReachesScm`, `NoWaitForEver` | 1861 |
| `ServiceWrapperRuns` | `MainFollowsPre`, `RestartsFollowPolicy` | 1122 |
| `DependencyWaitProofs` | `TypeCorrect`, `AfterWaitsForEach`, `MutualExclusion` | 651 |
| `UnitPoolTypes` | `PoolInvariant`, `TypeCorrect` | 1729 |
| `UnitPoolProofs` | `RequiredBecomesActive`, `WantedBecomesLinked`, `LinksHaveParents`, `ReloadStartsClean`, `CopiesAreWhole`, `FileOutlivesService`, `ServiceHasFile`, `SoundLibraryIsSafe` | 2341 |
| `UnitReaderProofs` | `ReaderInvariant`, `ReaderTypeCorrect`, `ReadingGetsOn`, `SectionInvariant`, `SectionsAreRight`, `ServiceInvariant`, `ReadersDoAgree` | 2124 |
| `EnvFileProofs` | `EnvTypeCorrect`, `ExpansionIsRight`, `RestartIsSame` | 1130 |
| `JournalStreamProofs` | `StreamTypeCorrect`, `BufferIsKept`, `LinesAreWhole`, `HandleIsOpen` | 1286 |

### The wrapper

- `TypeCorrect`: one lemma per building block (status, thread record, handler record, call
  record), one per thread.
- `StopIsFinal` (`StopKillsThread`). The property is not inductive: a handler may
  find `m_hServiceThread` null because there is no thread or because the handle is not stored
  yet. `StartInv` says which: before `OnStart` has created the thread there is none, and once
  it is over a null handle means there never was one. `EarlyInv` says a stop that overlaps
  `OnStart` is recorded in `early`. `StopInv` is their conjunction with `TypeOK` and the
  property.
- `StoppedStays` (`StoppedIsLast`). With `StopInv` the service thread is out of the way;
  `StoppedInv` follows the status through the last steps of `Stop` and through a second
  one, and needs what the SCM heard, because a control is accepted according to that.
- `StaticIsPrivate` (`WaitedProcessIsRead`). `CallInv` says that a thread is inside
  `StartProcess` only where it has a command to run; without ExecStop the handler is there
  only after the service thread is gone, so one thread uses the variable at a time.
- `FinishedReachesScm` (`FinishedIsHeard`). `HandlerInv` with `CallInv`: a stop that has no
  command to run and is not refused by the SCM never comes to its catch clause. `HeardInv`:
  when the service thread has returned, either a stop is under way, which will write
  `SERVICE_STOPPED` again, or `m_status` is `SERVICE_STOPPED` and whoever wrote it has reported it
  or is about to. `StartInv` is needed because `ServiceMain` writes `m_status` too: it has done with
  that before there is a service thread. TLC checked both on an instance of seven million states with stops,
  shutdowns, crashes, and failing `CreateThread` and `CreateProcess` before they were proved.
- `NoWaitForEver` (`StopWaitsForThread`). `NoneQueued`: without dependencies the service never
  sends itself a control. `DisownedInv`: a stop that has disowned the thread is about to find no
  ExecStopPost to run, or has written `SERVICE_STOPPED` and the SCM has heard or will hear of it
  before the handler is idle, or is over, and the SCM, knowing `STOPPED`, sends nothing more; the
  next start finds the handle null. `StopKillsThread` keeps the service thread from writing
  another state in between. TLC checked both on three instances (any three controls; crash and
  restart; three units with faults) before they were proved.
- `MainFollowsPre` and `RestartsFollowPolicy` (`MainAfterPre`, `MainRestartedByPolicy`) are
  action properties about processes launched long before. `RunInv` says for each place of
  the service thread which of them there are: `PreInv`, that the ExecStartPre commands before
  the present one have passed in this round and that the static variable or the call's copy
  holds the present one's process; `PolicyInv`, that the main processes of this start are over
  and allow another, but for the last where the thread waits for it. Both need `WaitedProcessIsRead`:
  a process that another thread put into the variable would be taken for the thread's own.

### Waiting for each other

`WaitInv` adds four things to `TypeOK`: a stopped service has no thread (`StoppedInv`), a
thread that asks has begun its history (`BeginInv`), the history is true (`UpInv`), and a
service that a round has passed was down at some time in this wait (`PassedInv`). A service that could not be opened ends the wait with
those before it passed.
`AfterWaitsForEach` follows. For `MutualExclusion`, `MutualInv` says that of two services that have
passed each other one met the other stopping: the one that passed last found the other
stopped, that is without a thread and so not past its own wait, or stopping.

### The unit pool

- `PoolInvariant`: `PoolTyped`, the type together with what ties the pool, the disk and the
  call stack to the library (a unit in memory says no more than its file in the library)
  and to the phase of the command. Everything below rests on it.
- `RequiredBecomesActive` and `WantedBecomesLinked` speak of the calls of `Enable` at their last
  places, and calls call each other. `EnableInv` says of every call on the stack which part of its work
  is there (`DoneInv`), that a required unit whose `Enable` returned true is active (`RetInv`),
  and that the pool holds active units only (`PoolActive`: `Enable` passes over a required
  unit because it is in the pool, not because it is active). No step of any call takes away
  what one deeper in the stack has done.
- `LinksHaveParents` and `ReloadStartsClean` from `DiskInv`: a `Mask` past its links has left
  none, and what is left on the disk during a daemon-reload is what it has still to visit.
- `CopiesAreWhole` (`FilesAreWhole`) is inductive as it stands.
- `FileOutlivesService` is the refinement: `Spec => LifecycleSpec`, every step maps to a step
  of `UnitLifecycle` or to none. Its hypotheses are those under which the code does it: no
  daemon-reload among the commands, and SCM calls that do not fail (kills are allowed).
  `ServiceHasFile` is what follows from it and from the invariant of `UnitLifecycle`.
- `SoundLibraryIsSafe`: `Enable` meets no null pointer and no overflow, whatever the commands
  (daemon-reload, which calls no `Enable`, has a death of its own). That the recursion ends is a counting
  argument: in a sound library the names on the stack form a chain of needs without a
  repetition, so there are no more of them than names (pigeonhole), and the next call finds
  room if `MaxDepth` is at least the number of names, which it assumes to be finite.

### The unit file

- `ReaderInvariant` and `ReaderTypeCorrect`: the type, with what the stream's state says of the
  place in the file (`StreamInv`: good means that `next` is not behind the line after the last,
  failed that a line was too long). `ReadingGetsOn` follows, one case per step.
- `SectionInvariant` and `SectionsAreRight`. `SectionInv` says for each place of the reader what it
  has: before the line it is at every pair is recorded under the heading above it, in a section the
  pairs since its heading are collected, and the line that ended a section is the next heading.
- `ServiceInvariant` and `ReadersDoAgree`. The lists of `After=` of one section after the other make the
  list of the whole file: `InOrder` of a function on lines i to j is that of its two parts, one after the
  other. The wrapper's two lists are the parts of that list that are services and targets:
  `PartialsFilter` takes the names of a set out of every beginning of a concatenation. For the type, `ServiceInv` says that behind the sole `[Service]` section it is what the
  wrapper chooses; the section is collected in full by then, so the greatest `Type=` line and the
  presence of `ExecStart` and `BusName` are those of the file.

TLC checked the inductive invariants on the files of `helpers` before they were proved.
`FlattenSeq`, under `InOrder`, is a recursive function in the community modules; its values are found
with the smallest counterexample, as those of `Meant` below. `Vocabulary` and `Texts` are constants so that the
proofs hold for every alphabet: all they need is that the three headings sort as they do.

### The environment

`PlainInv` (`CleanInv`, `ReadInv`, `ExpandInv`) says of every reading step that m_Env has for
each line read so far what it means, and the environment's value for other names; and that a value
being expanded is untouched or finished. `RestartInv` (`LeftInv`, `OuterInv`, `FirstInv`)
relates a later round to the first: what no line defines is in the environment as it was at
the start, and a line means in it what it meant in the first round. TLC checked both on the
instance of `helpers` before they were proved.

`Meant` is recursive over the lines and the provers have no induction over data. In its place is the
smallest counterexample: `HasSmallest`, from the library's `WFMin` for the well-founded order of
the natural numbers, says that a set of numbers has a smallest one; a line where two readings
differ, taken the smallest, refers to an earlier line where they agree. The same lemma shows that
the recursive function exists.

### The log stream

`StreamTyped` is the type with each thread's place in its line. `BufferInv`: while no two threads are
inside a line, the buffer holds the beginning of the line of the one that is, cut off at the limit.
`OutInv`: what was written is such lines, and each line that is over is among them. `HandleInv`: the
two copies of the handle agree as long as no open has failed.

### Model-checked only

- The liveness properties (`StopCompletes`, `FinishedWrapperExits`, `CommandEnds`, `WaitEnds`,
  `StopEnds`, `ReadingEnds`, `ExpansionEnds`): they rest on fairness, for which TLAPS 1.4.5 has no
  ENABLED. The safety part of `ReadingEnds`, that no loop turns without getting on, is
  `ReadingGetsOn`.
- The five runs that show a violation: counterexamples need no proof.

## 8. Not modelled

- `boost` 1.66 under `src/exec/packages/` is nearly all of the repository's lines (2.4
  million, against some 8400 of the two programs) and is not this program's code; the project
  files likewise. The share of all lines that the map covers is small for that reason only.
- Credentials and LSA (`GetUserCreds`, `AddUserServiceLogonPrivilege`), the text of `show`,
  the options of the wrapper that are copied as they are, the quoting of commands for
  PowerShell: input, output and text, with no order of steps to explore.
- `string_duration_to_millis`: a pure function that is right for plain seconds, throws for
  "ms" and "min", and answers -1 (for ever) for the rest.
- What `EvaluateConditions` decides: all but one of its conditions are stubs that answer a
  constant; the model lets a condition pass or fail.
- `WaitForProcessThread`, `KillProcessTree`, `RestartService` and the empty stubs: no caller
  or no effect.
- Options with which the wrapper ends at once by reading another option than the one it
  tested: `StandardError` without `StandardOutput` (systemd-exec.cpp:342), `WorkingDirectory`
  without `Restart` (447), `EnvironmentFile-PS` (613). A `.ps1` file given as
  `EnvironmentFile` works, and is what `EnvFile` models.
- Two systemctl processes at once: nothing serialises them and nothing says they may run
  together.
- Locks inside the C runtime that a terminated thread may hold.
