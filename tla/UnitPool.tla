------------------------------- MODULE UnitPool -------------------------------
(***************************************************************************)
(* systemctl.exe: the pool of units (service_unit.cpp), the commands that  *)
(* work on it (main.cpp) and the services they register with the service   *)
(* control manager (service_control.cpp).                                  *)
(*                                                                         *)
(* A command is a process of its own.  It reads the active directory into  *)
(* a pool, registers every unit that has no service, carries the command   *)
(* out and ends.  What lasts is on the disk (the unit files of the active  *)
(* directory and the hard links in its .wants directories) and in the      *)
(* SCM's database.  One command runs at a time, and may be killed between  *)
(* any two of its effects.                                                 *)
(*                                                                         *)
(* A unit name is a model value.  Directories list names, and std::map     *)
(* orders them, alphabetically: as a name is just a value here, a loop     *)
(* takes the names of a set in any order.                                  *)
(***************************************************************************)
EXTENDS Naturals, Sequences

CONSTANTS
  Names,        \* unit names
  Libraries,    \* the contents the unit library may have
  Commands,     \* the commands that may be given
  Faults,       \* "scm": a call to the SCM fails; "kill": the process is killed
  MaxCommands,  \* bound: commands given
  MaxDepth      \* bound: nested calls of Enable the process's stack has room for

(***************************************************************************)
(* A unit file: the names that the parser takes from its sections          *)
(* (mentions: those of After, Before, ..., which only make entries in the  *)
(* pool), and wantsDir, the files in the directory <unit>.wants beside it  *)
(* in the library.                                                         *)
(***************************************************************************)
UnitFile == [requires: SUBSET Names, wants: SUBSET Names, requiredBy: SUBSET Names,
             mentions: SUBSET Names, wantsDir: SUBSET Names]

Op == {"enable", "disable", "mask", "unmask", "start", "stop", "kill",
       "is-enabled", "is-active", "daemon-reload"}
Command == [op: Op, units: Seq(Names)]

ASSUME LibrariesAssumption ==
  \A l \in Libraries : \E S \in SUBSET Names : l \in [S -> UnitFile]
ASSUME CommandsAssumption ==
  /\ Commands \subseteq Command /\ Faults \subseteq {"scm", "kill"}
  /\ MaxCommands \in Nat /\ MaxDepth \in Nat \ {0}

VARIABLES
  library,   \* the unit library: the unit files by name
  file,      \* the unit files at the top of the active directory
  link,      \* <<p, w>>: the hard link to w in the active directory p.wants
  svc,       \* the service of a unit in the SCM's database
  marked,    \* services that are deleted once they have stopped
  deps,      \* the dependencies a service was created with
  given,     \* how many commands were given
  exit,      \* how the last command ended
  pc,        \* where the systemctl process is
  cmd,       \* the command, and the units it has still to do
  pool,      \* SystemDUnitPool::pool, the entries that hold a unit
  nulls,     \* SystemDUnitPool::pool, the entries that hold a null pointer
  todo,      \* the entries a loop over the pool has still to visit
  stack,     \* the calls of Enable, Mask and Unmask that have not returned
  ret        \* what the last of them to return returned

diskVars == <<file, link>>
scmVars  == <<svc, marked, deps>>
poolVars == <<pool, nulls>>
vars == <<library, diskVars, scmVars, given, exit, pc, cmd, poolVars, todo, stack, ret>>

Content == {"none", "empty", "whole"}
NoUnit  == [requires |-> {}, wants |-> {}, requiredBy |-> {}, mentions |-> {}, wantsDir |-> {}]
NoCommand == [op |-> "kill", units |-> << >>]

-----------------------------------------------------------------------------
(* The SCM.                                                                *)

Registered(n) == svc[n] # "none"
Known(n)      == Registered(n) /\ n \notin marked

\* CreateService refuses a service that would come to depend on itself.
Circular(n, d) ==
  \A S \in SUBSET Names : d \subseteq S /\ (\A m \in S : deps[m] \subseteq S) => n \in S

RegisterService(n, d) ==
  \/ /\ ~Registered(n) /\ ~Circular(n, d)
     /\ svc' = [svc EXCEPT ![n] = "stopped"]
     /\ deps' = [deps EXCEPT ![n] = d]
     /\ UNCHANGED marked
  \/ /\ Registered(n) \/ Circular(n, d) \/ "scm" \in Faults
     /\ UNCHANGED scmVars

Delete(n) ==
  /\ svc' = [svc EXCEPT ![n] = "none"]
  /\ deps' = [deps EXCEPT ![n] = {}]
  /\ marked' = marked \ {n}

UnregisterService(n) ==
  \/ /\ svc[n] = "stopped"
     /\ Delete(n)
  \/ /\ svc[n] \in {"running", "stopping"}
     /\ marked' = marked \cup {n} /\ UNCHANGED <<svc, deps>>
  \/ /\ ~Registered(n) \/ "scm" \in Faults
     /\ UNCHANGED scmVars

\* The SCM starts a service after the ones it depends on.
StartService(n) ==
  LET Closed(S) == n \in S /\ \A m \in S : deps[m] \subseteq S
      needed == {m \in Names : \A S \in SUBSET Names : Closed(S) => m \in S}
      startable == svc[n] = "stopped" /\ \A m \in needed : svc[m] \in {"stopped", "running"}
  IN \/ /\ startable
        /\ svc' = [m \in Names |-> IF m \in needed THEN "running" ELSE svc[m]]
        /\ UNCHANGED <<marked, deps>>
     \/ (~startable \/ "scm" \in Faults) /\ UNCHANGED scmVars

\* ...and refuses to stop one that a running service depends on.
StopService(n) ==
  LET stoppable == svc[n] = "running" /\ \A m \in Names : svc[m] = "running" => n \notin deps[m]
  IN \/ stoppable /\ svc' = [svc EXCEPT ![n] = "stopping"] /\ UNCHANGED <<marked, deps>>
     \/ (~stoppable \/ "scm" \in Faults) /\ UNCHANGED scmVars

\* A wrapper ends, on request or by itself.
ServiceStops(n) ==
  /\ svc[n] \in {"running", "stopping"}
  /\ IF n \in marked THEN Delete(n)
                     ELSE svc' = [svc EXCEPT ![n] = "stopped"] /\ UNCHANGED <<marked, deps>>
  /\ UNCHANGED <<library, diskVars, given, exit, pc, cmd, poolVars, todo, stack, ret>>

-----------------------------------------------------------------------------
(* The process: it ends with an exit code, or dies of a null pointer or a  *)
(* stack overflow.                                                         *)

EndProcess(code) ==
  /\ exit' = code /\ pc' = "off" /\ cmd' = NoCommand
  /\ pool' = << >> /\ nulls' = {} /\ todo' = {} /\ stack' = << >> /\ ret' = FALSE
Die(how) == EndProcess(how) /\ UNCHANGED <<library, given, diskVars, scmVars>>

Killed == /\ "kill" \in Faults /\ pc # "off"
          /\ EndProcess("killed") /\ UNCHANGED <<library, given, diskVars, scmVars>>

-----------------------------------------------------------------------------
(* LoadPool: read_unit for every file in the active directory, the .wants  *)
(* directories included; the dependencies; a service for every unit.       *)

Linked(n) == {p \in Names : link[<<p, n>>] # "none"}
Active == {n \in Names : file[n] # "none" \/ Linked(n) # {}}

\* The text of a unit file that was not written yet has no section.  The unit
\* remembers the path it was read from; only below the top of the active
\* directory does that path lead to the .wants directory of the library...
Sections(n, content) == IF content = "whole" THEN library[n] ELSE NoUnit
ReadTop(n) ==
  [Sections(n, file[n]) EXCEPT !.wants = @ \cup {w \in Names : link[<<n, w>>] # "none"},
                               !.wantsDir = library[n].wantsDir]
\* ...and not from inside another unit's .wants directory.
ReadLink(p, n) == [Sections(n, link[<<p, n>>]) EXCEPT !.wantsDir = {}]

\* new SystemDUnit keeps the entry that is there already: the file read first
\* counts.  from[n] is where that was: n for the top, p for p.wants.
Readings == {from \in [Active -> Names] : \A n \in Active :
               IF from[n] = n THEN file[n] # "none" ELSE from[n] \in Linked(n)}
ReadPool(from) ==
  [n \in Active |-> IF from[n] = n THEN ReadTop(n) ELSE ReadLink(from[n], n)]

\* setup_own_dependencies and setup_other_dependencies.  pool[name] makes a null
\* entry for a name that has none.
StartDependencies(units, n) ==
  ((units[n].requires \cup units[n].wants) \cap DOMAIN units)
    \cup {m \in DOMAIN units : n \in units[m].requiredBy}
LookedUp(units) ==
  UNION {units[n].requires \cup units[n].wants \cup units[n].requiredBy \cup units[n].mentions :
         n \in DOMAIN units}

SetUp(units, old) ==
  /\ pool' = [n \in DOMAIN units |->
                [unit |-> units[n],
                 deps |-> StartDependencies(units, n) \cup (IF n \in DOMAIN old THEN old[n].deps ELSE {})]]
  /\ nulls' = (nulls \cup LookedUp(units)) \ DOMAIN units

Invoke(c) ==
  /\ pc = "off" /\ given < MaxCommands
  /\ given' = given + 1 /\ cmd' = c /\ exit' = "none"
  /\ \E from \in Readings : SetUp(ReadPool(from), << >>)
  /\ todo' = Active
  /\ pc' = "load"
  /\ UNCHANGED <<library, diskVars, scmVars, stack, ret>>

\* query_register_unit
QueryRegister(n) ==
  /\ pc = "load" /\ n \in todo
  /\ IF Registered(n) THEN UNCHANGED scmVars ELSE RegisterService(n, pool[n].deps)
  /\ todo' = todo \ {n}
  /\ UNCHANGED <<library, diskVars, given, exit, pc, cmd, poolVars, stack, ret>>

PoolLoaded ==
  /\ pc = "load" /\ todo = {}
  /\ pc' = IF cmd.op = "daemon-reload" THEN "reload" ELSE "units"
  /\ todo' = IF cmd.op = "daemon-reload"
               \* the files delete_unit is applied to: Mask empties the .wants
               \* directory of a unit before the directory walk enters it
               THEN {n \in Names : file[n] # "none" \/ \E p \in Linked(n) : file[p] = "none"}
               ELSE {}
  /\ UNCHANGED <<library, diskVars, scmVars, given, exit, cmd, poolVars, stack, ret>>

-----------------------------------------------------------------------------
(* The call stack.                                                         *)

Call == [fn: {"Enable", "Mask", "Unmask"}, name: Names, unit: UnitFile, deps: SUBSET Names,
         pc: {"copy", "write", "wantsDir", "copyWanted", "writeWanted", "link", "requires",
              "required", "wants", "wanted", "register", "links", "unregister", "remove",
              "restore", "rewrite"},
         todo: SUBSET Names, w: Names]

EnableCall(n, unit, d) == [fn |-> "Enable", name |-> n, unit |-> unit, deps |-> d,
                           pc |-> "copy", todo |-> {}, w |-> n]
PoolCall(n)    == EnableCall(n, pool[n].unit, pool[n].deps)
LibraryCall(n) == EnableCall(n, library[n], {})      \* of a unit just read
OtherCall(fn, n, at) == [EnableCall(n, NoUnit, {}) EXCEPT !.fn = fn, !.pc = at]

Top == stack[Len(stack)]
At(place) == stack # << >> /\ Top.pc = place
Continue(call) == stack' = [stack EXCEPT ![Len(stack)] = call] /\ UNCHANGED ret
Return(result) == stack' = SubSeq(stack, 1, Len(stack) - 1) /\ ret' = result

StepUnchanged == UNCHANGED <<library, given, exit, pc, cmd, todo>>

\* Enable calls Enable for w and goes on at place when that returns.  Looking a
\* unit up that is not in the pool has made a null entry for it.
EnableOther(call, w, place) ==
  IF Len(stack) = MaxDepth
    THEN Die("overflow")
    ELSE /\ stack' = Append([stack EXCEPT ![Len(stack)] = [@ EXCEPT !.pc = place, !.w = w]], call)
         /\ nulls' = nulls \cup ({w} \ DOMAIN pool)
         /\ StepUnchanged /\ UNCHANGED <<diskVars, scmVars, pool, ret>>

-----------------------------------------------------------------------------
(* The commands.                                                           *)

Unit == Head(cmd.units)
NextUnit == cmd' = [cmd EXCEPT !.units = Tail(@)]
AtUnit(op) == pc = "units" /\ stack = << >> /\ cmd.units # << >> /\ cmd.op = op
Alone == Len(cmd.units) = 1
CommandUnchanged == UNCHANGED <<library, diskVars, given, exit, pc, todo, ret>>

\* Every command but enable gives up on a unit that is not in the pool.
NoSuchUnit ==
  /\ pc = "units" /\ stack = << >> /\ cmd.units # << >> /\ cmd.op # "enable"
  /\ Unit \notin DOMAIN pool
  /\ EndProcess("error") /\ UNCHANGED <<library, given, diskVars, scmVars>>

\* These take one unit only.
TooManyUnits ==
  /\ pc = "units" /\ stack = << >> /\ Len(cmd.units) > 1
  /\ cmd.op \in {"mask", "unmask", "is-enabled", "is-active"}
  /\ EndProcess("error") /\ UNCHANGED <<library, given, diskVars, scmVars>>

\* The result of Enable is not looked at.
EnableCommand ==
  /\ AtUnit("enable")
  /\ \/ /\ Unit \in DOMAIN pool
        /\ stack' = <<PoolCall(Unit)>> /\ NextUnit
        /\ UNCHANGED poolVars
        /\ CommandUnchanged /\ UNCHANGED scmVars
     \/ /\ Unit \notin DOMAIN pool /\ Unit \in DOMAIN library
        /\ nulls' = nulls \cup {Unit}
        /\ stack' = <<LibraryCall(Unit)>> /\ NextUnit
        /\ UNCHANGED pool
        /\ CommandUnchanged /\ UNCHANGED scmVars
     \/ /\ Unit \notin DOMAIN pool \cup DOMAIN library
        /\ EndProcess("error") /\ UNCHANGED <<library, given, diskVars, scmVars>>

DisableCommand ==
  /\ AtUnit("disable") /\ Unit \in DOMAIN pool
  /\ UnregisterService(Unit) /\ NextUnit
  /\ CommandUnchanged /\ UNCHANGED <<poolVars, stack>>

MaskCommand ==
  /\ AtUnit("mask") /\ Alone /\ Unit \in DOMAIN pool
  /\ stack' = <<OtherCall("Mask", Unit, "links")>> /\ NextUnit
  /\ CommandUnchanged /\ UNCHANGED <<scmVars, poolVars>>

UnmaskCommand ==
  /\ AtUnit("unmask") /\ Alone /\ Unit \in DOMAIN pool
  /\ stack' = <<OtherCall("Unmask", Unit, "restore")>> /\ NextUnit
  /\ CommandUnchanged /\ UNCHANGED <<scmVars, poolVars>>

StartCommand ==
  /\ AtUnit("start") /\ Unit \in DOMAIN pool
  /\ StartService(Unit)
  /\ NextUnit /\ CommandUnchanged /\ UNCHANGED <<poolVars, stack>>

StopCommand ==
  /\ AtUnit("stop") /\ Unit \in DOMAIN pool
  /\ StopService(Unit)
  /\ NextUnit /\ CommandUnchanged /\ UNCHANGED <<poolVars, stack>>

\* Kill has no effect.
KillCommand ==
  /\ AtUnit("kill") /\ Unit \in DOMAIN pool
  /\ NextUnit /\ CommandUnchanged /\ UNCHANGED <<scmVars, poolVars, stack>>

\* IsEnabled and IsActive answer no when the SCM cannot be asked.
Answer(yes) ==
  /\ \/ EndProcess(IF yes THEN "ok" ELSE "error")
     \/ "scm" \in Faults /\ EndProcess("error")
  /\ UNCHANGED <<library, given, diskVars, scmVars>>
IsEnabledCommand == AtUnit("is-enabled") /\ Alone /\ Unit \in DOMAIN pool /\ Answer(Registered(Unit))
IsActiveCommand  == AtUnit("is-active") /\ Alone /\ Unit \in DOMAIN pool /\ Answer(svc[Unit] = "running")

CommandDone ==
  /\ pc = "units" /\ stack = << >> /\ cmd.units = << >>
  /\ EndProcess("ok") /\ UNCHANGED <<library, given, diskVars, scmVars>>

ParseArgs ==
  \/ NoSuchUnit \/ TooManyUnits \/ EnableCommand \/ DisableCommand \/ MaskCommand \/ UnmaskCommand
  \/ StartCommand \/ StopCommand \/ KillCommand \/ IsEnabledCommand \/ IsActiveCommand
  \/ CommandDone

-----------------------------------------------------------------------------
(* SystemDUnit::Enable.                                                    *)

\* Mutant of EnableCopy: the service is registered before the file is copied.
RegisterFirst ==
  /\ At("copy")
  /\ RegisterService(Top.name, Top.deps)
  /\ IF file[Top.name] # "none"
       THEN Continue([Top EXCEPT !.pc = "wantsDir", !.todo = Top.unit.wantsDir]) /\ UNCHANGED file
       ELSE Continue([Top EXCEPT !.pc = "write"]) /\ file' = [file EXCEPT ![Top.name] = "empty"]
  /\ StepUnchanged /\ UNCHANGED <<link, poolVars>>

\* CopyUnitFileToActive leaves a file that is there alone; otherwise it makes
\* the file and then fills it.
EnableCopy ==
  /\ At("copy")
  /\ IF file[Top.name] # "none"
       THEN Continue([Top EXCEPT !.pc = "wantsDir", !.todo = Top.unit.wantsDir]) /\ UNCHANGED file
       ELSE Continue([Top EXCEPT !.pc = "write"]) /\ file' = [file EXCEPT ![Top.name] = "empty"]
  /\ StepUnchanged /\ UNCHANGED <<link, scmVars, poolVars>>

EnableWrite ==
  /\ At("write")
  /\ file' = [file EXCEPT ![Top.name] = "whole"]
  /\ Continue([Top EXCEPT !.pc = "wantsDir", !.todo = Top.unit.wantsDir])
  /\ StepUnchanged /\ UNCHANGED <<link, scmVars, poolVars>>

\* Mutant of LoadWanted: the unit gets an entry of its own beside a null one.
LoadBesideNull(w) ==
  /\ At("wantsDir") /\ w \in Top.todo
  /\ IF w \in DOMAIN library
       THEN Continue([Top EXCEPT !.pc = "copyWanted", !.w = w, !.todo = @ \ {w}])
       ELSE Continue([Top EXCEPT !.todo = @ \ {w}])
  /\ IF w \in DOMAIN library \ DOMAIN pool
       THEN pool' = [n \in DOMAIN pool \cup {w} |->
                       IF n = w THEN [unit |-> library[w], deps |-> {}] ELSE pool[n]]
       ELSE UNCHANGED pool
  /\ StepUnchanged /\ UNCHANGED <<diskVars, scmVars, nulls>>

\* load_wanted_unit for the files of the library's .wants directory: one that
\* cannot be read, or whose entry in the pool is null, is passed over.
LoadWanted(w) ==
  /\ At("wantsDir") /\ w \in Top.todo
  /\ IF w \in DOMAIN library \ nulls
       THEN Continue([Top EXCEPT !.pc = "copyWanted", !.w = w, !.todo = @ \ {w}])
       ELSE Continue([Top EXCEPT !.todo = @ \ {w}])
  /\ IF w \in DOMAIN library \ (DOMAIN pool \cup nulls)
       THEN pool' = [n \in DOMAIN pool \cup {w} |->
                       IF n = w THEN [unit |-> [library[w] EXCEPT !.wants = @ \cup library[w].wantsDir],
                                      deps |-> {}]
                                ELSE pool[n]]
       ELSE UNCHANGED pool
  /\ StepUnchanged /\ UNCHANGED <<diskVars, scmVars, nulls>>

CopyWanted ==
  /\ At("copyWanted")
  /\ IF file[Top.w] # "none"
       THEN Continue([Top EXCEPT !.pc = "link"]) /\ UNCHANGED file
       ELSE Continue([Top EXCEPT !.pc = "writeWanted"]) /\ file' = [file EXCEPT ![Top.w] = "empty"]
  /\ StepUnchanged /\ UNCHANGED <<link, scmVars, poolVars>>

\* Mutant of WriteWanted: the link is made before the file is filled.
LinkBeforeWrite ==
  /\ At("writeWanted")
  /\ Continue([Top EXCEPT !.pc = "link"])
  /\ StepUnchanged /\ UNCHANGED <<diskVars, scmVars, poolVars>>

WriteWanted ==
  /\ At("writeWanted")
  /\ file' = [file EXCEPT ![Top.w] = "whole"]
  /\ Continue([Top EXCEPT !.pc = "link"])
  /\ StepUnchanged /\ UNCHANGED <<link, scmVars, poolVars>>

\* Mutant of LinkWanted: the link is left out.
LinkNothing ==
  /\ At("link")
  /\ Continue([Top EXCEPT !.pc = "wantsDir", !.unit.wants = @ \cup {Top.w}])
  /\ StepUnchanged /\ UNCHANGED <<diskVars, scmVars, poolVars>>

\* LinkWantedUnit; a link that exists stays.
LinkWanted ==
  /\ At("link")
  /\ link' = [link EXCEPT ![<<Top.name, Top.w>>] = IF @ = "none" THEN file[Top.w] ELSE @]
  /\ Continue([Top EXCEPT !.pc = "wantsDir", !.unit.wants = @ \cup {Top.w}])
  /\ StepUnchanged /\ UNCHANGED <<file, scmVars, poolVars>>

WantsDirDone ==
  /\ At("wantsDir") /\ Top.todo = {}
  /\ Continue([Top EXCEPT !.pc = "requires", !.todo = Top.unit.requires])
  /\ StepUnchanged /\ UNCHANGED <<diskVars, scmVars, poolVars>>

\* Mutant of EnableRequired: a required unit that is missing is passed over.
EnableRequiredIfThere(r) ==
  /\ At("requires") /\ r \in Top.todo
  /\ IF r \in DOMAIN library \ DOMAIN pool
       THEN EnableOther(LibraryCall(r), r, "required")
       ELSE /\ Continue([Top EXCEPT !.deps = @ \cup {r}, !.todo = @ \ {r}])
            /\ StepUnchanged /\ UNCHANGED <<diskVars, scmVars, poolVars>>

\* A required unit that is in the pool is not enabled: LoadPool has done that.
EnableRequired(r) ==
  /\ At("requires") /\ r \in Top.todo
  /\ \/ /\ r \in DOMAIN pool
        /\ Continue([Top EXCEPT !.deps = @ \cup {r}, !.todo = @ \ {r}])
        /\ StepUnchanged /\ UNCHANGED <<diskVars, scmVars, poolVars>>
     \/ r \in DOMAIN library \ DOMAIN pool /\ EnableOther(LibraryCall(r), r, "required")
     \/ /\ r \notin DOMAIN library \cup DOMAIN pool
        /\ nulls' = nulls \cup {r}
        /\ Return(FALSE)
        /\ StepUnchanged /\ UNCHANGED <<diskVars, scmVars, pool>>

RequiredReturns ==
  /\ At("required")
  /\ IF ret THEN Continue([Top EXCEPT !.pc = "requires", !.deps = @ \cup {Top.w}, !.todo = @ \ {Top.w}])
            ELSE Return(FALSE)
  /\ StepUnchanged /\ UNCHANGED <<diskVars, scmVars, poolVars>>

RequiresDone ==
  /\ At("requires") /\ Top.todo = {}
  /\ Continue([Top EXCEPT !.pc = "wants", !.todo = Top.unit.wants])
  /\ StepUnchanged /\ UNCHANGED <<diskVars, scmVars, poolVars>>

\* Mutant of EnableWanted: the library is not read for a wanted unit.
EnablePooledWanted(w) ==
  /\ At("wants") /\ w \in Top.todo
  /\ \/ w \in DOMAIN pool /\ EnableOther(PoolCall(w), w, "wanted")
     \/ w \notin DOMAIN pool /\ Die("null")

\* A wanted unit is enabled whether or not it is in the pool.  One that has no
\* file is a null pointer whose name is logged.
EnableWanted(w) ==
  /\ At("wants") /\ w \in Top.todo
  /\ \/ w \in DOMAIN pool /\ EnableOther(PoolCall(w), w, "wanted")
     \/ w \in DOMAIN library \ DOMAIN pool /\ EnableOther(LibraryCall(w), w, "wanted")
     \/ w \notin DOMAIN library \cup DOMAIN pool /\ Die("null")

\* What its Enable returned does not matter.
WantedReturns ==
  /\ At("wanted")
  /\ Continue([Top EXCEPT !.pc = "wants", !.deps = @ \cup {Top.w}, !.todo = @ \ {Top.w}])
  /\ StepUnchanged /\ UNCHANGED <<diskVars, scmVars, poolVars>>

WantsDone ==
  /\ At("wants") /\ Top.todo = {}
  /\ Continue([Top EXCEPT !.pc = "register"])
  /\ StepUnchanged /\ UNCHANGED <<diskVars, scmVars, poolVars>>

EnableRegister ==
  /\ At("register")
  /\ IF Registered(Top.name) THEN UNCHANGED scmVars ELSE RegisterService(Top.name, Top.deps)
  /\ Return(TRUE)
  /\ StepUnchanged /\ UNCHANGED <<diskVars, poolVars>>

Enable ==
  \/ EnableCopy \/ EnableWrite \/ CopyWanted \/ WriteWanted \/ LinkWanted \/ WantsDirDone
  \/ RequiredReturns \/ RequiresDone \/ WantedReturns \/ WantsDone \/ EnableRegister
  \/ \E n \in Names : LoadWanted(n) \/ EnableRequired(n) \/ EnableWanted(n)

-----------------------------------------------------------------------------
(* SystemDUnit::Mask and Unmask.                                           *)

\* Mutant of MaskLinks: the links stay.
MaskKeepsLinks ==
  /\ At("links") /\ Continue([Top EXCEPT !.pc = "unregister"])
  /\ StepUnchanged /\ UNCHANGED <<diskVars, scmVars, poolVars>>

MaskLinks ==
  /\ At("links")
  /\ \/ \E w \in Names : /\ link[<<Top.name, w>>] # "none"
                         /\ link' = [link EXCEPT ![<<Top.name, w>>] = "none"]
                         /\ UNCHANGED <<stack, ret>>
     \/ /\ \A w \in Names : link[<<Top.name, w>>] = "none"
        /\ Continue([Top EXCEPT !.pc = "unregister"]) /\ UNCHANGED link
  /\ StepUnchanged /\ UNCHANGED <<file, scmVars, poolVars>>

MaskUnregister ==
  /\ At("unregister")
  /\ UnregisterService(Top.name)
  /\ Continue([Top EXCEPT !.pc = "remove"])
  /\ StepUnchanged /\ UNCHANGED <<diskVars, poolVars>>

MaskRemove ==
  /\ At("remove")
  /\ file' = [file EXCEPT ![Top.name] = "none"]
  /\ Return(FALSE)
  /\ StepUnchanged /\ UNCHANGED <<link, scmVars, poolVars>>

Mask == MaskLinks \/ MaskUnregister \/ MaskRemove

\* Nothing to do for a unit that is registered or has its file.
UnmaskRestore ==
  /\ At("restore")
  /\ \/ /\ Registered(Top.name) \/ file[Top.name] # "none"
        /\ Return(TRUE) /\ UNCHANGED file
     \/ /\ ~Registered(Top.name) \/ "scm" \in Faults
        /\ file[Top.name] = "none"
        /\ Continue([Top EXCEPT !.pc = "rewrite"])
        /\ file' = [file EXCEPT ![Top.name] = "empty"]
  /\ StepUnchanged /\ UNCHANGED <<link, scmVars, poolVars>>

UnmaskRewrite ==
  /\ At("rewrite")
  /\ file' = [file EXCEPT ![Top.name] = "whole"]
  /\ Return(TRUE)
  /\ StepUnchanged /\ UNCHANGED <<link, scmVars, poolVars>>

Unmask == UnmaskRestore \/ UnmaskRewrite

-----------------------------------------------------------------------------
(* ReloadPool: mask every unit, read the library, register every entry.    *)

\* Mutant of ReloadMask: the directory walk starts again after each file.
ReloadMaskAgain(n) ==
  /\ pc = "reload" /\ stack = << >> /\ n \in todo
  /\ stack' = <<OtherCall("Mask", n, "links")>>
  /\ UNCHANGED <<library, diskVars, scmVars, given, exit, pc, cmd, poolVars, todo, ret>>

ReloadMask(n) ==
  /\ pc = "reload" /\ stack = << >> /\ n \in todo
  /\ stack' = <<OtherCall("Mask", n, "links")>>
  /\ todo' = todo \ {n}
  /\ UNCHANGED <<library, diskVars, scmVars, given, exit, pc, cmd, poolVars, ret>>

\* The library too is read with the directories in it; a file of a .wants
\* directory may be all there is of a unit, and may be read first.
ReadLibrary ==
  LET inDirs == UNION {library[p].wantsDir : p \in DOMAIN library}
      new == (DOMAIN library \cup inDirs) \ (DOMAIN pool \cup nulls)
      ReadNew(n, sub) ==
        IF n \notin DOMAIN library THEN NoUnit
        ELSE IF n \in sub THEN library[n]
        ELSE [library[n] EXCEPT !.wants = @ \cup library[n].wantsDir]
  IN /\ pc = "reload" /\ stack = << >> /\ todo = {}
     /\ \E sub \in SUBSET (new \cap inDirs) :
          SetUp([n \in DOMAIN pool \cup new |->
                   IF n \in new THEN ReadNew(n, sub) ELSE pool[n].unit], pool)
     /\ todo' = DOMAIN pool' \cup nulls'
     /\ pc' = "register"
     /\ UNCHANGED <<library, diskVars, scmVars, given, exit, cmd, stack, ret>>

\* register_unit
RegisterUnit(n) ==
  /\ pc = "register" /\ n \in todo
  /\ IF n \in nulls
       THEN Die("null entry")
       ELSE /\ RegisterService(n, pool[n].deps)
            /\ todo' = todo \ {n}
            /\ UNCHANGED <<library, diskVars, given, exit, pc, cmd, poolVars, stack, ret>>

ReloadDone ==
  /\ pc = "register" /\ todo = {}
  /\ EndProcess("ok") /\ UNCHANGED <<library, given, diskVars, scmVars>>

ReloadPool == ReadLibrary \/ ReloadDone \/ \E n \in Names : ReloadMask(n) \/ RegisterUnit(n)

-----------------------------------------------------------------------------
Init ==
  /\ library \in Libraries
  /\ file = [n \in Names |-> "none"] /\ link = [e \in Names \X Names |-> "none"]
  /\ svc = [n \in Names |-> "none"] /\ marked = {} /\ deps = [n \in Names |-> {}]
  /\ given = 0 /\ exit = "none" /\ pc = "off" /\ cmd = NoCommand
  /\ pool = << >> /\ nulls = {} /\ todo = {} /\ stack = << >> /\ ret = FALSE

LoadPool == PoolLoaded \/ \E n \in Names : QueryRegister(n)

Process == LoadPool \/ ParseArgs \/ Enable \/ Mask \/ Unmask \/ ReloadPool

Next ==
  \/ \E c \in Commands : Invoke(c)
  \/ Process \/ Killed
  \/ \E n \in Names : ServiceStops(n)

Spec == Init /\ [][Next]_vars

\* The process is scheduled; nobody need give a command, and a wrapper need not end.
FairSpec == Spec /\ WF_vars(Process)

-----------------------------------------------------------------------------
Object == [unit: UnitFile, deps: SUBSET Names]
Exit == {"none", "ok", "error", "killed", "null", "overflow", "null entry"}

DiskOK == file \in [Names -> Content] /\ link \in [Names \X Names -> Content]
ScmOK == /\ svc \in [Names -> {"none", "stopped", "running", "stopping"}]
         /\ marked \subseteq {n \in Names : svc[n] \in {"running", "stopping"}}
         /\ deps \in [Names -> SUBSET Names]
ProcessOK == /\ given \in 0..MaxCommands /\ exit \in Exit
             /\ pc \in {"off", "load", "units", "reload", "register"}
             /\ cmd \in [op: Op, units: Seq(Names)]
PoolOK == /\ \E S \in SUBSET Names : pool \in [S -> Object]
          /\ nulls \subseteq Names \ DOMAIN pool /\ todo \subseteq DOMAIN pool \cup nulls
StackOK == stack \in Seq(Call) /\ Len(stack) <= MaxDepth /\ ret \in BOOLEAN

(* The shape of the state; a name has one entry in the pool, and only a    *)
(* service that still runs is marked for deletion.                         *)
TypeOK == library \in Libraries /\ DiskOK /\ ScmOK /\ ProcessOK /\ PoolOK /\ StackOK

Calls(places) == {stack[i] : i \in {j \in 1..Len(stack) : stack[j].pc \in places}}

(* "Various ... directories are hard links" (service_unit.h): a .wants     *)
(* directory has links only while its own unit is in the active directory, *)
(* wherever a command was killed.                                          *)
LinkHasParent == \A p, w \in Names : link[<<p, w>>] # "none" => file[p] # "none"

(* Enable gets past the Requires of a unit only when each of them is       *)
(* active, so that the next command finds and registers it.                *)
RequiredIsActive ==
  \A call \in Calls({"wants", "wanted", "register"}) : call.unit.requires \subseteq Active

\* A copy has made the file and not yet filled it.
Copying(n) == \/ At("write") /\ Top.name = n
              \/ At("writeWanted") /\ Top.w = n
              \/ At("rewrite") /\ Top.name = n

(* As long as no process is killed, a unit file in the active directory is *)
(* whole once its copy has returned, and so is every link made to it: none *)
(* is registered, linked or read half written.                             *)
FilesAreWhole ==
  "kill" \notin Faults => /\ \A n \in Names : file[n] = "empty" => Copying(n)
                          /\ \A e \in Names \X Names : link[e] # "empty"

(* Enable gets past the library's .wants directory of a unit only when     *)
(* each file in it is active and linked, or was passed over because of a   *)
(* null entry in the pool.                                                 *)
WantedIsLinked ==
  \A call \in Calls({"requires", "required", "wants", "wanted", "register"}) :
     \A w \in call.unit.wantsDir \cap DOMAIN library :
        w \in nulls \/ (file[w] # "none" /\ link[<<call.name, w>>] # "none")

Needs(n) == library[n].requires \cup library[n].wants \cup library[n].wantsDir
Sound == /\ \A n \in DOMAIN library : library[n].wants \cup library[n].wantsDir \subseteq DOMAIN library
         /\ \A S \in SUBSET DOMAIN library :
              S # {} => \E n \in S : Needs(n) \cap S = {}

(* With a library in which no unit needs itself and every wanted unit is   *)
(* there, Enable, whatever was given before it, neither asks a unit that   *)
(* is not there for its name (service_unit.cpp:1094) nor runs out of       *)
(* stack.  It says nothing of the null entry of the pool that register_unit*)
(* may meet in daemon-reload (1540): even with all that is named in the    *)
(* library, one remains for a masked unit that an active one names.        *)
SoundLibrarySurvives == Sound => exit \notin {"null", "overflow"}

(* When daemon-reload comes to register the units, nothing is left in the  *)
(* active directory: no unit file and no link.                             *)
ReloadClears ==
  pc = "register" => /\ \A n \in Names : file[n] = "none"
                     /\ \A e \in Names \X Names : link[e] = "none"

(* A systemctl process ends.                                               *)
CommandEnds == pc # "off" ~> pc = "off"

(* A unit that no .wants directory of the library lists goes through       *)
(* UnitLifecycle: its service exists only while its unit file does.        *)
Listed == UNION {library[p].wantsDir : p \in DOMAIN library}
Lifecycle == INSTANCE UnitLifecycle WITH
  Unit <- Names,
  installed <- {n \in Names : file[n] # "none"} \ Listed,
  registered <- {n \in Names : Known(n)} \ Listed
LifecycleSpec == Lifecycle!Spec

(* "The next daemon-reload will pick it up again" (Disable): a service is  *)
(* registered by enable and daemon-reload, not by another command.         *)
DisabledStays ==
  [][\A n \in Names : ~Registered(n) /\ Registered(n)' => cmd.op \in {"enable", "daemon-reload"}]_vars

(* "Disables, recopies, reloads, ..." (ReloadPool): a registered service   *)
(* has its unit file in the active directory, where its wrapper looks.     *)
RegisteredHasFile == pc = "off" => \A n \in Names : Known(n) => file[n] # "none"
=============================================================================
