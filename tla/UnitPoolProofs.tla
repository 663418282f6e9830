----------------------------- MODULE UnitPoolProofs -----------------------------
(***************************************************************************)
(* What UnitPool's commands keep, proved for every library, all commands   *)
(* and every bound.                                                        *)
(***************************************************************************)
EXTENDS UnitPoolTypes, FiniteSetTheorems

\* How far Enable has come with the library's .wants directory and with the
\* Requires of its unit.
WantsDirLeft(call) == CASE call.pc \in {"copy", "write"} -> call.unit.wantsDir
                        [] call.pc = "wantsDir" -> call.todo
                        [] call.pc \in {"copyWanted", "writeWanted", "link"} -> call.todo \cup {call.w}
                        [] OTHER -> {}
RequiresLeft(call) == CASE call.pc \in {"requires", "required"} -> call.todo
                        [] call.pc \in {"wants", "wanted", "register"} -> {}
                        [] OTHER -> call.unit.requires

\* A wanted unit is linked, or was passed over because of a null entry.
Settled(w, name) == w \in nulls \/ (file[w] # "none" /\ link[<<name, w>>] # "none")

\* What Enable has done is there: the file of its unit and of the wanted unit that
\* it links; and all of the wanted and the required units that are not left.
CallDone(call) ==
  call.pc \in EnablePlaces =>
    /\ call.pc # "copy" => file[call.name] # "none"
    /\ call.pc \in {"writeWanted", "link"} => file[call.w] # "none"
    /\ \A w \in (call.unit.wantsDir \cap DOMAIN library) \ WantsDirLeft(call) : Settled(w, call.name)
    /\ call.unit.requires \ RequiresLeft(call) \subseteq Active

DoneInv == \A i \in 1..Len(stack) : CallDone(stack[i])

\* A required unit whose Enable returned true is active.
RetInv == stack # << >> /\ Top.pc = "required" /\ ret => Top.w \in Active

\* While units are enabled, the pool has active ones only, and the one being copied.
PoolActive ==
  pc = "units" /\ cmd.op = "enable" =>
    \A r \in DOMAIN pool : r \in Active \/ (At("copyWanted") /\ Top.w = r)

\* Inductive with PoolTyped.
EnableInv == DoneInv /\ RetInv /\ PoolActive

-----------------------------------------------------------------------------
(* What a step does to the calls.                                          *)

LEMMA StackContinued ==
  ASSUME TypeOK, stack # << >>, NEW call \in Call, Continue(call)
  PROVE  /\ Len(stack') = Len(stack) /\ stack' # << >> /\ Top' = call
         /\ \A i \in 1..Len(stack) : stack'[i] = IF i = Len(stack) THEN call ELSE stack[i]
         /\ ret' = ret
<1>1. stack' = [stack EXCEPT ![Len(stack)] = call] /\ ret' = ret
  BY DEF Continue
<1>2. /\ stack' \in Seq(Call) /\ Len(stack') = Len(stack)
      /\ \A j \in 1..Len(stack) : stack'[j] = IF j = Len(stack) THEN call ELSE stack[j]
  BY <1>1, StackFacts, ExceptSeq
<1>3. Top' = call
  BY <1>2, StackFacts DEF Top
<1>4. stack' # << >>
  BY <1>2, StackFacts
<1>5. QED
  BY <1>1, <1>2, <1>3, <1>4

\* Outside Enable, Mask and Unmask a call is made or all calls stay as they are.
LEMMA OtherSteps ==
  ASSUME PoolTyped, [Next]_vars, stack' # << >>, ~Enable, ~Mask, ~Unmask
  PROVE  \/ UNCHANGED <<library, diskVars, pc, cmd, poolVars, todo, stack, ret>>
         \/ /\ UNCHANGED <<library, diskVars, pc, pool>> /\ nulls \subseteq nulls'
            /\ cmd'.op = cmd.op /\ stack = << >>
            /\ \E call \in Call : stack' = <<call>> /\ call.pc \in {"copy", "links", "restore"}
<1>1. CASE LoadPool \/ Killed \/ ReadLibrary \/ ReloadDone \/ (\E c \in Commands : Invoke(c))
  BY <1>1 DEF LoadPool, PoolLoaded, QueryRegister, Killed, ReadLibrary, ReloadDone, Invoke,
     EndProcess, PoolTyped, PhaseInv
<1>2. ASSUME NEW n \in Names, RegisterUnit(n)
      PROVE  FALSE
  BY <1>2 DEF RegisterUnit, Die, EndProcess, PoolTyped, PhaseInv
<1>3. CASE NoSuchUnit \/ TooManyUnits \/ CommandDone \/ IsEnabledCommand \/ IsActiveCommand
  BY <1>3 DEF NoSuchUnit, TooManyUnits, CommandDone, IsEnabledCommand, IsActiveCommand, Answer,
     EndProcess
<1>4. CASE DisableCommand \/ StartCommand \/ StopCommand \/ KillCommand
  BY <1>4 DEF DisableCommand, StartCommand, StopCommand, KillCommand, AtUnit
<1>5. CASE EnableCommand
  <2>1. /\ pc = "units" /\ stack = << >> /\ cmd.units # << >>
    BY <1>5 DEF EnableCommand, AtUnit
  <2>2. CASE /\ Unit \in DOMAIN pool
             /\ stack' = <<PoolCall(Unit)>> /\ NextUnit
             /\ UNCHANGED poolVars
             /\ CommandUnchanged /\ UNCHANGED scmVars
    <3>1. pool[Unit].unit \in UnitFile /\ pool[Unit].deps \in SUBSET Names /\ Unit \in Names
      BY <2>2, PoolFacts DEF PoolTyped
    <3>2. PoolCall(Unit) \in Call /\ PoolCall(Unit).pc = "copy"
      BY <3>1, CallTypes DEF PoolCall
    <3>3. cmd'.op = cmd.op
      BY <2>1, <2>2, NextUnitTyped DEF PoolTyped
    <3>4. QED
      BY <2>1, <2>2, <3>2, <3>3 DEF CommandUnchanged, poolVars
  <2>3. CASE /\ Unit \notin DOMAIN pool /\ Unit \in DOMAIN library
             /\ nulls' = nulls \cup {Unit}
             /\ stack' = <<LibraryCall(Unit)>> /\ NextUnit
             /\ UNCHANGED pool
             /\ CommandUnchanged /\ UNCHANGED scmVars
    <3>1. library[Unit] \in UnitFile /\ {} \in SUBSET Names /\ Unit \in Names
      BY <2>3, LibraryType DEF PoolTyped
    <3>2. LibraryCall(Unit) \in Call /\ LibraryCall(Unit).pc = "copy"
      BY <3>1, CallTypes DEF LibraryCall
    <3>3. cmd'.op = cmd.op
      BY <2>1, <2>3, NextUnitTyped DEF PoolTyped
    <3>4. QED
      BY <2>1, <2>3, <3>2, <3>3 DEF CommandUnchanged
  <2>4. CASE EndProcess("error")
    BY <2>4 DEF EndProcess
  <2>5. QED
    BY <1>5, <2>2, <2>3, <2>4 DEF EnableCommand
<1>6. CASE MaskCommand \/ UnmaskCommand
  <2>1. /\ pc = "units" /\ stack = << >> /\ cmd.units # << >> /\ NextUnit /\ CommandUnchanged
        /\ UNCHANGED poolVars /\ Unit \in DOMAIN pool
    BY <1>6 DEF MaskCommand, UnmaskCommand, AtUnit
  <2>2. PICK fn \in {"Mask", "Unmask"}, at \in {"links", "restore"} :
          stack' = <<OtherCall(fn, Unit, at)>>
    BY <1>6 DEF MaskCommand, UnmaskCommand
  <2>3. Unit \in Names /\ at \in Place /\ {} \in SUBSET Names
    BY <2>1, PoolFacts DEF PoolTyped, Place, MaskPlaces, UnmaskPlaces
  <2>4. OtherCall(fn, Unit, at) \in Call /\ OtherCall(fn, Unit, at).pc = at
    BY <2>3, NoUnitType, CallTypes
  <2>5. cmd'.op = cmd.op
    BY <2>1, NextUnitTyped DEF PoolTyped
  <2>6. QED
    BY <2>1, <2>2, <2>4, <2>5 DEF CommandUnchanged, poolVars
<1>7. ASSUME NEW n \in Names, ReloadMask(n)
      PROVE  /\ UNCHANGED <<library, diskVars, pc, pool>> /\ nulls \subseteq nulls'
             /\ cmd'.op = cmd.op /\ stack = << >>
             /\ \E call \in Call : stack' = <<call>> /\ call.pc \in {"copy", "links", "restore"}
  <2>1. /\ UNCHANGED <<library, diskVars, pc, poolVars, cmd>> /\ stack = << >>
        /\ stack' = <<OtherCall("Mask", n, "links")>>
    BY <1>7 DEF ReloadMask
  <2>2. "links" \in Place /\ "Mask" \in {"Mask", "Unmask"} /\ {} \in SUBSET Names /\ n \in Names
    BY <1>7 DEF Place, MaskPlaces
  <2>3. OtherCall("Mask", n, "links") \in Call
    BY <2>2, NoUnitType, CallTypes
  <2>4. OtherCall("Mask", n, "links").pc = "links"
    BY <2>2, NoUnitType, CallTypes
  <2>5. QED
    BY <2>1, <2>3, <2>4 DEF poolVars
<1>8. CASE (\E n \in Names : ServiceStops(n)) \/ UNCHANGED vars
  BY <1>8 DEF ServiceStops, vars
<1>9. QED
  BY <1>1, <1>2, <1>3, <1>4, <1>5, <1>6, <1>7, <1>8 DEF Next, Process, ParseArgs, LoadPool, ReloadPool

-----------------------------------------------------------------------------
(* Enable: what it has done stays done.                                    *)

Keeps == /\ library' = library /\ nulls \subseteq nulls'
         /\ \A n \in Names : file[n] # "none" => file'[n] # "none"
         /\ \A e \in Names \X Names : link[e] # "none" => link'[e] # "none"

LEMMA ActiveStays ==
  ASSUME Keeps
  PROVE  Active \subseteq Active'
<1>1. ASSUME NEW n \in Names, NEW p \in Names, link[<<p, n>>] # "none"
      PROVE  link'[<<p, n>>] # "none"
  <2>1. <<p, n>> \in Names \X Names
    OBVIOUS
  <2>2. QED
    BY <1>1, <2>1 DEF Keeps
<1>2. QED
  BY <1>1 DEF Keeps, Active, Linked

LEMMA DoneKept ==
  ASSUME Keeps, NEW call \in Call, CallDone(call)
  PROVE  CallDone(call)'
<1>1. Active \subseteq Active'
  BY ActiveStays
<1>2. call.name \in Names /\ call.w \in Names /\ call.unit.wantsDir \subseteq Names
  BY CallFields, UnitFields
<1>3. ASSUME NEW w \in Names, Settled(w, call.name)
      PROVE  Settled(w, call.name)'
  <2>1. <<call.name, w>> \in Names \X Names
    BY <1>2
  <2>2. QED
    BY <1>3, <2>1 DEF Keeps, Settled
<1>4. WantsDirLeft(call)' = WantsDirLeft(call) /\ RequiresLeft(call)' = RequiresLeft(call)
  BY DEF WantsDirLeft, RequiresLeft
<1>5. ASSUME call.pc \in EnablePlaces
      PROVE  /\ call.pc # "copy" => file'[call.name] # "none"
             /\ call.pc \in {"writeWanted", "link"} => file'[call.w] # "none"
  BY <1>2, <1>5 DEF CallDone, Keeps
<1>6. ASSUME call.pc \in EnablePlaces,
             NEW w \in (call.unit.wantsDir \cap DOMAIN library) \ WantsDirLeft(call)
      PROVE  Settled(w, call.name)'
  BY <1>2, <1>3, <1>6 DEF CallDone
<1>7. QED
  BY <1>1, <1>4, <1>5, <1>6 DEF CallDone, Keeps

LEMMA BelowDone ==
  ASSUME PoolTyped, DoneInv, Keeps, NEW i \in 1..Len(stack), stack'[i] = stack[i]
  PROVE  CallDone(stack[i])'
<1>1. PICK below \in Call : below = stack[i]
  BY StackFacts DEF PoolTyped
<1>2. CallDone(below) /\ stack'[i] = below
  BY <1>1 DEF DoneInv
<1>3. CallDone(below)'
  BY <1>2, DoneKept
<1>4. QED
  BY <1>2, <1>3 DEF CallDone, Settled, WantsDirLeft, RequiresLeft

LEMMA DoneContinues ==
  ASSUME PoolTyped, DoneInv, stack # << >>, Keeps,
         NEW call \in Call, Continue(call), CallDone(call)'
  PROVE  DoneInv'
<1>1. SUFFICES ASSUME NEW i \in 1..Len(stack')
               PROVE  CallDone(stack[i])'
  BY DEF DoneInv
<1>2. /\ stack'[i] = IF i = Len(stack) THEN call ELSE stack[i]
      /\ i \in 1..Len(stack)
  BY <1>1, StackContinued DEF PoolTyped
<1>3. CASE i = Len(stack)
  BY <1>2, <1>3 DEF CallDone, Settled, WantsDirLeft, RequiresLeft
<1>4. CASE i # Len(stack)
  BY <1>2, <1>4, BelowDone
<1>5. QED
  BY <1>3, <1>4

LEMMA DoneReturns ==
  ASSUME PoolTyped, DoneInv, stack # << >>, Keeps, cmd' = cmd,
         NEW result \in BOOLEAN, Return(result)
  PROVE  DoneInv'
<1>1. /\ Len(stack') = Len(stack) - 1 /\ \A i \in 1..Len(stack') : stack'[i] = stack[i]
      /\ Len(stack) \in Nat
  BY StackReturns, StackFacts DEF PoolTyped, Keeps
<1>2. SUFFICES ASSUME NEW i \in 1..Len(stack')
               PROVE  CallDone(stack[i])'
  BY DEF DoneInv
<1>3. i \in 1..Len(stack) /\ stack'[i] = stack[i]
  BY <1>1, <1>2
<1>4. QED
  BY <1>3, BelowDone

\* Enable has called Enable.
LEMMA StackAppended ==
  ASSUME TypeOK, stack # << >>, NEW call \in Call, NEW w \in Names,
         NEW place \in {"required", "wanted"}, NEW waits \in Call,
         waits = [Top EXCEPT !.pc = place, !.w = w],
         stack' = Append([stack EXCEPT ![Len(stack)] = [@ EXCEPT !.pc = place, !.w = w]], call)
  PROVE  /\ Len(stack') = Len(stack) + 1 /\ Top' = call /\ stack' # << >>
         /\ \A i \in 1..Len(stack) : i # Len(stack) => stack'[i] = stack[i]
         /\ stack'[Len(stack)] = waits /\ stack'[Len(stack) + 1] = call
<1> DEFINE below == [stack EXCEPT ![Len(stack)] = waits]
<1>1. /\ below \in Seq(Call) /\ Len(below) = Len(stack)
      /\ \A j \in 1..Len(stack) : below[j] = IF j = Len(stack) THEN waits ELSE stack[j]
  BY StackFacts, ExceptSeq
<1>2. stack' = Append(below, call)
  BY DEF Top
<1> HIDE DEF below
<1>3. /\ stack' \in Seq(Call) /\ Len(stack') = Len(stack) + 1 /\ stack'[Len(stack) + 1] = call
      /\ \A j \in 1..Len(stack) : stack'[j] = below[j]
  BY <1>1, <1>2, StackFacts, AppendProperties
<1>4. Top' = call
  BY <1>3 DEF Top
<1>5. stack' # << >>
  BY <1>3, StackFacts
<1>6. stack'[Len(stack)] = waits
  BY <1>1, <1>3, StackFacts
<1>7. QED
  BY <1>1, <1>3, <1>4, <1>5, <1>6

LEMMA DoneCalls ==
  ASSUME PoolTyped, DoneInv, stack # << >>, Keeps, NEW call \in Call, CallDone(call)',
         NEW w \in Names, NEW place \in {"required", "wanted"}, NEW waits \in Call,
         waits = [Top EXCEPT !.pc = place, !.w = w], CallDone(waits)',
         stack' = Append([stack EXCEPT ![Len(stack)] = [@ EXCEPT !.pc = place, !.w = w]], call)
  PROVE  DoneInv' /\ Top' = call
<1>1. /\ Len(stack') = Len(stack) + 1 /\ Top' = call
      /\ \A i \in 1..Len(stack) : i # Len(stack) => stack'[i] = stack[i]
      /\ stack'[Len(stack)] = waits /\ stack'[Len(stack) + 1] = call /\ Len(stack) \in Nat
  BY StackAppended, StackFacts DEF PoolTyped
<1>2. ASSUME NEW i \in 1..Len(stack')
      PROVE  CallDone(stack[i])'
  <2>1. CASE i = Len(stack) + 1
    BY <1>1, <2>1 DEF CallDone, Settled, WantsDirLeft, RequiresLeft
  <2>2. CASE i = Len(stack)
    <3>1. stack'[i] = waits
      BY <1>1, <2>2
    <3>2. QED
      BY <3>1 DEF CallDone, Settled, WantsDirLeft, RequiresLeft
  <2>3. CASE i # Len(stack) /\ i # Len(stack) + 1
    <3>1. i \in 1..Len(stack) /\ stack'[i] = stack[i]
      BY <1>1, <1>2, <2>3
    <3>2. QED
      BY <3>1, BelowDone
  <2>4. QED
    BY <2>1, <2>2, <2>3
<1>3. QED
  BY <1>1, <1>2 DEF DoneInv

\* No step of Enable but LoadWanted adds to the pool, and none but CopyWanted ends
\* with an entry that was not active.
LEMMA PoolActiveKept ==
  ASSUME PoolTyped, PoolActive, Keeps, StepUnchanged, pool' = pool,
         NEW at, At(at), at # "copyWanted"
  PROVE  PoolActive'
BY ActiveStays DEF PoolActive, StepUnchanged, At

LEMMA EnableStays ==
  ASSUME PoolTyped, EnableInv, Keeps, StepUnchanged, stack # << >>,
         NEW call \in Call, Continue(call), CallDone(call)', call.pc # "required", PoolActive'
  PROVE  EnableInv'
<1>1. DoneInv'
  BY DoneContinues DEF EnableInv
<1>2. Top' = call
  BY StackContinued DEF PoolTyped
<1>3. RetInv'
  BY <1>2 DEF RetInv
<1>4. QED
  BY <1>1, <1>3 DEF EnableInv

\* An Enable that returns true has made its unit active.
LEMMA EnableReturns ==
  ASSUME PoolTyped, EnableInv, Keeps, StepUnchanged, stack # << >>,
         NEW result \in BOOLEAN, Return(result), result => Top.name \in Active, PoolActive'
  PROVE  EnableInv'
<1>1. cmd' = cmd /\ library' = library /\ Active \subseteq Active'
  BY ActiveStays DEF StepUnchanged, Keeps
<1>2. DoneInv'
  BY <1>1, DoneReturns DEF EnableInv
<1>3. RetInv'
  <2>1. SUFFICES ASSUME stack' # << >>, result
                 PROVE  Top'.w \in Active'
    BY DEF RetInv, Return
  <2>2. /\ Len(stack') = Len(stack) - 1 /\ \A i \in 1..Len(stack') : stack'[i] = stack[i]
        /\ Len(stack) \in Nat /\ StackOK'
    BY <1>1, StackReturns, StackFacts DEF PoolTyped
  <2>3. Len(stack') \in Nat \ {0}
    BY <2>1, <2>2, LenProperties, EmptySeq DEF StackOK
  <2>4. Len(stack') \in 1..Len(stack) /\ Len(stack') # Len(stack) /\ Len(stack') + 1 = Len(stack)
        /\ stack'[Len(stack')] = stack[Len(stack')]
    BY <2>2, <2>3
  <2>5. stack[Len(stack)].name = stack[Len(stack')].w
    BY <2>4 DEF PoolTyped, StackInLibrary
  <2>6. QED
    BY <1>1, <2>1, <2>4, <2>5 DEF Top
<1>4. QED
  BY <1>2, <1>3 DEF EnableInv

-----------------------------------------------------------------------------
(* Each step of Enable.                                                    *)

LEMMA TopDone ==
  ASSUME PoolTyped, EnableInv, NEW at \in EnablePlaces, At(at)
  PROVE  /\ at \in Place /\ stack # << >> /\ Top \in Call /\ Top.pc = at /\ CallDone(Top)
         /\ CallInLibrary(Top) /\ cmd.op = "enable" /\ pc = "units"
<1>1. at \in Place
  BY DEF Place
<1>2. stack # << >> /\ Top \in Call /\ Top.pc = at /\ CallInLibrary(Top) /\ cmd.op = "enable"
  BY <1>1, TopFacts, PlacesOfEnable
<1>3. CallDone(Top)
  BY <1>2, StackFacts DEF PoolTyped, EnableInv, DoneInv, Top
<1>4. pc = "units"
  BY <1>2 DEF PoolTyped, PhaseInv
<1>5. QED
  BY <1>1, <1>2, <1>3, <1>4

LEMMA KeepsDisk ==
  ASSUME StepUnchanged, UNCHANGED diskVars, nulls \subseteq nulls'
  PROVE  Keeps
BY DEF Keeps, StepUnchanged, diskVars

LEMMA KeepsFile ==
  ASSUME PoolTyped, StepUnchanged, link' = link, UNCHANGED poolVars,
         NEW n \in Names, NEW content \in {"empty", "whole"}, file' = [file EXCEPT ![n] = content]
  PROVE  Keeps /\ file'[n] # "none"
BY DEF Keeps, StepUnchanged, poolVars, PoolTyped, TypeOK, DiskOK

LEMMA EnableCopyDone ==
  ASSUME PoolTyped, EnableInv, EnableCopy
  PROVE  EnableInv'
<1>1. /\ "copy" \in EnablePlaces /\ At("copy") /\ StepUnchanged /\ link' = link
      /\ UNCHANGED poolVars /\ pool' = pool
  BY DEF EnablePlaces, EnableCopy, poolVars
<1>2. /\ Top \in Call /\ stack # << >> /\ CallDone(Top) /\ Top.pc = "copy"
      /\ {"write", "wantsDir"} \subseteq Place /\ Top.unit.wantsDir \in SUBSET Names
      /\ Top.name \in Names
  BY <1>1, TopDone, CallFields, UnitFields DEF Place, EnablePlaces
<1>3. CASE file[Top.name] # "none"
  <2> DEFINE call == [Top EXCEPT !.pc = "wantsDir", !.todo = Top.unit.wantsDir]
  <2>1. Continue(call) /\ UNCHANGED diskVars
    BY <1>1, <1>3 DEF EnableCopy, diskVars
  <2>2. GoesOn(call, Top, "wantsDir", Top.unit.wantsDir, Top.w)
    BY <1>2, CallPcTodo, Zenon
  <2>3. PICK c \in Call : c = call
    BY <2>2 DEF GoesOn
  <2> HIDE DEF call
  <2>4. Keeps
    BY <1>1, <2>1, KeepsDisk DEF poolVars
  <2>5. CallDone(c)' /\ c.pc # "required"
    BY <1>3, <2>1, <2>2, <2>3 DEF GoesOn, CallDone, WantsDirLeft, RequiresLeft, diskVars
  <2>6. PoolActive'
    BY <1>1, <2>4, PoolActiveKept DEF EnableInv
  <2>7. QED
    BY <1>1, <1>2, <2>1, <2>3, <2>4, <2>5, <2>6, EnableStays
<1>4. CASE file[Top.name] = "none"
  <2> DEFINE call == [Top EXCEPT !.pc = "write"]
  <2>1. Continue(call) /\ file' = [file EXCEPT ![Top.name] = "empty"]
    BY <1>4 DEF EnableCopy
  <2>2. GoesOn(call, Top, "write", Top.todo, Top.w)
    BY <1>2, CallPc, Zenon
  <2>3. PICK c \in Call : c = call
    BY <2>2 DEF GoesOn
  <2> HIDE DEF call
  <2>4. Keeps /\ file'[Top.name] # "none"
    BY <1>1, <1>2, <2>1, KeepsFile
  <2>5. CallDone(c)' /\ c.pc # "required"
    BY <2>2, <2>3, <2>4 DEF GoesOn, CallDone, WantsDirLeft, RequiresLeft
  <2>6. PoolActive'
    BY <1>1, <2>4, PoolActiveKept DEF EnableInv
  <2>7. QED
    BY <1>1, <1>2, <2>1, <2>3, <2>4, <2>5, <2>6, EnableStays
<1>5. QED
  BY <1>3, <1>4

LEMMA EnableWriteDone ==
  ASSUME PoolTyped, EnableInv, EnableWrite
  PROVE  EnableInv'
<1> DEFINE call == [Top EXCEPT !.pc = "wantsDir", !.todo = Top.unit.wantsDir]
<1>1. /\ "write" \in EnablePlaces /\ At("write") /\ StepUnchanged /\ link' = link
      /\ UNCHANGED poolVars /\ pool' = pool /\ Continue(call)
      /\ file' = [file EXCEPT ![Top.name] = "whole"]
  BY DEF EnablePlaces, EnableWrite, poolVars
<1>2. /\ Top \in Call /\ stack # << >> /\ "wantsDir" \in Place /\ Top.name \in Names
      /\ Top.unit.wantsDir \in SUBSET Names
  BY <1>1, TopDone, CallFields, UnitFields DEF Place, EnablePlaces
<1>3. GoesOn(call, Top, "wantsDir", Top.unit.wantsDir, Top.w)
  BY <1>2, CallPcTodo, Zenon
<1>4. PICK c \in Call : c = call
  BY <1>3 DEF GoesOn
<1> HIDE DEF call
<1>5. Keeps /\ file'[Top.name] # "none"
  BY <1>1, <1>2, KeepsFile
<1>6. CallDone(c)' /\ c.pc # "required"
  BY <1>3, <1>4, <1>5 DEF GoesOn, CallDone, WantsDirLeft, RequiresLeft
<1>7. PoolActive'
  BY <1>1, <1>5, PoolActiveKept DEF EnableInv
<1>8. QED
  BY <1>1, <1>2, <1>4, <1>5, <1>6, <1>7, EnableStays

LEMMA LoadWantedDone ==
  ASSUME PoolTyped, EnableInv, NEW w \in Names, LoadWanted(w)
  PROVE  EnableInv'
<1>1. /\ "wantsDir" \in EnablePlaces /\ At("wantsDir") /\ StepUnchanged /\ UNCHANGED diskVars
      /\ nulls' = nulls /\ w \in Top.todo
  BY DEF EnablePlaces, LoadWanted
<1>2. /\ Top \in Call /\ stack # << >> /\ CallDone(Top) /\ Top.pc = "wantsDir"
      /\ "copyWanted" \in Place /\ Top.todo \ {w} \in SUBSET Names
  BY <1>1, TopDone, CallFields DEF Place, EnablePlaces
<1>3. Keeps
  BY <1>1, KeepsDisk
<1>4. CASE w \in DOMAIN library \ nulls
  <2> DEFINE call == [Top EXCEPT !.pc = "copyWanted", !.w = w, !.todo = @ \ {w}]
  <2>1. Continue(call)
    BY <1>4 DEF LoadWanted
  <2>2. GoesOn(call, Top, "copyWanted", Top.todo \ {w}, w)
    BY <1>2, CallPcTodoW, Zenon
  <2>3. PICK c \in Call : c = call
    BY <2>2 DEF GoesOn
  <2> HIDE DEF call
  <2>4. CallDone(c)' /\ c.pc # "required"
    <3>1. CallDone(c) /\ c.pc # "required"
      BY <1>1, <1>2, <2>2, <2>3 DEF GoesOn, CallDone, WantsDirLeft, RequiresLeft, EnablePlaces
    <3>2. QED
      BY <1>3, <3>1, DoneKept
  <2>5. PoolActive'
    <3>1. SUFFICES ASSUME pc = "units", cmd.op = "enable", NEW r \in DOMAIN pool', r # w
                   PROVE  r \in Active'
      <4>1. Top' = c /\ stack' # << >> /\ c.pc = "copyWanted" /\ c.w = w
        BY <1>2, <2>1, <2>2, <2>3, StackContinued DEF PoolTyped, GoesOn
      <4>2. QED
        BY <1>1, <4>1 DEF PoolActive, At, StepUnchanged
    <3>2. r \in DOMAIN pool
      BY <3>1 DEF LoadWanted
    <3>3. QED
      BY <1>2, <1>3, <3>1, <3>2, ActiveStays DEF EnableInv, PoolActive, At
  <2>6. QED
    BY <1>1, <1>2, <1>3, <2>1, <2>3, <2>4, <2>5, EnableStays
<1>5. CASE w \notin DOMAIN library \ nulls
  <2> DEFINE call == [Top EXCEPT !.todo = @ \ {w}]
  <2>1. Continue(call) /\ pool' = pool
    BY <1>5 DEF LoadWanted
  <2>2. GoesOn(call, Top, Top.pc, Top.todo \ {w}, Top.w)
    BY <1>2, CallTodo, Zenon
  <2>3. PICK c \in Call : c = call
    BY <2>2 DEF GoesOn
  <2> HIDE DEF call
  <2>4. CallDone(c)' /\ c.pc # "required"
    <3>1. CallDone(c) /\ c.pc # "required"
      BY <1>1, <1>2, <1>5, <2>2, <2>3 DEF GoesOn, CallDone, WantsDirLeft, RequiresLeft,
         EnablePlaces, Settled
    <3>2. QED
      BY <1>3, <3>1, DoneKept
  <2>5. PoolActive'
    BY <1>1, <1>3, <2>1, PoolActiveKept DEF EnableInv
  <2>6. QED
    BY <1>1, <1>2, <1>3, <2>1, <2>3, <2>4, <2>5, EnableStays
<1>6. QED
  BY <1>4, <1>5

LEMMA CopyWantedDone ==
  ASSUME PoolTyped, EnableInv, CopyWanted
  PROVE  EnableInv'
<1>1. /\ "copyWanted" \in EnablePlaces /\ At("copyWanted") /\ StepUnchanged /\ link' = link
      /\ UNCHANGED poolVars /\ pool' = pool
  BY DEF EnablePlaces, CopyWanted, poolVars
<1>2. /\ Top \in Call /\ stack # << >> /\ CallDone(Top) /\ Top.pc = "copyWanted"
      /\ {"writeWanted", "link"} \subseteq Place /\ Top.w \in Names
  BY <1>1, TopDone, CallFields DEF Place, EnablePlaces
<1>3. ASSUME NEW at \in {"writeWanted", "link"}, Continue([Top EXCEPT !.pc = at]),
             Keeps, file'[Top.w] # "none"
      PROVE  EnableInv'
  <2> DEFINE call == [Top EXCEPT !.pc = at]
  <2>1. at \in Place /\ Continue(call)
    BY <1>2, <1>3
  <2>2. GoesOn(call, Top, at, Top.todo, Top.w)
    BY <1>2, <2>1, CallPc, Zenon
  <2>3. PICK c \in Call : c = call
    BY <2>2 DEF GoesOn
  <2> HIDE DEF call
  <2>4. CallDone(c)' /\ c.pc # "required"
    <3>1. PICK top \in Call : top = Top
      BY <1>2
    <3>2. CallDone(top)
      BY <1>2, <3>1
    <3>3. CallDone(top)'
      BY <1>3, <3>2, DoneKept
    <3>4. QED
      BY <1>2, <1>3, <2>2, <2>3, <3>1, <3>3 DEF GoesOn, CallDone, WantsDirLeft, RequiresLeft,
         EnablePlaces
  <2>5. PoolActive'
    <3>1. Active \subseteq Active' /\ Top.w \in Active'
      BY <1>2, <1>3, ActiveStays DEF Active
    <3>2. QED
      BY <1>1, <3>1 DEF EnableInv, PoolActive, StepUnchanged
  <2>6. QED
    BY <1>1, <1>2, <1>3, <2>1, <2>3, <2>4, <2>5, EnableStays
<1>4. CASE file[Top.w] # "none"
  <2>1. Continue([Top EXCEPT !.pc = "link"]) /\ file' = file
    BY <1>4 DEF CopyWanted
  <2>2. Keeps
    BY <1>1, <2>1, KeepsDisk DEF diskVars, poolVars
  <2>3. QED
    BY <1>3, <1>4, <2>1, <2>2
<1>5. CASE file[Top.w] = "none"
  <2>1. Continue([Top EXCEPT !.pc = "writeWanted"]) /\ file' = [file EXCEPT ![Top.w] = "empty"]
    BY <1>5 DEF CopyWanted
  <2>2. Keeps /\ file'[Top.w] # "none"
    BY <1>1, <1>2, <2>1, KeepsFile
  <2>3. QED
    BY <1>3, <2>1, <2>2
<1>6. QED
  BY <1>4, <1>5

LEMMA WriteWantedDone ==
  ASSUME PoolTyped, EnableInv, WriteWanted
  PROVE  EnableInv'
<1> DEFINE call == [Top EXCEPT !.pc = "link"]
<1>1. /\ "writeWanted" \in EnablePlaces /\ At("writeWanted") /\ StepUnchanged /\ link' = link
      /\ UNCHANGED poolVars /\ pool' = pool /\ Continue(call)
      /\ file' = [file EXCEPT ![Top.w] = "whole"]
  BY DEF EnablePlaces, WriteWanted, poolVars
<1>2. /\ Top \in Call /\ stack # << >> /\ CallDone(Top) /\ Top.pc = "writeWanted"
      /\ "link" \in Place /\ Top.w \in Names
  BY <1>1, TopDone, CallFields DEF Place, EnablePlaces
<1>3. GoesOn(call, Top, "link", Top.todo, Top.w)
  BY <1>2, CallPc, Zenon
<1>4. PICK c \in Call : c = call
  BY <1>3 DEF GoesOn
<1> HIDE DEF call
<1>5. Keeps
  BY <1>1, <1>2, KeepsFile
<1>6. CallDone(c)' /\ c.pc # "required"
  <2>1. CallDone(c) /\ c.pc # "required"
    BY <1>2, <1>3, <1>4 DEF GoesOn, CallDone, WantsDirLeft, RequiresLeft, EnablePlaces
  <2>2. QED
    BY <1>5, <2>1, DoneKept
<1>7. PoolActive'
  BY <1>1, <1>5, PoolActiveKept DEF EnableInv
<1>8. QED
  BY <1>1, <1>2, <1>4, <1>5, <1>6, <1>7, EnableStays

LEMMA LinkWantedDone ==
  ASSUME PoolTyped, EnableInv, LinkWanted
  PROVE  EnableInv'
<1> DEFINE call == [Top EXCEPT !.pc = "wantsDir", !.unit.wants = @ \cup {Top.w}]
           wanted == Top.unit.wants \cup {Top.w}
           content == IF link[<<Top.name, Top.w>>] = "none" THEN file[Top.w]
                      ELSE link[<<Top.name, Top.w>>]
<1>1. /\ "link" \in EnablePlaces /\ At("link") /\ StepUnchanged /\ file' = file
      /\ UNCHANGED poolVars /\ pool' = pool /\ nulls' = nulls /\ Continue(call)
      /\ link' = [link EXCEPT ![<<Top.name, Top.w>>] = content]
  BY DEF EnablePlaces, LinkWanted, poolVars
<1>2. /\ Top \in Call /\ stack # << >> /\ CallDone(Top) /\ Top.pc = "link"
      /\ "wantsDir" \in Place /\ Top.w \in Names /\ Top.name \in Names /\ wanted \in SUBSET Names
      /\ <<Top.name, Top.w>> \in Names \X Names
  BY <1>1, TopDone, CallFields, UnitFields DEF Place, EnablePlaces
<1>3. LinksOn(call, Top, "wantsDir", wanted)
  BY <1>2, CallWants, Zenon
<1>4. PICK c \in Call : c = call
  BY <1>3 DEF LinksOn
<1>5. content # "none" /\ file[Top.w] # "none"
  BY <1>2 DEF CallDone, EnablePlaces
<1> HIDE DEF call, wanted, content
<1>6. Keeps /\ link'[<<Top.name, Top.w>>] # "none"
  BY <1>1, <1>2, <1>5 DEF Keeps, StepUnchanged, PoolTyped, TypeOK, DiskOK
<1>7. CallDone(c)' /\ c.pc # "required"
  <2>1. PICK top \in Call : top = Top
    BY <1>2
  <2>2. CallDone(top)'
    BY <1>2, <1>6, <2>1, DoneKept
  <2>3. Settled(top.w, top.name)'
    BY <1>1, <1>5, <1>6, <2>1 DEF Settled
  <2>4. QED
    BY <1>2, <1>3, <1>4, <2>1, <2>2, <2>3 DEF LinksOn, CallDone, WantsDirLeft, RequiresLeft,
       EnablePlaces
<1>8. PoolActive'
  BY <1>1, <1>6, PoolActiveKept DEF EnableInv
<1>9. QED
  BY <1>1, <1>2, <1>4, <1>6, <1>7, <1>8, EnableStays

\* The steps that end a loop of Enable.
LEMMA LoopsDone ==
  ASSUME PoolTyped, EnableInv, WantsDirDone \/ RequiresDone \/ WantsDone
  PROVE  EnableInv'
<1>1. StepUnchanged /\ UNCHANGED <<diskVars, poolVars>> /\ pool' = pool /\ nulls' = nulls
  BY DEF WantsDirDone, RequiresDone, WantsDone, poolVars
<1>2. Keeps
  BY <1>1, KeepsDisk
<1>3. ASSUME NEW c \in Call, CallDone(c), c.pc # "required", Continue(c), stack # << >>, ~At("copyWanted")
      PROVE  EnableInv'
  <2>1. PoolActive'
    BY <1>1, <1>2, <1>3, ActiveStays DEF EnableInv, PoolActive, StepUnchanged
  <2>2. CallDone(c)'
    BY <1>2, <1>3, DoneKept
  <2>3. QED
    BY <1>1, <1>2, <1>3, <2>1, <2>2, EnableStays
<1>4. CASE WantsDirDone
  <2> DEFINE call == [Top EXCEPT !.pc = "requires", !.todo = Top.unit.requires]
  <2>1. "wantsDir" \in EnablePlaces /\ At("wantsDir") /\ Continue(call) /\ Top.todo = {}
    BY <1>4 DEF EnablePlaces, WantsDirDone
  <2>2. /\ Top \in Call /\ stack # << >> /\ CallDone(Top) /\ Top.pc = "wantsDir"
        /\ "requires" \in Place /\ Top.unit.requires \in SUBSET Names
    BY <2>1, TopDone, CallFields, UnitFields DEF Place, EnablePlaces
  <2>3. GoesOn(call, Top, "requires", Top.unit.requires, Top.w)
    BY <2>2, CallPcTodo, Zenon
  <2> HIDE DEF call
  <2>4. CallDone(call) /\ call \in Call /\ call.pc # "required"
    BY <2>1, <2>2, <2>3 DEF GoesOn, CallDone, WantsDirLeft, RequiresLeft, EnablePlaces
  <2>5. QED
    BY <1>3, <2>1, <2>2, <2>4 DEF At
<1>5. CASE RequiresDone
  <2> DEFINE call == [Top EXCEPT !.pc = "wants", !.todo = Top.unit.wants]
  <2>1. "requires" \in EnablePlaces /\ At("requires") /\ Continue(call) /\ Top.todo = {}
    BY <1>5 DEF EnablePlaces, RequiresDone
  <2>2. /\ Top \in Call /\ stack # << >> /\ CallDone(Top) /\ Top.pc = "requires"
        /\ "wants" \in Place /\ Top.unit.wants \in SUBSET Names
    BY <2>1, TopDone, CallFields, UnitFields DEF Place, EnablePlaces
  <2>3. GoesOn(call, Top, "wants", Top.unit.wants, Top.w)
    BY <2>2, CallPcTodo, Zenon
  <2> HIDE DEF call
  <2>4. CallDone(call) /\ call \in Call /\ call.pc # "required"
    BY <2>1, <2>2, <2>3 DEF GoesOn, CallDone, WantsDirLeft, RequiresLeft, EnablePlaces
  <2>5. QED
    BY <1>3, <2>1, <2>2, <2>4 DEF At
<1>6. CASE WantsDone
  <2> DEFINE call == [Top EXCEPT !.pc = "register"]
  <2>1. "wants" \in EnablePlaces /\ At("wants") /\ Continue(call)
    BY <1>6 DEF EnablePlaces, WantsDone
  <2>2. /\ Top \in Call /\ stack # << >> /\ CallDone(Top) /\ Top.pc = "wants"
        /\ "register" \in Place
    BY <2>1, TopDone DEF Place, EnablePlaces
  <2>3. GoesOn(call, Top, "register", Top.todo, Top.w)
    BY <2>2, CallPc, Zenon
  <2> HIDE DEF call
  <2>4. CallDone(call) /\ call \in Call /\ call.pc # "required"
    BY <2>2, <2>3 DEF GoesOn, CallDone, WantsDirLeft, RequiresLeft, EnablePlaces
  <2>5. QED
    BY <1>3, <2>1, <2>2, <2>4 DEF At
<1>7. QED
  BY <1>4, <1>5, <1>6

LEMMA EndDone ==
  ASSUME NEW code, EndProcess(code)
  PROVE  EnableInv'
<1>1. stack' = << >> /\ Len(stack') = 0 /\ pc' = "off"
  BY DEF EndProcess
<1>2. QED
  BY <1>1 DEF EnableInv, DoneInv, RetInv, PoolActive

\* A required or a wanted unit has been enabled, or is there.
LEMMA ReturnedDone ==
  ASSUME PoolTyped, EnableInv, WantedReturns \/ RequiredReturns
  PROVE  EnableInv'
<1>1. StepUnchanged /\ UNCHANGED <<diskVars, poolVars>> /\ pool' = pool /\ nulls' = nulls
  BY DEF WantedReturns, RequiredReturns, poolVars
<1>2. Keeps
  BY <1>1, KeepsDisk
<1>3. ASSUME NEW at \in {"wanted", "required"}, NEW next \in {"wants", "requires"}, At(at),
             at = "wanted" <=> next = "wants", at = "required" => Top.w \in Active,
             Continue([Top EXCEPT !.pc = next, !.deps = @ \cup {Top.w}, !.todo = @ \ {Top.w}])
      PROVE  EnableInv'
  <2> DEFINE call == [Top EXCEPT !.pc = next, !.deps = @ \cup {Top.w}, !.todo = @ \ {Top.w}]
  <2>1. at \in EnablePlaces /\ next \in Place /\ Continue(call)
    BY <1>3 DEF EnablePlaces, Place
  <2>2. /\ Top \in Call /\ stack # << >> /\ CallDone(Top) /\ Top.pc = at
        /\ Top.todo \ {Top.w} \in SUBSET Names /\ Top.deps \cup {Top.w} \in SUBSET Names
    BY <1>3, <2>1, TopDone, CallFields
  <2>3. GoesOn(call, Top, next, Top.todo \ {Top.w}, Top.w)
    BY <2>1, <2>2, CallPcDepsTodo, Zenon
  <2>4. PICK c \in Call : c = call
    BY <2>3 DEF GoesOn
  <2> HIDE DEF call
  <2>5. CallDone(c) /\ c.pc # "required"
    BY <1>3, <2>2, <2>3, <2>4 DEF GoesOn, CallDone, WantsDirLeft, RequiresLeft, EnablePlaces
  <2>6. CallDone(c)'
    BY <1>2, <2>5, DoneKept
  <2>7. PoolActive'
    BY <1>1, <1>2, <1>3, PoolActiveKept DEF EnableInv
  <2>8. QED
    BY <1>1, <1>2, <2>1, <2>2, <2>4, <2>5, <2>6, <2>7, EnableStays
<1>4. CASE WantedReturns
  BY <1>3, <1>4 DEF WantedReturns
<1>5. CASE RequiredReturns /\ ret
  <2>1. stack # << >> /\ Top.pc = "required" /\ At("required")
    BY <1>5 DEF RequiredReturns, At
  <2>2. Top.w \in Active
    BY <1>5, <2>1 DEF EnableInv, RetInv
  <2>3. QED
    BY <1>3, <1>5, <2>1, <2>2 DEF RequiredReturns
<1>6. CASE RequiredReturns /\ ~ret
  <2>1. stack # << >> /\ At("required") /\ Return(FALSE) /\ FALSE \in BOOLEAN
    BY <1>6 DEF RequiredReturns, At
  <2>2. PoolActive'
    BY <1>1, <1>2, <2>1, PoolActiveKept DEF EnableInv
  <2>3. QED
    BY <1>1, <1>2, <2>1, <2>2, EnableReturns
<1>7. QED
  BY <1>4, <1>5, <1>6

\* Enable calls Enable, or there is no room for the call.
LEMMA EnableOtherDone ==
  ASSUME PoolTyped, EnableInv, NEW at \in {"requires", "wants"}, At(at),
         NEW place \in {"required", "wanted"}, at = "requires" <=> place = "required",
         NEW w \in Names, NEW unit \in UnitFile, NEW d \in SUBSET Names,
         EnableOther(EnableCall(w, unit, d), w, place)
  PROVE  EnableInv'
<1>1. CASE Len(stack) = MaxDepth
  BY <1>1, EndDone DEF EnableOther, Die
<1>2. CASE Len(stack) # MaxDepth
  <2> DEFINE call == EnableCall(w, unit, d)
             waits == [Top EXCEPT !.pc = place, !.w = w]
  <2>1. /\ StepUnchanged /\ UNCHANGED <<diskVars, pool, ret>>
        /\ nulls' = nulls \cup ({w} \ DOMAIN pool)
        /\ stack' = Append([stack EXCEPT ![Len(stack)] = [@ EXCEPT !.pc = place, !.w = w]], call)
    BY <1>2 DEF EnableOther
  <2>2. call \in Call /\ call.pc = "copy" /\ call.unit = unit
    BY CallTypes
  <2>3. at \in EnablePlaces /\ place \in Place
    BY DEF EnablePlaces, Place
  <2>4. Top \in Call /\ stack # << >> /\ CallDone(Top) /\ Top.pc = at
    BY <2>3, TopDone
  <2>5. GoesOn(waits, Top, place, Top.todo, w)
    BY <2>3, <2>4, TopWaits, Zenon
  <2>6. PICK c \in Call : c = call
    BY <2>2
  <2>7. PICK t \in Call : t = waits
    BY <2>5 DEF GoesOn
  <2>8. t = [Top EXCEPT !.pc = place, !.w = w]
    BY <2>7
  <2> HIDE DEF call, waits
  <2>9. Keeps
    BY <2>1, KeepsDisk
  <2>10. CallDone(c)' /\ c.pc = "copy"
    BY <2>2, <2>6 DEF CallDone, WantsDirLeft, RequiresLeft
  <2>11. CallDone(t)
    BY <2>3, <2>4, <2>5, <2>7 DEF GoesOn, CallDone, WantsDirLeft, RequiresLeft, EnablePlaces
  <2>12. CallDone(t)'
    BY <2>9, <2>11, DoneKept
  <2>13. DoneInv' /\ Top' = c
    BY <2>1, <2>4, <2>6, <2>8, <2>9, <2>10, <2>12, DoneCalls DEF EnableInv
  <2>14. RetInv'
    BY <2>10, <2>13 DEF RetInv
  <2>15. PoolActive'
    BY <2>1, <2>9, PoolActiveKept DEF EnableInv
  <2>16. QED
    BY <2>13, <2>14, <2>15 DEF EnableInv
<1>3. QED
  BY <1>1, <1>2

LEMMA OtherUnitDone ==
  ASSUME PoolTyped, EnableInv, NEW at \in {"requires", "wants"}, At(at),
         NEW place \in {"required", "wanted"}, at = "requires" <=> place = "required",
         NEW w \in Names,
         \/ w \in DOMAIN pool /\ EnableOther(PoolCall(w), w, place)
         \/ w \in DOMAIN library /\ EnableOther(LibraryCall(w), w, place)
  PROVE  EnableInv'
<1>1. CASE w \in DOMAIN pool /\ EnableOther(PoolCall(w), w, place)
  <2>1. /\ pool[w].unit \in UnitFile /\ pool[w].deps \in SUBSET Names
    BY <1>1, PoolFacts DEF PoolTyped
  <2>2. EnableOther(EnableCall(w, pool[w].unit, pool[w].deps), w, place)
    BY <1>1 DEF PoolCall
  <2>3. QED
    BY <2>1, <2>2, EnableOtherDone
<1>2. CASE w \in DOMAIN library /\ EnableOther(LibraryCall(w), w, place)
  <2>1. library[w] \in UnitFile /\ {} \in SUBSET Names
    BY <1>2, LibraryType DEF PoolTyped
  <2>2. EnableOther(EnableCall(w, library[w], {}), w, place)
    BY <1>2 DEF LibraryCall
  <2>3. QED
    BY <2>1, <2>2, EnableOtherDone
<1>3. QED
  BY <1>1, <1>2

LEMMA EnableRequiredDone ==
  ASSUME PoolTyped, EnableInv, NEW r \in Names, EnableRequired(r)
  PROVE  EnableInv'
<1>1. "requires" \in EnablePlaces /\ At("requires") /\ r \in Top.todo
  BY DEF EnablePlaces, EnableRequired
<1>2. /\ Top \in Call /\ stack # << >> /\ CallDone(Top) /\ Top.pc = "requires"
      /\ cmd.op = "enable" /\ pc = "units"
      /\ Top.todo \ {r} \in SUBSET Names /\ Top.deps \cup {r} \in SUBSET Names
  BY <1>1, TopDone, CallFields
<1>3. CASE r \in DOMAIN library \ DOMAIN pool /\ EnableOther(LibraryCall(r), r, "required")
  BY <1>1, <1>3, OtherUnitDone
<1>4. CASE /\ r \in DOMAIN pool
           /\ Continue([Top EXCEPT !.deps = @ \cup {r}, !.todo = @ \ {r}])
           /\ StepUnchanged /\ UNCHANGED <<diskVars, scmVars, poolVars>>
  <2> DEFINE call == [Top EXCEPT !.deps = @ \cup {r}, !.todo = @ \ {r}]
  <2>1. Continue(call) /\ pool' = pool /\ nulls' = nulls
    BY <1>4 DEF poolVars
  <2>2. GoesOn(call, Top, Top.pc, Top.todo \ {r}, Top.w)
    BY <1>2, CallDepsTodo, Zenon
  <2>3. PICK c \in Call : c = call
    BY <2>2 DEF GoesOn
  <2> HIDE DEF call
  <2>4. Keeps
    BY <1>4, <2>1, KeepsDisk
  <2>5. r \in Active
    BY <1>2, <1>4 DEF EnableInv, PoolActive, At
  <2>6. CallDone(c) /\ c.pc # "required"
    BY <1>2, <2>2, <2>3, <2>5 DEF GoesOn, CallDone, WantsDirLeft, RequiresLeft, EnablePlaces
  <2>7. CallDone(c)'
    BY <2>4, <2>6, DoneKept
  <2>8. PoolActive'
    BY <1>1, <1>4, <2>1, <2>4, PoolActiveKept DEF EnableInv
  <2>9. QED
    BY <1>2, <1>4, <2>1, <2>3, <2>4, <2>6, <2>7, <2>8, EnableStays
<1>5. CASE /\ r \notin DOMAIN library \cup DOMAIN pool
           /\ nulls' = nulls \cup {r}
           /\ Return(FALSE)
           /\ StepUnchanged /\ UNCHANGED <<diskVars, scmVars, pool>>
  <2>1. Keeps /\ pool' = pool /\ FALSE \in BOOLEAN
    BY <1>5, KeepsDisk
  <2>2. PoolActive'
    BY <1>1, <1>5, <2>1, PoolActiveKept DEF EnableInv
  <2>3. QED
    BY <1>2, <1>5, <2>1, <2>2, EnableReturns
<1>6. QED
  BY <1>3, <1>4, <1>5 DEF EnableRequired

LEMMA EnableWantedDone ==
  ASSUME PoolTyped, EnableInv, NEW w \in Names, EnableWanted(w)
  PROVE  EnableInv'
<1>1. At("wants")
  BY DEF EnableWanted
<1>2. CASE Die("null")
  BY <1>2, EndDone DEF Die
<1>3. CASE ~Die("null")
  BY <1>1, <1>3, OtherUnitDone DEF EnableWanted
<1>4. QED
  BY <1>2, <1>3

LEMMA EnableRegisterDone ==
  ASSUME PoolTyped, EnableInv, EnableRegister
  PROVE  EnableInv'
<1>1. /\ "register" \in EnablePlaces /\ At("register") /\ Return(TRUE) /\ TRUE \in BOOLEAN
      /\ StepUnchanged /\ UNCHANGED <<diskVars, poolVars>> /\ pool' = pool /\ nulls' = nulls
  BY DEF EnablePlaces, EnableRegister, poolVars
<1>2. /\ stack # << >> /\ CallDone(Top) /\ Top.pc = "register" /\ Top.name \in Names
  BY <1>1, TopDone, CallFields
<1>3. Top.name \in Active
  BY <1>2 DEF CallDone, EnablePlaces, Active
<1>4. Keeps
  BY <1>1, KeepsDisk
<1>5. PoolActive'
  BY <1>1, <1>4, PoolActiveKept DEF EnableInv
<1>6. QED
  BY <1>1, <1>2, <1>3, <1>4, <1>5, EnableReturns

LEMMA EnableDone ==
  ASSUME PoolTyped, EnableInv, Enable
  PROVE  EnableInv'
BY EnableCopyDone, EnableWriteDone, CopyWantedDone, WriteWantedDone, LinkWantedDone, LoopsDone,
   ReturnedDone, EnableRegisterDone, LoadWantedDone, EnableRequiredDone, EnableWantedDone
   DEF Enable

\* No other step makes a call of Enable that has done anything.
LEMMA OtherDone ==
  ASSUME PoolTyped, PoolTyped', EnableInv, [Next]_vars, ~Enable
  PROVE  EnableInv'
<1>1. DoneInv' /\ RetInv'
  <2>1. CASE stack' = << >>
    <3>1. Len(stack') = 0
      BY <2>1
    <3>2. QED
      BY <2>1, <3>1 DEF DoneInv, RetInv
  <2>2. CASE stack' # << >> /\ (Mask \/ Unmask)
    <3>1. cmd' = cmd /\ stack # << >>
      BY <2>2 DEF Mask, Unmask, MaskLinks, MaskUnregister, MaskRemove, UnmaskRestore, UnmaskRewrite,
         StepUnchanged, At
    <3>2. cmd.op \in {"mask", "daemon-reload", "unmask"}
      <4>1. PICK at \in MaskPlaces \cup UnmaskPlaces : At(at)
        BY <2>2 DEF Mask, Unmask, MaskLinks, MaskUnregister, MaskRemove, UnmaskRestore,
           UnmaskRewrite, MaskPlaces, UnmaskPlaces
      <4>2. at \in Places(cmd.op)
        BY <4>1, TopFacts DEF Place
      <4>3. QED
        BY <4>1, <4>2, PlacesOfMask, PlacesOfUnmask
    <3>3. Places(cmd'.op) \cap EnablePlaces = {}
      BY <3>1, <3>2 DEF Places, EnablePlaces, MaskPlaces, UnmaskPlaces
    <3>4. \A i \in 1..Len(stack') : stack'[i].pc \notin EnablePlaces
      BY <3>3 DEF PoolTyped, StackInLibrary
    <3>5. DoneInv'
      BY <3>4 DEF DoneInv, CallDone
    <3>6. Len(stack') \in 1..Len(stack')
      <4>1. StackOK'
        BY DEF PoolTyped, TypeOK
      <4>2. Len(stack') \in Nat \ {0}
        BY <2>2, <4>1, LenProperties, EmptySeq DEF StackOK
      <4>3. QED
        BY <4>2
    <3>7. Top'.pc \notin EnablePlaces
      BY <3>4, <3>6 DEF Top
    <3>8. QED
      BY <3>5, <3>7 DEF RetInv, EnablePlaces
  <2>3. CASE UNCHANGED <<library, diskVars, pc, cmd, poolVars, todo, stack, ret>>
    <3>1. Top' = Top /\ Active' = Active /\ nulls' = nulls
      BY <2>3 DEF Top, Active, Linked, diskVars, poolVars
    <3>2. RetInv'
      BY <2>3, <3>1 DEF EnableInv, RetInv
    <3>3. Keeps
      BY <2>3, <3>1 DEF Keeps, diskVars
    <3>4. DoneInv'
      <4>1. SUFFICES ASSUME NEW i \in 1..Len(stack')
                     PROVE  CallDone(stack[i])'
        BY DEF DoneInv
      <4>2. i \in 1..Len(stack) /\ stack'[i] = stack[i]
        BY <2>3
      <4>3. QED
        BY <3>3, <4>2, BelowDone DEF EnableInv
    <3>5. QED
      BY <3>2, <3>4
  <2>4. CASE \E call \in Call : stack' = <<call>> /\ call.pc \in {"copy", "links", "restore"}
    <3>1. PICK call \in Call : stack' = <<call>> /\ call.pc \in {"copy", "links", "restore"}
      BY <2>4
    <3>2. Len(stack') = 1 /\ stack'[1] = call /\ Top' = call
      BY <3>1 DEF Top
    <3>3. \A i \in 1..Len(stack') : stack'[i].pc \in {"copy", "links", "restore"}
      BY <3>1, <3>2
    <3>4. DoneInv'
      BY <3>3 DEF DoneInv, CallDone, EnablePlaces, WantsDirLeft, RequiresLeft
    <3>5. QED
      BY <3>1, <3>2, <3>4 DEF RetInv
  <2>5. QED
    BY <2>1, <2>2, <2>3, <2>4, OtherSteps
<1>2. PoolActive'
  <2>1. CASE stack' # << >> /\ ~Mask /\ ~Unmask
    <3>1. /\ UNCHANGED <<diskVars, pc, pool>> /\ cmd'.op = cmd.op
          /\ stack = << >> \/ stack' = stack
      BY <2>1, OtherSteps DEF poolVars
    <3>2. Active' = Active
      BY <3>1 DEF Active, Linked, diskVars
    <3>3. QED
      BY <3>1, <3>2 DEF EnableInv, PoolActive, At, Top
  <2>2. CASE Mask \/ Unmask
    <3>1. cmd' = cmd
      BY <2>2 DEF Mask, Unmask, MaskLinks, MaskUnregister, MaskRemove, UnmaskRestore, UnmaskRewrite,
         StepUnchanged
    <3>2. PICK at \in MaskPlaces \cup UnmaskPlaces : At(at)
      BY <2>2 DEF Mask, Unmask, MaskLinks, MaskUnregister, MaskRemove, UnmaskRestore,
         UnmaskRewrite, MaskPlaces, UnmaskPlaces
    <3>3. at \in Places(cmd.op)
      BY <3>2, TopFacts DEF Place
    <3>4. cmd.op # "enable"
      BY <3>2, <3>3, PlacesOfMask, PlacesOfUnmask
    <3>5. QED
      BY <3>1, <3>4 DEF PoolActive
  <2>3. CASE stack' = << >> /\ ~Mask /\ ~Unmask
    <3>1. SUFFICES ASSUME pc' = "units", cmd'.op = "enable"
                   PROVE  DOMAIN pool' \subseteq Active'
      BY DEF PoolActive
    <3>2. CASE PoolLoaded
      BY <3>2 DEF PoolLoaded, PoolTyped, PhaseInv, Active, Linked, diskVars, poolVars
    <3>3. CASE ~PoolLoaded
      <4>1. /\ pc = "units" /\ cmd.op = "enable" /\ pool' = pool /\ UNCHANGED diskVars
            /\ stack = << >>
        <5>1. CASE ParseArgs
          <6>1. CASE DisableCommand \/ StartCommand \/ StopCommand \/ KillCommand
            <7>1. /\ cmd.units # << >> /\ NextUnit /\ pc = "units" /\ stack = << >>
                  /\ pool' = pool /\ UNCHANGED diskVars /\ cmd.op # "enable"
              BY <6>1 DEF DisableCommand, StartCommand, StopCommand, KillCommand, AtUnit,
                 CommandUnchanged, poolVars
            <7>2. QED
              BY <3>1, <7>1, NextUnitTyped DEF PoolTyped
          <6>2. CASE MaskCommand \/ UnmaskCommand \/ EnableCommand
            BY <2>3, <3>1, <6>2 DEF MaskCommand, UnmaskCommand, EnableCommand, EndProcess
          <6>3. CASE NoSuchUnit \/ TooManyUnits \/ CommandDone \/ IsEnabledCommand \/ IsActiveCommand
            BY <3>1, <6>3 DEF NoSuchUnit, TooManyUnits, CommandDone, IsEnabledCommand,
               IsActiveCommand, Answer, EndProcess
          <6>4. QED
            BY <5>1, <6>1, <6>2, <6>3 DEF ParseArgs
        <5>2. CASE ReloadPool
          BY <3>1, <5>2 DEF ReloadPool, ReadLibrary, ReloadDone, ReloadMask, RegisterUnit, Die,
             EndProcess
        <5>3. CASE Killed \/ \E c \in Commands : Invoke(c)
          BY <3>1, <5>3 DEF Killed, EndProcess, Invoke
        <5>4. ASSUME NEW n \in Names, QueryRegister(n)
              PROVE  FALSE
          BY <3>1, <5>4 DEF QueryRegister
        <5>5. CASE UNCHANGED vars \/ \E n \in Names : ServiceStops(n)
          BY <2>3, <3>1, <5>5 DEF vars, ServiceStops, poolVars
        <5>6. QED
          BY <2>3, <3>3, <5>1, <5>2, <5>3, <5>4, <5>5 DEF Next, Process, LoadPool
      <4>2. \A r \in DOMAIN pool : r \in Active
        BY <4>1 DEF EnableInv, PoolActive, At
      <4>3. QED
        BY <4>1, <4>2 DEF Active, Linked, diskVars
    <3>4. QED
      BY <3>2, <3>3
  <2>4. QED
    BY <2>1, <2>2, <2>3
<1>3. QED
  BY <1>1, <1>2 DEF EnableInv

LEMMA EnableInvariant == Spec => [](PoolTyped /\ EnableInv)
<1>1. Init => PoolTyped /\ EnableInv
  <2> SUFFICES ASSUME Init PROVE EnableInv
    BY InitTyped
  <2>1. stack = << >> /\ Len(stack) = 0 /\ pc = "off"
    BY DEF Init
  <2>2. QED
    BY <2>1 DEF EnableInv, DoneInv, RetInv, PoolActive
<1>2. PoolTyped /\ EnableInv /\ [Next]_vars => PoolTyped' /\ EnableInv'
  BY StepTyped, EnableDone, OtherDone
<1>3. QED
  BY <1>1, <1>2, PTL DEF Spec

(* Enable gets past the Requires of a unit only when each of them is in    *)
(* the active directory, so that the next command finds and registers it:  *)
(* for every library, wherever a command was killed before.                *)
THEOREM RequiredBecomesActive == Spec => []RequiredIsActive
<1>1. DoneInv => RequiredIsActive
  BY DEF DoneInv, RequiredIsActive, Calls, CallDone, RequiresLeft, EnablePlaces
<1>2. QED
  BY <1>1, EnableInvariant, PTL DEF EnableInv

(* Enable gets past the library's .wants directory of a unit only when     *)
(* each unit file in it has its copy and its link, or was passed over for  *)
(* a null entry in the pool.                                               *)
THEOREM WantedBecomesLinked == Spec => []WantedIsLinked
<1>1. DoneInv => WantedIsLinked
  BY DEF DoneInv, WantedIsLinked, Calls, CallDone, WantsDirLeft, Settled, EnablePlaces
<1>2. QED
  BY <1>1, EnableInvariant, PTL DEF EnableInv

-----------------------------------------------------------------------------
(* The active directory.                                                   *)

\* Once the links of a unit are gone they do not come back before its file goes.
MaskInv == At("unregister") \/ At("remove") => \A w \in Names : link[<<Top.name, w>>] = "none"

\* What daemon-reload has still to remove.
ReloadInv ==
  pc \in {"reload", "register"} =>
    \A n \in Names : file[n] # "none" =>
      pc = "reload" /\ (n \in todo \/ (stack # << >> /\ Top.name = n))

\* Inductive with PoolTyped and EnableInv.
DiskInv == LinkHasParent /\ MaskInv /\ ReloadInv

\* Mask and Unmask do not call one another.
LEMMA MaskIsAlone ==
  ASSUME PoolTyped, NEW at \in MaskPlaces \cup UnmaskPlaces, At(at)
  PROVE  /\ Len(stack) = 1 /\ Top \in Call /\ Top.name \in Names /\ Top.pc = at
         /\ at \in MaskPlaces => cmd.op \in {"mask", "daemon-reload"}
         /\ at \in UnmaskPlaces => cmd.op = "unmask" /\ pc = "units"
<1>1. at \in Place /\ stack # << >>
  BY DEF Place, At
<1>2. /\ Top \in Call /\ Top.name \in Names /\ Top.pc = at /\ at \in Places(cmd.op)
      /\ at \in MaskPlaces => cmd.op \in {"mask", "daemon-reload"}
      /\ at \in UnmaskPlaces => cmd.op = "unmask"
  BY <1>1, TopFacts, PlacesOfMask, PlacesOfUnmask
<1>3. Len(stack) = 1
  <2>1. SUFFICES ASSUME Len(stack) # 1 PROVE FALSE
    OBVIOUS
  <2>2. 1 \in 1..Len(stack)
    BY <1>1, StackFacts DEF PoolTyped
  <2>3. stack[1].pc \in {"required", "wanted"} /\ stack[1].pc \in Places(cmd.op)
    BY <2>1, <2>2 DEF PoolTyped, StackInLibrary
  <2>4. QED
    BY <1>2, <2>3 DEF Places, MaskPlaces, UnmaskPlaces
<1>4. at \in UnmaskPlaces => pc = "units"
  BY <1>1, <1>2 DEF PoolTyped, PhaseInv
<1>5. QED
  BY <1>2, <1>3, <1>4

LEMMA MaskReturns ==
  ASSUME PoolTyped, NEW at \in MaskPlaces \cup UnmaskPlaces, At(at),
         library' = library, cmd' = cmd, NEW result \in BOOLEAN, Return(result)
  PROVE  stack' = << >>
<1>1. stack # << >> /\ Len(stack) = 1
  BY MaskIsAlone DEF At
<1>2. Len(stack') = 0 /\ StackOK'
  BY <1>1, StackReturns DEF PoolTyped
<1>3. QED
  BY <1>2, EmptySeq, LenProperties DEF StackOK

\* The steps of Enable make files and links, never a link before the unit's file.
LEMMA EnableOnDisk ==
  ASSUME PoolTyped, EnableInv, Enable
  PROVE  /\ \A n \in Names : file[n] # "none" => file'[n] # "none"
         /\ \A p, w \in Names : link'[<<p, w>>] # "none" => link[<<p, w>>] # "none" \/ file[p] # "none"
         /\ pc \notin {"reload", "register"} /\ pc' \notin {"reload", "register"}
         /\ stack' # << >> => Places(cmd'.op) = EnablePlaces
<1>1. PICK at \in EnablePlaces : At(at)
  BY DEF Enable, EnableCopy, EnableWrite, CopyWanted, WriteWanted, LinkWanted, WantsDirDone,
     RequiredReturns, RequiresDone, WantedReturns, WantsDone, EnableRegister, LoadWanted,
     EnableRequired, EnableWanted, EnablePlaces
<1>2. /\ Top \in Call /\ CallDone(Top) /\ Top.pc = at /\ cmd.op = "enable" /\ pc = "units"
      /\ Top.name \in Names /\ Top.w \in Names
  BY <1>1, TopDone, CallFields
<1>3. (pc' = pc /\ cmd' = cmd) \/ (pc' = "off" /\ stack' = << >>)
  BY DEF Enable, EnableCopy, EnableWrite, CopyWanted, WriteWanted, LinkWanted, WantsDirDone,
     RequiredReturns, RequiresDone, WantedReturns, WantsDone, EnableRegister, LoadWanted,
     EnableRequired, EnableWanted, EnableOther, Die, EndProcess, StepUnchanged
<1>4. \/ UNCHANGED diskVars
      \/ link' = link /\ \E n \in Names, c \in {"empty", "whole"} : file' = [file EXCEPT ![n] = c]
      \/ /\ file' = file /\ At("link")
         /\ \E c : link' = [link EXCEPT ![<<Top.name, Top.w>>] = c]
  <2>1. CASE EnableCopy
    BY <1>2, <2>1 DEF EnableCopy, diskVars
  <2>2. CASE EnableWrite
    BY <1>2, <2>2 DEF EnableWrite, diskVars
  <2>3. CASE CopyWanted
    BY <1>2, <2>3 DEF CopyWanted, diskVars
  <2>4. CASE WriteWanted
    BY <1>2, <2>4 DEF WriteWanted, diskVars
  <2>5. CASE LinkWanted
    BY <2>5 DEF LinkWanted
  <2>6. CASE \/ WantsDirDone \/ RequiredReturns \/ RequiresDone \/ WantedReturns \/ WantsDone
             \/ EnableRegister \/ \E n \in Names : LoadWanted(n) \/ EnableRequired(n) \/ EnableWanted(n)
    BY <2>6 DEF WantsDirDone, RequiredReturns, RequiresDone, WantedReturns, WantsDone, EnableRegister,
       LoadWanted, EnableRequired, EnableWanted, EnableOther, Die
  <2>7. QED
    BY <2>1, <2>2, <2>3, <2>4, <2>5, <2>6 DEF Enable
<1>5. \A n \in Names : file[n] # "none" => file'[n] # "none"
  BY <1>4 DEF diskVars, PoolTyped, TypeOK, DiskOK
<1>6. \A p, w \in Names : link'[<<p, w>>] # "none" => link[<<p, w>>] # "none" \/ file[p] # "none"
  <2>1. CASE link' = link
    BY <2>1
  <2>2. CASE At("link") /\ \E c : link' = [link EXCEPT ![<<Top.name, Top.w>>] = c]
    <3>1. file[Top.name] # "none"
      BY <1>2, <2>2 DEF At, CallDone
    <3>2. \A e \in Names \X Names : e # <<Top.name, Top.w>> => link'[e] = link[e]
      BY <2>2 DEF PoolTyped, TypeOK, DiskOK
    <3>3. QED
      BY <3>1, <3>2
  <2>3. QED
    BY <1>4, <2>1, <2>2 DEF diskVars
<1>7. QED
  BY <1>2, <1>3, <1>5, <1>6 DEF Places

LEMMA EnableDiskInv ==
  ASSUME PoolTyped, PoolTyped', EnableInv, DiskInv, Enable
  PROVE  DiskInv'
<1>1. LinkHasParent' /\ ReloadInv'
  BY EnableOnDisk DEF DiskInv, LinkHasParent, ReloadInv
<1>2. MaskInv'
  <2>1. SUFFICES ASSUME stack' # << >>, Top'.pc \in {"unregister", "remove"} PROVE FALSE
    BY DEF MaskInv, At
  <2>2. Len(stack') \in 1..Len(stack')
    <3>1. StackOK'
      BY DEF PoolTyped, TypeOK
    <3>2. Len(stack') \in Nat \ {0}
      BY <2>1, <3>1, LenProperties, EmptySeq DEF StackOK
    <3>3. QED
      BY <3>2
  <2>3. Top'.pc \in EnablePlaces
    BY <2>1, <2>2, EnableOnDisk DEF PoolTyped, StackInLibrary, Top
  <2>4. QED
    BY <2>1, <2>3 DEF EnablePlaces
<1>3. QED
  BY <1>1, <1>2 DEF DiskInv

LEMMA MaskLinksOnDisk ==
  ASSUME PoolTyped, DiskInv, MaskLinks
  PROVE  DiskInv'
<1>1. /\ At("links") /\ StepUnchanged /\ file' = file /\ pc' = pc /\ todo' = todo
      /\ "links" \in MaskPlaces \cup UnmaskPlaces
  BY DEF MaskLinks, StepUnchanged, MaskPlaces
<1>2. /\ Top \in Call /\ Top.name \in Names /\ Top.pc = "links" /\ stack # << >>
      /\ "unregister" \in Place
  BY <1>1, MaskIsAlone DEF At, Place, MaskPlaces
<1>3. ASSUME NEW w \in Names, link' = [link EXCEPT ![<<Top.name, w>>] = "none"], stack' = stack
      PROVE  DiskInv'
  <2>1. Top' = Top
    BY <1>3 DEF Top
  <2>2. \A p, x \in Names : link'[<<p, x>>] # "none" => link[<<p, x>>] # "none"
    <3>1. \A e \in Names \X Names : link'[e] # "none" => link[e] # "none"
      BY <1>3 DEF PoolTyped, TypeOK, DiskOK
    <3>2. QED
      BY <3>1
  <2>3. LinkHasParent'
    BY <1>1, <2>2 DEF DiskInv, LinkHasParent
  <2>4. MaskInv'
    BY <1>2, <2>1 DEF MaskInv, At
  <2>5. ReloadInv'
    BY <1>1, <1>3, <2>1 DEF DiskInv, ReloadInv
  <2>6. QED
    BY <2>3, <2>4, <2>5 DEF DiskInv
<1>4. ASSUME \A w \in Names : link[<<Top.name, w>>] = "none",
             Continue([Top EXCEPT !.pc = "unregister"]), link' = link
      PROVE  DiskInv'
  <2>1. GoesOn([Top EXCEPT !.pc = "unregister"], Top, "unregister", Top.todo, Top.w)
    BY <1>2, CallPc, Zenon
  <2>2. Top'.name = Top.name /\ stack' # << >>
    BY <1>2, <1>4, <2>1, StackContinued DEF GoesOn, PoolTyped
  <2>3. LinkHasParent' /\ MaskInv' /\ ReloadInv'
    BY <1>1, <1>2, <1>4, <2>2 DEF DiskInv, LinkHasParent, MaskInv, ReloadInv
  <2>4. QED
    BY <2>3 DEF DiskInv
<1>5. QED
  BY <1>3, <1>4 DEF MaskLinks

LEMMA MaskUnregisterOnDisk ==
  ASSUME PoolTyped, DiskInv, MaskUnregister
  PROVE  DiskInv'
<1>1. /\ At("unregister") /\ StepUnchanged /\ file' = file /\ link' = link /\ pc' = pc
      /\ todo' = todo /\ "unregister" \in MaskPlaces \cup UnmaskPlaces
      /\ Continue([Top EXCEPT !.pc = "remove"])
  BY DEF MaskUnregister, StepUnchanged, MaskPlaces, diskVars
<1>2. /\ Top \in Call /\ Top.name \in Names /\ stack # << >> /\ "remove" \in Place
  BY <1>1, MaskIsAlone DEF At, Place, MaskPlaces
<1>3. GoesOn([Top EXCEPT !.pc = "remove"], Top, "remove", Top.todo, Top.w)
  BY <1>2, CallPc, Zenon
<1>4. Top'.name = Top.name /\ stack' # << >>
  BY <1>1, <1>2, <1>3, StackContinued DEF GoesOn, PoolTyped
<1>5. LinkHasParent' /\ MaskInv' /\ ReloadInv'
  BY <1>1, <1>2, <1>4 DEF DiskInv, LinkHasParent, MaskInv, ReloadInv
<1>6. QED
  BY <1>5 DEF DiskInv

LEMMA MaskRemoveOnDisk ==
  ASSUME PoolTyped, DiskInv, MaskRemove
  PROVE  DiskInv'
<1>1. /\ At("remove") /\ StepUnchanged /\ link' = link /\ pc' = pc /\ todo' = todo
      /\ "remove" \in MaskPlaces \cup UnmaskPlaces /\ cmd' = cmd /\ library' = library
      /\ Return(FALSE) /\ FALSE \in BOOLEAN /\ file' = [file EXCEPT ![Top.name] = "none"]
  BY DEF MaskRemove, StepUnchanged, MaskPlaces
<1>2. Top.name \in Names /\ stack # << >> /\ stack' = << >>
  BY <1>1, MaskIsAlone, MaskReturns DEF At
<1>3. \A n \in Names : file'[n] = IF n = Top.name THEN "none" ELSE file[n]
  BY <1>1, <1>2 DEF PoolTyped, TypeOK, DiskOK
<1>4. LinkHasParent'
  BY <1>1, <1>3 DEF DiskInv, LinkHasParent, MaskInv
<1>5. MaskInv'
  BY <1>2 DEF MaskInv, At
<1>6. ReloadInv'
  BY <1>1, <1>2, <1>3 DEF DiskInv, ReloadInv
<1>7. QED
  BY <1>4, <1>5, <1>6 DEF DiskInv

LEMMA UnmaskOnDisk ==
  ASSUME PoolTyped, DiskInv, Unmask
  PROVE  DiskInv'
<1>1. PICK at \in UnmaskPlaces : At(at)
  BY DEF Unmask, UnmaskRestore, UnmaskRewrite, UnmaskPlaces
<1>2. pc = "units" /\ Top \in Call /\ stack # << >> /\ Top.name \in Names /\ "rewrite" \in Place
  BY <1>1, MaskIsAlone DEF At, Place, UnmaskPlaces
<1>3. /\ pc' = pc /\ link' = link /\ cmd' = cmd /\ library' = library
      /\ \A n \in Names : file[n] # "none" => file'[n] # "none"
  BY <1>2 DEF Unmask, UnmaskRestore, UnmaskRewrite, StepUnchanged, PoolTyped, TypeOK, DiskOK
<1>4. \/ Return(TRUE)
      \/ Continue([Top EXCEPT !.pc = "rewrite"])
  BY DEF Unmask, UnmaskRestore, UnmaskRewrite
<1>5. LinkHasParent' /\ ReloadInv'
  BY <1>2, <1>3 DEF DiskInv, LinkHasParent, ReloadInv
<1>6. MaskInv'
  <2>1. CASE Return(TRUE)
    <3>1. stack' = << >>
      BY <1>1, <1>3, <2>1, MaskReturns
    <3>2. QED
      BY <3>1 DEF MaskInv, At
  <2>2. CASE Continue([Top EXCEPT !.pc = "rewrite"])
    <3>1. GoesOn([Top EXCEPT !.pc = "rewrite"], Top, "rewrite", Top.todo, Top.w)
      BY <1>2, CallPc, Zenon
    <3>2. Top'.pc = "rewrite"
      BY <1>2, <2>2, <3>1, StackContinued DEF GoesOn, PoolTyped
    <3>3. QED
      BY <3>2 DEF MaskInv, At
  <2>3. QED
    BY <1>4, <2>1, <2>2
<1>7. QED
  BY <1>5, <1>6 DEF DiskInv

\* The rest of the process leaves the disk alone.
LEMMA OthersLeaveDisk ==
  ASSUME [Next]_vars, ~Enable, ~Mask, ~Unmask
  PROVE  UNCHANGED diskVars
<1>1. CASE ParseArgs
  BY <1>1 DEF ParseArgs, NoSuchUnit, TooManyUnits, EnableCommand, DisableCommand, MaskCommand,
     UnmaskCommand, StartCommand, StopCommand, KillCommand, IsEnabledCommand, IsActiveCommand,
     CommandDone, Answer, CommandUnchanged
<1>2. CASE LoadPool \/ Killed \/ \E c \in Commands : Invoke(c)
  BY <1>2 DEF LoadPool, PoolLoaded, QueryRegister, Killed, Invoke
<1>3. CASE ReloadPool
  BY <1>3 DEF ReloadPool, ReadLibrary, ReloadDone, ReloadMask, RegisterUnit, Die
<1>4. CASE UNCHANGED vars \/ \E n \in Names : ServiceStops(n)
  BY <1>4 DEF vars, ServiceStops
<1>5. QED
  BY <1>1, <1>2, <1>3, <1>4 DEF Next, Process

LEMMA OthersReload ==
  ASSUME PoolTyped, ReloadInv, [Next]_vars, ~Enable, ~Mask, ~Unmask
  PROVE  ReloadInv'
<1>1. file' = file
  BY OthersLeaveDisk DEF diskVars
<1>2. CASE ParseArgs
  <2>1. pc = "units" /\ pc' \in {"units", "off"}
    BY <1>2 DEF ParseArgs, NoSuchUnit, TooManyUnits, EnableCommand, DisableCommand, MaskCommand,
       UnmaskCommand, StartCommand, StopCommand, KillCommand, IsEnabledCommand, IsActiveCommand,
       CommandDone, Answer, CommandUnchanged, AtUnit, EndProcess
  <2>2. QED
    BY <2>1 DEF ReloadInv
<1>3. CASE Killed \/ \E c \in Commands : Invoke(c)
  BY <1>3 DEF Killed, Invoke, EndProcess, ReloadInv
<1>4. CASE PoolLoaded
  BY <1>1, <1>4 DEF PoolLoaded, ReloadInv
<1>5. ASSUME NEW n \in Names, QueryRegister(n)
      PROVE  ReloadInv'
  BY <1>5 DEF QueryRegister, ReloadInv
<1>6. CASE ReadLibrary
  BY <1>1, <1>6 DEF ReadLibrary, ReloadInv
<1>7. CASE ReloadDone
  BY <1>7 DEF ReloadDone, EndProcess, ReloadInv
<1>8. ASSUME NEW n \in Names, ReloadMask(n)
      PROVE  ReloadInv'
  <2>1. /\ pc = "reload" /\ stack = << >> /\ n \in todo /\ todo' = todo \ {n} /\ pc' = pc
        /\ stack' = <<OtherCall("Mask", n, "links")>>
    BY <1>8 DEF ReloadMask
  <2>2. "links" \in Place /\ {} \in SUBSET Names
    BY DEF Place, MaskPlaces
  <2>3. OtherCall("Mask", n, "links").name = n
    BY <1>8, <2>2, NoUnitType, CallTypes
  <2>4. stack' # << >> /\ Top'.name = n
    BY <2>1, <2>3 DEF Top
  <2>5. QED
    BY <1>1, <2>1, <2>4 DEF ReloadInv
<1>9. ASSUME NEW n \in Names, RegisterUnit(n)
      PROVE  ReloadInv'
  BY <1>1, <1>9 DEF RegisterUnit, Die, EndProcess, ReloadInv
<1>10. CASE UNCHANGED vars \/ \E n \in Names : ServiceStops(n)
  <2>1. pc' = pc /\ todo' = todo /\ stack' = stack /\ Top' = Top
    BY <1>10 DEF vars, ServiceStops, Top
  <2>2. QED
    BY <1>1, <2>1 DEF ReloadInv
<1>11. QED
  BY <1>2, <1>3, <1>4, <1>5, <1>6, <1>7, <1>8, <1>9, <1>10 DEF Next, Process, LoadPool, ReloadPool

LEMMA OthersOnDisk ==
  ASSUME PoolTyped, DiskInv, [Next]_vars, ~Enable, ~Mask, ~Unmask
  PROVE  DiskInv'
<1>1. file' = file /\ link' = link
  BY OthersLeaveDisk DEF diskVars
<1>2. LinkHasParent'
  BY <1>1 DEF DiskInv, LinkHasParent
<1>3. MaskInv'
  <2>1. CASE stack' = << >>
    BY <2>1 DEF MaskInv, At
  <2>2. CASE stack' = stack
    BY <1>1, <2>2 DEF DiskInv, MaskInv, At, Top
  <2>3. CASE \E call \in Call : stack' = <<call>> /\ call.pc \in {"copy", "links", "restore"}
    <3>1. Top'.pc \in {"copy", "links", "restore"}
      BY <2>3 DEF Top
    <3>2. QED
      BY <3>1 DEF MaskInv, At
  <2>4. QED
    BY <2>1, <2>2, <2>3, OtherSteps
<1>4. ReloadInv'
  BY OthersReload DEF DiskInv
<1>5. QED
  BY <1>2, <1>3, <1>4 DEF DiskInv

LEMMA DiskInvariant == Spec => [](PoolTyped /\ EnableInv /\ DiskInv)
<1>1. Init => PoolTyped /\ EnableInv /\ DiskInv
  <2> SUFFICES ASSUME Init PROVE EnableInv /\ DiskInv
    BY InitTyped
  <2>1. stack = << >> /\ Len(stack) = 0 /\ pc = "off" /\ \A e \in Names \X Names : link[e] = "none"
    BY DEF Init
  <2>2. EnableInv
    BY <2>1 DEF EnableInv, DoneInv, RetInv, PoolActive
  <2>3. LinkHasParent /\ MaskInv /\ ReloadInv
    BY <2>1 DEF LinkHasParent, MaskInv, ReloadInv, At
  <2>4. QED
    BY <2>2, <2>3 DEF DiskInv
<1>2. PoolTyped /\ EnableInv /\ DiskInv /\ [Next]_vars => PoolTyped' /\ EnableInv' /\ DiskInv'
  BY StepTyped, EnableDone, OtherDone, EnableDiskInv, MaskLinksOnDisk, MaskUnregisterOnDisk,
     MaskRemoveOnDisk, UnmaskOnDisk, OthersOnDisk DEF Mask
<1>3. QED
  BY <1>1, <1>2, PTL DEF Spec

(* A .wants directory of the active directory has links only while its own *)
(* unit's file is there: for every library and all commands, wherever they *)
(* are killed and whatever calls to the SCM fail.                          *)
THEOREM LinksHaveParents == Spec => []LinkHasParent
BY DiskInvariant, PTL DEF DiskInv

(* When daemon-reload comes to register the units, the active directory is *)
(* empty: the walk has masked every unit that had a file, and no link      *)
(* outlives its parent.                                                    *)
THEOREM ReloadStartsClean == Spec => []ReloadClears
<1>1. PoolTyped /\ DiskInv => ReloadClears
  <2> SUFFICES ASSUME PoolTyped, DiskInv, pc = "register"
               PROVE  /\ \A n \in Names : file[n] = "none"
                      /\ \A e \in Names \X Names : link[e] = "none"
    BY DEF ReloadClears
  <2>1. \A n \in Names : file[n] = "none"
    BY DEF DiskInv, ReloadInv
  <2>2. \A p, w \in Names : link[<<p, w>>] = "none"
    BY <2>1 DEF DiskInv, LinkHasParent
  <2>3. QED
    BY <2>1, <2>2
<1>2. QED
  BY <1>1, DiskInvariant, PTL

-----------------------------------------------------------------------------
(* The unit files are whole.                                               *)

CopyPlaces == {"write", "writeWanted", "rewrite"}
NoneEmpty == \A n \in Names : file[n] # "empty"
LinksWhole == \A e \in Names \X Names : link[e] # "empty"

LEMMA NotCopying ==
  ASSUME FilesAreWhole, "kill" \notin Faults
  PROVE  /\ LinksWhole
         /\ stack = << >> \/ Top.pc \notin CopyPlaces => NoneEmpty
         /\ \A n \in Names : file[n] = "empty" =>
              \/ At("write") /\ Top.name = n
              \/ At("writeWanted") /\ Top.w = n
              \/ At("rewrite") /\ Top.name = n
BY DEF FilesAreWhole, LinksWhole, NoneEmpty, Copying, CopyPlaces, At

LEMMA WholeAgain ==
  ASSUME NoneEmpty', LinksWhole'
  PROVE  FilesAreWhole'
BY DEF NoneEmpty, LinksWhole, FilesAreWhole

\* A copy makes its file...
LEMMA CopyWhole ==
  ASSUME PoolTyped, FilesAreWhole, "kill" \notin Faults, EnableCopy \/ CopyWanted \/ UnmaskRestore
  PROVE  FilesAreWhole'
<1>1. PICK at \in {"copy", "copyWanted", "restore"} : At(at)
  BY DEF EnableCopy, CopyWanted, UnmaskRestore
<1>2. /\ Top \in Call /\ stack # << >> /\ Top.pc = at /\ Top.name \in Names /\ Top.w \in Names
      /\ CopyPlaces \subseteq Place
  BY <1>1, TopFacts DEF Place, EnablePlaces, UnmaskPlaces, CopyPlaces
<1>3. NoneEmpty /\ LinksWhole /\ link' = link
  BY <1>2, NotCopying DEF CopyPlaces, EnableCopy, CopyWanted, UnmaskRestore
<1>4. CASE UNCHANGED file
  BY <1>3, <1>4, WholeAgain DEF NoneEmpty, LinksWhole
<1>5. ASSUME NEW to \in CopyPlaces, NEW n \in Names, Continue([Top EXCEPT !.pc = to]),
             n = IF to = "writeWanted" THEN Top.w ELSE Top.name, file' = [file EXCEPT ![n] = "empty"]
      PROVE  FilesAreWhole'
  <2> DEFINE call == [Top EXCEPT !.pc = to]
  <2>1. to \in Place
    BY <1>2
  <2>2. GoesOn(call, Top, to, Top.todo, Top.w)
    BY <1>2, <2>1, CallPc, Zenon
  <2>3. call \in Call /\ Continue(call)
    BY <1>5, <2>2 DEF GoesOn
  <2> HIDE DEF call
  <2>4. Top' = call /\ stack' # << >>
    BY <1>2, <2>3, StackContinued DEF PoolTyped
  <2>5. \A m \in Names : file'[m] = "empty" => m = n
    BY <1>3, <1>5 DEF NoneEmpty, PoolTyped, TypeOK, DiskOK
  <2>6. Copying(n)'
    BY <1>5, <2>2, <2>4 DEF GoesOn, Copying, At, CopyPlaces
  <2>7. \A m \in Names : file'[m] = "empty" => Copying(m)'
    BY <2>5, <2>6 DEF Copying
  <2>8. QED
    BY <1>3, <2>7 DEF FilesAreWhole, LinksWhole
<1>6. QED
  <2>1. CASE EnableCopy
    BY <1>2, <1>4, <1>5, <2>1 DEF EnableCopy, CopyPlaces
  <2>2. CASE CopyWanted
    BY <1>2, <1>4, <1>5, <2>2 DEF CopyWanted, CopyPlaces
  <2>3. CASE UnmaskRestore
    BY <1>2, <1>4, <1>5, <2>3 DEF UnmaskRestore, CopyPlaces
  <2>4. QED
    BY <2>1, <2>2, <2>3

\* ...and fills it before anything else happens.
LEMMA WriteWhole ==
  ASSUME PoolTyped, FilesAreWhole, "kill" \notin Faults, EnableWrite \/ WriteWanted \/ UnmaskRewrite
  PROVE  FilesAreWhole'
<1>1. PICK at \in CopyPlaces : /\ At(at)
                               /\ file' = [file EXCEPT ![IF at = "writeWanted" THEN Top.w ELSE Top.name] = "whole"]
  BY DEF EnableWrite, WriteWanted, UnmaskRewrite, CopyPlaces
<1>2. Top.name \in Names /\ Top.w \in Names /\ Top.pc = at
  BY <1>1, TopFacts DEF Place, EnablePlaces, UnmaskPlaces, CopyPlaces
<1>3. LinksWhole /\ link' = link
  BY NotCopying DEF EnableWrite, WriteWanted, UnmaskRewrite
<1>4. \A n \in Names : file[n] = "empty" => n = IF at = "writeWanted" THEN Top.w ELSE Top.name
  BY <1>1, <1>2, NotCopying DEF At, CopyPlaces
<1>5. NoneEmpty'
  BY <1>1, <1>2, <1>4 DEF NoneEmpty, PoolTyped, TypeOK, DiskOK
<1>6. QED
  BY <1>3, <1>5, WholeAgain DEF LinksWhole

LEMMA LinkWhole ==
  ASSUME PoolTyped, FilesAreWhole, "kill" \notin Faults, LinkWanted
  PROVE  FilesAreWhole'
<1>1. "link" \in Place /\ At("link") /\ file' = file
  BY DEF LinkWanted, Place, EnablePlaces
<1>2. Top.pc = "link" /\ Top.w \in Names
  BY <1>1, TopFacts
<1>3. NoneEmpty /\ LinksWhole
  BY <1>2, NotCopying DEF CopyPlaces
<1>4. LinksWhole'
  <2> DEFINE content == IF link[<<Top.name, Top.w>>] = "none" THEN file[Top.w]
                        ELSE link[<<Top.name, Top.w>>]
  <2>1. link' = [link EXCEPT ![<<Top.name, Top.w>>] = content]
    BY DEF LinkWanted
  <2>2. \A e \in Names \X Names : e # <<Top.name, Top.w>> => link'[e] = link[e]
    BY <2>1 DEF PoolTyped, TypeOK, DiskOK
  <2>3. <<Top.name, Top.w>> \in Names \X Names
    BY <1>1, TopFacts
  <2>4. content # "empty"
    BY <1>2, <1>3, <2>3 DEF NoneEmpty, LinksWhole
  <2>5. link'[<<Top.name, Top.w>>] = content
    BY <2>1, <2>3 DEF PoolTyped, TypeOK, DiskOK
  <2> HIDE DEF content
  <2>6. QED
    BY <1>3, <2>2, <2>4, <2>5 DEF LinksWhole
<1>5. QED
  BY <1>1, <1>3, <1>4, WholeAgain DEF NoneEmpty

LEMMA MaskWhole ==
  ASSUME PoolTyped, FilesAreWhole, "kill" \notin Faults, Mask
  PROVE  FilesAreWhole'
<1>1. PICK at \in MaskPlaces : At(at)
  BY DEF Mask, MaskLinks, MaskUnregister, MaskRemove, MaskPlaces
<1>2. Top.pc = at /\ Top.name \in Names
  BY <1>1, MaskIsAlone
<1>3. NoneEmpty /\ LinksWhole
  BY <1>2, NotCopying DEF CopyPlaces, MaskPlaces
<1>4. CASE MaskLinks
  BY <1>2, <1>3, <1>4, WholeAgain DEF MaskLinks, NoneEmpty, LinksWhole, PoolTyped, TypeOK, DiskOK
<1>5. CASE MaskUnregister
  BY <1>3, <1>5, WholeAgain DEF MaskUnregister, NoneEmpty, LinksWhole, diskVars
<1>6. CASE MaskRemove
  BY <1>2, <1>3, <1>6, WholeAgain DEF MaskRemove, NoneEmpty, LinksWhole, PoolTyped, TypeOK, DiskOK
<1>7. QED
  BY <1>4, <1>5, <1>6 DEF Mask

\* The other steps write nothing, and none takes place during a copy but the end
\* of a service.
LEMMA OthersWhole ==
  ASSUME PoolTyped, FilesAreWhole, "kill" \notin Faults, [Next]_vars,
         ~EnableCopy, ~CopyWanted, ~EnableWrite, ~WriteWanted, ~LinkWanted, ~Mask, ~Unmask
  PROVE  FilesAreWhole'
<1>1. file' = file /\ link' = link
  <2>1. CASE Enable
    BY <2>1 DEF Enable, WantsDirDone, RequiredReturns, RequiresDone, WantedReturns, WantsDone,
       EnableRegister, LoadWanted, EnableRequired, EnableWanted, EnableOther, Die, diskVars
  <2>2. CASE ~Enable
    BY <2>2, OthersLeaveDisk DEF diskVars
  <2>3. QED
    BY <2>1, <2>2
<1>2. CASE NoneEmpty
  BY <1>1, <1>2, NotCopying, WholeAgain DEF NoneEmpty, LinksWhole
<1>3. CASE stack' = stack
  BY <1>1, <1>3 DEF FilesAreWhole, Copying, At, Top
<1>4. NoneEmpty \/ stack' = stack
  <2>1. CASE Enable
    <3>1. PICK at \in EnablePlaces \ CopyPlaces : At(at)
      BY <2>1 DEF Enable, WantsDirDone, RequiredReturns, RequiresDone, WantedReturns, WantsDone,
         EnableRegister, LoadWanted, EnableRequired, EnableWanted, EnablePlaces, CopyPlaces
    <3>2. QED
      BY <3>1, NotCopying DEF At
  <2>2. CASE ~Enable /\ stack' # << >>
    <3>1. stack = << >> \/ stack' = stack
      BY <2>2, OtherSteps
    <3>2. QED
      BY <3>1, NotCopying
  <2>3. CASE ~Enable /\ stack' = << >>
    <3>1. stack = << >>
      <4>1. CASE ParseArgs
        BY <4>1 DEF ParseArgs, NoSuchUnit, TooManyUnits, EnableCommand, DisableCommand, MaskCommand,
           UnmaskCommand, StartCommand, StopCommand, KillCommand, IsEnabledCommand,
           IsActiveCommand, CommandDone, AtUnit
      <4>2. CASE LoadPool
        BY <2>3, <4>2 DEF LoadPool, PoolLoaded, QueryRegister
      <4>3. CASE \E c \in Commands : Invoke(c)
        BY <2>3, <4>3 DEF Invoke
      <4>4. CASE ReloadPool
        BY <4>4 DEF ReloadPool, ReadLibrary, ReloadDone, ReloadMask, RegisterUnit, PoolTyped, PhaseInv
      <4>5. CASE UNCHANGED vars \/ \E n \in Names : ServiceStops(n)
        BY <2>3, <4>5 DEF vars, ServiceStops
      <4>6. ~Killed
        BY DEF Killed
      <4>7. QED
        BY <2>3, <4>1, <4>2, <4>3, <4>4, <4>5, <4>6 DEF Next, Process
    <3>2. QED
      BY <3>1, NotCopying
  <2>4. QED
    BY <2>1, <2>2, <2>3
<1>5. QED
  BY <1>2, <1>3, <1>4

(* As long as no process is killed, a unit file in the active directory is *)
(* whole once its copy has returned, and so is every link that is made to  *)
(* it: none is registered, linked or read half written, whatever calls to  *)
(* the SCM fail.                                                           *)
THEOREM CopiesAreWhole == Spec => []FilesAreWhole
<1>1. Init => FilesAreWhole
  BY DEF Init, FilesAreWhole
<1>2. PoolTyped /\ FilesAreWhole /\ [Next]_vars => FilesAreWhole'
  <2>1. SUFFICES ASSUME PoolTyped, FilesAreWhole, [Next]_vars, "kill" \notin Faults
                 PROVE  FilesAreWhole'
    BY DEF FilesAreWhole
  <2>2. QED
    BY <2>1, CopyWhole, WriteWhole, LinkWhole, MaskWhole, OthersWhole DEF Unmask
<1>3. QED
  BY <1>1, <1>2, PoolInvariant, PTL DEF Spec

-----------------------------------------------------------------------------
(* The life of a unit: UnitPool implements UnitLifecycle.                  *)

Installed == {n \in Names : file[n] # "none"} \ Listed
RegisteredUnits == {n \in Names : Known(n)} \ Listed

LifecycleStep == [Lifecycle!Next]_<<Installed, RegisteredUnits>>

\* Mask removes the file of a unit that it has unregistered.
RemoveInv == At("remove") => ~Known(Top.name)

NoReload == cmd.op # "daemon-reload"

LEMMA LifecycleSteps ==
  ASSUME NEW n \in Names,
         \/ UNCHANGED <<Installed, RegisteredUnits>>
         \/ Installed' = Installed \cup {n} /\ RegisteredUnits' = RegisteredUnits
         \/ n \in Installed /\ RegisteredUnits' = RegisteredUnits \cup {n} /\ Installed' = Installed
         \/ RegisteredUnits' = RegisteredUnits \ {n} /\ Installed' = Installed
         \/ /\ n \notin RegisteredUnits /\ Installed' = Installed \ {n}
            /\ RegisteredUnits' = RegisteredUnits
  PROVE  LifecycleStep
BY DEF LifecycleStep, Lifecycle!Next, Lifecycle!Install, Lifecycle!Register, Lifecycle!Unregister,
   Lifecycle!Remove, Installed, RegisteredUnits

LEMMA StutterStep ==
  ASSUME library' = library, file' = file, UNCHANGED scmVars
  PROVE  LifecycleStep
<1>1. UNCHANGED <<Installed, RegisteredUnits>>
  BY DEF Installed, RegisteredUnits, Listed, Known, Registered, scmVars
<1>2. QED
  BY <1>1 DEF LifecycleStep

LEMMA FileStep ==
  ASSUME PoolTyped, library' = library, UNCHANGED scmVars, NEW n \in Names, NEW content,
         file' = [file EXCEPT ![n] = content], content = "none" => ~Known(n)
  PROVE  LifecycleStep
<1>1. \A m \in Names : file'[m] = IF m = n THEN content ELSE file[m]
  BY DEF PoolTyped, TypeOK, DiskOK
<1>2. RegisteredUnits' = RegisteredUnits /\ Listed' = Listed
  BY DEF RegisteredUnits, Listed, Known, Registered, scmVars
<1>3. CASE content = "none"
  <2>1. Installed' = Installed \ {n}
    BY <1>1, <1>2, <1>3 DEF Installed
  <2>2. n \notin RegisteredUnits
    BY <1>3 DEF RegisteredUnits
  <2>3. QED
    BY <1>2, <2>1, <2>2, LifecycleSteps
<1>4. CASE content # "none"
  <2>1. Installed' = Installed \cup {n} \/ Installed' = Installed
    BY <1>1, <1>2, <1>4 DEF Installed
  <2>2. QED
    BY <1>2, <2>1, LifecycleSteps
<1>5. QED
  BY <1>3, <1>4

\* Whether a service is known changes at one unit at most.
LEMMA ServiceStep ==
  ASSUME library' = library, file' = file, NEW n \in Names,
         \A m \in Names : m # n => (Known(m)' <=> Known(m)),
         Known(n)' /\ ~Known(n) /\ n \notin Listed => file[n] # "none"
  PROVE  LifecycleStep
<1>1. Installed' = Installed /\ Listed' = Listed
  BY DEF Installed, Listed
<1>2. CASE n \in Listed \/ (Known(n)' <=> Known(n))
  <2>1. \A m \in Names : m \in RegisteredUnits' <=> m \in RegisteredUnits
    BY <1>1, <1>2 DEF RegisteredUnits
  <2>2. RegisteredUnits' = RegisteredUnits
    BY <2>1 DEF RegisteredUnits
  <2>3. QED
    BY <1>1, <2>2, LifecycleSteps
<1>3. CASE n \notin Listed /\ Known(n)' /\ ~Known(n)
  <2>1. n \in Installed
    BY <1>3 DEF Installed
  <2>2. RegisteredUnits' = RegisteredUnits \cup {n}
    BY <1>1, <1>3 DEF RegisteredUnits
  <2>3. QED
    BY <1>1, <2>1, <2>2, LifecycleSteps
<1>4. CASE n \notin Listed /\ ~Known(n)' /\ Known(n)
  <2>1. RegisteredUnits' = RegisteredUnits \ {n}
    BY <1>1, <1>4 DEF RegisteredUnits
  <2>2. QED
    BY <1>1, <2>1, LifecycleSteps
<1>5. QED
  BY <1>2, <1>3, <1>4

LEMMA RegisterStep ==
  ASSUME PoolTyped, library' = library, file' = file, NEW n \in Names, NEW d,
         RegisterService(n, d), n \notin Listed => file[n] # "none"
  PROVE  LifecycleStep
<1>1. \A m \in Names : m # n => (Known(m)' <=> Known(m))
  BY DEF RegisterService, Known, Registered, PoolTyped, TypeOK, ScmOK, scmVars
<1>2. QED
  BY <1>1, ServiceStep

LEMMA UnregisterStep ==
  ASSUME PoolTyped, library' = library, file' = file, NEW n \in Names, UnregisterService(n)
  PROVE  LifecycleStep /\ (Known(n)' => "scm" \in Faults)
<1>1. /\ svc \in [Names -> {"none", "stopped", "running", "stopping"}]
      /\ marked \subseteq {m \in Names : svc[m] \in {"running", "stopping"}}
  BY DEF PoolTyped, TypeOK, ScmOK
<1>2. CASE svc[n] = "stopped" /\ Delete(n)
  <2>1. ~Known(n)' /\ \A m \in Names : m # n => (Known(m)' <=> Known(m))
    BY <1>1, <1>2 DEF Delete, Known, Registered
  <2>2. QED
    BY <2>1, ServiceStep
<1>3. CASE marked' = marked \cup {n} /\ UNCHANGED <<svc, deps>>
  <2>1. ~Known(n)' /\ \A m \in Names : m # n => (Known(m)' <=> Known(m))
    BY <1>1, <1>3 DEF Known, Registered
  <2>2. QED
    BY <2>1, ServiceStep
<1>4. CASE (~Registered(n) \/ "scm" \in Faults) /\ UNCHANGED scmVars
  <2>1. \A m \in Names : Known(m)' <=> Known(m)
    BY <1>4 DEF Known, Registered, scmVars
  <2>2. Known(n) => "scm" \in Faults
    BY <1>4 DEF Known
  <2>3. QED
    BY <2>1, <2>2, ServiceStep
<1>5. QED
  BY <1>2, <1>3, <1>4 DEF UnregisterService

\* Starting, stopping and ending a service make none known or unknown.
LEMMA RunStep ==
  ASSUME PoolTyped, library' = library, file' = file, NEW n \in Names,
         \/ StartService(n) \/ StopService(n) \/ ServiceStops(n)
  PROVE  LifecycleStep /\ \A m \in Names : Known(m)' => Known(m)
<1>1. /\ svc \in [Names -> {"none", "stopped", "running", "stopping"}]
      /\ marked \subseteq {m \in Names : svc[m] \in {"running", "stopping"}}
  BY DEF PoolTyped, TypeOK, ScmOK
<1>2. \A m \in Names : Known(m)' <=> Known(m)
  <2>1. CASE StartService(n)
    BY <1>1, <2>1 DEF StartService, Known, Registered, scmVars
  <2>2. CASE StopService(n)
    BY <1>1, <2>2 DEF StopService, Known, Registered, scmVars
  <2>3. CASE ServiceStops(n)
    BY <1>1, <2>3 DEF ServiceStops, Delete, Known, Registered
  <2>4. QED
    BY <2>1, <2>2, <2>3
<1>3. QED
  BY <1>2, ServiceStep

LEMMA CommandSteps ==
  ASSUME [Next]_vars
  PROVE  \/ cmd' = cmd \/ cmd' = NoCommand \/ cmd' \in Commands
         \/ NextUnit /\ cmd.units # << >>
<1>1. CASE Enable \/ Mask \/ Unmask
  BY <1>1 DEF Enable, EnableCopy, EnableWrite, CopyWanted, WriteWanted, LinkWanted, WantsDirDone,
     RequiredReturns, RequiresDone, WantedReturns, WantsDone, EnableRegister, LoadWanted,
     EnableRequired, EnableWanted, EnableOther, Die, EndProcess, Mask, MaskLinks, MaskUnregister,
     MaskRemove, Unmask, UnmaskRestore, UnmaskRewrite, StepUnchanged
<1>2. CASE ParseArgs
  BY <1>2 DEF ParseArgs, NoSuchUnit, TooManyUnits, EnableCommand, DisableCommand, MaskCommand,
     UnmaskCommand, StartCommand, StopCommand, KillCommand, IsEnabledCommand, IsActiveCommand,
     CommandDone, Answer, AtUnit, EndProcess
<1>3. CASE LoadPool \/ Killed \/ ReloadPool
  BY <1>3 DEF LoadPool, PoolLoaded, QueryRegister, Killed, ReloadPool, ReadLibrary, ReloadDone,
     ReloadMask, RegisterUnit, Die, EndProcess
<1>4. CASE UNCHANGED vars \/ (\E c \in Commands : Invoke(c)) \/ \E n \in Names : ServiceStops(n)
  BY <1>4 DEF vars, Invoke, ServiceStops
<1>5. QED
  BY <1>1, <1>2, <1>3, <1>4 DEF Next, Process

LEMMA NoReloadStays ==
  ASSUME PoolTyped, NoReload, [Next]_vars, \A c \in Commands : c.op # "daemon-reload"
  PROVE  NoReload'
<1>1. NoCommand.op = "kill"
  BY DEF NoCommand
<1>2. CASE NextUnit /\ cmd.units # << >>
  BY <1>2, NextUnitTyped DEF NoReload, PoolTyped
<1>3. CASE cmd' = cmd \/ cmd' = NoCommand \/ cmd' \in Commands
  BY <1>1, <1>3 DEF NoReload
<1>4. QED
  BY <1>2, <1>3, CommandSteps

\* Where the last call is, after a step that keeps the command.
LEMMA PlaceAfter ==
  ASSUME PoolTyped', stack' # << >>
  PROVE  Top'.pc \in Places(cmd'.op)
<1>1. stack' \in Seq(Call)
  BY DEF PoolTyped, TypeOK, StackOK
<1>2. Len(stack') \in Nat \ {0}
  BY <1>1, LenProperties, EmptySeq
<1>3. Len(stack') \in 1..Len(stack')
  BY <1>2
<1>4. QED
  BY <1>3 DEF PoolTyped, StackInLibrary, Top

LEMMA UnregisteredBeforeRemove ==
  ASSUME PoolTyped, RemoveInv, MaskUnregister, "scm" \notin Faults
  PROVE  RemoveInv'
<1>1. /\ At("unregister") /\ UnregisterService(Top.name) /\ Continue([Top EXCEPT !.pc = "remove"])
      /\ library' = library /\ file' = file
  BY DEF MaskUnregister, StepUnchanged, diskVars
<1>2. /\ "unregister" \in MaskPlaces \cup UnmaskPlaces /\ "remove" \in Place /\ stack # << >>
  BY <1>1 DEF MaskPlaces, Place, At
<1>3. Top \in Call /\ Top.name \in Names
  BY <1>1, <1>2, MaskIsAlone
<1> DEFINE call == [Top EXCEPT !.pc = "remove"]
<1>4. GoesOn(call, Top, "remove", Top.todo, Top.w)
  BY <1>2, <1>3, CallPc, Zenon
<1>5. call \in Call /\ call.name = Top.name
  BY <1>4 DEF GoesOn
<1>6. Continue(call)
  BY <1>1
<1> HIDE DEF call
<1>7. Top' = call
  BY <1>2, <1>5, <1>6, StackContinued DEF PoolTyped
<1>8. PICK n \in Names : n = Top.name
  BY <1>3
<1>9. ~Known(n)' /\ Top'.name = n
  BY <1>1, <1>5, <1>7, <1>8, UnregisterStep
<1>10. Known(Top.name)' => Known(n)'
  BY <1>9 DEF Known, Registered
<1>11. QED
  BY <1>9, <1>10 DEF RemoveInv

LEMMA RemoveStays ==
  ASSUME PoolTyped, PoolTyped', NoReload, RemoveInv, [Next]_vars, "scm" \notin Faults
  PROVE  RemoveInv'
<1>1. SUFFICES ASSUME stack' # << >>, Top'.pc = "remove"
               PROVE  RemoveInv'
  BY DEF RemoveInv, At
<1>2. "remove" \in Places(cmd'.op)
  BY <1>1, PlaceAfter
<1>3. CASE Enable
  <2>1. PICK at \in EnablePlaces : At(at)
    BY <1>3 DEF Enable, EnableCopy, EnableWrite, CopyWanted, WriteWanted, LinkWanted, WantsDirDone,
       RequiredReturns, RequiresDone, WantedReturns, WantsDone, EnableRegister, LoadWanted,
       EnableRequired, EnableWanted, EnablePlaces
  <2>2. at \in Place
    BY DEF Place
  <2>3. cmd.op = "enable"
    BY <2>1, <2>2, TopFacts, PlacesOfEnable
  <2>4. cmd' = cmd \/ stack' = << >>
    BY <1>3 DEF Enable, EnableCopy, EnableWrite, CopyWanted, WriteWanted, LinkWanted, WantsDirDone,
       RequiredReturns, RequiresDone, WantedReturns, WantsDone, EnableRegister, LoadWanted,
       EnableRequired, EnableWanted, EnableOther, Die, EndProcess, StepUnchanged
  <2>5. QED
    BY <1>1, <1>2, <2>3, <2>4 DEF Places, EnablePlaces
<1>4. CASE Unmask
  <2>1. PICK at \in UnmaskPlaces : At(at)
    BY <1>4 DEF Unmask, UnmaskRestore, UnmaskRewrite, UnmaskPlaces
  <2>2. cmd.op = "unmask" /\ cmd' = cmd
    BY <1>4, <2>1, MaskIsAlone DEF Unmask, UnmaskRestore, UnmaskRewrite, StepUnchanged
  <2>3. QED
    BY <1>2, <2>2 DEF Places, UnmaskPlaces
<1>5. CASE MaskLinks
  <2>1. At("links") /\ "links" \in Place /\ "unregister" \in Place
    BY <1>5 DEF MaskLinks, Place, MaskPlaces
  <2>2. stack # << >> /\ Top \in Call /\ Top.pc = "links"
    BY <2>1, TopFacts
  <2>3. CASE stack' = stack
    BY <1>1, <2>2, <2>3 DEF Top
  <2>4. CASE Continue([Top EXCEPT !.pc = "unregister"])
    <3> DEFINE call == [Top EXCEPT !.pc = "unregister"]
    <3>1. GoesOn(call, Top, "unregister", Top.todo, Top.w)
      BY <2>1, <2>2, CallPc, Zenon
    <3>2. call \in Call /\ call.pc = "unregister"
      BY <3>1 DEF GoesOn
    <3>3. Continue(call)
      BY <2>4
    <3> HIDE DEF call
    <3>4. Top' = call
      BY <2>2, <3>2, <3>3, StackContinued DEF PoolTyped
    <3>5. QED
      BY <1>1, <3>2, <3>4
  <2>5. QED
    BY <1>5, <2>3, <2>4 DEF MaskLinks
<1>6. CASE MaskUnregister
  BY <1>6, UnregisteredBeforeRemove
<1>7. CASE MaskRemove
  <2>1. At("remove") /\ Return(FALSE) /\ library' = library /\ cmd' = cmd
    BY <1>7 DEF MaskRemove, StepUnchanged
  <2>2. "remove" \in MaskPlaces /\ FALSE \in BOOLEAN
    BY DEF MaskPlaces
  <2>3. QED
    BY <1>1, <2>1, <2>2, MaskReturns
<1>8. CASE ~Enable /\ ~Mask /\ ~Unmask
  <2>1. CASE \E call \in Call : stack' = <<call>> /\ call.pc \in {"copy", "links", "restore"}
    <3>1. Top'.pc \in {"copy", "links", "restore"}
      BY <2>1 DEF Top
    <3>2. QED
      BY <1>1, <3>1
  <2>2. CASE stack' = stack
    <3>1. At("remove") /\ Top' = Top /\ stack # << >>
      BY <1>1, <2>2 DEF At, Top
    <3>2. "remove" \in MaskPlaces \cup UnmaskPlaces
      BY DEF MaskPlaces
    <3>3. Top.name \in Names
      BY <3>1, <3>2, MaskIsAlone
    <3>4. PICK m \in Names : m = Top.name
      BY <3>3
    <3>5. Known(m)' => Known(m)
      <4>1. CASE UNCHANGED vars
        BY <4>1 DEF vars, scmVars, Known, Registered
      <4>2. ASSUME NEW n \in Names, ServiceStops(n)
            PROVE  Known(m)' => Known(m)
        <5>1. library' = library /\ file' = file
          BY <4>2 DEF ServiceStops, diskVars
        <5>2. QED
          BY <4>2, <5>1, RunStep
      <4>3. ~Killed /\ ~ParseArgs /\ ~LoadPool /\ ~ReloadPool /\ \A c \in Commands : ~Invoke(c)
        <5>1. pc \notin {"off", "load", "reload", "register"}
          BY <3>1 DEF PoolTyped, PhaseInv, NoReload
        <5>2. ~Killed
          BY <1>1 DEF Killed, EndProcess
        <5>3. ~ParseArgs
          BY <3>1 DEF ParseArgs, NoSuchUnit, TooManyUnits, EnableCommand, DisableCommand, MaskCommand,
             UnmaskCommand, StartCommand, StopCommand, KillCommand, IsEnabledCommand,
             IsActiveCommand, CommandDone, AtUnit
        <5>4. ~LoadPool /\ ~ReloadPool /\ \A c \in Commands : ~Invoke(c)
          BY <5>1 DEF LoadPool, PoolLoaded, QueryRegister, Invoke, ReloadPool, ReadLibrary,
             ReloadDone, ReloadMask, RegisterUnit
        <5>5. QED
          BY <5>2, <5>3, <5>4
      <4>4. QED
        BY <1>8, <4>1, <4>2, <4>3 DEF Next, Process
    <3>6. ~Known(m)
      BY <3>1, <3>4 DEF RemoveInv
    <3>7. Known(Top.name)' => Known(m)'
      BY <3>1, <3>4 DEF Known, Registered
    <3>8. QED
      BY <3>5, <3>6, <3>7 DEF RemoveInv
  <2>3. QED
    BY <1>1, <1>8, <2>1, <2>2, OtherSteps
<1>9. QED
  BY <1>3, <1>4, <1>5, <1>6, <1>7, <1>8 DEF Mask

LEMMA EnableLifecycle ==
  ASSUME PoolTyped, EnableInv, Enable
  PROVE  LifecycleStep
<1>1. library' = library
  BY DEF Enable, EnableCopy, EnableWrite, CopyWanted, WriteWanted, LinkWanted, WantsDirDone,
     RequiredReturns, RequiresDone, WantedReturns, WantsDone, EnableRegister, LoadWanted,
     EnableRequired, EnableWanted, EnableOther, Die, StepUnchanged
<1>2. CASE EnableCopy \/ EnableWrite \/ CopyWanted \/ WriteWanted
  <2>1. PICK at \in EnablePlaces : At(at)
    BY <1>2 DEF EnableCopy, EnableWrite, CopyWanted, WriteWanted, EnablePlaces
  <2>2. at \in Place
    BY DEF Place
  <2>3. Top.name \in Names /\ Top.w \in Names
    BY <2>1, <2>2, TopFacts
  <2>4. \/ UNCHANGED file
        \/ \E n \in {Top.name, Top.w}, content \in {"empty", "whole"} :
             file' = [file EXCEPT ![n] = content]
    BY <1>2 DEF EnableCopy, EnableWrite, CopyWanted, WriteWanted
  <2>5. UNCHANGED scmVars
    BY <1>2 DEF EnableCopy, EnableWrite, CopyWanted, WriteWanted
  <2>6. QED
    BY <1>1, <2>3, <2>4, <2>5, StutterStep, FileStep
<1>3. CASE EnableRegister
  <2>1. "register" \in EnablePlaces /\ At("register") /\ file' = file
    BY <1>3 DEF EnableRegister, EnablePlaces, diskVars
  <2>2. Top \in Call /\ CallDone(Top) /\ Top.pc = "register" /\ Top.name \in Names
    BY <2>1, TopDone, CallFields
  <2>3. file[Top.name] # "none"
    BY <2>2 DEF CallDone, EnablePlaces
  <2>4. CASE UNCHANGED scmVars
    BY <1>1, <2>1, <2>4, StutterStep
  <2>5. CASE RegisterService(Top.name, Top.deps)
    BY <1>1, <2>1, <2>2, <2>3, <2>5, RegisterStep
  <2>6. QED
    BY <1>3, <2>4, <2>5 DEF EnableRegister
<1>4. CASE ~EnableCopy /\ ~EnableWrite /\ ~CopyWanted /\ ~WriteWanted /\ ~EnableRegister
  <2>1. UNCHANGED scmVars /\ file' = file
    BY <1>4 DEF Enable, LinkWanted, WantsDirDone, RequiredReturns, RequiresDone, WantedReturns,
       WantsDone, LoadWanted, EnableRequired, EnableWanted, EnableOther, Die, diskVars
  <2>2. QED
    BY <1>1, <2>1, StutterStep
<1>5. QED
  BY <1>2, <1>3, <1>4

LEMMA MaskLifecycle ==
  ASSUME PoolTyped, RemoveInv, Mask \/ Unmask
  PROVE  LifecycleStep
<1>1. library' = library
  BY DEF Mask, MaskLinks, MaskUnregister, MaskRemove, Unmask, UnmaskRestore, UnmaskRewrite,
     StepUnchanged
<1>2. PICK at \in MaskPlaces \cup UnmaskPlaces : At(at)
  BY DEF Mask, MaskLinks, MaskUnregister, MaskRemove, Unmask, UnmaskRestore, UnmaskRewrite,
     MaskPlaces, UnmaskPlaces
<1>3. Top.name \in Names
  BY <1>2, MaskIsAlone
<1>4. CASE MaskLinks
  BY <1>1, <1>4, StutterStep DEF MaskLinks
<1>5. CASE MaskUnregister
  BY <1>1, <1>3, <1>5, UnregisterStep DEF MaskUnregister, diskVars
<1>6. CASE MaskRemove
  <2>1. /\ ~Known(Top.name) /\ UNCHANGED scmVars
        /\ file' = [file EXCEPT ![Top.name] = "none"]
    BY <1>6 DEF MaskRemove, RemoveInv
  <2>2. QED
    BY <1>1, <1>3, <2>1, FileStep
<1>7. CASE Unmask
  <2>1. /\ UNCHANGED scmVars
        /\ \/ UNCHANGED file
           \/ \E content \in {"empty", "whole"} : file' = [file EXCEPT ![Top.name] = content]
    BY <1>7 DEF Unmask, UnmaskRestore, UnmaskRewrite
  <2>2. QED
    BY <1>1, <1>3, <2>1, StutterStep, FileStep
<1>8. QED
  BY <1>4, <1>5, <1>6, <1>7 DEF Mask

LEMMA CommandLifecycle ==
  ASSUME PoolTyped, ParseArgs
  PROVE  LifecycleStep
<1>1. library' = library /\ file' = file
  BY DEF ParseArgs, NoSuchUnit, TooManyUnits, EnableCommand, DisableCommand, MaskCommand,
     UnmaskCommand, StartCommand, StopCommand, KillCommand, IsEnabledCommand, IsActiveCommand,
     CommandDone, Answer, CommandUnchanged, diskVars
<1>2. CASE DisableCommand \/ StartCommand \/ StopCommand
  <2>1. Unit \in Names
    BY <1>2, PoolFacts DEF DisableCommand, StartCommand, StopCommand, PoolTyped
  <2>2. UnregisterService(Unit) \/ StartService(Unit) \/ StopService(Unit)
    BY <1>2 DEF DisableCommand, StartCommand, StopCommand
  <2>3. QED
    BY <1>1, <2>1, <2>2, UnregisterStep, RunStep
<1>3. CASE ~DisableCommand /\ ~StartCommand /\ ~StopCommand
  <2>1. UNCHANGED scmVars
    BY <1>3 DEF ParseArgs, NoSuchUnit, TooManyUnits, EnableCommand, MaskCommand, UnmaskCommand,
       KillCommand, IsEnabledCommand, IsActiveCommand, CommandDone, Answer
  <2>2. QED
    BY <1>1, <2>1, StutterStep
<1>4. QED
  BY <1>2, <1>3

\* A unit that only a link makes active is in a .wants directory of the library.
LEMMA LoadLifecycle ==
  ASSUME PoolTyped, NEW n \in Names, QueryRegister(n)
  PROVE  LifecycleStep
<1>1. library' = library /\ file' = file /\ pc = "load" /\ n \in todo
  BY DEF QueryRegister, diskVars
<1>2. n \in Active
  BY <1>1 DEF PoolTyped, PhaseInv
<1>3. n \notin Listed => file[n] # "none"
  <2>1. SUFFICES ASSUME file[n] = "none" PROVE n \in Listed
    OBVIOUS
  <2>2. PICK p \in Names : link[<<p, n>>] # "none"
    BY <1>2, <2>1 DEF Active, Linked
  <2>3. p \in DOMAIN library /\ n \in library[p].wantsDir
    BY <2>2 DEF PoolTyped, DiskInLibrary
  <2>4. QED
    BY <2>3 DEF Listed
<1>4. CASE UNCHANGED scmVars
  BY <1>1, <1>4, StutterStep
<1>5. CASE RegisterService(n, pool[n].deps)
  BY <1>1, <1>3, <1>5, RegisterStep
<1>6. QED
  BY <1>4, <1>5 DEF QueryRegister

LEMMA NextLifecycle ==
  ASSUME PoolTyped, EnableInv, NoReload, RemoveInv, [Next]_vars
  PROVE  LifecycleStep
<1>1. CASE UNCHANGED vars
  BY <1>1, StutterStep DEF vars, diskVars
<1>2. CASE PoolLoaded \/ Killed \/ \E c \in Commands : Invoke(c)
  BY <1>2, StutterStep DEF PoolLoaded, Killed, Invoke, diskVars
<1>3. ASSUME NEW n \in Names, ServiceStops(n)
      PROVE  LifecycleStep
  <2>1. library' = library /\ file' = file
    BY <1>3 DEF ServiceStops, diskVars
  <2>2. QED
    BY <1>3, <2>1, RunStep
<1>4. ~ReloadPool
  BY DEF NoReload, PoolTyped, PhaseInv, ReloadPool, ReadLibrary, ReloadDone, ReloadMask, RegisterUnit
<1>5. QED
  BY <1>1, <1>2, <1>3, <1>4, EnableLifecycle, MaskLifecycle, CommandLifecycle, LoadLifecycle
     DEF Next, Process, LoadPool

(* A unit that no .wants directory of the library lists has its file       *)
(* installed before it is registered, and is unregistered before the file  *)
(* is removed: for every library and all commands but daemon-reload,       *)
(* wherever they are killed, as long as the calls to the SCM succeed (a    *)
(* failed unregistration is ignored by Mask).                              *)
THEOREM FileOutlivesService ==
  ASSUME \A c \in Commands : c.op # "daemon-reload", "scm" \notin Faults
  PROVE  Spec => LifecycleSpec
<1>1. Init => NoReload /\ RemoveInv
  BY DEF Init, NoCommand, NoReload, RemoveInv, At
<1>2. NoReload /\ RemoveInv /\ PoolTyped /\ PoolTyped' /\ [Next]_vars => NoReload' /\ RemoveInv'
  BY NoReloadStays, RemoveStays
<1>3. Init => Lifecycle!Init
  BY DEF Init, Lifecycle!Init, Known, Registered
<1>4. PoolTyped /\ EnableInv /\ NoReload /\ RemoveInv /\ [Next]_vars
        => [Lifecycle!Next]_<<{n \in Names : file[n] # "none"} \ Listed,
                              {n \in Names : Known(n)} \ Listed>>
  BY NextLifecycle DEF LifecycleStep, Installed, RegisteredUnits
<1>5. QED
  BY <1>1, <1>2, <1>3, <1>4, EnableInvariant, PTL DEF Spec, LifecycleSpec, Lifecycle!Spec

\* What UnitLifecycle promises, of the pool's files and services.
LEMMA LifecycleKeeps == LifecycleSpec => []Lifecycle!RegisteredIsInstalled
<1>1. Lifecycle!Init => Lifecycle!RegisteredIsInstalled
  BY DEF Lifecycle!Init, Lifecycle!RegisteredIsInstalled
<1>2. Lifecycle!RegisteredIsInstalled
        /\ [Lifecycle!Next]_<<{n \in Names : file[n] # "none"} \ Listed,
                              {n \in Names : Known(n)} \ Listed>>
        => Lifecycle!RegisteredIsInstalled'
  BY DEF Lifecycle!RegisteredIsInstalled, Lifecycle!Next, Lifecycle!Install,
         Lifecycle!Register, Lifecycle!Unregister, Lifecycle!Remove
<1>3. QED
  BY <1>1, <1>2, PTL DEF LifecycleSpec, Lifecycle!Spec

(* Under the same conditions a service that is not about to be deleted has *)
(* its unit file in the active directory, where its wrapper will look for  *)
(* it: at every moment, while a command runs and after one was killed.     *)
THEOREM ServiceHasFile ==
  ASSUME \A c \in Commands : c.op # "daemon-reload", "scm" \notin Faults
  PROVE  Spec => [](\A n \in Names \ Listed : Known(n) => file[n] # "none")
<1>1. Lifecycle!RegisteredIsInstalled => \A n \in Names \ Listed : Known(n) => file[n] # "none"
  BY DEF Lifecycle!RegisteredIsInstalled
<1>2. QED
  BY <1>1, FileOutlivesService, LifecycleKeeps, PTL

-----------------------------------------------------------------------------
(* The depth of the calls.                                                 *)

\* In a sound library there is no long chain of units each of which needs the next.
LEMMA ChainsAreShort ==
  ASSUME Sound, DOMAIN library \subseteq Names, IsFiniteSet(Names), NEW k \in Nat,
         Cardinality(Names) <= k,
         NEW chain \in [1..(k + 1) -> Names], \A i \in 1..(k + 1) : chain[i] \in DOMAIN library,
         \A i \in 1..k : chain[i + 1] \in Needs(chain[i])
  PROVE  FALSE
<1>1. IsFiniteSet(1..(k + 1)) /\ Cardinality(1..(k + 1)) = k + 1
  BY FS_Interval
<1>2. Cardinality(Names) \in Nat
  BY FS_CardinalityType
<1>3. Cardinality(Names) < Cardinality(1..(k + 1))
  BY <1>1, <1>2
<1>4. PICK x, y \in 1..(k + 1) : x # y /\ chain[x] = chain[y]
  BY <1>1, <1>3, FS_PigeonHole
<1>5. PICK p, q \in 1..(k + 1) : p < q /\ chain[p] = chain[q]
  BY <1>4
<1> DEFINE S == {chain[i] : i \in p..(q - 1)}
<1>6. S \in SUBSET DOMAIN library /\ S # {}
  <2>1. p \in p..(q - 1) /\ \A i \in p..(q - 1) : i \in 1..(k + 1)
    BY <1>5
  <2>2. QED
    BY <2>1
<1>7. PICK n \in S : Needs(n) \cap S = {}
  BY <1>6 DEF Sound
<1>8. PICK i \in p..(q - 1) : n = chain[i]
  BY <1>7
<1>9. i \in 1..k /\ (i + 1 \in p..(q - 1) \/ i + 1 = q) /\ p \in p..(q - 1)
  BY <1>5, <1>8
<1>10. chain[i + 1] \in Needs(n)
  BY <1>8, <1>9
<1>11. chain[i + 1] \in S
  BY <1>5, <1>9
<1>12. QED
  BY <1>7, <1>10, <1>11

\* Each call is of a unit that the caller's unit needs.
LEMMA CalleeIsNeeded ==
  ASSUME PoolTyped, NEW i \in 1..Len(stack), i # Len(stack)
  PROVE  stack[i].name \in DOMAIN library /\ stack[i + 1].name \in Needs(stack[i].name)
<1>1. /\ stack[i].pc \in {"required", "wanted"} /\ stack[i + 1].name = stack[i].w
      /\ CallInLibrary(stack[i])
  BY DEF PoolTyped, StackInLibrary
<1>2. QED
  BY <1>1 DEF CallInLibrary, FromLibrary, Needs

\* The stack has room for a call of a unit that the last one needs.
LEMMA StackHasRoom ==
  ASSUME PoolTyped, Sound, IsFiniteSet(Names), Cardinality(Names) <= MaxDepth,
         stack # << >>, NEW w \in DOMAIN library, w \in Needs(Top.name)
  PROVE  Len(stack) # MaxDepth
<1>1. SUFFICES ASSUME Len(stack) = MaxDepth PROVE FALSE
  OBVIOUS
<1>2. DOMAIN library \subseteq Names /\ MaxDepth \in Nat /\ Len(stack) \in 1..Len(stack)
  BY LibraryType, StackFacts, CommandsAssumption DEF PoolTyped
<1>3. \A i \in 1..Len(stack) : stack[i].name \in DOMAIN library
  BY DEF PoolTyped, StackInLibrary, CallInLibrary, FromLibrary
<1> DEFINE chain == [i \in 1..(MaxDepth + 1) |-> IF i = MaxDepth + 1 THEN w ELSE stack[i].name]
<1>4. \A i \in 1..(MaxDepth + 1) : chain[i] \in DOMAIN library
  BY <1>1, <1>2, <1>3
<1>5. chain \in [1..(MaxDepth + 1) -> Names]
  BY <1>2, <1>4
<1>6. ASSUME NEW i \in 1..MaxDepth
      PROVE  chain[i + 1] \in Needs(chain[i])
  <2>1. i \in 1..(MaxDepth + 1) /\ i + 1 \in 1..(MaxDepth + 1) /\ i # MaxDepth + 1
    BY <1>2
  <2>2. chain[i] = stack[i].name
    BY <2>1
  <2>3. CASE i = MaxDepth
    <3>1. chain[i + 1] = w /\ stack[i] = Top
      BY <1>1, <2>1, <2>3 DEF Top
    <3>2. QED
      BY <2>2, <3>1
  <2>4. CASE i # MaxDepth
    <3>1. chain[i + 1] = stack[i + 1].name
      BY <1>2, <2>1, <2>4
    <3>2. QED
      BY <1>1, <2>2, <2>4, <3>1, CalleeIsNeeded
  <2>5. QED
    BY <2>3, <2>4
<1> HIDE DEF chain
<1>7. QED
  BY <1>2, <1>4, <1>5, <1>6, ChainsAreShort

\* Enable never looks at a unit that has no file, and never calls itself too deep.
LEMMA EnableSurvives ==
  ASSUME PoolTyped, Sound, IsFiniteSet(Names), Cardinality(Names) <= MaxDepth, Enable
  PROVE  exit' = exit
<1>1. CASE ~(\E n \in Names : EnableRequired(n) \/ EnableWanted(n))
  BY <1>1 DEF Enable, EnableCopy, EnableWrite, CopyWanted, WriteWanted, LinkWanted, WantsDirDone,
     RequiredReturns, RequiresDone, WantedReturns, WantsDone, EnableRegister, LoadWanted,
     StepUnchanged
<1>2. ASSUME NEW n \in Names, EnableRequired(n)
      PROVE  exit' = exit
  <2>1. "requires" \in Place /\ At("requires") /\ n \in Top.todo
    BY <1>2 DEF EnableRequired, Place, EnablePlaces
  <2>2. stack # << >> /\ n \in Needs(Top.name)
    BY <2>1, TopFacts DEF CallInLibrary, FromLibrary, Needs
  <2>3. n \in DOMAIN library => Len(stack) # MaxDepth
    BY <2>2, StackHasRoom
  <2>4. QED
    BY <1>2, <2>3 DEF EnableRequired, EnableOther, StepUnchanged
<1>3. ASSUME NEW n \in Names, EnableWanted(n)
      PROVE  exit' = exit
  <2>1. "wants" \in Place /\ At("wants") /\ n \in Top.todo
    BY <1>3 DEF EnableWanted, Place, EnablePlaces
  <2>2. /\ stack # << >> /\ Top.name \in DOMAIN library
        /\ n \in library[Top.name].wants \cup library[Top.name].wantsDir
    BY <2>1, TopFacts DEF CallInLibrary, FromLibrary
  <2>3. n \in DOMAIN library /\ n \in Needs(Top.name)
    BY <2>2 DEF Sound, Needs
  <2>4. Len(stack) # MaxDepth
    BY <2>2, <2>3, StackHasRoom
  <2>5. QED
    BY <1>3, <2>3, <2>4 DEF EnableWanted, EnableOther, StepUnchanged
<1>4. QED
  BY <1>1, <1>2, <1>3

\* No other step ends the process so.
LEMMA OthersSurvive ==
  ASSUME exit \notin {"null", "overflow"}, [Next]_vars, ~Enable
  PROVE  exit' \notin {"null", "overflow"}
<1>1. CASE Mask \/ Unmask
  BY <1>1 DEF Mask, MaskLinks, MaskUnregister, MaskRemove, Unmask, UnmaskRestore, UnmaskRewrite,
     StepUnchanged
<1>2. CASE ParseArgs
  BY <1>2 DEF ParseArgs, NoSuchUnit, TooManyUnits, EnableCommand, DisableCommand, MaskCommand,
     UnmaskCommand, StartCommand, StopCommand, KillCommand, IsEnabledCommand, IsActiveCommand,
     CommandDone, Answer, EndProcess, CommandUnchanged
<1>3. CASE LoadPool \/ Killed \/ ReloadPool
  BY <1>3 DEF LoadPool, PoolLoaded, QueryRegister, Killed, ReloadPool, ReadLibrary, ReloadDone,
     ReloadMask, RegisterUnit, Die, EndProcess
<1>4. CASE UNCHANGED vars \/ (\E c \in Commands : Invoke(c)) \/ \E n \in Names : ServiceStops(n)
  BY <1>4 DEF vars, Invoke, ServiceStops
<1>5. QED
  BY <1>1, <1>2, <1>3, <1>4 DEF Next, Process

LEMMA LibraryUnchanged ==
  ASSUME [Next]_vars
  PROVE  library' = library
<1>1. CASE Enable \/ Mask \/ Unmask
  BY <1>1 DEF Enable, EnableCopy, EnableWrite, CopyWanted, WriteWanted, LinkWanted, WantsDirDone,
     RequiredReturns, RequiresDone, WantedReturns, WantsDone, EnableRegister, LoadWanted,
     EnableRequired, EnableWanted, EnableOther, Die, Mask, MaskLinks, MaskUnregister,
     MaskRemove, Unmask, UnmaskRestore, UnmaskRewrite, StepUnchanged
<1>2. CASE ParseArgs
  BY <1>2 DEF ParseArgs, NoSuchUnit, TooManyUnits, EnableCommand, DisableCommand, MaskCommand,
     UnmaskCommand, StartCommand, StopCommand, KillCommand, IsEnabledCommand, IsActiveCommand,
     CommandDone, Answer, CommandUnchanged
<1>3. CASE LoadPool \/ Killed \/ ReloadPool
  BY <1>3 DEF LoadPool, PoolLoaded, QueryRegister, Killed, ReloadPool, ReadLibrary, ReloadDone,
     ReloadMask, RegisterUnit, Die
<1>4. CASE UNCHANGED vars \/ (\E c \in Commands : Invoke(c)) \/ \E n \in Names : ServiceStops(n)
  BY <1>4 DEF vars, Invoke, ServiceStops
<1>5. QED
  BY <1>1, <1>2, <1>3, <1>4 DEF Next, Process

(* With a library in which no unit needs itself and every wanted unit is   *)
(* there, Enable neither asks a unit that is not there for its name nor    *)
(* runs out of stack, whatever is enabled in whatever order, daemon-reload *)
(* in between, and wherever earlier commands were killed, if the process's *)
(* stack has room for one call of Enable for each unit.  It says nothing   *)
(* of the null entry on which daemon-reload itself may die.                *)
THEOREM SoundLibraryIsSafe ==
  ASSUME IsFiniteSet(Names), Cardinality(Names) <= MaxDepth
  PROVE  Spec => []SoundLibrarySurvives
<1>1. Init => SoundLibrarySurvives
  BY DEF Init, SoundLibrarySurvives
<1>2. PoolTyped /\ SoundLibrarySurvives /\ [Next]_vars => SoundLibrarySurvives'
  <2>1. SUFFICES ASSUME PoolTyped, SoundLibrarySurvives, [Next]_vars, Sound'
                 PROVE  exit' \notin {"null", "overflow"}
    BY DEF SoundLibrarySurvives
  <2>2. Sound
    BY <2>1, LibraryUnchanged DEF Sound, Needs
  <2>3. exit \notin {"null", "overflow"}
    BY <2>1, <2>2 DEF SoundLibrarySurvives
  <2>4. QED
    BY <2>1, <2>2, <2>3, EnableSurvives, OthersSurvive
<1>3. QED
  BY <1>1, <1>2, PoolInvariant, PTL DEF Spec

=============================================================================
