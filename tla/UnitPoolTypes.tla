----------------------------- MODULE UnitPoolTypes -----------------------------
(***************************************************************************)
(* Type correctness of UnitPool, for every library, all commands and every *)
(* bound: with the state's shape it carries what the pool, the disk and    *)
(* the call stack owe to the unit library.                                 *)
(***************************************************************************)
EXTENDS UnitPool, SequenceTheorems, TLAPS

MaskPlaces   == {"links", "unregister", "remove"}
UnmaskPlaces == {"restore", "rewrite"}
EnablePlaces == {"copy", "write", "wantsDir", "copyWanted", "writeWanted", "link", "requires",
                 "required", "wants", "wanted", "register"}
Place == MaskPlaces \cup UnmaskPlaces \cup EnablePlaces

\* Where the calls that a command makes can be.
Places(op) == CASE op = "enable" -> EnablePlaces
                [] op \in {"mask", "daemon-reload"} -> MaskPlaces
                [] op = "unmask" -> UnmaskPlaces
                [] OTHER -> {}

\* A unit in memory says what its file in the library says, or less; of the names
\* in the .wants directory it has those that it was read with, or that were linked.
FromLibrary(unit, n) ==
  /\ n \in DOMAIN library
  /\ unit.requires \subseteq library[n].requires
  /\ unit.wants \subseteq library[n].wants \cup library[n].wantsDir
  /\ unit.wantsDir \subseteq library[n].wantsDir

DiskInLibrary ==
  /\ \A n \in Names : file[n] # "none" => n \in DOMAIN library
  /\ \A p, w \in Names : link[<<p, w>>] # "none" =>
       p \in DOMAIN library /\ w \in DOMAIN library /\ w \in library[p].wantsDir

PoolInLibrary == pc # "register" => \A n \in DOMAIN pool : FromLibrary(pool[n].unit, n)

\* What a call has still to do comes from its unit.
CallInLibrary(call) ==
  /\ FromLibrary(call.unit, call.name)
  /\ call.pc \in {"wantsDir", "copyWanted", "writeWanted", "link"}
       => call.todo \subseteq call.unit.wantsDir
  /\ call.pc \in {"copyWanted", "writeWanted", "link"}
       => call.w \in DOMAIN library /\ call.w \in call.unit.wantsDir
  /\ call.pc \in {"requires", "required"} => call.todo \subseteq call.unit.requires
  /\ call.pc = "required" => call.w \in call.unit.requires
  /\ call.pc \in {"wants", "wanted"} => call.todo \subseteq call.unit.wants
  /\ call.pc = "wanted" => call.w \in call.unit.wants

\* All calls but the last are of an Enable that waits for the Enable it has called.
StackInLibrary ==
  /\ \A i \in 1..Len(stack) : CallInLibrary(stack[i]) /\ stack[i].pc \in Places(cmd.op)
  /\ \A i \in 1..Len(stack) : i # Len(stack) =>
        stack[i].pc \in {"required", "wanted"} /\ stack[i + 1].name = stack[i].w

PhaseInv ==
  /\ pc = "load" => DOMAIN pool = Active
  /\ pc \in {"load", "reload"} => todo \subseteq DOMAIN pool
  /\ pc \notin {"units", "reload"} => stack = << >>
  /\ pc \in {"reload", "register"} => cmd.op = "daemon-reload"
  /\ pc = "units" => cmd.op # "daemon-reload"

\* Inductive.
PoolTyped == TypeOK /\ DiskInLibrary /\ PoolInLibrary /\ StackInLibrary /\ PhaseInv

-----------------------------------------------------------------------------
(* Units and calls.                                                        *)

LEMMA UnitFields ==
  ASSUME NEW unit \in UnitFile
  PROVE  /\ unit.requires \subseteq Names /\ unit.wants \subseteq Names
         /\ unit.requiredBy \subseteq Names /\ unit.mentions \subseteq Names
         /\ unit.wantsDir \subseteq Names
BY DEF UnitFile

LEMMA NoUnitType ==
  /\ NoUnit \in UnitFile /\ NoUnit.requires = {} /\ NoUnit.wants = {}
  /\ NoUnit.requiredBy = {} /\ NoUnit.mentions = {} /\ NoUnit.wantsDir = {}
BY DEF UnitFile, NoUnit

\* What the proofs need to know of a unit.
IsUnit(u, required, wanted, dir) ==
  u \in UnitFile /\ u.requires = required /\ u.wants = wanted /\ u.wantsDir = dir

LEMMA UnitWants ==
  ASSUME NEW unit \in UnitFile, NEW W \in SUBSET Names, NEW u, u = [unit EXCEPT !.wants = W]
  PROVE  IsUnit(u, unit.requires, W, unit.wantsDir)
BY DEF UnitFile, IsUnit

LEMMA UnitWantsDir ==
  ASSUME NEW unit \in UnitFile, NEW D \in SUBSET Names, NEW u, u = [unit EXCEPT !.wantsDir = D]
  PROVE  IsUnit(u, unit.requires, unit.wants, D)
BY DEF UnitFile, IsUnit

LEMMA UnitBoth ==
  ASSUME NEW unit \in UnitFile, NEW W \in SUBSET Names, NEW D \in SUBSET Names,
         NEW u, u = [unit EXCEPT !.wants = W, !.wantsDir = D]
  PROVE  IsUnit(u, unit.requires, W, D)
BY DEF UnitFile, IsUnit

LEMMA LibraryType ==
  ASSUME TypeOK
  PROVE  /\ DOMAIN library \subseteq Names
         /\ \A n \in DOMAIN library : library[n] \in UnitFile
BY LibrariesAssumption DEF TypeOK

LEMMA CallFields ==
  ASSUME NEW call \in Call
  PROVE  /\ call.name \in Names /\ call.unit \in UnitFile /\ call.deps \subseteq Names
         /\ call.pc \in Place /\ call.todo \subseteq Names /\ call.w \in Names
BY DEF Call, Place, MaskPlaces, UnmaskPlaces, EnablePlaces

LEMMA OtherCallTypes ==
  ASSUME NEW n \in Names, NEW fn \in {"Mask", "Unmask"}, NEW at \in Place
  PROVE  /\ OtherCall(fn, n, at) \in Call
         /\ OtherCall(fn, n, at).name = n
         /\ OtherCall(fn, n, at).unit = NoUnit /\ OtherCall(fn, n, at).pc = at
<1>1. ASSUME NEW call \in Call
      PROVE  /\ [call EXCEPT !.fn = fn, !.pc = at] \in Call
             /\ [call EXCEPT !.fn = fn, !.pc = at].name = call.name
             /\ [call EXCEPT !.fn = fn, !.pc = at].unit = call.unit
             /\ [call EXCEPT !.fn = fn, !.pc = at].pc = at
  BY DEF Call, Place, MaskPlaces, UnmaskPlaces, EnablePlaces
<1>2. EnableCall(n, NoUnit, {}) \in Call
  BY NoUnitType DEF EnableCall, Call
<1>3. EnableCall(n, NoUnit, {}).name = n /\ EnableCall(n, NoUnit, {}).unit = NoUnit
  BY DEF EnableCall
<1>4. QED
  BY <1>1, <1>2, <1>3, Zenon DEF OtherCall

LEMMA CallTypes ==
  ASSUME NEW n \in Names, NEW unit \in UnitFile, NEW d \in SUBSET Names
  PROVE  /\ EnableCall(n, unit, d) \in Call
         /\ EnableCall(n, unit, d).name = n
         /\ EnableCall(n, unit, d).unit = unit /\ EnableCall(n, unit, d).pc = "copy"
         /\ \A fn \in {"Mask", "Unmask"}, at \in Place :
              /\ OtherCall(fn, n, at) \in Call
              /\ OtherCall(fn, n, at).name = n
              /\ OtherCall(fn, n, at).unit = NoUnit /\ OtherCall(fn, n, at).pc = at
<1>1. /\ EnableCall(n, unit, d) \in Call
      /\ EnableCall(n, unit, d).name = n
      /\ EnableCall(n, unit, d).unit = unit /\ EnableCall(n, unit, d).pc = "copy"
  BY DEF EnableCall, Call
<1>2. ASSUME NEW fn \in {"Mask", "Unmask"}, NEW at \in Place
      PROVE  /\ OtherCall(fn, n, at) \in Call
             /\ OtherCall(fn, n, at).name = n
             /\ OtherCall(fn, n, at).unit = NoUnit /\ OtherCall(fn, n, at).pc = at
  BY OtherCallTypes
<1>3. QED
  BY <1>1, <1>2

\* A call that has gone on: the same one of the same unit, elsewhere.
GoesOn(c, call, at, T, w) ==
  /\ c \in Call /\ c.fn = call.fn /\ c.name = call.name /\ c.unit = call.unit
  /\ c.pc = at /\ c.todo = T /\ c.w = w

LEMMA CallPc ==
  ASSUME NEW call \in Call, NEW at \in Place, NEW c, c = [call EXCEPT !.pc = at]
  PROVE  GoesOn(c, call, at, call.todo, call.w)
BY DEF GoesOn, Call, Place, MaskPlaces, UnmaskPlaces, EnablePlaces

LEMMA CallPcTodo ==
  ASSUME NEW call \in Call, NEW at \in Place, NEW T \in SUBSET Names,
         NEW c, c = [call EXCEPT !.pc = at, !.todo = T]
  PROVE  GoesOn(c, call, at, T, call.w)
BY DEF GoesOn, Call, Place, MaskPlaces, UnmaskPlaces, EnablePlaces

LEMMA CallTodo ==
  ASSUME NEW call \in Call, NEW T \in SUBSET Names, NEW c, c = [call EXCEPT !.todo = T]
  PROVE  GoesOn(c, call, call.pc, T, call.w)
BY DEF GoesOn, Call

LEMMA CallDepsTodo ==
  ASSUME NEW call \in Call, NEW T \in SUBSET Names, NEW D \in SUBSET Names,
         NEW c, c = [call EXCEPT !.deps = D, !.todo = T]
  PROVE  GoesOn(c, call, call.pc, T, call.w)
BY DEF GoesOn, Call

LEMMA CallPcDepsTodo ==
  ASSUME NEW call \in Call, NEW at \in Place, NEW T \in SUBSET Names, NEW D \in SUBSET Names,
         NEW c, c = [call EXCEPT !.pc = at, !.deps = D, !.todo = T]
  PROVE  GoesOn(c, call, at, T, call.w)
BY DEF GoesOn, Call, Place, MaskPlaces, UnmaskPlaces, EnablePlaces

LEMMA CallPcTodoW ==
  ASSUME NEW call \in Call, NEW at \in Place, NEW T \in SUBSET Names, NEW w \in Names,
         NEW c, c = [call EXCEPT !.pc = at, !.w = w, !.todo = T]
  PROVE  GoesOn(c, call, at, T, w)
BY DEF GoesOn, Call, Place, MaskPlaces, UnmaskPlaces, EnablePlaces

LEMMA CallWaits ==
  ASSUME NEW call \in Call, NEW at \in Place, NEW w \in Names,
         NEW c, c = [call EXCEPT !.pc = at, !.w = w]
  PROVE  GoesOn(c, call, at, call.todo, w)
BY DEF GoesOn, Call, Place, MaskPlaces, UnmaskPlaces, EnablePlaces

LinksOn(c, call, at, W) ==
  /\ c \in Call /\ c.fn = call.fn /\ c.name = call.name
  /\ c.unit \in UnitFile /\ c.unit.requires = call.unit.requires
  /\ c.unit.wants = W /\ c.unit.wantsDir = call.unit.wantsDir
  /\ c.pc = at /\ c.todo = call.todo /\ c.w = call.w

LEMMA CallWants ==
  ASSUME NEW call \in Call, NEW at \in Place, NEW W \in SUBSET Names,
         NEW c, c = [call EXCEPT !.pc = at, !.unit.wants = W]
  PROVE  LinksOn(c, call, at, W)
BY DEF Call, Place, MaskPlaces, UnmaskPlaces, EnablePlaces, UnitFile, LinksOn

-----------------------------------------------------------------------------
(* The call stack.                                                         *)

LEMMA StackFacts ==
  ASSUME TypeOK
  PROVE  /\ stack \in Seq(Call) /\ Len(stack) \in Nat /\ Len(stack) <= MaxDepth
         /\ \A i \in 1..Len(stack) : stack[i] \in Call
         /\ stack # << >> => Len(stack) \in 1..Len(stack) /\ Top \in Call
<1>1. stack \in Seq(Call) /\ Len(stack) <= MaxDepth
  BY DEF TypeOK, StackOK
<1>2. Len(stack) \in Nat /\ (stack # << >> => Len(stack) \in Nat \ {0})
  BY <1>1, LenProperties, EmptySeq
<1>3. \A i \in 1..Len(stack) : stack[i] \in Call
  BY <1>1, ElementOfSeq
<1>4. QED
  BY <1>1, <1>2, <1>3 DEF Top

\* Nothing about a call changes while the library stays.
LEMMA LibraryStays ==
  ASSUME library' = library, NEW call
  PROVE  CallInLibrary(call)' <=> CallInLibrary(call)
BY DEF CallInLibrary, FromLibrary

LEMMA StackContinues ==
  ASSUME TypeOK, StackInLibrary, stack # << >>, library' = library, cmd' = cmd,
         NEW call \in Call, CallInLibrary(call), call.pc \in Places(cmd.op),
         call.name = Top.name, Continue(call)
  PROVE  /\ StackOK' /\ StackInLibrary' /\ Len(stack') = Len(stack) /\ Top' = call
         /\ \A i \in 1..Len(stack) : i # Len(stack) => stack'[i] = stack[i]
<1>1. stack' = [stack EXCEPT ![Len(stack)] = call] /\ ret' = ret
  BY DEF Continue
<1>2. /\ stack' \in Seq(Call) /\ Len(stack') = Len(stack)
      /\ \A j \in 1..Len(stack) : stack'[j] = IF j = Len(stack) THEN call ELSE stack[j]
  BY <1>1, StackFacts, ExceptSeq
<1>3. StackOK'
  BY <1>1, <1>2 DEF TypeOK, StackOK
<1>4. Top' = call
  BY <1>2, StackFacts DEF Top
<1>5. \A i \in 1..Len(stack) : CallInLibrary(stack'[i]) /\ stack'[i].pc \in Places(cmd.op)
  BY <1>2 DEF StackInLibrary
<1>6. \A i \in 1..Len(stack) : i # Len(stack) =>
        stack'[i].pc \in {"required", "wanted"} /\ stack'[i + 1].name = stack'[i].w
  <2>1. SUFFICES ASSUME NEW i \in 1..Len(stack), i # Len(stack)
                 PROVE  stack'[i].pc \in {"required", "wanted"} /\ stack'[i + 1].name = stack'[i].w
    OBVIOUS
  <2>2. i + 1 \in 1..Len(stack)
    BY <2>1, StackFacts
  <2>3. stack'[i + 1].name = stack[i + 1].name
    BY <1>2, <2>2 DEF Top
  <2>4. QED
    BY <1>2, <2>1, <2>3 DEF StackInLibrary
<1>7. StackInLibrary'
  BY <1>2, <1>5, <1>6, LibraryStays DEF StackInLibrary
<1>8. QED
  BY <1>2, <1>3, <1>4, <1>7

LEMMA StackReturns ==
  ASSUME TypeOK, StackInLibrary, stack # << >>, library' = library, cmd' = cmd,
         NEW result \in BOOLEAN, Return(result)
  PROVE  /\ StackOK' /\ StackInLibrary' /\ Len(stack') = Len(stack) - 1
         /\ \A i \in 1..Len(stack') : stack'[i] = stack[i]
         /\ ret' = result
<1>1. stack' = SubSeq(stack, 1, Len(stack) - 1) /\ ret' = result
  BY DEF Return
<1>2. Len(stack) \in Nat \ {0} /\ \A i \in 1..Len(stack) - 1 : stack[i] \in Call
  BY StackFacts
<1>3. /\ stack' \in Seq(Call) /\ Len(stack') = Len(stack) - 1
      /\ \A i \in 1..Len(stack) - 1 : stack'[i] = stack[i]
  <2>1. 1 \in Int /\ Len(stack) - 1 \in Int
    BY <1>2
  <2>2. /\ SubSeq(stack, 1, Len(stack) - 1) \in Seq(Call)
        /\ Len(SubSeq(stack, 1, Len(stack) - 1))
             = IF 1 <= Len(stack) - 1 THEN (Len(stack) - 1) - 1 + 1 ELSE 0
        /\ \A i \in 1..(Len(stack) - 1) - 1 + 1 :
             SubSeq(stack, 1, Len(stack) - 1)[i] = stack[1 + i - 1]
    BY <1>2, <2>1, SubSeqProperties
  <2>3. (Len(stack) - 1) - 1 + 1 = Len(stack) - 1
    BY <1>2
  <2>4. \A i \in 1..Len(stack) - 1 : 1 + i - 1 = i
    BY <1>2
  <2>5. Len(stack') = Len(stack) - 1
    <3>1. CASE Len(stack) = 1
      BY <1>1, <2>2, <3>1
    <3>2. CASE Len(stack) # 1
      <4>1. \A k \in Nat \ {0} : k # 1 => 1 <= k - 1
        OBVIOUS
      <4>2. 1 <= Len(stack) - 1
        BY <1>2, <3>2, <4>1, Zenon
      <4>3. QED
        BY <1>1, <2>2, <2>3, <4>2
    <3>3. QED
      BY <3>1, <3>2
  <2>6. \A i \in 1..Len(stack) - 1 : stack'[i] = stack[i]
    BY <1>1, <2>2, <2>3, <2>4
  <2>7. QED
    BY <1>1, <2>2, <2>5, <2>6
<1>4. StackOK'
  BY <1>1, <1>2, <1>3, StackFacts, CommandsAssumption DEF StackOK
<1>5. \A i \in 1..Len(stack') : CallInLibrary(stack'[i]) /\ stack'[i].pc \in Places(cmd.op)
  <2>1. \A i \in 1..Len(stack') : i \in 1..Len(stack) /\ stack'[i] = stack[i]
    BY <1>2, <1>3
  <2>2. QED
    BY <2>1 DEF StackInLibrary
<1>6. \A i \in 1..Len(stack') : i # Len(stack') =>
        stack'[i].pc \in {"required", "wanted"} /\ stack'[i + 1].name = stack'[i].w
  <2>1. SUFFICES ASSUME NEW i \in 1..Len(stack'), i # Len(stack')
                 PROVE  stack'[i].pc \in {"required", "wanted"} /\ stack'[i + 1].name = stack'[i].w
    OBVIOUS
  <2>2. i \in 1..Len(stack) - 1 /\ i + 1 \in 1..Len(stack) - 1 /\ i \in 1..Len(stack) /\ i # Len(stack)
    BY <1>2, <1>3, <2>1
  <2>3. QED
    BY <1>3, <2>2 DEF StackInLibrary
<1>7. StackInLibrary'
  BY <1>5, <1>6, LibraryStays DEF StackInLibrary
<1>8. QED
  BY <1>1, <1>3, <1>4, <1>7

LEMMA TopWaits ==
  ASSUME Top \in Call, NEW at \in Place, NEW w \in Names,
         NEW c, c = [Top EXCEPT !.pc = at, !.w = w]
  PROVE  GoesOn(c, Top, at, Top.todo, w)
BY CallWaits, Zenon

\* Enable has called Enable.
LEMMA StackCalls ==
  ASSUME TypeOK, StackInLibrary, stack # << >>, library' = library, cmd' = cmd, cmd.op = "enable",
         NEW call \in Call, CallInLibrary(call), call.pc = "copy",
         NEW w \in Names, call.name = w, NEW place \in {"required", "wanted"},
         NEW waits, waits = [Top EXCEPT !.pc = place, !.w = w], CallInLibrary(waits),
         Len(stack) # MaxDepth, ret' = ret,
         stack' = Append([stack EXCEPT ![Len(stack)] = [@ EXCEPT !.pc = place, !.w = w]], call)
  PROVE  /\ StackOK' /\ StackInLibrary' /\ Len(stack') = Len(stack) + 1 /\ Top' = call
         /\ \A i \in 1..Len(stack) : i # Len(stack) => stack'[i] = stack[i]
         /\ stack'[Len(stack)] = waits /\ waits \in Call
<1> DEFINE below == [stack EXCEPT ![Len(stack)] = waits]
<1>1. waits \in Call /\ waits.pc = place /\ waits.w = w /\ waits.name = Top.name
  <2>1. Top \in Call /\ place \in Place
    BY StackFacts DEF Place, EnablePlaces
  <2>2. GoesOn(waits, Top, place, Top.todo, w)
    BY <2>1, TopWaits
  <2>3. QED
    BY <2>2 DEF GoesOn
<1>2. /\ below \in Seq(Call) /\ Len(below) = Len(stack)
      /\ \A j \in 1..Len(stack) : below[j] = IF j = Len(stack) THEN waits ELSE stack[j]
  BY <1>1, StackFacts, ExceptSeq
<1>3. stack' = Append(below, call)
  BY DEF Top
<1> HIDE DEF below
<1>4. /\ stack' \in Seq(Call) /\ Len(stack') = Len(stack) + 1 /\ stack'[Len(stack) + 1] = call
      /\ \A j \in 1..Len(stack) : stack'[j] = below[j]
  BY <1>2, <1>3, StackFacts, AppendProperties
<1>5. StackOK'
  BY <1>4, StackFacts, CommandsAssumption DEF TypeOK, StackOK
<1>6. Top' = call
  BY <1>4 DEF Top
<1>7. \A i \in 1..Len(stack) : i # Len(stack) => stack'[i] = stack[i]
  BY <1>2, <1>4
<1>8. stack'[Len(stack)] = waits
  BY <1>2, <1>4, StackFacts
<1>9. \A i \in 1..Len(stack') : CallInLibrary(stack'[i]) /\ stack'[i].pc \in Places(cmd.op)
  <2>1. {"copy", "required", "wanted"} \subseteq Places(cmd.op)
    BY DEF Places, EnablePlaces
  <2>2. SUFFICES ASSUME NEW i \in 1..Len(stack')
                 PROVE  CallInLibrary(stack'[i]) /\ stack'[i].pc \in Places(cmd.op)
    OBVIOUS
  <2>3. CASE i = Len(stack) + 1
    BY <1>4, <2>1, <2>3
  <2>4. CASE i = Len(stack)
    BY <1>1, <1>8, <2>1, <2>4
  <2>5. CASE i # Len(stack) /\ i # Len(stack) + 1
    <3>1. i \in 1..Len(stack)
      BY <1>4, <2>2, <2>5, StackFacts
    <3>2. QED
      BY <1>7, <2>5, <3>1 DEF StackInLibrary
  <2>6. QED
    BY <2>3, <2>4, <2>5
<1>10. \A i \in 1..Len(stack') : i # Len(stack') =>
        stack'[i].pc \in {"required", "wanted"} /\ stack'[i + 1].name = stack'[i].w
  <2>1. SUFFICES ASSUME NEW i \in 1..Len(stack), i # Len(stack')
                 PROVE  stack'[i].pc \in {"required", "wanted"} /\ stack'[i + 1].name = stack'[i].w
    BY <1>4, StackFacts
  <2>2. CASE i = Len(stack)
    BY <1>1, <1>4, <1>8, <2>2
  <2>3. CASE i # Len(stack)
    <3>1. i + 1 \in 1..Len(stack)
      BY <2>1, <2>3, StackFacts
    <3>2. stack'[i + 1].name = stack[i + 1].name
      BY <1>1, <1>7, <1>8, <3>1 DEF Top
    <3>3. QED
      BY <1>7, <2>1, <2>3, <3>2 DEF StackInLibrary
  <2>4. QED
    BY <2>2, <2>3
<1>11. StackInLibrary'
  BY <1>9, <1>10, LibraryStays DEF StackInLibrary
<1>12. QED
  BY <1>1, <1>4, <1>5, <1>6, <1>7, <1>8, <1>11

-----------------------------------------------------------------------------
(* The pool.                                                               *)

LEMMA PoolFacts ==
  ASSUME TypeOK
  PROVE  /\ DOMAIN pool \subseteq Names /\ pool \in [DOMAIN pool -> Object]
         /\ \A n \in DOMAIN pool : pool[n].unit \in UnitFile /\ pool[n].deps \subseteq Names
         /\ nulls \subseteq Names \ DOMAIN pool /\ todo \subseteq DOMAIN pool \cup nulls
<1>1. PICK S \in SUBSET Names : pool \in [S -> Object]
  BY DEF TypeOK, PoolOK
<1>2. DOMAIN pool = S /\ pool \in [DOMAIN pool -> Object]
  BY <1>1
<1>3. \A n \in DOMAIN pool : pool[n] \in Object
  BY <1>2
<1>4. \A n \in DOMAIN pool : pool[n].unit \in UnitFile /\ pool[n].deps \subseteq Names
  BY <1>3 DEF Object
<1>5. QED
  BY <1>2, <1>4 DEF TypeOK, PoolOK

\* Sections is what the library says, or nothing.
LEMMA SectionsType ==
  ASSUME TypeOK, NEW n \in DOMAIN library, NEW content
  PROVE  /\ Sections(n, content) \in UnitFile
         /\ Sections(n, content).requires \subseteq library[n].requires
         /\ Sections(n, content).wants \subseteq library[n].wants
<1>1. CASE content = "whole"
  BY <1>1, LibraryType DEF Sections
<1>2. CASE content # "whole"
  BY <1>2, NoUnitType DEF Sections
<1>3. QED
  BY <1>1, <1>2

LEMMA ReadTopType ==
  ASSUME TypeOK, DiskInLibrary, NEW n \in Names, file[n] # "none"
  PROVE  ReadTop(n) \in UnitFile /\ FromLibrary(ReadTop(n), n)
<1>1. n \in DOMAIN library
  BY DEF DiskInLibrary
<1> DEFINE sections == Sections(n, file[n])
           wanted == sections.wants \cup {w \in Names : link[<<n, w>>] # "none"}
<1>2. /\ sections \in UnitFile /\ sections.requires \subseteq library[n].requires
      /\ sections.wants \subseteq library[n].wants
  BY <1>1, SectionsType
<1>3. wanted \in SUBSET Names /\ wanted \subseteq library[n].wants \cup library[n].wantsDir
  BY <1>2, UnitFields DEF DiskInLibrary
<1>4. library[n].wantsDir \in SUBSET Names
  BY <1>1, LibraryType, UnitFields
<1>5. ReadTop(n) = [sections EXCEPT !.wants = wanted, !.wantsDir = library[n].wantsDir]
  BY DEF ReadTop
<1> HIDE DEF sections, wanted
<1>6. IsUnit(ReadTop(n), sections.requires, wanted, library[n].wantsDir)
  BY <1>2, <1>3, <1>4, <1>5, UnitBoth, Zenon
<1>7. QED
  BY <1>1, <1>2, <1>3, <1>6 DEF IsUnit, FromLibrary

LEMMA ReadLinkType ==
  ASSUME TypeOK, DiskInLibrary, NEW p \in Names, NEW n \in Names, link[<<p, n>>] # "none"
  PROVE  ReadLink(p, n) \in UnitFile /\ FromLibrary(ReadLink(p, n), n)
<1>1. n \in DOMAIN library
  BY DEF DiskInLibrary
<1> DEFINE sections == Sections(n, link[<<p, n>>])
<1>2. /\ sections \in UnitFile /\ sections.requires \subseteq library[n].requires
      /\ sections.wants \subseteq library[n].wants
  BY <1>1, SectionsType
<1>3. ReadLink(p, n) = [sections EXCEPT !.wantsDir = {}]
  BY DEF ReadLink
<1> HIDE DEF sections
<1>4. {} \in SUBSET Names
  OBVIOUS
<1>5. IsUnit(ReadLink(p, n), sections.requires, sections.wants, {})
  BY <1>2, <1>3, <1>4, UnitWantsDir, Zenon
<1>6. QED
  BY <1>1, <1>2, <1>5 DEF IsUnit, FromLibrary

\* What LoadPool reads are units of the library.
LEMMA ReadPoolType ==
  ASSUME TypeOK, DiskInLibrary, NEW from \in Readings
  PROVE  /\ Active \subseteq Names /\ DOMAIN ReadPool(from) = Active
         /\ ReadPool(from) \in [Active -> UnitFile]
         /\ \A n \in Active : FromLibrary(ReadPool(from)[n], n)
<1>1. Active \subseteq Names
  BY DEF Active
<1>2. ASSUME NEW n \in Active
      PROVE  /\ (IF from[n] = n THEN ReadTop(n) ELSE ReadLink(from[n], n)) \in UnitFile
             /\ FromLibrary(IF from[n] = n THEN ReadTop(n) ELSE ReadLink(from[n], n), n)
  <2>1. from[n] \in Names /\ n \in Names
    BY <1>1, <1>2 DEF Readings
  <2>2. CASE from[n] = n
    <3>1. file[n] # "none"
      BY <1>2, <2>2 DEF Readings
    <3>2. QED
      BY <2>1, <2>2, <3>1, ReadTopType
  <2>3. CASE from[n] # n
    <3>1. link[<<from[n], n>>] # "none"
      BY <1>2, <2>3 DEF Readings, Linked
    <3>2. QED
      BY <2>1, <2>3, <3>1, ReadLinkType
  <2>4. QED
    BY <2>2, <2>3
<1>3. QED
  BY <1>1, <1>2 DEF ReadPool

LEMMA SetUpType ==
  ASSUME TypeOK, NEW S \in SUBSET Names, NEW units \in [S -> UnitFile],
         NEW old, NEW T \in SUBSET Names, old \in [T -> Object],
         SetUp(units, old)
  PROVE  /\ DOMAIN pool' = S /\ pool' \in [S -> Object] /\ nulls' \subseteq Names \ S
         /\ \A n \in S : pool'[n].unit = units[n]
<1>1. ASSUME NEW n \in S
      PROVE  /\ units[n] \in UnitFile
             /\ StartDependencies(units, n) \cup (IF n \in DOMAIN old THEN old[n].deps ELSE {})
                  \in SUBSET Names
  <2>1. StartDependencies(units, n) \subseteq Names
    BY DEF StartDependencies
  <2>2. n \in DOMAIN old => old[n].deps \subseteq Names
    BY DEF Object
  <2>3. QED
    BY <2>1, <2>2
<1>2. \A u \in UnitFile, D \in SUBSET Names :
         [unit |-> u, deps |-> D] \in Object /\ [unit |-> u, deps |-> D].unit = u
  BY DEF Object
<1>3. pool' \in [S -> Object] /\ \A n \in S : pool'[n].unit = units[n]
  BY <1>1, <1>2 DEF SetUp
<1>4. \A n \in S : units[n].requires \cup units[n].wants \cup units[n].requiredBy
                     \cup units[n].mentions \subseteq Names
  BY <1>1, UnitFields
<1>5. LookedUp(units) \subseteq Names
  BY <1>4 DEF LookedUp
<1>6. nulls' \subseteq Names \ S
  BY <1>5, PoolFacts DEF SetUp
<1>7. QED
  BY <1>3, <1>6

-----------------------------------------------------------------------------
(* The SCM, and the end of the process.                                    *)

LEMMA ScmTypes ==
  ASSUME TypeOK, NEW n \in Names, NEW d \in SUBSET Names,
         \/ RegisterService(n, d) \/ UnregisterService(n) \/ Delete(n)
         \/ StartService(n) \/ StopService(n) \/ UNCHANGED scmVars
  PROVE  ScmOK'
<1>0. /\ svc \in [Names -> {"none", "stopped", "running", "stopping"}]
      /\ marked \subseteq {m \in Names : svc[m] \in {"running", "stopping"}}
      /\ deps \in [Names -> SUBSET Names]
  BY DEF TypeOK, ScmOK
<1>1. CASE RegisterService(n, d)
  BY <1>0, <1>1 DEF RegisterService, Registered, ScmOK, scmVars
<1>2. ASSUME Delete(n)
      PROVE  ScmOK'
  BY <1>0, <1>2 DEF Delete, ScmOK
<1>3. CASE UnregisterService(n)
  BY <1>0, <1>2, <1>3 DEF UnregisterService, ScmOK, scmVars
<1>4. CASE StartService(n)
  BY <1>0, <1>4 DEF StartService, ScmOK, scmVars
<1>5. CASE StopService(n)
  BY <1>0, <1>5 DEF StopService, ScmOK, scmVars
<1>6. CASE UNCHANGED scmVars
  BY <1>0, <1>6 DEF ScmOK, scmVars
<1>7. QED
  BY <1>1, <1>2, <1>3, <1>4, <1>5, <1>6

\* A process that ends keeps what is on the disk and in the SCM's database.
LEMMA EndProcessTyped ==
  ASSUME PoolTyped, NEW code \in Exit, EndProcess(code),
         UNCHANGED <<library, given, diskVars, scmVars>>
  PROVE  PoolTyped'
<1>1. DiskOK' /\ ScmOK' /\ DiskInLibrary' /\ library' \in Libraries
  BY DEF PoolTyped, TypeOK, DiskOK, ScmOK, DiskInLibrary, diskVars, scmVars
<1>2. ProcessOK'
  BY DEF PoolTyped, TypeOK, ProcessOK, EndProcess, NoCommand, Op
<1>3. DOMAIN pool' = {} /\ pool' \in [{} -> Object] /\ nulls' = {} /\ todo' = {}
  BY DEF EndProcess
<1>4. PoolOK' /\ PoolInLibrary'
  BY <1>3 DEF PoolOK, PoolInLibrary
<1>5. stack' = << >> /\ Len(stack') = 0 /\ stack' \in Seq(Call) /\ ret' \in BOOLEAN
  <2>1. stack' = << >> /\ ret' = FALSE
    BY DEF EndProcess
  <2>2. QED
    BY <2>1, EmptySeq
<1>6. StackOK' /\ StackInLibrary'
  BY <1>5, CommandsAssumption DEF StackOK, StackInLibrary
<1>7. PhaseInv'
  BY DEF PhaseInv, EndProcess
<1>8. QED
  BY <1>1, <1>2, <1>4, <1>6, <1>7 DEF PoolTyped, TypeOK

-----------------------------------------------------------------------------
(* Enable.                                                                 *)

\* What a step of a call may do to the pool: entries come and none goes.
PoolGrows == /\ pool' \in [DOMAIN pool' -> Object] /\ DOMAIN pool \subseteq DOMAIN pool'
             /\ DOMAIN pool' \subseteq Names
             /\ nulls \subseteq nulls' /\ nulls' \subseteq Names \ DOMAIN pool'
             /\ \A n \in DOMAIN pool : pool'[n] = pool[n]
             /\ \A n \in DOMAIN pool' \ DOMAIN pool : FromLibrary(pool'[n].unit, n)

LEMMA PoolStays ==
  ASSUME TypeOK, UNCHANGED poolVars
  PROVE  PoolGrows
BY PoolFacts DEF PoolGrows, poolVars

\* A step of a call is typed when its parts are.
LEMMA CallStepTyped ==
  ASSUME PoolTyped, stack # << >>, StepUnchanged, DiskOK', DiskInLibrary', ScmOK', PoolGrows,
         StackOK', StackInLibrary'
  PROVE  PoolTyped'
<1>1. /\ library' = library /\ given' = given /\ exit' = exit /\ pc' = pc /\ cmd' = cmd
      /\ todo' = todo
  BY DEF StepUnchanged
<1>2. pc \in {"units", "reload"}
  BY DEF PoolTyped, PhaseInv
<1>3. ProcessOK' /\ library' \in Libraries
  BY <1>1 DEF PoolTyped, TypeOK, ProcessOK
<1>4. PoolOK'
  BY <1>1 DEF PoolTyped, TypeOK, PoolOK, PoolGrows
<1>5. PoolInLibrary'
  <2>1. SUFFICES ASSUME NEW n \in DOMAIN pool'
                 PROVE  FromLibrary(pool[n].unit, n)'
    BY DEF PoolInLibrary
  <2>2. FromLibrary(pool'[n].unit, n)
    BY <1>2 DEF PoolGrows, PoolTyped, PoolInLibrary
  <2>3. QED
    BY <1>1, <2>2 DEF FromLibrary
<1>6. PhaseInv'
  BY <1>1, <1>2 DEF PoolTyped, PhaseInv, PoolGrows
<1>7. QED
  BY <1>3, <1>4, <1>5, <1>6 DEF PoolTyped, TypeOK

\* The unit file of a unit of the library is written, or a link to it made.
LEMMA FileWritten ==
  ASSUME TypeOK, DiskInLibrary, NEW n \in DOMAIN library, NEW content \in Content,
         file' = [file EXCEPT ![n] = content], link' = link, library' = library
  PROVE  DiskOK' /\ DiskInLibrary'
BY DEF TypeOK, DiskOK, DiskInLibrary

LEMMA LinkWritten ==
  ASSUME TypeOK, DiskInLibrary, NEW p \in DOMAIN library, NEW w \in DOMAIN library,
         w \in library[p].wantsDir, NEW content \in Content,
         link' = [link EXCEPT ![<<p, w>>] = content], file' = file, library' = library
  PROVE  DiskOK' /\ DiskInLibrary'
<1>1. <<p, w>> \in Names \X Names
  BY LibraryType
<1>2. /\ link \in [Names \X Names -> Content] /\ file \in [Names -> Content]
      /\ \A q, x \in Names : <<q, x>> \in Names \X Names
  BY DEF TypeOK, DiskOK
<1>3. \A q, x \in Names : link'[<<q, x>>] # link[<<q, x>>] => q = p /\ x = w
  BY <1>1, <1>2
<1>4. QED
  BY <1>1, <1>2, <1>3 DEF DiskOK, DiskInLibrary

LEMMA DiskStays ==
  ASSUME TypeOK, DiskInLibrary, UNCHANGED <<library, diskVars>>
  PROVE  DiskOK' /\ DiskInLibrary'
BY DEF TypeOK, DiskOK, DiskInLibrary, diskVars

LEMMA ScmStays ==
  ASSUME TypeOK, UNCHANGED scmVars
  PROVE  ScmOK'
BY DEF TypeOK, ScmOK, scmVars

\* Where a call is on the stack, and what can be said of the last one.
LEMMA TopFacts ==
  ASSUME PoolTyped, NEW at \in Place, At(at)
  PROVE  /\ stack # << >> /\ Top \in Call /\ Top.pc = at /\ CallInLibrary(Top)
         /\ Top.name \in DOMAIN library /\ Top.name \in Names /\ Top.unit \in UnitFile
         /\ Top.unit.requires \subseteq Names /\ Top.unit.wants \subseteq Names
         /\ Top.unit.wantsDir \subseteq Names
         /\ Top.todo \subseteq Names /\ Top.w \in Names /\ Top.deps \subseteq Names
         /\ at \in Places(cmd.op)
<1>1. stack # << >> /\ Top.pc = at
  BY DEF At
<1>2. Len(stack) \in 1..Len(stack) /\ Top \in Call
  BY <1>1, StackFacts DEF PoolTyped
<1>3. CallInLibrary(Top) /\ at \in Places(cmd.op)
  BY <1>1, <1>2 DEF PoolTyped, StackInLibrary, Top
<1>4. QED
  BY <1>1, <1>2, <1>3, CallFields, UnitFields DEF CallInLibrary, FromLibrary

LEMMA PlacesOfEnable ==
  ASSUME NEW at \in EnablePlaces, at \in Places(cmd.op)
  PROVE  cmd.op = "enable" /\ EnablePlaces = Places(cmd.op)
BY DEF Places, EnablePlaces, MaskPlaces, UnmaskPlaces

\* Every step of Enable that keeps its call: the call goes on as one of a unit of
\* the library.
LEMMA EnableContinues ==
  ASSUME PoolTyped, NEW at \in EnablePlaces, At(at), StepUnchanged,
         DiskOK', DiskInLibrary', ScmOK', PoolGrows,
         NEW call \in Call, CallInLibrary(call), call.pc \in EnablePlaces,
         call.name = Top.name, Continue(call)
  PROVE  PoolTyped'
<1>1. at \in Place /\ stack # << >> /\ library' = library /\ cmd' = cmd
  BY DEF At, Place, StepUnchanged
<1>2. call.pc \in Places(cmd.op)
  BY <1>1, TopFacts, PlacesOfEnable
<1>3. StackOK' /\ StackInLibrary'
  BY <1>1, <1>2, StackContinues DEF PoolTyped
<1>4. QED
  BY <1>1, <1>3, CallStepTyped

LEMMA CallReturns ==
  ASSUME PoolTyped, stack # << >>, StepUnchanged,
         DiskOK', DiskInLibrary', ScmOK', PoolGrows, NEW result \in BOOLEAN, Return(result)
  PROVE  PoolTyped'
<1>1. StackOK' /\ StackInLibrary'
  BY StackReturns DEF PoolTyped, StepUnchanged
<1>2. QED
  BY <1>1, CallStepTyped

\* Most steps leave most of the state alone.
LEMMA DiskScmPool ==
  ASSUME PoolTyped, StepUnchanged
  PROVE  /\ UNCHANGED diskVars => DiskOK' /\ DiskInLibrary'
         /\ UNCHANGED scmVars => ScmOK'
         /\ UNCHANGED poolVars => PoolGrows
BY DiskStays, ScmStays, PoolStays DEF PoolTyped, StepUnchanged

LEMMA EnableCopyTyped ==
  ASSUME PoolTyped, EnableCopy
  PROVE  PoolTyped'
<1>1. "copy" \in EnablePlaces /\ "copy" \in Place /\ At("copy")
  BY DEF EnablePlaces, Place, EnableCopy
<1>2. StepUnchanged /\ link' = link /\ ScmOK' /\ PoolGrows /\ library' = library
  BY DiskScmPool DEF EnableCopy, StepUnchanged
<1>3. CASE file[Top.name] # "none"
  <2> DEFINE call == [Top EXCEPT !.pc = "wantsDir", !.todo = Top.unit.wantsDir]
  <2>1. Continue(call) /\ UNCHANGED diskVars
    BY <1>2, <1>3 DEF EnableCopy, diskVars
  <2>2. GoesOn(call, Top, "wantsDir", Top.unit.wantsDir, Top.w)
    <3>1. "wantsDir" \in Place /\ Top.unit.wantsDir \in SUBSET Names /\ Top \in Call
      BY <1>1, TopFacts DEF Place, EnablePlaces
    <3>2. QED
      BY <3>1, CallPcTodo, Zenon
  <2> HIDE DEF call
  <2>3. CallInLibrary(call) /\ call \in Call /\ call.pc \in EnablePlaces /\ call.name = Top.name
    BY <1>1, <2>2, TopFacts DEF GoesOn, CallInLibrary, EnablePlaces
  <2>4. QED
    BY <1>1, <1>2, <2>1, <2>3, DiskScmPool, EnableContinues
<1>4. CASE file[Top.name] = "none"
  <2> DEFINE call == [Top EXCEPT !.pc = "write"]
  <2>1. Continue(call) /\ file' = [file EXCEPT ![Top.name] = "empty"]
    BY <1>4 DEF EnableCopy
  <2>2. GoesOn(call, Top, "write", Top.todo, Top.w)
    <3>1. "write" \in Place /\ Top \in Call
      BY <1>1, TopFacts DEF Place, EnablePlaces
    <3>2. QED
      BY <3>1, CallPc, Zenon
  <2> HIDE DEF call
  <2>3. CallInLibrary(call) /\ call \in Call /\ call.pc \in EnablePlaces /\ call.name = Top.name
    BY <1>1, <2>2, TopFacts DEF GoesOn, CallInLibrary, EnablePlaces
  <2>4. DiskOK' /\ DiskInLibrary'
    BY <1>1, <1>2, <2>1, FileWritten, TopFacts DEF PoolTyped, Content
  <2>5. QED
    BY <1>1, <1>2, <2>1, <2>3, <2>4, EnableContinues
<1>5. QED
  BY <1>3, <1>4

LEMMA EnableWriteTyped ==
  ASSUME PoolTyped, EnableWrite
  PROVE  PoolTyped'
<1> DEFINE call == [Top EXCEPT !.pc = "wantsDir", !.todo = Top.unit.wantsDir]
<1>1. "write" \in EnablePlaces /\ "write" \in Place /\ At("write")
  BY DEF EnablePlaces, Place, EnableWrite
<1>2. /\ StepUnchanged /\ link' = link /\ ScmOK' /\ PoolGrows /\ library' = library
      /\ Continue(call) /\ file' = [file EXCEPT ![Top.name] = "whole"]
  BY DiskScmPool DEF EnableWrite, StepUnchanged
<1>3. GoesOn(call, Top, "wantsDir", Top.unit.wantsDir, Top.w)
  <2>1. "wantsDir" \in Place /\ Top.unit.wantsDir \in SUBSET Names /\ Top \in Call
    BY <1>1, TopFacts DEF Place, EnablePlaces
  <2>2. QED
    BY <2>1, CallPcTodo, Zenon
<1> HIDE DEF call
<1>4. CallInLibrary(call) /\ call \in Call /\ call.pc \in EnablePlaces /\ call.name = Top.name
  BY <1>1, <1>3, TopFacts DEF GoesOn, CallInLibrary, EnablePlaces
<1>5. DiskOK' /\ DiskInLibrary'
  BY <1>1, <1>2, FileWritten, TopFacts DEF PoolTyped, Content
<1>6. QED
  BY <1>1, <1>2, <1>4, <1>5, EnableContinues

\* The unit of a file in the library's .wants directory.
LEMMA LoadedUnit ==
  ASSUME TypeOK, NEW n \in DOMAIN library, NEW u,
         u = [library[n] EXCEPT !.wants = @ \cup library[n].wantsDir]
  PROVE  u \in UnitFile /\ FromLibrary(u, n)
<1> DEFINE W == library[n].wants \cup library[n].wantsDir
<1>1. library[n] \in UnitFile /\ W \in SUBSET Names
  BY LibraryType, UnitFields
<1>2. u = [library[n] EXCEPT !.wants = W]
  OBVIOUS
<1>3. IsUnit(u, library[n].requires, W, library[n].wantsDir)
  BY <1>1, <1>2, UnitWants, Zenon
<1>4. QED
  BY <1>3 DEF IsUnit, FromLibrary

LEMMA LoadWantedTyped ==
  ASSUME PoolTyped, NEW w \in Names, LoadWanted(w)
  PROVE  PoolTyped'
<1>1. "wantsDir" \in EnablePlaces /\ "wantsDir" \in Place /\ At("wantsDir") /\ w \in Top.todo
  BY DEF EnablePlaces, Place, LoadWanted
<1>2. StepUnchanged /\ DiskOK' /\ DiskInLibrary' /\ ScmOK'
  BY DiskScmPool DEF LoadWanted
<1>3. /\ Top \in Call /\ Top.todo \ {w} \in SUBSET Names
      /\ "copyWanted" \in Place
  BY <1>1, TopFacts DEF Place, EnablePlaces
<1>4. PoolGrows
  <2>1. CASE w \in DOMAIN library \ (DOMAIN pool \cup nulls)
    <3> DEFINE u == [library[w] EXCEPT !.wants = @ \cup library[w].wantsDir]
    <3>1. /\ pool' = [n \in DOMAIN pool \cup {w} |->
                        IF n = w THEN [unit |-> u, deps |-> {}] ELSE pool[n]]
          /\ nulls' = nulls
      BY <2>1 DEF LoadWanted
    <3>2. u \in UnitFile /\ FromLibrary(u, w)
      BY <2>1, LoadedUnit DEF PoolTyped
    <3> HIDE DEF u
    <3>3. [unit |-> u, deps |-> {}] \in Object /\ [unit |-> u, deps |-> {}].unit = u
      BY <3>2 DEF Object
    <3>4. DOMAIN pool' = DOMAIN pool \cup {w} /\ pool'[w] = [unit |-> u, deps |-> {}]
      BY <3>1
    <3>5. pool' \in [DOMAIN pool' -> Object] /\ \A n \in DOMAIN pool : pool'[n] = pool[n]
      BY <2>1, <3>1, <3>3, PoolFacts DEF PoolTyped
    <3>6. QED
      BY <2>1, <3>1, <3>2, <3>3, <3>4, <3>5, PoolFacts DEF PoolGrows, PoolTyped
  <2>2. CASE w \notin DOMAIN library \ (DOMAIN pool \cup nulls)
    BY <1>2, <2>2, DiskScmPool DEF LoadWanted, poolVars
  <2>3. QED
    BY <2>1, <2>2
<1>5. CASE w \in DOMAIN library \ nulls
  <2> DEFINE call == [Top EXCEPT !.pc = "copyWanted", !.w = w, !.todo = @ \ {w}]
  <2>1. Continue(call)
    BY <1>5 DEF LoadWanted
  <2>2. GoesOn(call, Top, "copyWanted", Top.todo \ {w}, w)
    BY <1>3, CallPcTodoW, Zenon
  <2> HIDE DEF call
  <2>3. CallInLibrary(call) /\ call \in Call /\ call.pc \in EnablePlaces /\ call.name = Top.name
    BY <1>1, <1>5, <2>2, TopFacts DEF GoesOn, CallInLibrary, EnablePlaces
  <2>4. QED
    BY <1>1, <1>2, <1>4, <2>1, <2>3, EnableContinues
<1>6. CASE w \notin DOMAIN library \ nulls
  <2> DEFINE call == [Top EXCEPT !.todo = @ \ {w}]
  <2>1. Continue(call)
    BY <1>6 DEF LoadWanted
  <2>2. GoesOn(call, Top, Top.pc, Top.todo \ {w}, Top.w)
    BY <1>3, CallTodo, Zenon
  <2> HIDE DEF call
  <2>3. CallInLibrary(call) /\ call \in Call /\ call.pc \in EnablePlaces /\ call.name = Top.name
    BY <1>1, <2>2, TopFacts DEF GoesOn, CallInLibrary, EnablePlaces
  <2>4. QED
    BY <1>1, <1>2, <1>4, <2>1, <2>3, EnableContinues
<1>7. QED
  BY <1>5, <1>6

LEMMA CopyWantedTyped ==
  ASSUME PoolTyped, CopyWanted
  PROVE  PoolTyped'
<1>1. "copyWanted" \in EnablePlaces /\ "copyWanted" \in Place /\ At("copyWanted")
  BY DEF EnablePlaces, Place, CopyWanted
<1>2. StepUnchanged /\ link' = link /\ ScmOK' /\ PoolGrows /\ library' = library
  BY DiskScmPool DEF CopyWanted, StepUnchanged
<1>3. Top \in Call /\ {"link", "writeWanted"} \subseteq Place
  BY <1>1, TopFacts DEF Place, EnablePlaces
<1>4. CASE file[Top.w] # "none"
  <2> DEFINE call == [Top EXCEPT !.pc = "link"]
  <2>1. Continue(call) /\ UNCHANGED diskVars
    BY <1>2, <1>4 DEF CopyWanted, diskVars
  <2>2. GoesOn(call, Top, "link", Top.todo, Top.w)
    BY <1>3, CallPc, Zenon
  <2> HIDE DEF call
  <2>3. CallInLibrary(call) /\ call \in Call /\ call.pc \in EnablePlaces /\ call.name = Top.name
    BY <1>1, <2>2, TopFacts DEF GoesOn, CallInLibrary, EnablePlaces
  <2>4. QED
    BY <1>1, <1>2, <2>1, <2>3, DiskScmPool, EnableContinues
<1>5. CASE file[Top.w] = "none"
  <2> DEFINE call == [Top EXCEPT !.pc = "writeWanted"]
  <2>1. Continue(call) /\ file' = [file EXCEPT ![Top.w] = "empty"]
    BY <1>5 DEF CopyWanted
  <2>2. GoesOn(call, Top, "writeWanted", Top.todo, Top.w)
    BY <1>3, CallPc, Zenon
  <2> HIDE DEF call
  <2>3. CallInLibrary(call) /\ call \in Call /\ call.pc \in EnablePlaces /\ call.name = Top.name
    BY <1>1, <2>2, TopFacts DEF GoesOn, CallInLibrary, EnablePlaces
  <2>4. Top.w \in DOMAIN library
    BY <1>1, TopFacts DEF CallInLibrary
  <2>5. DiskOK' /\ DiskInLibrary'
    BY <1>2, <2>1, <2>4, FileWritten DEF PoolTyped, Content
  <2>6. QED
    BY <1>1, <1>2, <2>1, <2>3, <2>5, EnableContinues
<1>6. QED
  BY <1>4, <1>5

LEMMA WriteWantedTyped ==
  ASSUME PoolTyped, WriteWanted
  PROVE  PoolTyped'
<1> DEFINE call == [Top EXCEPT !.pc = "link"]
<1>1. "writeWanted" \in EnablePlaces /\ "writeWanted" \in Place /\ At("writeWanted")
  BY DEF EnablePlaces, Place, WriteWanted
<1>2. /\ StepUnchanged /\ link' = link /\ ScmOK' /\ PoolGrows /\ library' = library
      /\ Continue(call) /\ file' = [file EXCEPT ![Top.w] = "whole"]
  BY DiskScmPool DEF WriteWanted, StepUnchanged
<1>3. GoesOn(call, Top, "link", Top.todo, Top.w)
  <2>1. "link" \in Place /\ Top \in Call
    BY <1>1, TopFacts DEF Place, EnablePlaces
  <2>2. QED
    BY <2>1, CallPc, Zenon
<1> HIDE DEF call
<1>4. CallInLibrary(call) /\ call \in Call /\ call.pc \in EnablePlaces /\ call.name = Top.name
  BY <1>1, <1>3, TopFacts DEF GoesOn, CallInLibrary, EnablePlaces
<1>5. Top.w \in DOMAIN library
  BY <1>1, TopFacts DEF CallInLibrary
<1>6. DiskOK' /\ DiskInLibrary'
  BY <1>2, <1>5, FileWritten DEF PoolTyped, Content
<1>7. QED
  BY <1>1, <1>2, <1>4, <1>6, EnableContinues

LEMMA LinkWantedTyped ==
  ASSUME PoolTyped, LinkWanted
  PROVE  PoolTyped'
<1> DEFINE call == [Top EXCEPT !.pc = "wantsDir", !.unit.wants = @ \cup {Top.w}]
           wanted == Top.unit.wants \cup {Top.w}
           content == IF link[<<Top.name, Top.w>>] = "none" THEN file[Top.w]
                      ELSE link[<<Top.name, Top.w>>]
<1>1. "link" \in EnablePlaces /\ "link" \in Place /\ At("link")
  BY DEF EnablePlaces, Place, LinkWanted
<1>2. /\ StepUnchanged /\ file' = file /\ ScmOK' /\ PoolGrows /\ library' = library
      /\ Continue(call) /\ link' = [link EXCEPT ![<<Top.name, Top.w>>] = content]
  BY DiskScmPool DEF LinkWanted, StepUnchanged
<1>3. /\ Top \in Call /\ "wantsDir" \in Place /\ wanted \in SUBSET Names
      /\ Top.w \in DOMAIN library /\ Top.w \in Top.unit.wantsDir /\ Top.name \in DOMAIN library
      /\ Top.w \in library[Top.name].wantsDir
  BY <1>1, TopFacts DEF Place, EnablePlaces, CallInLibrary, FromLibrary
<1>4. LinksOn(call, Top, "wantsDir", wanted)
  BY <1>3, CallWants, Zenon
<1>5. content \in Content
  BY <1>1, TopFacts DEF PoolTyped, TypeOK, DiskOK
<1> HIDE DEF call, wanted, content
<1>6. DiskOK' /\ DiskInLibrary'
  BY <1>2, <1>3, <1>5, LinkWritten DEF PoolTyped
<1>7. CallInLibrary(call) /\ call \in Call /\ call.pc \in EnablePlaces /\ call.name = Top.name
  BY <1>1, <1>3, <1>4, TopFacts DEF LinksOn, CallInLibrary, FromLibrary, EnablePlaces, wanted
<1>8. QED
  BY <1>1, <1>2, <1>6, <1>7, EnableContinues

LEMMA WantsDirDoneTyped ==
  ASSUME PoolTyped, WantsDirDone
  PROVE  PoolTyped'
<1> DEFINE call == [Top EXCEPT !.pc = "requires", !.todo = Top.unit.requires]
<1>1. "wantsDir" \in EnablePlaces /\ "wantsDir" \in Place /\ At("wantsDir")
  BY DEF EnablePlaces, Place, WantsDirDone
<1>2. StepUnchanged /\ DiskOK' /\ DiskInLibrary' /\ ScmOK' /\ PoolGrows /\ Continue(call)
  BY DiskScmPool DEF WantsDirDone
<1>3. Top \in Call /\ "requires" \in Place /\ Top.unit.requires \in SUBSET Names
  BY <1>1, TopFacts DEF Place, EnablePlaces
<1>4. GoesOn(call, Top, "requires", Top.unit.requires, Top.w)
  BY <1>3, CallPcTodo, Zenon
<1> HIDE DEF call
<1>5. CallInLibrary(call) /\ call \in Call /\ call.pc \in EnablePlaces /\ call.name = Top.name
  BY <1>1, <1>4, TopFacts DEF GoesOn, CallInLibrary, EnablePlaces
<1>6. QED
  BY <1>1, <1>2, <1>5, EnableContinues

LEMMA RequiresDoneTyped ==
  ASSUME PoolTyped, RequiresDone
  PROVE  PoolTyped'
<1> DEFINE call == [Top EXCEPT !.pc = "wants", !.todo = Top.unit.wants]
<1>1. "requires" \in EnablePlaces /\ "requires" \in Place /\ At("requires")
  BY DEF EnablePlaces, Place, RequiresDone
<1>2. StepUnchanged /\ DiskOK' /\ DiskInLibrary' /\ ScmOK' /\ PoolGrows /\ Continue(call)
  BY DiskScmPool DEF RequiresDone
<1>3. Top \in Call /\ "wants" \in Place /\ Top.unit.wants \in SUBSET Names
  BY <1>1, TopFacts DEF Place, EnablePlaces
<1>4. GoesOn(call, Top, "wants", Top.unit.wants, Top.w)
  BY <1>3, CallPcTodo, Zenon
<1> HIDE DEF call
<1>5. CallInLibrary(call) /\ call \in Call /\ call.pc \in EnablePlaces /\ call.name = Top.name
  BY <1>1, <1>4, TopFacts DEF GoesOn, CallInLibrary, EnablePlaces
<1>6. QED
  BY <1>1, <1>2, <1>5, EnableContinues

LEMMA WantsDoneTyped ==
  ASSUME PoolTyped, WantsDone
  PROVE  PoolTyped'
<1> DEFINE call == [Top EXCEPT !.pc = "register"]
<1>1. "wants" \in EnablePlaces /\ "wants" \in Place /\ At("wants")
  BY DEF EnablePlaces, Place, WantsDone
<1>2. StepUnchanged /\ DiskOK' /\ DiskInLibrary' /\ ScmOK' /\ PoolGrows /\ Continue(call)
  BY DiskScmPool DEF WantsDone
<1>3. Top \in Call /\ "register" \in Place
  BY <1>1, TopFacts DEF Place, EnablePlaces
<1>4. GoesOn(call, Top, "register", Top.todo, Top.w)
  BY <1>3, CallPc, Zenon
<1> HIDE DEF call
<1>5. CallInLibrary(call) /\ call \in Call /\ call.pc \in EnablePlaces /\ call.name = Top.name
  BY <1>1, <1>4, TopFacts DEF GoesOn, CallInLibrary, EnablePlaces
<1>6. QED
  BY <1>1, <1>2, <1>5, EnableContinues

LEMMA WantedReturnsTyped ==
  ASSUME PoolTyped, WantedReturns
  PROVE  PoolTyped'
<1> DEFINE call == [Top EXCEPT !.pc = "wants", !.deps = @ \cup {Top.w}, !.todo = @ \ {Top.w}]
<1>1. "wanted" \in EnablePlaces /\ "wanted" \in Place /\ At("wanted")
  BY DEF EnablePlaces, Place, WantedReturns
<1>2. StepUnchanged /\ DiskOK' /\ DiskInLibrary' /\ ScmOK' /\ PoolGrows /\ Continue(call)
  BY DiskScmPool DEF WantedReturns
<1>3. /\ Top \in Call /\ "wants" \in Place /\ Top.todo \ {Top.w} \in SUBSET Names
      /\ Top.deps \cup {Top.w} \in SUBSET Names
  BY <1>1, TopFacts DEF Place, EnablePlaces
<1>4. GoesOn(call, Top, "wants", Top.todo \ {Top.w}, Top.w)
  BY <1>3, CallPcDepsTodo, Zenon
<1> HIDE DEF call
<1>5. CallInLibrary(call) /\ call \in Call /\ call.pc \in EnablePlaces /\ call.name = Top.name
  BY <1>1, <1>4, TopFacts DEF GoesOn, CallInLibrary, EnablePlaces
<1>6. QED
  BY <1>1, <1>2, <1>5, EnableContinues

LEMMA RequiredReturnsTyped ==
  ASSUME PoolTyped, RequiredReturns
  PROVE  PoolTyped'
<1> DEFINE call == [Top EXCEPT !.pc = "requires", !.deps = @ \cup {Top.w}, !.todo = @ \ {Top.w}]
<1>1. "required" \in EnablePlaces /\ "required" \in Place /\ At("required")
  BY DEF EnablePlaces, Place, RequiredReturns
<1>2. /\ StepUnchanged /\ DiskOK' /\ DiskInLibrary' /\ ScmOK' /\ PoolGrows
      /\ Continue(call) \/ Return(FALSE)
  BY DiskScmPool DEF RequiredReturns
<1>3. CASE Return(FALSE)
  <2>1. FALSE \in BOOLEAN /\ stack # << >>
    BY <1>1 DEF At
  <2>2. QED
    BY <1>2, <1>3, <2>1, CallReturns
<1>4. CASE Continue(call)
  <2>1. /\ Top \in Call /\ "requires" \in Place /\ Top.todo \ {Top.w} \in SUBSET Names
        /\ Top.deps \cup {Top.w} \in SUBSET Names
    BY <1>1, TopFacts DEF Place, EnablePlaces
  <2>2. GoesOn(call, Top, "requires", Top.todo \ {Top.w}, Top.w)
    BY <2>1, CallPcDepsTodo, Zenon
  <2> HIDE DEF call
  <2>3. CallInLibrary(call) /\ call \in Call /\ call.pc \in EnablePlaces /\ call.name = Top.name
    BY <1>1, <2>2, TopFacts DEF GoesOn, CallInLibrary, EnablePlaces
  <2>4. QED
    BY <1>1, <1>2, <1>4, <2>3, EnableContinues
<1>5. QED
  BY <1>2, <1>3, <1>4

LEMMA EnableRegisterTyped ==
  ASSUME PoolTyped, EnableRegister
  PROVE  PoolTyped'
<1>1. "register" \in EnablePlaces /\ "register" \in Place /\ At("register") /\ TRUE \in BOOLEAN
  BY DEF EnablePlaces, Place, EnableRegister
<1>2. StepUnchanged /\ DiskOK' /\ DiskInLibrary' /\ PoolGrows /\ Return(TRUE)
  BY DiskScmPool DEF EnableRegister
<1>3. RegisterService(Top.name, Top.deps) \/ UNCHANGED scmVars
  BY DEF EnableRegister
<1>4. ScmOK'
  BY <1>1, <1>3, TopFacts, ScmTypes DEF PoolTyped
<1>5. stack # << >>
  BY <1>1 DEF At
<1>6. QED
  BY <1>1, <1>2, <1>4, <1>5, CallReturns

\* Enable calls Enable, at the bottom of MaxDepth calls in vain.
LEMMA EnableOtherTyped ==
  ASSUME PoolTyped, NEW at \in {"requires", "wants"}, At(at),
         NEW w \in Names, NEW place \in {"required", "wanted"},
         at = "requires" => place = "required" /\ w \in Top.unit.requires,
         at = "wants" => place = "wanted" /\ w \in Top.unit.wants,
         NEW unit \in UnitFile, FromLibrary(unit, w), NEW d \in SUBSET Names,
         EnableOther(EnableCall(w, unit, d), w, place)
  PROVE  PoolTyped'
<1>1. at \in EnablePlaces /\ at \in Place /\ place \in Place
  BY DEF EnablePlaces, Place
<1>2. CASE Len(stack) = MaxDepth
  <2>1. /\ "overflow" \in Exit /\ EndProcess("overflow")
        /\ UNCHANGED <<library, given, diskVars, scmVars>>
    BY <1>2 DEF EnableOther, Die, Exit
  <2>2. QED
    BY <2>1, EndProcessTyped
<1>3. CASE Len(stack) # MaxDepth
  <2> DEFINE call == EnableCall(w, unit, d)
             waits == [Top EXCEPT !.pc = place, !.w = w]
  <2>1. call \in Call /\ call.name = w /\ call.unit = unit /\ call.pc = "copy"
    BY CallTypes
  <2>2. Top \in Call
    BY <1>1, TopFacts
  <2>3. GoesOn(waits, Top, place, Top.todo, w)
    BY <1>1, <2>2, TopWaits, Zenon
  <2>4. /\ StepUnchanged /\ DiskOK' /\ DiskInLibrary' /\ ScmOK' /\ ret' = ret
        /\ library' = library /\ cmd' = cmd
        /\ pool' = pool /\ nulls' = nulls \cup ({w} \ DOMAIN pool)
        /\ stack' = Append([stack EXCEPT ![Len(stack)] = [@ EXCEPT !.pc = place, !.w = w]], call)
    BY <1>3, DiskScmPool DEF EnableOther, StepUnchanged
  <2>5. waits = [Top EXCEPT !.pc = place, !.w = w]
    OBVIOUS
  <2> HIDE DEF call, waits
  <2>6. CallInLibrary(call)
    BY <2>1 DEF CallInLibrary
  <2>7. CallInLibrary(waits)
    BY <1>1, <2>3, TopFacts DEF GoesOn, CallInLibrary
  <2>8. cmd.op = "enable" /\ stack # << >>
    BY <1>1, TopFacts, PlacesOfEnable
  <2>9. PoolGrows
    BY <2>4, PoolFacts DEF PoolGrows, PoolTyped
  <2>10. StackOK' /\ StackInLibrary'
    BY <1>3, <2>1, <2>4, <2>5, <2>6, <2>7, <2>8, StackCalls DEF PoolTyped
  <2>11. QED
    BY <2>4, <2>8, <2>9, <2>10, CallStepTyped
<1>4. QED
  BY <1>2, <1>3

\* A unit of the pool or of the library can be enabled.
LEMMA EnableOtherUnit ==
  ASSUME PoolTyped, stack # << >>, NEW at \in {"requires", "wants"}, At(at),
         NEW w \in Names, NEW place \in {"required", "wanted"},
         at = "requires" => place = "required" /\ w \in Top.unit.requires,
         at = "wants" => place = "wanted" /\ w \in Top.unit.wants,
         \/ w \in DOMAIN pool /\ EnableOther(PoolCall(w), w, place)
         \/ w \in DOMAIN library /\ EnableOther(LibraryCall(w), w, place)
  PROVE  PoolTyped'
<1>1. pc # "register"
  BY DEF PoolTyped, PhaseInv
<1>2. CASE w \in DOMAIN pool /\ EnableOther(PoolCall(w), w, place)
  <2>1. /\ pool[w].unit \in UnitFile /\ FromLibrary(pool[w].unit, w)
        /\ pool[w].deps \in SUBSET Names
    BY <1>1, <1>2, PoolFacts DEF PoolTyped, PoolInLibrary
  <2>2. EnableOther(EnableCall(w, pool[w].unit, pool[w].deps), w, place)
    BY <1>2 DEF PoolCall
  <2>3. QED
    BY <2>1, <2>2, EnableOtherTyped
<1>3. CASE w \in DOMAIN library /\ EnableOther(LibraryCall(w), w, place)
  <2>1. library[w] \in UnitFile /\ FromLibrary(library[w], w) /\ {} \in SUBSET Names
    BY <1>3, LibraryType DEF PoolTyped, FromLibrary
  <2>2. EnableOther(EnableCall(w, library[w], {}), w, place)
    BY <1>3 DEF LibraryCall
  <2>3. QED
    BY <2>1, <2>2, EnableOtherTyped
<1>4. QED
  BY <1>2, <1>3

LEMMA EnableRequiredTyped ==
  ASSUME PoolTyped, NEW r \in Names, EnableRequired(r)
  PROVE  PoolTyped'
<1>1. "requires" \in EnablePlaces /\ "requires" \in Place /\ At("requires") /\ r \in Top.todo
  BY DEF EnablePlaces, Place, EnableRequired
<1>2. r \in Top.unit.requires /\ stack # << >>
  BY <1>1, TopFacts DEF CallInLibrary
<1>3. CASE r \in DOMAIN library /\ EnableOther(LibraryCall(r), r, "required")
  BY <1>1, <1>2, <1>3, EnableOtherUnit
<1>4. CASE /\ r \in DOMAIN pool
           /\ Continue([Top EXCEPT !.deps = @ \cup {r}, !.todo = @ \ {r}])
           /\ StepUnchanged /\ UNCHANGED <<diskVars, scmVars, poolVars>>
  <2> DEFINE call == [Top EXCEPT !.deps = @ \cup {r}, !.todo = @ \ {r}]
  <2>1. StepUnchanged /\ DiskOK' /\ DiskInLibrary' /\ ScmOK' /\ PoolGrows /\ Continue(call)
    BY <1>4, DiskScmPool
  <2>2. /\ Top \in Call /\ Top.todo \ {r} \in SUBSET Names /\ Top.deps \cup {r} \in SUBSET Names
    BY <1>1, TopFacts
  <2>3. GoesOn(call, Top, Top.pc, Top.todo \ {r}, Top.w)
    BY <2>2, CallDepsTodo, Zenon
  <2> HIDE DEF call
  <2>4. CallInLibrary(call) /\ call \in Call /\ call.pc \in EnablePlaces /\ call.name = Top.name
    BY <1>1, <2>3, TopFacts DEF GoesOn, CallInLibrary, EnablePlaces
  <2>5. QED
    BY <1>1, <2>1, <2>4, EnableContinues
<1>5. CASE /\ r \notin DOMAIN library \cup DOMAIN pool
           /\ nulls' = nulls \cup {r}
           /\ Return(FALSE)
           /\ StepUnchanged /\ UNCHANGED <<diskVars, scmVars, pool>>
  <2>1. StepUnchanged /\ DiskOK' /\ DiskInLibrary' /\ ScmOK'
    BY <1>5, DiskScmPool
  <2>2. PoolGrows
    BY <1>5, PoolFacts DEF PoolGrows, PoolTyped
  <2>3. FALSE \in BOOLEAN /\ Return(FALSE)
    BY <1>5
  <2>4. QED
    BY <1>2, <2>1, <2>2, <2>3, CallReturns
<1>6. QED
  BY <1>3, <1>4, <1>5 DEF EnableRequired

LEMMA EnableWantedTyped ==
  ASSUME PoolTyped, NEW w \in Names, EnableWanted(w)
  PROVE  PoolTyped'
<1>1. "wants" \in EnablePlaces /\ "wants" \in Place /\ At("wants") /\ w \in Top.todo
  BY DEF EnablePlaces, Place, EnableWanted
<1>2. w \in Top.unit.wants /\ stack # << >>
  BY <1>1, TopFacts DEF CallInLibrary
<1>3. CASE Die("null")
  <2>1. /\ "null" \in Exit /\ EndProcess("null")
        /\ UNCHANGED <<library, given, diskVars, scmVars>>
    BY <1>3 DEF Die, Exit
  <2>2. QED
    BY <2>1, EndProcessTyped
<1>4. CASE ~Die("null")
  BY <1>1, <1>2, <1>4, EnableOtherUnit DEF EnableWanted
<1>5. QED
  BY <1>3, <1>4

LEMMA EnableTyped ==
  ASSUME PoolTyped, Enable
  PROVE  PoolTyped'
BY EnableCopyTyped, EnableWriteTyped, CopyWantedTyped, WriteWantedTyped, LinkWantedTyped,
   WantsDirDoneTyped, RequiredReturnsTyped, RequiresDoneTyped, WantedReturnsTyped,
   WantsDoneTyped, EnableRegisterTyped, LoadWantedTyped, EnableRequiredTyped, EnableWantedTyped
   DEF Enable

-----------------------------------------------------------------------------
(* Mask and Unmask.                                                        *)

LEMMA CallContinues ==
  ASSUME PoolTyped, stack # << >>, StepUnchanged, DiskOK', DiskInLibrary', ScmOK', PoolGrows,
         NEW call \in Call, CallInLibrary(call), call.pc \in Places(cmd.op),
         call.name = Top.name, Continue(call)
  PROVE  PoolTyped'
<1>1. library' = library /\ cmd' = cmd
  BY DEF StepUnchanged
<1>2. StackOK' /\ StackInLibrary'
  BY <1>1, StackContinues DEF PoolTyped
<1>3. QED
  BY <1>2, CallStepTyped

LEMMA PlacesOfMask ==
  ASSUME NEW at \in MaskPlaces, at \in Places(cmd.op)
  PROVE  cmd.op \in {"mask", "daemon-reload"} /\ MaskPlaces = Places(cmd.op)
BY DEF Places, EnablePlaces, MaskPlaces, UnmaskPlaces

LEMMA PlacesOfUnmask ==
  ASSUME NEW at \in UnmaskPlaces, at \in Places(cmd.op)
  PROVE  cmd.op = "unmask" /\ UnmaskPlaces = Places(cmd.op)
BY DEF Places, EnablePlaces, MaskPlaces, UnmaskPlaces

LEMMA FileRemoved ==
  ASSUME TypeOK, DiskInLibrary, NEW n \in Names,
         file' = [file EXCEPT ![n] = "none"], link' = link, library' = library
  PROVE  DiskOK' /\ DiskInLibrary'
BY DEF TypeOK, DiskOK, DiskInLibrary, Content

LEMMA LinkRemoved ==
  ASSUME TypeOK, DiskInLibrary, NEW p \in Names, NEW w \in Names,
         link' = [link EXCEPT ![<<p, w>>] = "none"], file' = file, library' = library
  PROVE  DiskOK' /\ DiskInLibrary'
<1>1. /\ link \in [Names \X Names -> Content] /\ file \in [Names -> Content]
      /\ \A q, x \in Names : <<q, x>> \in Names \X Names
  BY DEF TypeOK, DiskOK
<1>2. link' \in [Names \X Names -> Content]
  BY <1>1 DEF Content
<1>3. \A q, x \in Names : link'[<<q, x>>] # "none" => link[<<q, x>>] # "none"
  BY <1>1
<1>4. QED
  BY <1>1, <1>2, <1>3 DEF DiskOK, DiskInLibrary

LEMMA MaskLinksTyped ==
  ASSUME PoolTyped, MaskLinks
  PROVE  PoolTyped'
<1>1. "links" \in MaskPlaces /\ "links" \in Place /\ At("links")
  BY DEF MaskPlaces, Place, MaskLinks
<1>2. /\ StepUnchanged /\ file' = file /\ ScmOK' /\ PoolGrows /\ library' = library
      /\ cmd' = cmd /\ stack # << >>
  BY <1>1, DiskScmPool DEF MaskLinks, StepUnchanged, At
<1>3. ASSUME NEW w \in Names, link' = [link EXCEPT ![<<Top.name, w>>] = "none"],
             UNCHANGED <<stack, ret>>
      PROVE  PoolTyped'
  <2>1. DiskOK' /\ DiskInLibrary'
    BY <1>1, <1>2, <1>3, TopFacts, LinkRemoved DEF PoolTyped
  <2>2. StackOK'
    BY <1>3 DEF PoolTyped, TypeOK, StackOK
  <2>3. StackInLibrary'
    BY <1>2, <1>3, LibraryStays DEF PoolTyped, StackInLibrary
  <2>4. QED
    BY <1>2, <2>1, <2>2, <2>3, CallStepTyped
<1>4. ASSUME Continue([Top EXCEPT !.pc = "unregister"]), UNCHANGED link
      PROVE  PoolTyped'
  <2> DEFINE call == [Top EXCEPT !.pc = "unregister"]
  <2>1. Continue(call) /\ UNCHANGED diskVars
    BY <1>2, <1>4 DEF diskVars
  <2>2. GoesOn(call, Top, "unregister", Top.todo, Top.w)
    <3>1. "unregister" \in Place /\ Top \in Call
      BY <1>1, TopFacts DEF Place, MaskPlaces
    <3>2. QED
      BY <3>1, CallPc, Zenon
  <2> HIDE DEF call
  <2>3. CallInLibrary(call) /\ call \in Call /\ call.pc \in MaskPlaces /\ call.name = Top.name
    BY <1>1, <2>2, TopFacts DEF GoesOn, CallInLibrary, MaskPlaces
  <2>4. call.pc \in Places(cmd.op)
    BY <1>1, <2>3, TopFacts, PlacesOfMask
  <2>5. QED
    BY <1>2, <2>1, <2>3, <2>4, DiskScmPool, CallContinues
<1>5. QED
  BY <1>3, <1>4 DEF MaskLinks

LEMMA MaskUnregisterTyped ==
  ASSUME PoolTyped, MaskUnregister
  PROVE  PoolTyped'
<1> DEFINE call == [Top EXCEPT !.pc = "remove"]
<1>1. "unregister" \in MaskPlaces /\ "unregister" \in Place /\ At("unregister")
  BY DEF MaskPlaces, Place, MaskUnregister
<1>2. /\ StepUnchanged /\ DiskOK' /\ DiskInLibrary' /\ PoolGrows /\ Continue(call)
      /\ stack # << >>
  BY <1>1, DiskScmPool DEF MaskUnregister, At
<1>3. ScmOK'
  <2>1. UnregisterService(Top.name) /\ Top.name \in Names /\ {} \in SUBSET Names
    BY <1>1, TopFacts DEF MaskUnregister
  <2>2. QED
    BY <2>1, ScmTypes DEF PoolTyped
<1>4. GoesOn(call, Top, "remove", Top.todo, Top.w)
  <2>1. "remove" \in Place /\ Top \in Call
    BY <1>1, TopFacts DEF Place, MaskPlaces
  <2>2. QED
    BY <2>1, CallPc, Zenon
<1> HIDE DEF call
<1>5. CallInLibrary(call) /\ call \in Call /\ call.pc \in MaskPlaces /\ call.name = Top.name
  BY <1>1, <1>4, TopFacts DEF GoesOn, CallInLibrary, MaskPlaces
<1>6. call.pc \in Places(cmd.op)
  BY <1>1, <1>5, TopFacts, PlacesOfMask
<1>7. QED
  BY <1>2, <1>3, <1>5, <1>6, CallContinues

LEMMA MaskRemoveTyped ==
  ASSUME PoolTyped, MaskRemove
  PROVE  PoolTyped'
<1>1. "remove" \in MaskPlaces /\ "remove" \in Place /\ At("remove")
  BY DEF MaskPlaces, Place, MaskRemove
<1>2. /\ StepUnchanged /\ link' = link /\ ScmOK' /\ PoolGrows /\ library' = library
      /\ stack # << >> /\ file' = [file EXCEPT ![Top.name] = "none"] /\ Return(FALSE)
  BY <1>1, DiskScmPool DEF MaskRemove, StepUnchanged, At
<1>3. DiskOK' /\ DiskInLibrary' /\ FALSE \in BOOLEAN
  BY <1>1, <1>2, TopFacts, FileRemoved DEF PoolTyped
<1>4. QED
  BY <1>2, <1>3, CallReturns

LEMMA UnmaskRestoreTyped ==
  ASSUME PoolTyped, UnmaskRestore
  PROVE  PoolTyped'
<1>1. "restore" \in UnmaskPlaces /\ "restore" \in Place /\ At("restore")
  BY DEF UnmaskPlaces, Place, UnmaskRestore
<1>2. /\ StepUnchanged /\ link' = link /\ ScmOK' /\ PoolGrows /\ library' = library
      /\ stack # << >>
  BY <1>1, DiskScmPool DEF UnmaskRestore, StepUnchanged, At
<1>3. CASE Return(TRUE) /\ UNCHANGED file
  <2>1. DiskOK' /\ DiskInLibrary' /\ TRUE \in BOOLEAN
    BY <1>2, <1>3, DiskStays DEF PoolTyped, diskVars
  <2>2. QED
    BY <1>2, <1>3, <2>1, CallReturns
<1>4. CASE /\ Continue([Top EXCEPT !.pc = "rewrite"])
           /\ file' = [file EXCEPT ![Top.name] = "empty"]
  <2> DEFINE call == [Top EXCEPT !.pc = "rewrite"]
  <2>1. Continue(call) /\ file' = [file EXCEPT ![Top.name] = "empty"]
    BY <1>4
  <2>2. GoesOn(call, Top, "rewrite", Top.todo, Top.w)
    <3>1. "rewrite" \in Place /\ Top \in Call
      BY <1>1, TopFacts DEF Place, UnmaskPlaces
    <3>2. QED
      BY <3>1, CallPc, Zenon
  <2> HIDE DEF call
  <2>3. CallInLibrary(call) /\ call \in Call /\ call.pc \in UnmaskPlaces /\ call.name = Top.name
    BY <1>1, <2>2, TopFacts DEF GoesOn, CallInLibrary, UnmaskPlaces
  <2>4. call.pc \in Places(cmd.op)
    BY <1>1, <2>3, TopFacts, PlacesOfUnmask
  <2>5. DiskOK' /\ DiskInLibrary'
    BY <1>1, <1>2, <2>1, FileWritten, TopFacts DEF PoolTyped, Content
  <2>6. QED
    BY <1>2, <2>1, <2>3, <2>4, <2>5, CallContinues
<1>5. QED
  BY <1>3, <1>4 DEF UnmaskRestore

LEMMA UnmaskRewriteTyped ==
  ASSUME PoolTyped, UnmaskRewrite
  PROVE  PoolTyped'
<1>1. "rewrite" \in UnmaskPlaces /\ "rewrite" \in Place /\ At("rewrite")
  BY DEF UnmaskPlaces, Place, UnmaskRewrite
<1>2. /\ StepUnchanged /\ link' = link /\ ScmOK' /\ PoolGrows /\ library' = library
      /\ stack # << >> /\ file' = [file EXCEPT ![Top.name] = "whole"] /\ Return(TRUE)
  BY <1>1, DiskScmPool DEF UnmaskRewrite, StepUnchanged, At
<1>3. DiskOK' /\ DiskInLibrary' /\ TRUE \in BOOLEAN
  BY <1>1, <1>2, TopFacts, FileWritten DEF PoolTyped, Content
<1>4. QED
  BY <1>2, <1>3, CallReturns

-----------------------------------------------------------------------------
(* The commands.                                                           *)

LEMMA SingleCall ==
  ASSUME PoolTyped, NEW call \in Call, CallInLibrary(call), call.pc \in Places(cmd'.op),
         stack' = <<call>>, ret' = ret, library' = library
  PROVE  StackOK' /\ StackInLibrary'
<1>1. stack' \in Seq(Call) /\ Len(stack') = 1 /\ stack'[1] = call
  OBVIOUS
<1>2. StackOK'
  BY <1>1, CommandsAssumption DEF StackOK, PoolTyped, TypeOK
<1>3. \A i \in 1..Len(stack') : i = 1
  BY <1>1
<1>4. \A i \in 1..Len(stack') : CallInLibrary(stack'[i]) /\ stack'[i].pc \in Places(cmd'.op)
  BY <1>1, <1>3
<1>5. QED
  BY <1>1, <1>2, <1>3, <1>4, LibraryStays DEF StackInLibrary

\* A command of the units that the process was given.
LEMMA NextUnitTyped ==
  ASSUME TypeOK, cmd.units # << >>, NextUnit
  PROVE  /\ cmd' \in [op: Op, units: Seq(Names)] /\ cmd'.op = cmd.op /\ Unit \in Names
<1>1. cmd \in [op: Op, units: Seq(Names)] /\ cmd.units \in Seq(Names)
  BY DEF TypeOK, ProcessOK
<1>2. Tail(cmd.units) \in Seq(Names) /\ Unit \in Names
  BY <1>1, HeadTailProperties DEF Unit
<1>3. \A T \in Seq(Names) : /\ [cmd EXCEPT !.units = T] \in [op: Op, units: Seq(Names)]
                            /\ [cmd EXCEPT !.units = T].op = cmd.op
  BY <1>1
<1>4. QED
  BY <1>2, <1>3, Zenon DEF NextUnit

LEMMA CommandStepTyped ==
  ASSUME PoolTyped, pc = "units", cmd.units # << >>, NextUnit, CommandUnchanged, ScmOK',
         pool' = pool, nulls \subseteq nulls', nulls' \subseteq Names \ DOMAIN pool,
         StackOK', StackInLibrary'
  PROVE  PoolTyped'
<1>1. /\ library' = library /\ file' = file /\ link' = link /\ given' = given /\ exit' = exit
      /\ pc' = pc /\ todo' = todo
  BY DEF CommandUnchanged, diskVars
<1>2. cmd' \in [op: Op, units: Seq(Names)] /\ cmd'.op = cmd.op
  BY NextUnitTyped DEF PoolTyped
<1>3. DiskOK' /\ DiskInLibrary' /\ library' \in Libraries
  BY <1>1, DiskStays DEF PoolTyped, TypeOK, diskVars
<1>4. ProcessOK'
  BY <1>1, <1>2 DEF PoolTyped, TypeOK, ProcessOK
<1>5. PoolOK'
  <2>1. pool \in [DOMAIN pool -> Object] /\ DOMAIN pool \subseteq Names
        /\ todo \subseteq DOMAIN pool \cup nulls
    BY PoolFacts DEF PoolTyped
  <2>2. QED
    BY <1>1, <2>1 DEF PoolOK
<1>6. PoolInLibrary'
  BY <1>1 DEF PoolTyped, PoolInLibrary, FromLibrary
<1>7. PhaseInv'
  BY <1>1, <1>2 DEF PoolTyped, PhaseInv
<1>8. QED
  BY <1>3, <1>4, <1>5, <1>6, <1>7 DEF PoolTyped, TypeOK

\* A command that works on the service of a unit.
LEMMA ServiceCommandTyped ==
  ASSUME PoolTyped, pc = "units", stack = << >>, cmd.units # << >>, NextUnit, CommandUnchanged,
         \/ UnregisterService(Unit) \/ StartService(Unit) \/ StopService(Unit)
         \/ UNCHANGED scmVars,
         UNCHANGED <<poolVars, stack>>
  PROVE  PoolTyped'
<1>1. Unit \in Names /\ {} \in SUBSET Names
  BY NextUnitTyped DEF PoolTyped
<1>2. ScmOK'
  BY <1>1, ScmTypes DEF PoolTyped
<1>3. pool' = pool /\ nulls' = nulls /\ nulls \subseteq Names \ DOMAIN pool
  BY PoolFacts DEF PoolTyped, poolVars
<1>4. stack' = << >> /\ Len(stack') = 0 /\ StackOK'
  BY DEF PoolTyped, TypeOK, StackOK, CommandUnchanged
<1>5. StackInLibrary'
  BY <1>4 DEF StackInLibrary
<1>6. QED
  BY <1>2, <1>3, <1>4, <1>5, CommandStepTyped

LEMMA AnswerTyped ==
  ASSUME PoolTyped, NEW yes \in BOOLEAN, Answer(yes)
  PROVE  PoolTyped'
BY EndProcessTyped DEF Answer, Exit

\* A command that makes a call.
LEMMA CallCommandTyped ==
  ASSUME PoolTyped, pc = "units", cmd.units # << >>, NextUnit, CommandUnchanged,
         UNCHANGED scmVars, pool' = pool,
         nulls \subseteq nulls', nulls' \subseteq Names \ DOMAIN pool,
         NEW call \in Call, CallInLibrary(call), call.pc \in Places(cmd.op), stack' = <<call>>
  PROVE  PoolTyped'
<1>1. cmd'.op = cmd.op
  BY NextUnitTyped DEF PoolTyped
<1>2. StackOK' /\ StackInLibrary'
  BY <1>1, SingleCall DEF CommandUnchanged
<1>3. ScmOK'
  BY ScmStays DEF PoolTyped
<1>4. QED
  BY <1>2, <1>3, CommandStepTyped

LEMMA NewCallInLibrary ==
  ASSUME TypeOK, NEW n \in DOMAIN library
  PROVE  /\ \A unit \in UnitFile, d \in SUBSET Names : FromLibrary(unit, n) =>
              EnableCall(n, unit, d) \in Call /\ CallInLibrary(EnableCall(n, unit, d))
         /\ \A fn \in {"Mask", "Unmask"}, at \in {"links", "restore"} :
              OtherCall(fn, n, at) \in Call /\ CallInLibrary(OtherCall(fn, n, at))
<1>1. n \in Names
  BY LibraryType
<1>2. ASSUME NEW unit \in UnitFile, NEW d \in SUBSET Names, FromLibrary(unit, n)
      PROVE  EnableCall(n, unit, d) \in Call /\ CallInLibrary(EnableCall(n, unit, d))
  BY <1>1, <1>2, CallTypes DEF CallInLibrary
<1>3. ASSUME NEW fn \in {"Mask", "Unmask"}, NEW at \in {"links", "restore"}
      PROVE  OtherCall(fn, n, at) \in Call /\ CallInLibrary(OtherCall(fn, n, at))
  <2>1. at \in Place /\ {} \in SUBSET Names
    BY DEF Place, MaskPlaces, UnmaskPlaces
  <2>2. /\ OtherCall(fn, n, at) \in Call /\ OtherCall(fn, n, at).name = n
        /\ OtherCall(fn, n, at).unit = NoUnit /\ OtherCall(fn, n, at).pc = at
    BY <1>1, <2>1, OtherCallTypes
  <2>3. FromLibrary(NoUnit, n)
    BY NoUnitType DEF FromLibrary
  <2>4. QED
    BY <2>2, <2>3 DEF CallInLibrary
<1>4. QED
  BY <1>2, <1>3

LEMMA EnableCommandTyped ==
  ASSUME PoolTyped, EnableCommand
  PROVE  PoolTyped'
<1>1. /\ pc = "units" /\ cmd.units # << >> /\ cmd.op = "enable"
      /\ nulls \subseteq Names \ DOMAIN pool
  BY PoolFacts DEF EnableCommand, AtUnit, PoolTyped
<1>2. "copy" \in Places(cmd.op)
  BY <1>1 DEF Places, EnablePlaces
<1>3. CASE /\ Unit \in DOMAIN pool
           /\ stack' = <<PoolCall(Unit)>> /\ NextUnit
           /\ UNCHANGED poolVars
           /\ CommandUnchanged /\ UNCHANGED scmVars
  <2>1. /\ pool[Unit].unit \in UnitFile /\ pool[Unit].deps \in SUBSET Names
        /\ FromLibrary(pool[Unit].unit, Unit) /\ Unit \in DOMAIN library /\ Unit \in Names
    BY <1>1, <1>3, PoolFacts DEF PoolTyped, PoolInLibrary, FromLibrary
  <2>2. PoolCall(Unit) \in Call /\ CallInLibrary(PoolCall(Unit)) /\ PoolCall(Unit).pc = "copy"
    BY <2>1, NewCallInLibrary, CallTypes DEF PoolCall, PoolTyped
  <2>3. pool' = pool /\ nulls' = nulls
    BY <1>3 DEF poolVars
  <2>4. QED
    BY <1>1, <1>2, <1>3, <2>2, <2>3, CallCommandTyped
<1>4. CASE /\ Unit \notin DOMAIN pool /\ Unit \in DOMAIN library
           /\ nulls' = nulls \cup {Unit}
           /\ stack' = <<LibraryCall(Unit)>> /\ NextUnit
           /\ UNCHANGED pool
           /\ CommandUnchanged /\ UNCHANGED scmVars
  <2>1. /\ library[Unit] \in UnitFile /\ {} \in SUBSET Names /\ Unit \in Names
        /\ FromLibrary(library[Unit], Unit) /\ Unit \in DOMAIN library
    BY <1>4, LibraryType DEF PoolTyped, FromLibrary
  <2>2. LibraryCall(Unit) \in Call /\ CallInLibrary(LibraryCall(Unit))
        /\ LibraryCall(Unit).pc = "copy"
    BY <2>1, NewCallInLibrary, CallTypes DEF LibraryCall, PoolTyped
  <2>3. nulls \subseteq nulls' /\ nulls' \subseteq Names \ DOMAIN pool /\ pool' = pool
    BY <1>1, <1>4, <2>1
  <2>4. QED
    BY <1>1, <1>2, <1>4, <2>2, <2>3, CallCommandTyped
<1>5. CASE EndProcess("error") /\ UNCHANGED <<library, given, diskVars, scmVars>>
  BY <1>5, EndProcessTyped DEF Exit
<1>6. QED
  BY <1>3, <1>4, <1>5 DEF EnableCommand

LEMMA MaskCommandTyped ==
  ASSUME PoolTyped, MaskCommand \/ UnmaskCommand
  PROVE  PoolTyped'
<1>1. /\ pc = "units" /\ cmd.units # << >> /\ NextUnit /\ CommandUnchanged
      /\ UNCHANGED scmVars /\ pool' = pool /\ nulls' = nulls /\ Unit \in DOMAIN pool
      /\ nulls \subseteq Names \ DOMAIN pool
  BY PoolFacts DEF MaskCommand, UnmaskCommand, AtUnit, PoolTyped, poolVars
<1>2. Unit \in DOMAIN library /\ Unit \in Names
  BY <1>1, PoolFacts DEF PoolTyped, PoolInLibrary, FromLibrary
<1>3. PICK fn \in {"Mask", "Unmask"}, at \in {"links", "restore"} :
        stack' = <<OtherCall(fn, Unit, at)>> /\ at \in Places(cmd.op)
  BY DEF MaskCommand, UnmaskCommand, AtUnit, Places, MaskPlaces, UnmaskPlaces
<1>4. /\ OtherCall(fn, Unit, at) \in Call /\ CallInLibrary(OtherCall(fn, Unit, at))
  BY <1>2, NewCallInLibrary DEF PoolTyped
<1>5. OtherCall(fn, Unit, at).pc = at
  <2>1. at \in Place /\ {} \in SUBSET Names
    BY DEF Place, MaskPlaces, UnmaskPlaces
  <2>2. QED
    BY <1>2, <2>1, NoUnitType, CallTypes
<1>6. QED
  BY <1>1, <1>3, <1>4, <1>5, CallCommandTyped

LEMMA ParseArgsTyped ==
  ASSUME PoolTyped, ParseArgs
  PROVE  PoolTyped'
<1>1. CASE NoSuchUnit \/ TooManyUnits \/ CommandDone
  BY <1>1, EndProcessTyped DEF NoSuchUnit, TooManyUnits, CommandDone, Exit
<1>2. CASE IsEnabledCommand \/ IsActiveCommand
  BY <1>2, AnswerTyped DEF IsEnabledCommand, IsActiveCommand, Registered
<1>3. CASE DisableCommand
  BY <1>3, ServiceCommandTyped DEF DisableCommand, AtUnit
<1>4. CASE StartCommand
  BY <1>4, ServiceCommandTyped DEF StartCommand, AtUnit
<1>5. CASE StopCommand
  BY <1>5, ServiceCommandTyped DEF StopCommand, AtUnit
<1>6. CASE KillCommand
  BY <1>6, ServiceCommandTyped DEF KillCommand, AtUnit
<1>7. QED
  BY <1>1, <1>2, <1>3, <1>4, <1>5, <1>6, EnableCommandTyped, MaskCommandTyped DEF ParseArgs

-----------------------------------------------------------------------------
(* LoadPool and ReloadPool.                                                *)

LEMMA NoCallTyped ==
  ASSUME stack' = << >>, ret' \in BOOLEAN
  PROVE  StackOK' /\ StackInLibrary'
<1>1. stack' \in Seq(Call) /\ Len(stack') = 0
  OBVIOUS
<1>2. QED
  BY <1>1, CommandsAssumption DEF StackOK, StackInLibrary

LEMMA InvokeTyped ==
  ASSUME PoolTyped, NEW c \in Commands, Invoke(c)
  PROVE  PoolTyped'
<1>1. /\ pc = "off" /\ given < MaxCommands /\ given' = given + 1 /\ cmd' = c /\ exit' = "none"
      /\ todo' = Active /\ pc' = "load" /\ library' = library /\ file' = file /\ link' = link
      /\ UNCHANGED scmVars /\ stack' = stack /\ ret' = ret
  BY DEF Invoke, diskVars
<1>2. PICK from \in Readings : SetUp(ReadPool(from), << >>)
  BY DEF Invoke
<1>3. /\ Active \in SUBSET Names /\ ReadPool(from) \in [Active -> UnitFile]
      /\ \A n \in Active : FromLibrary(ReadPool(from)[n], n)
  BY ReadPoolType DEF PoolTyped
<1>4. << >> \in [{} -> Object] /\ {} \in SUBSET Names
  OBVIOUS
<1>5. /\ DOMAIN pool' = Active /\ pool' \in [Active -> Object] /\ nulls' \subseteq Names \ Active
      /\ \A n \in Active : pool'[n].unit = ReadPool(from)[n]
  BY <1>2, <1>3, <1>4, SetUpType DEF PoolTyped
<1>6. DiskOK' /\ DiskInLibrary' /\ ScmOK' /\ library' \in Libraries
  BY <1>1, DiskStays, ScmStays DEF PoolTyped, TypeOK, diskVars
<1>7. ProcessOK'
  <2>1. given' \in 0..MaxCommands
    BY <1>1, CommandsAssumption DEF PoolTyped, TypeOK, ProcessOK
  <2>2. cmd' \in [op: Op, units: Seq(Names)]
    BY <1>1, CommandsAssumption DEF Command
  <2>3. QED
    BY <1>1, <2>1, <2>2 DEF ProcessOK, Exit
<1>8. PoolOK'
  BY <1>1, <1>3, <1>5 DEF PoolOK
<1>9. PoolInLibrary'
  BY <1>1, <1>3, <1>5 DEF PoolInLibrary, FromLibrary
<1>10. StackOK' /\ StackInLibrary' /\ stack' = << >>
  BY <1>1, NoCallTyped DEF PoolTyped, TypeOK, StackOK, PhaseInv
<1>11. Active' = Active
  BY <1>1 DEF Active, Linked
<1>12. PhaseInv'
  BY <1>1, <1>5, <1>10, <1>11 DEF PhaseInv
<1>13. QED
  BY <1>6, <1>7, <1>8, <1>9, <1>10, <1>12 DEF PoolTyped, TypeOK

\* A step of a loop over the pool.
LEMMA LoopStepTyped ==
  ASSUME PoolTyped, UNCHANGED <<library, diskVars, given, exit, poolVars, ret, cmd>>, ScmOK',
         stack = << >>, stack' = << >>, todo' \subseteq DOMAIN pool \cup nulls,
         pc' \in {"load", "units", "reload", "register"},
         pc' = pc \/ (pc = "load" /\ pc' \in {"units", "reload"}),
         pc' \in {"load", "reload"} => todo' \subseteq DOMAIN pool,
         pc' \in {"reload", "register"} => cmd.op = "daemon-reload",
         pc' = "units" => cmd.op # "daemon-reload"
  PROVE  PoolTyped'
<1>1. /\ library' = library /\ file' = file /\ link' = link /\ given' = given /\ exit' = exit
      /\ pool' = pool /\ nulls' = nulls /\ ret' = ret /\ cmd' = cmd
  BY DEF diskVars, poolVars
<1>2. DiskOK' /\ DiskInLibrary' /\ library' \in Libraries
  BY <1>1, DiskStays DEF PoolTyped, TypeOK, diskVars
<1>3. ProcessOK'
  BY <1>1 DEF PoolTyped, TypeOK, ProcessOK
<1>4. PoolOK'
  BY <1>1 DEF PoolTyped, TypeOK, PoolOK
<1>5. PoolInLibrary'
  BY <1>1 DEF PoolTyped, PoolInLibrary, FromLibrary
<1>6. StackOK' /\ StackInLibrary'
  BY <1>1, NoCallTyped DEF PoolTyped, TypeOK, StackOK
<1>7. Active' = Active
  BY <1>1 DEF Active, Linked
<1>8. PhaseInv'
  BY <1>1, <1>7 DEF PoolTyped, PhaseInv
<1>9. QED
  BY <1>2, <1>3, <1>4, <1>5, <1>6, <1>8 DEF PoolTyped, TypeOK

LEMMA LoadPoolTyped ==
  ASSUME PoolTyped, LoadPool
  PROVE  PoolTyped'
<1>1. pc = "load" /\ stack = << >> /\ DOMAIN pool = Active /\ todo \subseteq DOMAIN pool
  BY DEF LoadPool, PoolLoaded, QueryRegister, PoolTyped, PhaseInv
<1>2. CASE PoolLoaded
  <2>1. todo' \subseteq Active
    BY <1>2 DEF PoolLoaded, Active
  <2>2. /\ UNCHANGED <<library, diskVars, given, exit, poolVars, ret, cmd>> /\ UNCHANGED scmVars
        /\ stack' = stack
        /\ \/ cmd.op = "daemon-reload" /\ pc' = "reload"
           \/ cmd.op # "daemon-reload" /\ pc' = "units"
    BY <1>2 DEF PoolLoaded
  <2>3. ScmOK'
    BY <2>2, ScmStays DEF PoolTyped
  <2>4. QED
    BY <1>1, <2>1, <2>2, <2>3, LoopStepTyped
<1>3. ASSUME NEW n \in Names, QueryRegister(n)
      PROVE  PoolTyped'
  <2>1. pool[n].deps \in SUBSET Names /\ todo' = todo \ {n}
    BY <1>1, <1>3, PoolFacts DEF PoolTyped, QueryRegister
  <2>2. ScmOK'
    BY <1>3, <2>1, ScmTypes DEF QueryRegister, PoolTyped
  <2>3. UNCHANGED <<library, diskVars, given, exit, pc, cmd, poolVars, stack, ret>>
    BY <1>3 DEF QueryRegister
  <2>4. QED
    BY <1>1, <2>1, <2>2, <2>3, LoopStepTyped
<1>4. QED
  BY <1>2, <1>3 DEF LoadPool

LEMMA ReloadMaskTyped ==
  ASSUME PoolTyped, NEW n \in Names, ReloadMask(n)
  PROVE  PoolTyped'
<1>1. /\ pc = "reload" /\ stack = << >> /\ n \in todo /\ todo' = todo \ {n}
      /\ stack' = <<OtherCall("Mask", n, "links")>>
      /\ library' = library /\ file' = file /\ link' = link /\ UNCHANGED scmVars
      /\ given' = given /\ exit' = exit /\ pc' = pc /\ cmd' = cmd /\ pool' = pool
      /\ nulls' = nulls /\ ret' = ret
  BY DEF ReloadMask, diskVars, poolVars
<1>2. cmd.op = "daemon-reload" /\ todo \subseteq DOMAIN pool /\ n \in DOMAIN library
  BY <1>1 DEF PoolTyped, PhaseInv, PoolInLibrary, FromLibrary
<1>3. OtherCall("Mask", n, "links") \in Call /\ CallInLibrary(OtherCall("Mask", n, "links"))
  BY <1>2, NewCallInLibrary DEF PoolTyped
<1>4. OtherCall("Mask", n, "links").pc = "links"
  <2>1. "links" \in Place /\ {} \in SUBSET Names
    BY DEF Place, MaskPlaces
  <2>2. QED
    BY <2>1, NoUnitType, CallTypes
<1>5. OtherCall("Mask", n, "links").pc \in Places(cmd'.op)
  BY <1>1, <1>2, <1>4 DEF Places, MaskPlaces
<1>6. StackOK' /\ StackInLibrary'
  BY <1>1, <1>3, <1>5, SingleCall
<1>7. DiskOK' /\ DiskInLibrary' /\ ScmOK' /\ library' \in Libraries
  BY <1>1, DiskStays, ScmStays DEF PoolTyped, TypeOK, diskVars
<1>8. ProcessOK'
  BY <1>1 DEF PoolTyped, TypeOK, ProcessOK
<1>9. PoolOK'
  BY <1>1 DEF PoolTyped, TypeOK, PoolOK
<1>10. PoolInLibrary'
  BY <1>1 DEF PoolTyped, PoolInLibrary, FromLibrary
<1>11. PhaseInv'
  BY <1>1, <1>2 DEF PhaseInv
<1>12. QED
  BY <1>6, <1>7, <1>8, <1>9, <1>10, <1>11 DEF PoolTyped, TypeOK

LEMMA ReadLibraryTyped ==
  ASSUME PoolTyped, ReadLibrary
  PROVE  PoolTyped'
<1> DEFINE inDirs == UNION {library[p].wantsDir : p \in DOMAIN library}
           new == (DOMAIN library \cup inDirs) \ (DOMAIN pool \cup nulls)
           ReadNew(n, sub) ==
             IF n \notin DOMAIN library THEN NoUnit
             ELSE IF n \in sub THEN library[n]
             ELSE [library[n] EXCEPT !.wants = @ \cup library[n].wantsDir]
           units(sub) == [n \in DOMAIN pool \cup new |->
                            IF n \in new THEN ReadNew(n, sub) ELSE pool[n].unit]
<1>1. /\ pc = "reload" /\ stack = << >> /\ pc' = "register" /\ todo' = DOMAIN pool' \cup nulls'
      /\ library' = library /\ file' = file /\ link' = link /\ UNCHANGED scmVars
      /\ given' = given /\ exit' = exit /\ cmd' = cmd /\ stack' = stack /\ ret' = ret
  BY DEF ReadLibrary, diskVars
<1>2. PICK sub \in SUBSET (new \cap inDirs) : SetUp(units(sub), pool)
  BY DEF ReadLibrary
<1>3. /\ DOMAIN pool \cup new \in SUBSET Names /\ DOMAIN pool \in SUBSET Names
      /\ pool \in [DOMAIN pool -> Object]
  BY LibraryType, UnitFields, PoolFacts DEF PoolTyped
<1>4. ASSUME NEW n \in DOMAIN pool \cup new
      PROVE  (IF n \in new THEN ReadNew(n, sub) ELSE pool[n].unit) \in UnitFile
  <2>1. n \notin new => pool[n].unit \in UnitFile
    BY <1>4, PoolFacts DEF PoolTyped
  <2>2. ReadNew(n, sub) \in UnitFile
    <3>1. CASE n \notin DOMAIN library
      BY <3>1, NoUnitType
    <3>2. CASE n \in DOMAIN library /\ n \in sub
      BY <3>2, LibraryType DEF PoolTyped
    <3>3. CASE n \in DOMAIN library /\ n \notin sub
      <4>1. [library[n] EXCEPT !.wants = @ \cup library[n].wantsDir] \in UnitFile
        BY <3>3, LoadedUnit DEF PoolTyped
      <4>2. QED
        BY <3>3, <4>1, Zenon
    <3>4. QED
      BY <3>1, <3>2, <3>3
  <2>3. QED
    BY <2>1, <2>2
<1> HIDE DEF new, inDirs, ReadNew
<1>5. units(sub) \in [DOMAIN pool \cup new -> UnitFile]
  BY <1>4
<1>6. /\ DOMAIN pool' = DOMAIN pool \cup new /\ pool' \in [DOMAIN pool' -> Object]
      /\ nulls' \subseteq Names \ DOMAIN pool' /\ DOMAIN pool' \subseteq Names
  BY <1>2, <1>3, <1>5, SetUpType DEF PoolTyped
<1>7. DiskOK' /\ DiskInLibrary' /\ ScmOK' /\ library' \in Libraries
  BY <1>1, DiskStays, ScmStays DEF PoolTyped, TypeOK, diskVars
<1>8. ProcessOK'
  BY <1>1 DEF PoolTyped, TypeOK, ProcessOK
<1>9. PoolOK'
  BY <1>1, <1>6 DEF PoolOK
<1>10. StackOK' /\ StackInLibrary' /\ PoolInLibrary'
  BY <1>1, NoCallTyped DEF PoolTyped, TypeOK, StackOK, PoolInLibrary
<1>11. PhaseInv'
  BY <1>1 DEF PhaseInv, PoolTyped
<1>12. QED
  BY <1>7, <1>8, <1>9, <1>10, <1>11 DEF PoolTyped, TypeOK

LEMMA ReloadPoolTyped ==
  ASSUME PoolTyped, ReloadPool
  PROVE  PoolTyped'
<1>1. CASE ReloadDone
  BY <1>1, EndProcessTyped DEF ReloadDone, Exit
<1>2. ASSUME NEW n \in Names, RegisterUnit(n)
      PROVE  PoolTyped'
  <2>1. CASE n \in nulls
    <3>1. Die("null entry") /\ "null entry" \in Exit
      BY <1>2, <2>1 DEF RegisterUnit, Exit
    <3>2. QED
      BY <3>1, EndProcessTyped DEF Die
  <2>2. CASE n \notin nulls
    <3>1. /\ pc = "register" /\ n \in todo /\ todo' = todo \ {n}
          /\ RegisterService(n, pool[n].deps)
          /\ UNCHANGED <<library, diskVars, given, exit, pc, cmd, poolVars, stack, ret>>
      BY <1>2, <2>2 DEF RegisterUnit
    <3>2. stack = << >> /\ cmd.op = "daemon-reload" /\ todo \subseteq DOMAIN pool \cup nulls
      BY <3>1, PoolFacts DEF PoolTyped, PhaseInv
    <3>3. pool[n].deps \in SUBSET Names
      BY <2>2, <3>1, <3>2, PoolFacts DEF PoolTyped
    <3>4. ScmOK'
      BY <3>1, <3>3, ScmTypes DEF PoolTyped
    <3>5. QED
      BY <3>1, <3>2, <3>4, LoopStepTyped
  <2>3. QED
    BY <2>1, <2>2
<1>3. QED
  BY <1>1, <1>2, ReadLibraryTyped, ReloadMaskTyped DEF ReloadPool

-----------------------------------------------------------------------------
LEMMA ServiceStopsTyped ==
  ASSUME PoolTyped, NEW n \in Names, ServiceStops(n)
  PROVE  PoolTyped'
<1>1. /\ UNCHANGED <<library, diskVars, given, exit, pc, cmd, poolVars, todo, stack, ret>>
      /\ svc[n] \in {"running", "stopping"}
  BY DEF ServiceStops
<1>2. ScmOK'
  <2>1. CASE Delete(n)
    BY <2>1, ScmTypes DEF PoolTyped
  <2>2. CASE /\ n \notin marked
             /\ svc' = [svc EXCEPT ![n] = "stopped"] /\ UNCHANGED <<marked, deps>>
    BY <2>2 DEF PoolTyped, TypeOK, ScmOK
  <2>3. QED
    BY <2>1, <2>2 DEF ServiceStops
<1>3. DiskOK' /\ DiskInLibrary'
  BY <1>1, DiskStays DEF PoolTyped
<1>4. library' \in Libraries /\ ProcessOK' /\ PoolOK' /\ StackOK'
  BY <1>1 DEF PoolTyped, TypeOK, ProcessOK, PoolOK, StackOK, poolVars
<1>5. PoolInLibrary'
  BY <1>1 DEF PoolTyped, PoolInLibrary, FromLibrary, poolVars
<1>6. StackInLibrary'
  BY <1>1, LibraryStays DEF PoolTyped, StackInLibrary
<1>7. PhaseInv'
  BY <1>1 DEF PoolTyped, PhaseInv, Active, Linked, diskVars, poolVars
<1>8. QED
  BY <1>2, <1>3, <1>4, <1>5, <1>6, <1>7 DEF PoolTyped, TypeOK

LEMMA NothingTyped ==
  ASSUME PoolTyped, UNCHANGED vars
  PROVE  PoolTyped'
<1>1. /\ UNCHANGED <<library, diskVars, given, exit, pc, cmd, poolVars, todo, stack, ret>>
      /\ UNCHANGED scmVars
  BY DEF vars
<1>2. DiskOK' /\ DiskInLibrary' /\ ScmOK'
  BY <1>1, DiskStays, ScmStays DEF PoolTyped
<1>3. library' \in Libraries /\ ProcessOK' /\ PoolOK' /\ StackOK'
  BY <1>1 DEF PoolTyped, TypeOK, ProcessOK, PoolOK, StackOK, poolVars
<1>4. PoolInLibrary'
  BY <1>1 DEF PoolTyped, PoolInLibrary, FromLibrary, poolVars
<1>5. StackInLibrary'
  BY <1>1, LibraryStays DEF PoolTyped, StackInLibrary
<1>6. PhaseInv'
  BY <1>1 DEF PoolTyped, PhaseInv, Active, Linked, diskVars, poolVars
<1>7. QED
  BY <1>2, <1>3, <1>4, <1>5, <1>6 DEF PoolTyped, TypeOK

LEMMA InitTyped == Init => PoolTyped
<1> SUFFICES ASSUME Init PROVE PoolTyped
  OBVIOUS
<1>1. library \in Libraries /\ DiskOK /\ ScmOK
  BY DEF Init, DiskOK, ScmOK, Content
<1>2. ProcessOK
  <2>1. NoCommand \in [op: Op, units: Seq(Names)]
    BY DEF NoCommand, Op
  <2>2. 0 \in 0..MaxCommands
    BY CommandsAssumption
  <2>3. QED
    BY <2>1, <2>2 DEF Init, ProcessOK, Exit
<1>3. PoolOK
  <2>1. {} \in SUBSET Names /\ << >> \in [{} -> Object]
    OBVIOUS
  <2>2. QED
    BY <2>1 DEF Init, PoolOK
<1>4. StackOK /\ StackInLibrary
  <2>1. stack = << >> /\ ret = FALSE
    BY DEF Init
  <2>2. stack \in Seq(Call) /\ Len(stack) = 0 /\ ret \in BOOLEAN
    BY <2>1, EmptySeq
  <2>3. StackOK
    BY <2>2, CommandsAssumption DEF StackOK
  <2>4. StackInLibrary
    BY <2>2 DEF StackInLibrary
  <2>5. QED
    BY <2>3, <2>4
<1>5. DiskInLibrary /\ PoolInLibrary /\ PhaseInv
  BY DEF Init, DiskInLibrary, PoolInLibrary, PhaseInv
<1>6. QED
  BY <1>1, <1>2, <1>3, <1>4, <1>5 DEF PoolTyped, TypeOK

LEMMA StepTyped ==
  ASSUME PoolTyped, [Next]_vars
  PROVE  PoolTyped'
<1>1. CASE Killed
  BY <1>1, EndProcessTyped DEF Killed, Exit
<1>2. CASE Process
  BY <1>2, LoadPoolTyped, ParseArgsTyped, EnableTyped, MaskLinksTyped, MaskUnregisterTyped,
     MaskRemoveTyped, UnmaskRestoreTyped, UnmaskRewriteTyped, ReloadPoolTyped
     DEF Process, Mask, Unmask
<1>3. QED
  BY <1>1, <1>2, InvokeTyped, ServiceStopsTyped, NothingTyped DEF Next

(* Whatever the commands are and wherever they are interrupted, what the   *)
(* active directory, the pool and the calls in progress hold comes from    *)
(* the unit library: no file or link of a unit that the library does not   *)
(* have, no unit in memory that asks for more than its file does.          *)
THEOREM PoolInvariant == Spec => []PoolTyped
<1>1. PoolTyped /\ [Next]_vars => PoolTyped'
  BY StepTyped
<1>2. QED
  BY <1>1, InitTyped, PTL DEF Spec

(* The state keeps its shape: a name has one entry in the pool, a loop     *)
(* visits entries only, and only a service that still runs is marked for   *)
(* deletion.                                                               *)
THEOREM TypeCorrect == Spec => []TypeOK
<1>1. PoolTyped => TypeOK
  BY DEF PoolTyped
<1>2. QED
  BY <1>1, PoolInvariant, PTL

=============================================================================
