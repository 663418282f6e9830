------------------------------ MODULE EnvFile ------------------------------
(***************************************************************************)
(* How the service thread builds the environment of the commands from the  *)
(* unit's environment files, each time it goes round its restart loop      *)
(* (service_exec.cpp: GetCurrentEnv, LoadEnvVarsFromFile,                  *)
(* LoadPShellEnvVarsFromFile and the block in ServiceThread).  m_Env and   *)
(* the environment of the process live on from one round to the next.      *)
(*                                                                         *)
(* Names and values are sequences of tokens.  The token "$env:" begins a   *)
(* reference; a name in a reference is any token, or several of them.      *)
(***************************************************************************)
EXTENDS Integers, Sequences

CONSTANTS
  Scripts,     \* the lines of all the environment files, in their order
  Outer,       \* the environment that the process begins with
  Upper,       \* the upper case of each token
  MaxRounds    \* bound: rounds of the restart loop

Token == DOMAIN Upper
Words == Seq(Token)
UpperName(name) == [i \in DOMAIN name |-> Upper[name[i]]]

\* A map from names to values.
IsMap(m) == /\ m = [name \in DOMAIN m |-> m[name]]
            /\ \A name \in DOMAIN m : name \in Words /\ m[name] \in Words
Entry(name, value) == [k \in {name} |-> value]
ValueIn(m, name) == IF name \in DOMAIN m THEN m[name] ELSE << >>

\* The entries of m, and those of n for names that m has not.
Over(m, n) == [name \in DOMAIN m \cup DOMAIN n |->
                 IF name \in DOMAIN m THEN m[name] ELSE n[name]]

ASSUME UpperAssumption   == /\ Upper \in [Token -> Token]
                            /\ \A t \in Token : Upper[Upper[t]] = Upper[t]
ASSUME ScriptsAssumption == Scripts \subseteq Seq([name: Words, value: Words, ps: BOOLEAN])
ASSUME OuterAssumption   == IsMap(Outer) /\ \A name \in DOMAIN Outer : UpperName(name) = name
ASSUME RoundsAssumption  == MaxRounds \in Nat \ {0}

Env == "$env:"

VARIABLES
  script,       \* the lines: a name, a value, and is the file a .ps1?
  mEnv,         \* m_Env
  environment,  \* the environment of the process, its names in upper case
  at,           \* the next line
  expanding,    \* value in LoadPShellEnvVarsFromFile
  round,        \* rounds of the restart loop begun
  loading,      \* where the thread is
  first         \* history: m_Env as the first round's commands get it

envVars == <<script, mEnv, environment, at, expanding, round, loading, first>>

-----------------------------------------------------------------------------
\* The variables that are there already are stored in upper case.
GetCurrentEnv ==
  /\ loading = "begin" /\ loading' = "read"
  /\ mEnv' = Over(environment, mEnv)
  /\ at' = 1
  /\ UNCHANGED <<script, environment, expanding, round, first>>

\* Mutant of Define: a variable that is there already is added to.
DefineAppend(name, value) ==
  mEnv' = Over(Entry(name, ValueIn(mEnv, name) \o value), mEnv)

\* Names from a file are stored as they are written.
Define(name, value) == mEnv' = Over(Entry(name, value), mEnv)

\* Mutant of NextLine: a line is passed over.
NextLineSkips == at' = at + 2

NextLine == at' = at + 1

\* A line of a file that is no .ps1: the value is not expanded.
LoadEnvVar ==
  /\ loading = "read" /\ at <= Len(script) /\ ~script[at].ps
  /\ Define(script[at].name, script[at].value)
  /\ NextLine
  /\ UNCHANGED <<script, environment, expanding, round, loading, first>>

LoadPShellEnvVar ==
  /\ loading = "read" /\ at <= Len(script) /\ script[at].ps
  /\ loading' = "expand" /\ expanding' = script[at].value
  /\ UNCHANGED <<script, mEnv, environment, at, round, first>>

HasReference(value) == \E i \in DOMAIN value : value[i] = Env
Reference(value) == CHOOSE i \in DOMAIN value :
                      value[i] = Env /\ \A j \in 1..i - 1 : value[j] # Env
Behind(value) == SubSeq(value, Reference(value) + 1, Len(value))
Before(value) == SubSeq(value, 1, Reference(value) - 1)

\* Mutant of Key: the name is looked up as it is written.
KeyAsWritten(value) == Behind(value)

\* The name is all the text behind "$env:": a ';' does not end it, since the
\* length given to substr is pos - var_end, which is negative and wraps.
Key(value) == UpperName(Behind(value))

\* Looking up a name that is not there makes an empty entry.
LookedUp(value) == Over(mEnv, Entry(Key(value), << >>))

\* Mutant of Expanded: the name is replaced but "$env:" remains.
ExpandedName(value) == Append(Before(value), Env) \o LookedUp(value)[Key(value)]

Expanded(value) == Before(value) \o LookedUp(value)[Key(value)]

\* The search goes on where the reference was, so in the value put there.
ExpandReference ==
  /\ loading = "expand" /\ HasReference(expanding)
  /\ mEnv' = LookedUp(expanding)
  /\ expanding' = Expanded(expanding)
  /\ UNCHANGED <<script, environment, at, round, loading, first>>

EndExpansion ==
  /\ loading = "expand" /\ ~HasReference(expanding)
  /\ Define(script[at].name, expanding)
  /\ NextLine
  /\ loading' = "read" /\ expanding' = << >>
  /\ UNCHANGED <<script, environment, round, first>>

\* SetEnvironmentVariable knows no case: of two spellings of a name the one that
\* comes later in the map is set last, and small letters come later.
Spellings(name) == {k \in DOMAIN mEnv : UpperName(k) = name}
SetLast(name) == IF Spellings(name) = {name} THEN name
                 ELSE CHOOSE k \in Spellings(name) : k # name

\* m_Env becomes the environment, but for the empty name; run the commands.
SetEnvironment ==
  /\ loading = "read" /\ at > Len(script)
  /\ environment' = [name \in {UpperName(k) : k \in DOMAIN mEnv \ {<< >>}} |->
                       mEnv[SetLast(name)]]
  /\ first' = IF round = 1 THEN mEnv ELSE first
  /\ loading' = "run"
  /\ UNCHANGED <<script, mEnv, at, expanding, round>>

Again ==
  /\ loading = "run" /\ round < MaxRounds
  /\ loading' = "begin" /\ round' = round + 1
  /\ UNCHANGED <<script, mEnv, environment, at, expanding, first>>

EnvInit ==
  /\ script \in Scripts
  /\ mEnv = << >> /\ environment = Outer /\ at = 1 /\ expanding = << >>
  /\ round = 1 /\ loading = "begin" /\ first = << >>

EnvNext == \/ GetCurrentEnv \/ LoadEnvVar \/ LoadPShellEnvVar \/ ExpandReference
           \/ EndExpansion \/ SetEnvironment \/ Again

EnvSpec == EnvInit /\ [][EnvNext]_envVars

EnvTypeOK ==
  /\ script \in Scripts /\ expanding \in Words
  /\ IsMap(mEnv) /\ IsMap(environment) /\ IsMap(first)
  /\ at \in 1..Len(script) + 1 /\ round \in 1..MaxRounds
  /\ loading \in {"begin", "read", "expand", "run"}
  /\ \A k \in DOMAIN environment : UpperName(k) = k
  /\ loading # "expand" => expanding = << >>
  /\ loading = "expand" => script[at].ps /\ at <= Len(script)

-----------------------------------------------------------------------------
\* The variable that a value refers to, and the one that line i does, or << >>.
Named(value) == UpperName(Behind(value))
Referred(i) == IF HasReference(script[i].value) THEN Named(script[i].value) ELSE << >>

\* Some values that are stored with references in them lead back to themselves.
Cyclic ==
  \E S \in SUBSET {i \in DOMAIN script : ~script[i].ps} :
     S # {} /\ \A i \in S : \E j \in S : Referred(i) = UpperName(script[j].name)

\* Names are written in upper case, a .ps1 value has at most one reference, one
\* name at its end, and no other value has any, nor the environment of the process.
Plain ==
  /\ \A name \in DOMAIN Outer : ~HasReference(Outer[name])
  /\ \A i \in DOMAIN script :
       /\ UpperName(script[i].name) = script[i].name
       /\ HasReference(script[i].value) => script[i].ps /\ Len(Behind(script[i].value)) = 1

\* What the lines mean, begun with the environment env: a reference stands for the
\* value of the last line before that defines the name, or for that in env.
Definers(lines, i) == {j \in 1..i - 1 : lines[j].name = Named(lines[i].value)}
Latest(S) == CHOOSE j \in S : \A k \in S : k <= j

Meant(lines, env) ==
  LET meant[i \in DOMAIN lines] ==
        IF ~HasReference(lines[i].value) THEN lines[i].value
        ELSE Before(lines[i].value) \o
               IF Definers(lines, i) # {} THEN meant[Latest(Definers(lines, i))]
               ELSE ValueIn(env, Named(lines[i].value))
  IN meant

(* Every variable that the lines read so far define has the value that     *)
(* PowerShell would give it, however its reference is spelt, in the first  *)
(* round and in every later one.                                           *)
ExpandedRight ==
  Plain /\ loading \in {"read", "expand"} =>
    \A i \in 1..at - 1 :
       (\A j \in i + 1..at - 1 : script[j].name # script[i].name)
         => mEnv[script[i].name] = Meant(script, environment)[i]

\* No line refers to what it or a later one defines (as PATH='...;$env:PATH' does,
\* which grows at each restart).
Settled == \A i \in DOMAIN script : \A j \in i..Len(script) : Referred(i) # script[j].name

(* A restart gives the commands the same variables as the first start,     *)
(* although m_Env and the environment of the process are those the last    *)
(* round left, unless a line refers to what it or a later one defines.     *)
RestartSameEnv == loading = "run" /\ Plain /\ Settled => mEnv = first

(* The expansion of a value ends, unless references that a file with shell *)
(* syntax stored as they are lead in a circle.                             *)
ExpansionEnds == loading = "expand" /\ ~Cyclic ~> loading = "read"
=============================================================================
