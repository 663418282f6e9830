---------------------------- MODULE EnvFileProofs ----------------------------
(***************************************************************************)
(* The variables the commands get, proved of EnvFile for every set of      *)
(* environment files, every environment of the process and every number of *)
(* restarts.                                                               *)
(*                                                                         *)
(* The argument: while the lines are read, m_Env has for each name what    *)
(* the last line so far that defines it means, and otherwise what the      *)
(* process's environment has; a value that is being expanded is as it was  *)
(* written or is finished.  A restart begins with what the round before it *)
(* left, but lines that refer to no name which they or later lines define  *)
(* mean the same again.                                                    *)
(***************************************************************************)
EXTENDS EnvFile, TLAPS, WellFoundedInduction

\* One of the first m lines defines name; line i is the last of them that defines its.
Defined(name, m) == \E j \in 1..m : script[j].name = name
LastOf(i, m) == \A j \in i + 1..m : script[j].name # script[i].name

\* What a plain file leaves in the maps has no references.
CleanInv ==
  /\ \A name \in DOMAIN mEnv : UpperName(name) = name /\ ~HasReference(mEnv[name])
  /\ \A name \in DOMAIN environment : ~HasReference(environment[name])
  /\ loading \in {"begin", "run"} => DOMAIN mEnv \ {<< >>} \subseteq DOMAIN environment

\* The lines read have their meaning, and other names have that of the environment.
ReadInv ==
  loading \in {"read", "expand"} =>
    /\ \A i \in 1..at - 1 : LastOf(i, at - 1) =>
         mEnv[script[i].name] = Meant(script, environment)[i]
    /\ \A name \in (DOMAIN mEnv \cup DOMAIN environment) \ {<< >>} : ~Defined(name, at - 1) =>
         ValueIn(mEnv, name) = ValueIn(environment, name)
    /\ \A i \in 1..at - 1 : script[i].name \in DOMAIN mEnv

\* A value is as it was written, or it is expanded.
ExpandInv ==
  loading = "expand" =>
    \/ expanding = script[at].value
    \/ /\ HasReference(script[at].value) /\ ~HasReference(expanding)
       /\ expanding = Meant(script, environment)[at]
       /\ Key(script[at].value) \in DOMAIN mEnv

PlainInv == Plain => CleanInv /\ ReadInv /\ ExpandInv

\* The names that a line leaves behind: its own, and the one it refers to.
Leaves(i, m) == /\ script[i].name \in DOMAIN m
                /\ HasReference(script[i].value) => Key(script[i].value) \in DOMAIN m
LeftInv == loading \in {"read", "expand"} => \A i \in 1..at - 1 : Leaves(i, mEnv)

\* What no line defines is in the environment as in the first one.
OuterInv ==
  \A name \in (DOMAIN environment \cup DOMAIN Outer) \ {<< >>} : ~Defined(name, Len(script)) =>
     ValueIn(environment, name) = ValueIn(Outer, name)

\* m_Env and the environment in a later round, against what the first round left.
FirstInv ==
  loading = "run" \/ round > 1 =>
    /\ environment = [name \in DOMAIN first \ {<< >>} |-> first[name]]
    /\ \A i \in 1..Len(script) : Leaves(i, first)
    /\ \A i \in 1..Len(script) : LastOf(i, Len(script)) =>
         first[script[i].name] = Meant(script, Outer)[i]
    /\ DOMAIN mEnv = DOMAIN first
    /\ loading \in {"begin", "run"} => mEnv = first
    /\ loading \in {"read", "expand"} =>
         \A name \in DOMAIN mEnv : ~Defined(name, at - 1) => mEnv[name] = first[name]

RestartInv == Plain /\ Settled => LeftInv /\ OuterInv /\ FirstInv

-----------------------------------------------------------------------------
(* Numbers, words and maps.                                                *)

Smaller == {pair \in Nat \X Nat : pair[1] < pair[2]}

LEMMA SmallerWellFounded == IsWellFoundedOn(Smaller, Nat)
BY NatLessThanWellFounded, Zenon DEF OpToRel, Smaller

\* A set of natural numbers has a smallest one: what stands in for induction below.
LEMMA HasSmallest ==
  ASSUME NEW T \in SUBSET Nat, T # {}
  PROVE  \E x \in T : \A y \in T : ~(y < x)
<1>1. \E x \in T : \A y \in T : ~(<<y, x>> \in Smaller)
  BY SmallerWellFounded, WFMin, Zenon
<1>2. \A x, y \in Nat : y < x => <<y, x>> \in Smaller
  BY DEF Smaller
<1>3. QED
  BY <1>1, <1>2

\* A set of numbers with a bound has a largest one, which Latest is.
LEMMA LatestIs ==
  ASSUME NEW n \in Nat, NEW S \in SUBSET (1..n), S # {}
  PROVE  Latest(S) \in S /\ \A k \in S : k <= Latest(S)
<1> DEFINE T == {x \in Nat : n - x \in S}
<1>1. T # {}
  <2>1. PICK s \in S : TRUE
    OBVIOUS
  <2>2. n - s \in Nat /\ n - (n - s) = s
    BY <2>1
  <2>3. QED
    BY <2>1, <2>2
<1>2. PICK x \in T : \A y \in T : ~(y < x)
  BY <1>1, HasSmallest
<1>3. n - x \in S /\ \A k \in S : k <= n - x
  <2> SUFFICES ASSUME NEW k \in S PROVE k <= n - x
    BY <1>2
  <2>1. n - k \in Nat /\ n - (n - k) = k
    OBVIOUS
  <2>2. n - k \in T
    BY <2>1
  <2>3. QED
    BY <1>2, <2>1, <2>2
<1>4. QED
  BY <1>3 DEF Latest

LEMMA WordFacts ==
  ASSUME NEW v \in Words
  PROVE  Len(v) \in Nat /\ DOMAIN v = 1..Len(v) /\ \A i \in 1..Len(v) : v[i] \in Token
BY DEF Words

LEMMA UpperFacts ==
  ASSUME NEW v \in Words
  PROVE  UpperName(v) \in Words /\ UpperName(UpperName(v)) = UpperName(v)
         /\ Len(UpperName(v)) = Len(v)
<1>1. UpperName(v) = [i \in 1..Len(v) |-> Upper[v[i]]]
  BY WordFacts DEF UpperName
<1>2. UpperName(v) \in [1..Len(v) -> Token] /\ Len(v) \in Nat
  BY <1>1, WordFacts, UpperAssumption DEF UpperAssumption
<1>3. UpperName(v) \in Words /\ Len(UpperName(v)) = Len(v)
  BY <1>2 DEF Words
<1>4. \A i \in 1..Len(v) : UpperName(v)[i] = Upper[v[i]] /\ Upper[UpperName(v)[i]] = UpperName(v)[i]
  BY <1>1, WordFacts, UpperAssumption DEF UpperAssumption
<1>5. UpperName(UpperName(v)) = [i \in 1..Len(v) |-> Upper[UpperName(v)[i]]]
  BY <1>3, WordFacts DEF UpperName
<1>6. QED
  BY <1>1, <1>3, <1>4, <1>5

LEMMA EmptyWord == << >> \in Words /\ ~HasReference(<< >>)
BY DEF Words, HasReference

\* A reference: where it is, what is before it and the name behind it.
LEMMA ReferenceFacts ==
  ASSUME NEW v \in Words, HasReference(v)
  PROVE  /\ Reference(v) \in 1..Len(v) /\ \A j \in 1..Reference(v) - 1 : v[j] # Env
         /\ Behind(v) \in Words /\ Key(v) \in Words /\ UpperName(Key(v)) = Key(v)
         /\ Before(v) \in Words /\ ~HasReference(Before(v))
         /\ Len(Key(v)) = Len(Behind(v))
<1> DEFINE T == {i \in 1..Len(v) : v[i] = Env}
<1>1. T # {} /\ T \in SUBSET Nat /\ DOMAIN v = 1..Len(v) /\ Len(v) \in Nat
  BY WordFacts DEF HasReference
<1>2. PICK x \in T : \A y \in T : ~(y < x)
  BY <1>1, HasSmallest
<1>3. x \in DOMAIN v /\ v[x] = Env /\ \A j \in 1..x - 1 : v[j] # Env
  BY <1>1, <1>2
<1>4. Reference(v) \in DOMAIN v /\ v[Reference(v)] = Env
      /\ \A j \in 1..Reference(v) - 1 : v[j] # Env
  BY <1>3 DEF Reference
<1> DEFINE r == Reference(v)
<1> HIDE DEF r
<1>5. r \in 1..Len(v) /\ \A j \in 1..r - 1 : v[j] # Env
  BY <1>1, <1>4 DEF r
<1>6. SubSeq(v, r + 1, Len(v)) \in Words
  BY <1>1, <1>5 DEF Words
<1>7. SubSeq(v, 1, r - 1) \in Words /\ Len(SubSeq(v, 1, r - 1)) = r - 1
      /\ \A i \in 1..r - 1 : SubSeq(v, 1, r - 1)[i] = v[i]
  BY <1>1, <1>5 DEF Words
<1>8. ~HasReference(SubSeq(v, 1, r - 1))
  BY <1>5, <1>7, WordFacts DEF HasReference
<1>9. QED
  BY <1>5, <1>6, <1>7, <1>8, UpperFacts DEF r, Behind, Before, Key

\* LoadPShellEnvVarsFromFile looks up the name that is meant, however it is spelt.
LEMMA KeyIsNamed ==
  ASSUME NEW v
  PROVE  Key(v) = Named(v)
BY DEF Key, Named

LEMMA NoReferenceInBoth ==
  ASSUME NEW v \in Words, NEW w \in Words, ~HasReference(v), ~HasReference(w)
  PROVE  v \o w \in Words /\ ~HasReference(v \o w)
<1>1. v \o w \in Words /\ Len(v \o w) = Len(v) + Len(w) /\ Len(v) \in Nat /\ Len(w) \in Nat
      /\ \A i \in 1..Len(v) + Len(w) : (v \o w)[i] = IF i <= Len(v) THEN v[i] ELSE w[i - Len(v)]
  BY DEF Words
<1>2. DOMAIN (v \o w) = 1..Len(v) + Len(w)
  BY <1>1, WordFacts
<1>3. \A i \in 1..Len(v) + Len(w) : (v \o w)[i] # Env
  <2> SUFFICES ASSUME NEW i \in 1..Len(v) + Len(w) PROVE (v \o w)[i] # Env
    OBVIOUS
  <2>1. CASE i <= Len(v)
    BY <1>1, <2>1, WordFacts DEF HasReference
  <2>2. CASE i > Len(v)
    <3>1. i - Len(v) \in 1..Len(w)
      BY <1>1, <2>2
    <3>2. QED
      BY <1>1, <2>2, <3>1, WordFacts DEF HasReference
  <2>3. QED
    BY <1>1, <2>1, <2>2
<1>4. QED
  BY <1>1, <1>2, <1>3 DEF HasReference

LEMMA ConcatWords ==
  ASSUME NEW v \in Words, NEW w \in Words
  PROVE  v \o w \in Words
BY DEF Words

\* Putting a name into a map, and two maps together.
LEMMA Put ==
  ASSUME NEW m, IsMap(m), NEW name \in Words, NEW value \in Words,
         NEW n, n = Over(Entry(name, value), m)
  PROVE  /\ IsMap(n) /\ DOMAIN n = DOMAIN m \cup {name} /\ n[name] = value
         /\ \A k \in DOMAIN m \ {name} : n[k] = m[k]
<1>1. n = [x \in {name} \cup DOMAIN m |-> IF x = name THEN value ELSE m[x]]
  BY DEF Over, Entry
<1>2. QED
  BY <1>1 DEF IsMap

LEMMA Together ==
  ASSUME NEW e, NEW m, IsMap(e), IsMap(m), NEW n, n = Over(e, m)
  PROVE  /\ IsMap(n) /\ DOMAIN n = DOMAIN e \cup DOMAIN m
         /\ \A k \in DOMAIN e : n[k] = e[k]
         /\ \A k \in DOMAIN m \ DOMAIN e : n[k] = m[k]
<1>1. n = [x \in DOMAIN e \cup DOMAIN m |-> IF x \in DOMAIN e THEN e[x] ELSE m[x]]
  BY DEF Over, Entry
<1>2. QED
  BY <1>1 DEF IsMap

LEMMA ValueInType ==
  ASSUME NEW m, IsMap(m), NEW name
  PROVE  ValueIn(m, name) \in Words
BY EmptyWord DEF IsMap, ValueIn

-----------------------------------------------------------------------------
(* What the lines mean: Meant is well defined.                             *)

Line == [name: Words, value: Words, ps: BOOLEAN]

\* What line i means if f says what those before it do.
Meaning(lines, env, f, i) ==
  IF ~HasReference(lines[i].value) THEN lines[i].value
  ELSE Before(lines[i].value) \o
         IF Definers(lines, i) # {} THEN f[Latest(Definers(lines, i))]
         ELSE ValueIn(env, Named(lines[i].value))

LEMMA MeantChosen ==
  ASSUME NEW lines, NEW env
  PROVE  Meant(lines, env) = CHOOSE f : f = [i \in DOMAIN lines |-> Meaning(lines, env, f, i)]
BY Zenon DEF Meant, Meaning

LEMMA DefinerBefore ==
  ASSUME NEW lines, NEW i \in Nat \ {0}, Definers(lines, i) # {}
  PROVE  /\ Latest(Definers(lines, i)) \in Definers(lines, i)
         /\ Latest(Definers(lines, i)) \in 1..i - 1
         /\ \A k \in Definers(lines, i) : k <= Latest(Definers(lines, i))
<1>1. Definers(lines, i) \in SUBSET (1..i - 1) /\ i - 1 \in Nat
  BY DEF Definers
<1>2. QED
  BY <1>1, LatestIs

LEMMA MeaningOfEarlier ==
  ASSUME NEW lines, NEW env, NEW i \in Nat \ {0}, NEW f, NEW g, \A j \in 1..i - 1 : f[j] = g[j]
  PROVE  Meaning(lines, env, f, i) = Meaning(lines, env, g, i)
<1>1. CASE Definers(lines, i) = {}
  BY <1>1 DEF Meaning
<1>2. CASE Definers(lines, i) # {}
  BY <1>2, DefinerBefore DEF Meaning
<1>3. QED
  BY <1>1, <1>2

LEMMA MeaningExists ==
  ASSUME NEW lines, NEW env, NEW len \in Nat, DOMAIN lines = 1..len
  PROVE  \E f : f = [i \in DOMAIN lines |-> Meaning(lines, env, f, i)]
<1> DEFINE UpTo(f, n) == /\ f = [i \in 1..len |-> f[i]]
                         /\ \A i \in 1..len : i <= n => f[i] = Meaning(lines, env, f, i)
           T == {n \in Nat : ~\E f : UpTo(f, n)}
<1>1. T = {}
  <2> SUFFICES ASSUME T # {} PROVE FALSE
    OBVIOUS
  <2>1. PICK x \in T : \A y \in T : ~(y < x)
    BY HasSmallest
  <2>2. UpTo([i \in 1..len |-> 0], 0)
    OBVIOUS
  <2>3. x \in Nat \ {0}
    BY <2>1, <2>2
  <2>4. x - 1 \in Nat /\ x - 1 \notin T
    BY <2>1, <2>3
  <2>5. PICK f : UpTo(f, x - 1)
    BY <2>4
  <2> DEFINE g == [i \in 1..len |-> IF i = x THEN Meaning(lines, env, f, x) ELSE f[i]]
  <2>6. \A i \in 1..len : g[i] = IF i = x THEN Meaning(lines, env, f, x) ELSE f[i]
    OBVIOUS
  <2>7. g = [i \in 1..len |-> g[i]]
    OBVIOUS
  <2> HIDE DEF g
  <2>8. ASSUME NEW i \in 1..len, i <= x PROVE g[i] = Meaning(lines, env, g, i)
    <3>1. i \in Nat \ {0} /\ \A j \in 1..i - 1 : f[j] = g[j]
      BY <2>3, <2>6, <2>8
    <3>2. Meaning(lines, env, f, i) = Meaning(lines, env, g, i)
      BY <3>1, MeaningOfEarlier
    <3>3. g[i] = Meaning(lines, env, f, i)
      <4>1. CASE i = x
        BY <2>6, <4>1
      <4>2. CASE i # x
        <5>1. i <= x - 1 /\ g[i] = f[i]
          BY <2>3, <2>6, <2>8, <4>2
        <5>2. QED
          BY <2>5, <5>1
      <4>3. QED
        BY <4>1, <4>2
    <3>4. QED
      BY <3>2, <3>3
  <2>9. UpTo(g, x)
    BY <2>7, <2>8
  <2>10. QED
    BY <2>1, <2>9
<1>2. PICK f : UpTo(f, len)
  BY <1>1
<1>3. \A i \in 1..len : f[i] = Meaning(lines, env, f, i)
  BY <1>2
<1>4. f = [i \in DOMAIN lines |-> Meaning(lines, env, f, i)]
  <2>1. [i \in DOMAIN lines |-> f[i]] = [i \in DOMAIN lines |-> Meaning(lines, env, f, i)]
    BY <1>3
  <2>2. f = [i \in DOMAIN lines |-> f[i]]
    BY <1>2
  <2>3. QED
    BY <2>1, <2>2
<1>5. QED
  BY <1>4

LEMMA MeantIs ==
  ASSUME NEW lines \in Seq(Line), NEW env, NEW i \in DOMAIN lines
  PROVE  Meant(lines, env)[i] = Meaning(lines, env, Meant(lines, env), i)
<1>1. DOMAIN lines = 1..Len(lines) /\ Len(lines) \in Nat
  OBVIOUS
<1>2. \E f : f = [j \in DOMAIN lines |-> Meaning(lines, env, f, j)]
  BY <1>1, MeaningExists, Zenon
<1> DEFINE m == Meant(lines, env)
<1>3. m = [j \in DOMAIN lines |-> Meaning(lines, env, m, j)]
  BY <1>2, MeantChosen, Zenon
<1> HIDE DEF m
<1>4. m[i] = Meaning(lines, env, m, i)
  BY <1>3
<1>5. QED
  BY <1>4 DEF m

\* What the lines mean depends on no more of the environment than they refer to.
LEMMA MeantSame ==
  ASSUME NEW lines \in Seq(Line), NEW d, NEW e,
         \A i \in DOMAIN lines : HasReference(lines[i].value) /\ Definers(lines, i) = {} =>
            ValueIn(d, Named(lines[i].value)) = ValueIn(e, Named(lines[i].value))
  PROVE  \A i \in DOMAIN lines : Meant(lines, d)[i] = Meant(lines, e)[i]
<1> DEFINE f == Meant(lines, d)
           g == Meant(lines, e)
           T == {i \in DOMAIN lines : f[i] # g[i]}
<1>1. DOMAIN lines = 1..Len(lines) /\ Len(lines) \in Nat
  OBVIOUS
<1>2. \A i \in DOMAIN lines : f[i] = Meaning(lines, d, f, i) /\ g[i] = Meaning(lines, e, g, i)
  BY MeantIs
<1> HIDE DEF f, g
<1>3. SUFFICES ASSUME T # {} PROVE FALSE
  BY DEF f, g
<1>4. PICK x \in T : \A y \in T : ~(y < x)
  <2>1. T \in SUBSET Nat
    BY <1>1
  <2>2. QED
    BY <1>3, <2>1, HasSmallest
<1>5. x \in Nat \ {0} /\ x \in DOMAIN lines /\ f[x] # g[x] /\ \A j \in 1..x - 1 : f[j] = g[j]
  BY <1>1, <1>4
<1>6. Meaning(lines, e, f, x) = Meaning(lines, e, g, x)
  BY <1>5, MeaningOfEarlier
<1>7. Meaning(lines, d, f, x) = Meaning(lines, e, f, x)
  BY <1>5 DEF Meaning
<1>8. QED
  BY <1>2, <1>5, <1>6, <1>7

-----------------------------------------------------------------------------
(* Type correctness.                                                       *)

LEMMA ScriptFacts ==
  ASSUME EnvTypeOK
  PROVE  /\ script \in Seq(Line) /\ Len(script) \in Nat /\ DOMAIN script = 1..Len(script)
         /\ \A i \in 1..Len(script) : /\ script[i].name \in Words /\ script[i].value \in Words
                                      /\ script[i].ps \in BOOLEAN
         /\ at \in Nat \ {0} /\ round \in Nat \ {0}
<1>1. script \in Seq(Line)
  BY ScriptsAssumption DEF ScriptsAssumption, EnvTypeOK, Line
<1>2. Len(script) \in Nat /\ DOMAIN script = 1..Len(script)
      /\ \A i \in 1..Len(script) : script[i] \in Line
  BY <1>1
<1>3. at \in Nat \ {0} /\ round \in Nat \ {0}
  BY <1>2, RoundsAssumption DEF RoundsAssumption, EnvTypeOK
<1>4. QED
  BY <1>1, <1>2, <1>3 DEF Line

\* The variable whose value SetEnvironment leaves under a name.
LEMMA SetLastIs ==
  ASSUME IsMap(mEnv), NEW name \in {UpperName(k) : k \in DOMAIN mEnv \ {<< >>}}
  PROVE  SetLast(name) \in DOMAIN mEnv /\ UpperName(SetLast(name)) = name
<1>1. Spellings(name) # {} /\ \A k \in Spellings(name) : k \in DOMAIN mEnv /\ UpperName(k) = name
  BY DEF Spellings
<1>2. CASE Spellings(name) = {name}
  BY <1>1, <1>2 DEF SetLast
<1>3. CASE Spellings(name) # {name}
  <2>1. \E k \in Spellings(name) : k # name
    BY <1>1, <1>3
  <2>2. SetLast(name) \in Spellings(name)
    BY <1>3, <2>1 DEF SetLast
  <2>3. QED
    BY <1>1, <2>2
<1>4. QED
  BY <1>2, <1>3

LEMMA LookedUpIs ==
  ASSUME IsMap(mEnv), NEW v \in Words, HasReference(v)
  PROVE  /\ IsMap(LookedUp(v)) /\ DOMAIN LookedUp(v) = DOMAIN mEnv \cup {Key(v)}
         /\ \A k \in DOMAIN mEnv : LookedUp(v)[k] = mEnv[k]
         /\ \A k : ValueIn(LookedUp(v), k) = ValueIn(mEnv, k)
         /\ LookedUp(v)[Key(v)] = ValueIn(mEnv, Key(v))
<1> DEFINE n == LookedUp(v)
           key == Key(v)
<1>1. n = [x \in DOMAIN mEnv \cup {key} |-> IF x \in DOMAIN mEnv THEN mEnv[x] ELSE << >>]
  BY DEF LookedUp, Over, Entry
<1>2. key \in Words
  BY ReferenceFacts
<1> HIDE DEF n, key
<1>3. /\ DOMAIN n = DOMAIN mEnv \cup {key} /\ n = [x \in DOMAIN n |-> n[x]]
      /\ \A k \in DOMAIN mEnv : n[k] = mEnv[k]
      /\ \A k \in DOMAIN n \ DOMAIN mEnv : n[k] = << >>
  BY <1>1
<1>4. IsMap(n)
  BY <1>2, <1>3, EmptyWord DEF IsMap
<1>5. \A k : ValueIn(n, k) = ValueIn(mEnv, k)
  BY <1>3 DEF ValueIn
<1>6. n[key] = ValueIn(mEnv, key)
  BY <1>3 DEF ValueIn
<1>7. QED
  BY <1>3, <1>4, <1>5, <1>6 DEF n, key

LEMMA EnvTypeNext == EnvTypeOK /\ [EnvNext]_envVars => EnvTypeOK'
<1> SUFFICES ASSUME EnvTypeOK, [EnvNext]_envVars PROVE EnvTypeOK'
  OBVIOUS
<1>0. /\ script \in Scripts /\ expanding \in Words
      /\ IsMap(mEnv) /\ IsMap(environment) /\ IsMap(first)
      /\ at \in 1..Len(script) + 1 /\ round \in 1..MaxRounds
      /\ loading \in {"begin", "read", "expand", "run"}
      /\ \A k \in DOMAIN environment : UpperName(k) = k
      /\ loading # "expand" => expanding = << >>
      /\ loading = "expand" => script[at].ps /\ at <= Len(script)
  BY DEF EnvTypeOK
<1>1. /\ Len(script) \in Nat /\ at \in Nat \ {0} /\ MaxRounds \in Nat /\ round \in Nat
      /\ \A i \in 1..Len(script) : script[i].name \in Words /\ script[i].value \in Words
  BY ScriptFacts, RoundsAssumption DEF RoundsAssumption
<1>2. CASE GetCurrentEnv
  <2>1. /\ loading = "begin" /\ loading' = "read" /\ mEnv' = Over(environment, mEnv) /\ at' = 1
        /\ UNCHANGED <<script, environment, expanding, round, first>>
    BY <1>2 DEF GetCurrentEnv
  <2>2. IsMap(mEnv')
    BY <1>0, <2>1, Together
  <2>3. QED
    BY <1>0, <1>1, <2>1, <2>2 DEF EnvTypeOK
<1>3. CASE LoadEnvVar
  <2>1. /\ loading = "read" /\ at \in 1..Len(script) /\ at' = at + 1
        /\ mEnv' = Over(Entry(script[at].name, script[at].value), mEnv)
        /\ UNCHANGED <<script, environment, expanding, round, loading, first>>
    BY <1>1, <1>3 DEF LoadEnvVar, Define, NextLine
  <2>2. IsMap(mEnv')
    BY <1>0, <1>1, <2>1, Put
  <2>3. at' \in 1..Len(script) + 1
    BY <1>1, <2>1
  <2>4. QED
    BY <1>0, <2>1, <2>2, <2>3 DEF EnvTypeOK
<1>4. CASE LoadPShellEnvVar
  <2>1. /\ loading = "read" /\ at \in 1..Len(script) /\ script[at].ps
        /\ loading' = "expand" /\ expanding' = script[at].value
        /\ UNCHANGED <<script, mEnv, environment, at, round, first>>
    BY <1>1, <1>4 DEF LoadPShellEnvVar
  <2>2. expanding' \in Words /\ at <= Len(script)
    BY <1>1, <2>1
  <2>3. QED
    BY <1>0, <2>1, <2>2 DEF EnvTypeOK
<1>5. CASE ExpandReference
  <2>1. /\ loading = "expand" /\ HasReference(expanding)
        /\ mEnv' = LookedUp(expanding) /\ expanding' = Expanded(expanding)
        /\ UNCHANGED <<script, environment, at, round, loading, first>>
    BY <1>5 DEF ExpandReference
  <2>2. /\ IsMap(LookedUp(expanding)) /\ Key(expanding) \in DOMAIN LookedUp(expanding)
    BY <1>0, <2>1, LookedUpIs
  <2>3. Expanded(expanding) \in Words
    <3>1. LookedUp(expanding)[Key(expanding)] \in Words
      BY <2>2 DEF IsMap
    <3>2. QED
      BY <1>0, <2>1, <3>1, ReferenceFacts, ConcatWords DEF Expanded
  <2>4. QED
    BY <1>0, <2>1, <2>2, <2>3 DEF EnvTypeOK
<1>6. CASE EndExpansion
  <2>1. /\ loading = "expand" /\ at' = at + 1 /\ loading' = "read" /\ expanding' = << >>
        /\ mEnv' = Over(Entry(script[at].name, expanding), mEnv)
        /\ UNCHANGED <<script, environment, round, first>>
    BY <1>6 DEF EndExpansion, Define, NextLine
  <2>2. at \in 1..Len(script) /\ at' \in 1..Len(script) + 1
    BY <1>0, <1>1, <2>1
  <2>3. IsMap(mEnv')
    BY <1>0, <1>1, <2>1, <2>2, Put
  <2>4. QED
    BY <1>0, <2>1, <2>2, <2>3, EmptyWord DEF EnvTypeOK
<1>7. CASE SetEnvironment
  <2> DEFINE names == {UpperName(k) : k \in DOMAIN mEnv \ {<< >>}}
  <2>1. /\ loading = "read" /\ loading' = "run"
        /\ environment' = [name \in names |-> mEnv[SetLast(name)]]
        /\ first' = IF round = 1 THEN mEnv ELSE first
        /\ UNCHANGED <<script, mEnv, at, expanding, round>>
    BY <1>7 DEF SetEnvironment
  <2>2. \A name \in names : name \in Words /\ UpperName(name) = name /\ mEnv[SetLast(name)] \in Words
    <3> SUFFICES ASSUME NEW name \in names
                 PROVE  name \in Words /\ UpperName(name) = name /\ mEnv[SetLast(name)] \in Words
      OBVIOUS
    <3>1. PICK k \in DOMAIN mEnv \ {<< >>} : name = UpperName(k)
      OBVIOUS
    <3>2. k \in Words
      BY <1>0 DEF IsMap
    <3>3. SetLast(name) \in DOMAIN mEnv
      BY <1>0, SetLastIs
    <3>4. QED
      BY <1>0, <3>1, <3>2, <3>3, UpperFacts DEF IsMap
  <2> HIDE DEF names
  <2>3. IsMap(environment') /\ \A k \in DOMAIN environment' : UpperName(k) = k
    BY <2>1, <2>2 DEF IsMap
  <2>4. IsMap(first')
    BY <1>0, <2>1
  <2>5. QED
    BY <1>0, <2>1, <2>3, <2>4 DEF EnvTypeOK
<1>8. CASE Again
  <2>1. /\ loading = "run" /\ round < MaxRounds /\ loading' = "begin" /\ round' = round + 1
        /\ UNCHANGED <<script, mEnv, environment, at, expanding, first>>
    BY <1>8 DEF Again
  <2>2. round' \in 1..MaxRounds
    BY <1>0, <1>1, <2>1
  <2>3. QED
    BY <1>0, <2>1, <2>2 DEF EnvTypeOK
<1>9. CASE UNCHANGED envVars
  BY <1>0, <1>9 DEF EnvTypeOK, envVars
<1>10. QED
  BY <1>2, <1>3, <1>4, <1>5, <1>6, <1>7, <1>8, <1>9 DEF EnvNext

LEMMA EnvTypeInit == EnvInit => EnvTypeOK
<1> SUFFICES ASSUME EnvInit PROVE EnvTypeOK
  OBVIOUS
<1>1. /\ script \in Scripts /\ mEnv = << >> /\ environment = Outer /\ at = 1 /\ expanding = << >>
      /\ round = 1 /\ loading = "begin" /\ first = << >>
  BY DEF EnvInit
<1>2. script \in Seq([name: Words, value: Words, ps: BOOLEAN])
  BY <1>1, ScriptsAssumption DEF ScriptsAssumption
<1>3. Len(script) \in Nat
  BY <1>2
<1>4. 1 \in 1..Len(script) + 1 /\ 1 \in 1..MaxRounds
  BY <1>3, RoundsAssumption DEF RoundsAssumption
<1>5. IsMap(<< >>)
  BY DEF IsMap
<1>6. IsMap(Outer) /\ \A k \in DOMAIN Outer : UpperName(k) = k
  BY OuterAssumption DEF OuterAssumption
<1>7. QED
  BY <1>1, <1>4, <1>5, <1>6, EmptyWord DEF EnvTypeOK

(* Each thing has its shape in every state: names and values are words, m_Env and  *)
(* the environment are maps, whose names, in the environment, are upper case, and  *)
(* only a line of a .ps1 file is expanded.                                         *)
THEOREM EnvTypeCorrect == EnvSpec => []EnvTypeOK
<1>1. EnvTypeOK /\ [EnvNext]_envVars => EnvTypeOK'
  BY EnvTypeNext
<1>2. QED
  BY <1>1, EnvTypeInit, PTL DEF EnvSpec

-----------------------------------------------------------------------------
(* Each line read has its meaning.                                         *)

LEMMA PlainFacts ==
  ASSUME EnvTypeOK, Plain, NEW i \in 1..Len(script)
  PROVE  /\ script[i].name \in Words /\ script[i].value \in Words
         /\ UpperName(script[i].name) = script[i].name
         /\ HasReference(script[i].value) => /\ script[i].ps
                                             /\ Key(script[i].value) \in Words \ {<< >>}
<1>1. script[i].name \in Words /\ script[i].value \in Words /\ i \in DOMAIN script
  BY ScriptFacts
<1>2. HasReference(script[i].value) => Len(Key(script[i].value)) = 1
  BY <1>1, ReferenceFacts DEF Plain
<1>3. Len(<< >>) = 0
  OBVIOUS
<1>4. HasReference(script[i].value) => Key(script[i].value) # << >>
  BY <1>2, <1>3
<1>5. QED
  BY <1>1, <1>4, ReferenceFacts DEF Plain

\* A value without a reference means itself...
LEMMA MeantAsWritten ==
  ASSUME EnvTypeOK, NEW i \in 1..Len(script), ~HasReference(script[i].value)
  PROVE  Meant(script, environment)[i] = script[i].value
<1>1. script \in Seq(Line) /\ i \in DOMAIN script
  BY ScriptFacts
<1>2. Meant(script, environment)[i]
        = Meaning(script, environment, Meant(script, environment), i)
  BY <1>1, MeantIs
<1>3. QED
  BY <1>2 DEF Meaning

\* ...and one with a reference what m_Env has for it by then.
LEMMA MeantExpanded ==
  ASSUME EnvTypeOK, Plain, ReadInv, loading = "expand", HasReference(script[at].value)
  PROVE  Meant(script, environment)[at] = Expanded(script[at].value)
<1> DEFINE value == script[at].value
           key == Key(value)
           S == Definers(script, at)
           m == Meant(script, environment)
<1>1. at \in 1..Len(script) /\ at \in Nat \ {0} /\ script \in Seq(Line) /\ at \in DOMAIN script
  BY ScriptFacts DEF EnvTypeOK
<1>2. value \in Words /\ key \in Words \ {<< >>}
  BY <1>1, PlainFacts
<1>3. m[at] = Meaning(script, environment, m, at)
  BY <1>1, MeantIs
<1>4. Expanded(value) = Before(value) \o ValueIn(mEnv, key)
  BY <1>2, LookedUpIs DEF Expanded, EnvTypeOK
<1>5. CASE S # {}
  <2>1. Latest(S) \in S /\ Latest(S) \in 1..at - 1 /\ \A k \in S : k <= Latest(S)
    BY <1>1, <1>5, DefinerBefore
  <2>2. script[Latest(S)].name = key
    BY <2>1, KeyIsNamed DEF Definers
  <2>3. LastOf(Latest(S), at - 1)
    BY <1>1, <2>1, <2>2, KeyIsNamed DEF LastOf, Definers
  <2>4. ValueIn(mEnv, key) = m[Latest(S)]
    BY <2>1, <2>2, <2>3 DEF ReadInv, ValueIn
  <2>5. m[at] = Before(value) \o m[Latest(S)]
    BY <1>3, <1>5 DEF Meaning
  <2>6. QED
    BY <1>4, <2>4, <2>5
<1>6. CASE S = {}
  <2>1. ~Defined(key, at - 1)
    BY <1>6, KeyIsNamed DEF Defined, Definers
  <2>2. ValueIn(mEnv, key) = ValueIn(environment, key)
    <3>1. CASE key \in DOMAIN mEnv \cup DOMAIN environment
      BY <1>2, <2>1, <3>1 DEF ReadInv
    <3>2. CASE key \notin DOMAIN mEnv \cup DOMAIN environment
      BY <3>2 DEF ValueIn
    <3>3. QED
      BY <3>1, <3>2
  <2>3. m[at] = Before(value) \o ValueIn(environment, key)
    BY <1>3, <1>6, KeyIsNamed DEF Meaning
  <2>4. QED
    BY <1>4, <2>2, <2>3
<1>7. QED
  BY <1>5, <1>6

\* A line that is stored with its meaning.
LEMMA LineRead ==
  ASSUME EnvTypeOK, Plain, CleanInv, ReadInv, loading \in {"read", "expand"}, at \in 1..Len(script),
         NEW value \in Words, ~HasReference(value), value = Meant(script, environment)[at],
         mEnv' = Over(Entry(script[at].name, value), mEnv), at' = at + 1, loading' = "read",
         UNCHANGED <<script, environment>>
  PROVE  CleanInv' /\ ReadInv'
<1> DEFINE name == script[at].name
<1>1. name \in Words /\ UpperName(name) = name /\ at \in Nat \ {0} /\ IsMap(mEnv)
  BY PlainFacts, ScriptFacts DEF EnvTypeOK
<1>2. /\ DOMAIN mEnv' = DOMAIN mEnv \cup {name} /\ mEnv'[name] = value
      /\ \A k \in DOMAIN mEnv \ {name} : mEnv'[k] = mEnv[k]
  <2>1. mEnv' = [x \in {name} \cup DOMAIN mEnv |-> IF x = name THEN value ELSE mEnv[x]]
    BY DEF Over, Entry
  <2> HIDE DEF name
  <2>2. QED
    BY <2>1
<1>3. CleanInv'
  BY <1>1, <1>2 DEF CleanInv
<1>4. at' - 1 = at /\ 1..at = (1..at - 1) \cup {at}
  BY <1>1
<1>5. ASSUME NEW i \in 1..at, LastOf(i, at)
      PROVE  mEnv'[script[i].name] = Meant(script, environment)[i]
  <2>1. CASE i = at
    BY <1>2, <2>1
  <2>2. CASE i # at
    <3>1. i \in 1..at - 1 /\ LastOf(i, at - 1) /\ script[i].name # name
      BY <1>1, <1>5, <2>2 DEF LastOf
    <3>2. QED
      BY <1>2, <3>1 DEF ReadInv
  <2>3. QED
    BY <2>1, <2>2
<1>6. ASSUME NEW k \in (DOMAIN mEnv' \cup DOMAIN environment) \ {<< >>}, ~Defined(k, at)
      PROVE  ValueIn(mEnv', k) = ValueIn(environment, k)
  <2>1. k # name /\ ~Defined(k, at - 1)
    BY <1>1, <1>6 DEF Defined
  <2>2. k \in (DOMAIN mEnv \cup DOMAIN environment) \ {<< >>}
    BY <1>2, <2>1
  <2>3. ValueIn(mEnv', k) = ValueIn(mEnv, k)
    BY <1>2, <2>1 DEF ValueIn
  <2>4. QED
    BY <2>1, <2>2, <2>3 DEF ReadInv
<1>7. \A i \in 1..at : script[i].name \in DOMAIN mEnv'
  BY <1>2, <1>4 DEF ReadInv
<1>8. ReadInv'
  BY <1>4, <1>5, <1>6, <1>7 DEF ReadInv, LastOf, Defined
<1>9. QED
  BY <1>3, <1>8

\* A reference replaced.
LEMMA ReferenceExpanded ==
  ASSUME EnvTypeOK, Plain, CleanInv, ReadInv, ExpandInv, ExpandReference
  PROVE  /\ CleanInv' /\ ReadInv' /\ ExpandInv'
         /\ expanding = script[at].value
<1>1. /\ loading = "expand" /\ HasReference(expanding)
      /\ mEnv' = LookedUp(expanding) /\ expanding' = Expanded(expanding)
      /\ UNCHANGED <<script, environment, at, loading>>
  BY DEF ExpandReference
<1>2. expanding = script[at].value
  BY <1>1 DEF ExpandInv
<1> DEFINE value == script[at].value
           key == Key(value)
<1>3. at \in 1..Len(script) /\ IsMap(mEnv) /\ value \in Words /\ key \in Words /\ UpperName(key) = key
  BY <1>1, <1>2, ScriptFacts, ReferenceFacts DEF EnvTypeOK
<1>4. /\ DOMAIN mEnv' = DOMAIN mEnv \cup {key}
      /\ \A k \in DOMAIN mEnv : mEnv'[k] = mEnv[k]
      /\ \A k : ValueIn(LookedUp(value), k) = ValueIn(mEnv, k)
      /\ LookedUp(value)[key] = ValueIn(mEnv, key) /\ mEnv' = LookedUp(value)
  BY <1>1, <1>2, <1>3, LookedUpIs
<1>5. \A k : ValueIn(mEnv', k) = ValueIn(mEnv, k)
  BY <1>4
<1>6. \A k \in DOMAIN mEnv' : UpperName(k) = k /\ ~HasReference(mEnv'[k])
  <2> SUFFICES ASSUME NEW k \in DOMAIN mEnv' PROVE UpperName(k) = k /\ ~HasReference(mEnv'[k])
    OBVIOUS
  <2>1. CASE k \in DOMAIN mEnv
    BY <1>4, <2>1 DEF CleanInv
  <2>2. CASE k \notin DOMAIN mEnv
    <3>1. k = key /\ mEnv'[k] = << >>
      BY <1>4, <2>2 DEF ValueIn
    <3>2. QED
      BY <1>3, <3>1, EmptyWord
  <2>3. QED
    BY <2>1, <2>2
<1>7. CleanInv'
  BY <1>1, <1>6 DEF CleanInv
<1>8. ReadInv'
  <2>1. \A i \in 1..at - 1 : LastOf(i, at - 1) =>
          mEnv'[script[i].name] = Meant(script, environment)[i]
    BY <1>1, <1>4 DEF ReadInv
  <2>2. \A k \in (DOMAIN mEnv' \cup DOMAIN environment) \ {<< >>} : ~Defined(k, at - 1) =>
          ValueIn(mEnv', k) = ValueIn(environment, k)
    <3> SUFFICES ASSUME NEW k \in (DOMAIN mEnv' \cup DOMAIN environment) \ {<< >>}, ~Defined(k, at - 1)
                 PROVE  ValueIn(mEnv, k) = ValueIn(environment, k)
      BY <1>5
    <3>1. CASE k \in DOMAIN mEnv \cup DOMAIN environment
      BY <1>1, <3>1 DEF ReadInv
    <3>2. CASE k \notin DOMAIN mEnv \cup DOMAIN environment
      BY <3>2 DEF ValueIn
    <3>3. QED
      BY <3>1, <3>2
  <2>3. \A i \in 1..at - 1 : script[i].name \in DOMAIN mEnv'
    BY <1>1, <1>4 DEF ReadInv
  <2>4. QED
    BY <1>1, <2>1, <2>2, <2>3 DEF ReadInv, LastOf, Defined
<1>9. ~HasReference(Expanded(value))
  <2>1. ValueIn(mEnv, key) \in Words /\ ~HasReference(ValueIn(mEnv, key))
    BY <1>3, ValueInType, EmptyWord DEF CleanInv, ValueIn
  <2>2. Before(value) \in Words /\ ~HasReference(Before(value))
    BY <1>1, <1>2, <1>3, ReferenceFacts
  <2>3. Expanded(value) = Before(value) \o ValueIn(mEnv, key)
    BY <1>4 DEF Expanded
  <2>4. QED
    BY <2>1, <2>2, <2>3, NoReferenceInBoth
<1>10. Expanded(value) = Meant(script, environment)[at]
  BY <1>1, <1>2, MeantExpanded
<1>11. ExpandInv'
  BY <1>1, <1>2, <1>4, <1>9, <1>10 DEF ExpandInv
<1>12. QED
  BY <1>2, <1>7, <1>8, <1>11

LEMMA PlainNext == EnvTypeOK /\ PlainInv /\ [EnvNext]_envVars => PlainInv'
<1> SUFFICES ASSUME EnvTypeOK, PlainInv, [EnvNext]_envVars, Plain'
             PROVE  CleanInv' /\ ReadInv' /\ ExpandInv'
  BY DEF PlainInv
<1>0. UNCHANGED script
  BY DEF EnvNext, GetCurrentEnv, LoadEnvVar, LoadPShellEnvVar, ExpandReference, EndExpansion,
         SetEnvironment, Again, envVars
<1>1. Plain /\ CleanInv /\ ReadInv /\ ExpandInv
  BY <1>0 DEF PlainInv, Plain
<1>2. IsMap(mEnv) /\ IsMap(environment) /\ at \in Nat \ {0} /\ Len(script) \in Nat
      /\ \A k \in DOMAIN environment : UpperName(k) = k
  BY ScriptFacts DEF EnvTypeOK
<1>3. CASE GetCurrentEnv
  <2>1. /\ loading = "begin" /\ loading' = "read" /\ mEnv' = Over(environment, mEnv) /\ at' = 1
        /\ UNCHANGED <<script, environment>>
    BY <1>3 DEF GetCurrentEnv
  <2>2. /\ DOMAIN mEnv' = DOMAIN environment \cup DOMAIN mEnv
        /\ \A k \in DOMAIN environment : mEnv'[k] = environment[k]
        /\ \A k \in DOMAIN mEnv \ DOMAIN environment : mEnv'[k] = mEnv[k]
    BY <2>1 DEF Over
  <2>3. DOMAIN mEnv \ {<< >>} \subseteq DOMAIN environment
    BY <1>1, <2>1 DEF CleanInv
  <2>4. CleanInv'
    BY <1>1, <1>2, <2>1, <2>2 DEF CleanInv
  <2>5. ReadInv'
    BY <2>1, <2>2, <2>3 DEF ReadInv, ValueIn
  <2>6. QED
    BY <2>1, <2>4, <2>5 DEF ExpandInv
<1>4. CASE LoadEnvVar
  <2>1. /\ loading = "read" /\ at \in 1..Len(script) /\ ~script[at].ps /\ at' = at + 1
        /\ mEnv' = Over(Entry(script[at].name, script[at].value), mEnv)
        /\ UNCHANGED <<script, environment, loading>>
    BY <1>2, <1>4 DEF LoadEnvVar, Define, NextLine
  <2>2. script[at].value \in Words /\ ~HasReference(script[at].value)
    BY <1>1, <2>1, PlainFacts
  <2>3. script[at].value = Meant(script, environment)[at]
    BY <2>1, <2>2, MeantAsWritten
  <2>4. CleanInv' /\ ReadInv'
    BY <1>1, <2>1, <2>2, <2>3, LineRead
  <2>5. QED
    BY <2>1, <2>4 DEF ExpandInv
<1>5. CASE LoadPShellEnvVar
  <2>1. /\ loading = "read" /\ loading' = "expand" /\ expanding' = script[at].value
        /\ UNCHANGED <<script, mEnv, environment, at>>
    BY <1>5 DEF LoadPShellEnvVar
  <2>2. ReadInv'
    BY <1>1, <2>1 DEF ReadInv, LastOf, Defined
  <2>3. QED
    BY <1>1, <2>1, <2>2 DEF CleanInv, ExpandInv
<1>6. CASE ExpandReference
  BY <1>1, <1>6, ReferenceExpanded
<1>7. CASE EndExpansion
  <2>1. /\ loading = "expand" /\ at' = at + 1 /\ loading' = "read" /\ ~HasReference(expanding)
        /\ mEnv' = Over(Entry(script[at].name, expanding), mEnv)
        /\ UNCHANGED <<script, environment>>
    BY <1>7 DEF EndExpansion, Define, NextLine
  <2>2. at \in 1..Len(script) /\ expanding \in Words
    BY <1>2, <2>1 DEF EnvTypeOK
  <2>3. expanding = Meant(script, environment)[at]
    BY <1>1, <2>1, <2>2, MeantAsWritten DEF ExpandInv
  <2>4. CleanInv' /\ ReadInv'
    BY <1>1, <2>1, <2>2, <2>3, LineRead
  <2>5. QED
    BY <2>1, <2>4 DEF ExpandInv
<1>8. CASE SetEnvironment
  <2> DEFINE names == {UpperName(k) : k \in DOMAIN mEnv \ {<< >>}}
  <2>1. /\ loading = "read" /\ loading' = "run" /\ UNCHANGED <<script, mEnv, at>>
        /\ environment' = [name \in names |-> mEnv[SetLast(name)]]
    BY <1>8 DEF SetEnvironment
  <2>2. \A name \in names : SetLast(name) \in DOMAIN mEnv
    BY <1>2, SetLastIs
  <2>3. DOMAIN mEnv \ {<< >>} \subseteq names
    BY <1>1 DEF CleanInv
  <2> HIDE DEF names
  <2>4. CleanInv'
    BY <1>1, <2>1, <2>2, <2>3 DEF CleanInv
  <2>5. QED
    BY <2>1, <2>4 DEF ReadInv, ExpandInv
<1>9. CASE Again
  BY <1>1, <1>9 DEF Again, CleanInv, ReadInv, ExpandInv
<1>10. CASE UNCHANGED envVars
  <2>1. ReadInv'
    BY <1>1, <1>10 DEF ReadInv, LastOf, Defined, envVars
  <2>2. QED
    BY <1>1, <1>10, <2>1 DEF CleanInv, ExpandInv, envVars
<1>11. QED
  BY <1>3, <1>4, <1>5, <1>6, <1>7, <1>8, <1>9, <1>10 DEF EnvNext

LEMMA PlainInit == EnvInit => PlainInv
<1> SUFFICES ASSUME EnvInit, Plain PROVE CleanInv /\ ReadInv /\ ExpandInv
  BY DEF PlainInv
<1>1. mEnv = << >> /\ environment = Outer /\ loading = "begin"
  BY DEF EnvInit
<1>2. DOMAIN mEnv = {}
  BY <1>1
<1>3. QED
  BY <1>1, <1>2 DEF CleanInv, ReadInv, ExpandInv, Plain

(* Each variable that the lines define has the value PowerShell would give *)
(* it: LoadPShellEnvVarsFromFile finds a name however it is spelt, because *)
(* GetCurrentEnv stores names in upper case, and a value it puts in place  *)
(* of a reference is that of the line above which defines the name, in the *)
(* first round and in every later one.                                     *)
THEOREM ExpansionIsRight == EnvSpec => []ExpandedRight
<1>1. EnvTypeOK /\ PlainInv /\ [EnvNext]_envVars => PlainInv'
  BY PlainNext
<1>2. PlainInv => ExpandedRight
  BY DEF PlainInv, ReadInv, LastOf, ExpandedRight
<1>3. QED
  BY <1>1, <1>2, PlainInit, EnvTypeCorrect, PTL DEF EnvSpec

-----------------------------------------------------------------------------
(* A restart gives the commands the same variables.                        *)

\* Outside what the lines define, and wherever the name is.
LEMMA OutsideLines ==
  ASSUME NEW k, k # << >>
  PROVE  /\ OuterInv /\ ~Defined(k, Len(script)) => ValueIn(environment, k) = ValueIn(Outer, k)
         /\ ReadInv /\ loading \in {"read", "expand"} /\ ~Defined(k, at - 1) =>
              ValueIn(mEnv, k) = ValueIn(environment, k)
<1>1. OuterInv /\ ~Defined(k, Len(script)) => ValueIn(environment, k) = ValueIn(Outer, k)
  <2>1. CASE k \in DOMAIN environment \cup DOMAIN Outer
    BY <2>1 DEF OuterInv
  <2>2. CASE k \notin DOMAIN environment \cup DOMAIN Outer
    BY <2>2 DEF ValueIn
  <2>3. QED
    BY <2>1, <2>2
<1>2. ReadInv /\ loading \in {"read", "expand"} /\ ~Defined(k, at - 1) =>
        ValueIn(mEnv, k) = ValueIn(environment, k)
  <2>1. CASE k \in DOMAIN mEnv \cup DOMAIN environment
    BY <2>1 DEF ReadInv
  <2>2. CASE k \notin DOMAIN mEnv \cup DOMAIN environment
    BY <2>2 DEF ValueIn
  <2>3. QED
    BY <2>1, <2>2
<1>3. QED
  BY <1>1, <1>2

\* The lines mean the same in every round.
LEMMA SameMeaning ==
  ASSUME EnvTypeOK, Plain, Settled, OuterInv
  PROVE  \A i \in 1..Len(script) : Meant(script, environment)[i] = Meant(script, Outer)[i]
<1>1. script \in Seq(Line) /\ DOMAIN script = 1..Len(script) /\ Len(script) \in Nat
  BY ScriptFacts
<1>2. ASSUME NEW i \in DOMAIN script, HasReference(script[i].value), Definers(script, i) = {}
      PROVE  ValueIn(environment, Named(script[i].value)) = ValueIn(Outer, Named(script[i].value))
  <2> DEFINE key == Named(script[i].value)
  <2>1. key # << >>
    BY <1>1, <1>2, PlainFacts, KeyIsNamed
  <2>2. \A j \in 1..Len(script) : script[j].name # key
    <3> SUFFICES ASSUME NEW j \in 1..Len(script) PROVE script[j].name # key
      OBVIOUS
    <3>1. CASE j < i
      BY <1>1, <1>2, <3>1 DEF Definers
    <3>2. CASE j >= i
      <4>1. j \in i..Len(script)
        BY <1>1, <3>2
      <4>2. QED
        BY <1>2, <4>1 DEF Settled, Referred
    <3>3. QED
      BY <1>1, <3>1, <3>2
  <2>3. ~Defined(key, Len(script))
    BY <2>2 DEF Defined
  <2> HIDE DEF key
  <2>4. ValueIn(environment, key) = ValueIn(Outer, key)
    BY <2>1, <2>3, OutsideLines
  <2>5. QED
    BY <2>4 DEF key
<1>3. \A i \in DOMAIN script : HasReference(script[i].value) /\ Definers(script, i) = {} =>
        ValueIn(environment, Named(script[i].value)) = ValueIn(Outer, Named(script[i].value))
  BY <1>2
<1>4. \A i \in DOMAIN script : Meant(script, environment)[i] = Meant(script, Outer)[i]
  <2>1. script \in Seq(Line)
    BY <1>1
  <2>2. QED
    BY <1>3, <2>1, MeantSame, ZenonT(60)
<1>5. QED
  BY <1>1, <1>4

\* SetEnvironment, where every name is in upper case.
LEMMA EnvironmentSet ==
  ASSUME EnvTypeOK, CleanInv, SetEnvironment
  PROVE  /\ environment' = [k \in DOMAIN mEnv \ {<< >>} |-> mEnv[k]]
         /\ at = Len(script) + 1 /\ loading = "read" /\ loading' = "run"
         /\ first' = IF round = 1 THEN mEnv ELSE first
         /\ UNCHANGED <<script, mEnv, at, round>>
<1> DEFINE names == {UpperName(k) : k \in DOMAIN mEnv \ {<< >>}}
<1>1. /\ loading = "read" /\ loading' = "run" /\ at > Len(script)
      /\ environment' = [name \in names |-> mEnv[SetLast(name)]]
      /\ first' = IF round = 1 THEN mEnv ELSE first
      /\ UNCHANGED <<script, mEnv, at, round>>
  BY DEF SetEnvironment
<1>2. at = Len(script) + 1 /\ IsMap(mEnv)
  BY <1>1, ScriptFacts DEF EnvTypeOK
<1>3. \A k \in DOMAIN mEnv : UpperName(k) = k
  BY DEF CleanInv
<1>4. names = DOMAIN mEnv \ {<< >>}
  BY <1>3
<1>5. \A k \in names : SetLast(k) = k
  BY <1>2, <1>3, SetLastIs
<1>6. [name \in names |-> mEnv[SetLast(name)]] = [k \in DOMAIN mEnv \ {<< >>} |-> mEnv[k]]
  BY <1>4, <1>5
<1>7. QED
  BY <1>1, <1>2, <1>6

\* The last line that defines a name.
LEMMA LastDefiner ==
  ASSUME EnvTypeOK, NEW k, Defined(k, Len(script))
  PROVE  \E i \in 1..Len(script) : script[i].name = k /\ LastOf(i, Len(script))
<1> DEFINE S == {j \in 1..Len(script) : script[j].name = k}
<1>1. Len(script) \in Nat /\ S # {} /\ S \in SUBSET (1..Len(script))
  BY ScriptFacts DEF Defined
<1>2. Latest(S) \in S /\ \A j \in S : j <= Latest(S)
  BY <1>1, LatestIs
<1>3. PICK i \in S : \A j \in S : j <= i
  BY <1>2
<1>4. LastOf(i, Len(script))
  BY <1>1, <1>3 DEF LastOf
<1>5. QED
  BY <1>3, <1>4

\* What the steps that read the lines do, as far as the names go.
LEMMA ReadingSteps ==
  ASSUME EnvTypeOK, Plain, PlainInv, loading \in {"read", "expand"}, [EnvNext]_envVars,
         ~SetEnvironment
  PROVE  /\ UNCHANGED <<script, environment, first, round>> /\ loading' \in {"read", "expand"}
         /\ DOMAIN mEnv \subseteq DOMAIN mEnv'
         /\ \/ /\ at' = at + 1 /\ at \in 1..Len(script) /\ DOMAIN mEnv' = DOMAIN mEnv \cup {script[at].name}
               /\ \A k \in DOMAIN mEnv \ {script[at].name} : mEnv'[k] = mEnv[k]
               /\ HasReference(script[at].value) => Key(script[at].value) \in DOMAIN mEnv
            \/ /\ at' = at /\ \A k \in DOMAIN mEnv : mEnv'[k] = mEnv[k]
               /\ \/ DOMAIN mEnv' = DOMAIN mEnv
                  \/ /\ at \in 1..Len(script) /\ HasReference(script[at].value)
                     /\ DOMAIN mEnv' = DOMAIN mEnv \cup {Key(script[at].value)}
<1>1. /\ IsMap(mEnv) /\ at \in Nat \ {0} /\ Len(script) \in Nat
      /\ CleanInv /\ ReadInv /\ ExpandInv
  BY ScriptFacts DEF EnvTypeOK, PlainInv
<1>2. ~GetCurrentEnv /\ ~Again
  BY DEF GetCurrentEnv, Again
<1>3. CASE LoadEnvVar
  <2>1. /\ loading = "read" /\ at \in 1..Len(script) /\ ~script[at].ps /\ at' = at + 1
        /\ mEnv' = Over(Entry(script[at].name, script[at].value), mEnv)
        /\ UNCHANGED <<script, environment, loading, first, round>>
    BY <1>1, <1>3 DEF LoadEnvVar, Define, NextLine
  <2>2. ~HasReference(script[at].value)
    BY <2>1, PlainFacts
  <2>3. /\ DOMAIN mEnv' = DOMAIN mEnv \cup {script[at].name}
        /\ \A k \in DOMAIN mEnv \ {script[at].name} : mEnv'[k] = mEnv[k]
    BY <2>1 DEF Over, Entry
  <2>4. QED
    BY <2>1, <2>2, <2>3
<1>4. CASE LoadPShellEnvVar
  BY <1>4 DEF LoadPShellEnvVar
<1>5. CASE ExpandReference
  <2>1. /\ loading = "expand" /\ HasReference(expanding) /\ mEnv' = LookedUp(expanding)
        /\ UNCHANGED <<script, environment, at, round, loading, first>>
    BY <1>5 DEF ExpandReference
  <2>2. expanding = script[at].value /\ expanding \in Words /\ at \in 1..Len(script)
    BY <1>1, <1>5, <2>1, ReferenceExpanded DEF EnvTypeOK
  <2>3. /\ DOMAIN mEnv' = DOMAIN mEnv \cup {Key(script[at].value)}
        /\ \A k \in DOMAIN mEnv : mEnv'[k] = mEnv[k]
    BY <2>1, <2>2 DEF LookedUp, Over, Entry
  <2>4. QED
    BY <2>1, <2>2, <2>3
<1>6. CASE EndExpansion
  <2>1. /\ loading = "expand" /\ at' = at + 1 /\ loading' = "read" /\ ~HasReference(expanding)
        /\ mEnv' = Over(Entry(script[at].name, expanding), mEnv)
        /\ UNCHANGED <<script, environment, first, round>>
    BY <1>6 DEF EndExpansion, Define, NextLine
  <2>2. at \in 1..Len(script)
    BY <1>1, <2>1 DEF EnvTypeOK
  <2>3. HasReference(script[at].value) => Key(script[at].value) \in DOMAIN mEnv
    BY <1>1, <2>1 DEF ExpandInv
  <2>4. /\ DOMAIN mEnv' = DOMAIN mEnv \cup {script[at].name}
        /\ \A k \in DOMAIN mEnv \ {script[at].name} : mEnv'[k] = mEnv[k]
    BY <2>1 DEF Over, Entry
  <2>5. QED
    BY <2>1, <2>2, <2>3, <2>4
<1>7. CASE UNCHANGED envVars
  BY <1>7 DEF envVars
<1>8. QED
  BY <1>2, <1>3, <1>4, <1>5, <1>6, <1>7 DEF EnvNext

\* The steps that read the lines keep what a restart rests on.
LEMMA RestartReading ==
  ASSUME EnvTypeOK, Plain, PlainInv, LeftInv, OuterInv, FirstInv, loading \in {"read", "expand"},
         [EnvNext]_envVars, ~SetEnvironment
  PROVE  LeftInv' /\ OuterInv' /\ FirstInv'
<1> DEFINE name == script[at].name
           key == Key(script[at].value)
<1>1. /\ UNCHANGED <<script, environment, first, round>> /\ loading' \in {"read", "expand"}
      /\ DOMAIN mEnv \subseteq DOMAIN mEnv'
      /\ \/ /\ at' = at + 1 /\ at \in 1..Len(script) /\ DOMAIN mEnv' = DOMAIN mEnv \cup {name}
            /\ \A k \in DOMAIN mEnv \ {name} : mEnv'[k] = mEnv[k]
            /\ HasReference(script[at].value) => key \in DOMAIN mEnv
         \/ /\ at' = at /\ \A k \in DOMAIN mEnv : mEnv'[k] = mEnv[k]
            /\ \/ DOMAIN mEnv' = DOMAIN mEnv
               \/ /\ at \in 1..Len(script) /\ HasReference(script[at].value)
                  /\ DOMAIN mEnv' = DOMAIN mEnv \cup {key}
  BY ReadingSteps
<1>2. at \in Nat \ {0} /\ Len(script) \in Nat
  BY ScriptFacts
<1>3. \A i \in 1..at' - 1 : Leaves(i, mEnv')
  <2> SUFFICES ASSUME NEW i \in 1..at' - 1 PROVE Leaves(i, mEnv')
    OBVIOUS
  <2>1. CASE i \in 1..at - 1
    <3>1. Leaves(i, mEnv)
      BY <2>1 DEF LeftInv
    <3>2. QED
      BY <1>1, <3>1 DEF Leaves
  <2>2. CASE i \notin 1..at - 1
    <3>1. i = at /\ at' = at + 1
      BY <1>1, <1>2, <2>2
    <3>2. QED
      BY <1>1, <1>2, <3>1 DEF Leaves
  <2>3. QED
    BY <2>1, <2>2
<1>4. LeftInv'
  BY <1>1, <1>3 DEF LeftInv, Leaves
<1>5. OuterInv'
  BY <1>1 DEF OuterInv, Defined
<1>6. FirstInv'
  <2>1. CASE round > 1
    <3>1. /\ environment = [k \in DOMAIN first \ {<< >>} |-> first[k]]
          /\ \A i \in 1..Len(script) : Leaves(i, first)
          /\ \A i \in 1..Len(script) : LastOf(i, Len(script)) =>
               first[script[i].name] = Meant(script, Outer)[i]
          /\ DOMAIN mEnv = DOMAIN first
          /\ \A k \in DOMAIN mEnv : ~Defined(k, at - 1) => mEnv[k] = first[k]
      BY <2>1 DEF FirstInv
    <3>2. DOMAIN mEnv' = DOMAIN first
      BY <1>1, <3>1 DEF Leaves
    <3>3. ASSUME NEW k \in DOMAIN mEnv', ~Defined(k, at' - 1) PROVE mEnv'[k] = first[k]
      <4>1. ~Defined(k, at - 1) /\ k \in DOMAIN mEnv
        BY <1>1, <1>2, <3>1, <3>2, <3>3 DEF Defined
      <4>2. at' = at + 1 => k # name
        BY <1>1, <1>2, <3>3 DEF Defined
      <4>3. mEnv'[k] = mEnv[k]
        BY <1>1, <4>1, <4>2
      <4>4. QED
        BY <3>1, <4>1, <4>3
    <3>4. \A k \in DOMAIN mEnv' : ~Defined(k, at' - 1) => mEnv'[k] = first[k]
      BY <3>3
    <3>5. QED
      BY <1>1, <3>1, <3>2, <3>4 DEF FirstInv, Leaves, LastOf, Defined
  <2>2. CASE ~(round > 1)
    BY <1>1, <2>2 DEF FirstInv
  <2>3. QED
    BY <2>1, <2>2
<1>7. QED
  BY <1>4, <1>5, <1>6

\* A new round begins: with the same variables as the first, from the second on.
LEMMA RestartBegins ==
  ASSUME EnvTypeOK, OuterInv, FirstInv, GetCurrentEnv
  PROVE  LeftInv' /\ OuterInv' /\ FirstInv'
<1>1. /\ loading = "begin" /\ loading' = "read" /\ mEnv' = Over(environment, mEnv) /\ at' = 1
      /\ UNCHANGED <<script, environment, round, first>>
  BY DEF GetCurrentEnv
<1>2. /\ DOMAIN mEnv' = DOMAIN environment \cup DOMAIN mEnv
      /\ \A k \in DOMAIN environment : mEnv'[k] = environment[k]
      /\ \A k \in DOMAIN mEnv \ DOMAIN environment : mEnv'[k] = mEnv[k]
  BY <1>1 DEF Over
<1>3. LeftInv' /\ OuterInv'
  BY <1>1 DEF LeftInv, OuterInv, Defined
<1>4. CASE round > 1
  <2>1. /\ environment = [k \in DOMAIN first \ {<< >>} |-> first[k]]
        /\ \A i \in 1..Len(script) : Leaves(i, first)
        /\ \A i \in 1..Len(script) : LastOf(i, Len(script)) =>
             first[script[i].name] = Meant(script, Outer)[i]
        /\ mEnv = first
    BY <1>1, <1>4 DEF FirstInv
  <2>2. DOMAIN environment = DOMAIN first \ {<< >>}
        /\ \A k \in DOMAIN environment : environment[k] = first[k]
    BY <2>1
  <2>3. DOMAIN mEnv' = DOMAIN first /\ \A k \in DOMAIN mEnv' : mEnv'[k] = first[k]
    BY <1>2, <2>1, <2>2
  <2>4. QED
    BY <1>1, <1>3, <2>1, <2>3 DEF FirstInv, Leaves, LastOf
<1>5. CASE ~(round > 1)
  BY <1>1, <1>3, <1>5 DEF FirstInv
<1>6. QED
  BY <1>3, <1>4, <1>5

\* A round ends: with the same variables as the first one.
LEMMA RestartEnds ==
  ASSUME EnvTypeOK, Plain, Settled, PlainInv, LeftInv, OuterInv, FirstInv, SetEnvironment
  PROVE  LeftInv' /\ OuterInv' /\ FirstInv'
<1> DEFINE len == Len(script)
<1>1. /\ environment' = [k \in DOMAIN mEnv \ {<< >>} |-> mEnv[k]]
      /\ at = len + 1 /\ loading = "read" /\ loading' = "run"
      /\ first' = IF round = 1 THEN mEnv ELSE first
      /\ UNCHANGED <<script, mEnv, at, round>>
  BY EnvironmentSet DEF PlainInv
<1>2. at \in Nat \ {0} /\ len \in Nat /\ at - 1 = len /\ round \in Nat \ {0}
  BY <1>1, ScriptFacts
<1>3. ReadInv /\ IsMap(mEnv) /\ IsMap(first)
  BY DEF PlainInv, EnvTypeOK
<1>4. \A i \in 1..len : LastOf(i, len) => mEnv[script[i].name] = Meant(script, Outer)[i]
  BY <1>1, <1>2, <1>3, SameMeaning DEF ReadInv
<1>5. \A i \in 1..len : Leaves(i, mEnv)
  BY <1>1, <1>2 DEF LeftInv
<1>6. LeftInv'
  BY <1>1 DEF LeftInv
<1>7. OuterInv'
  <2>1. ASSUME NEW k, k # << >>, ~Defined(k, len)
        PROVE  ValueIn(environment', k) = ValueIn(Outer, k)
    <3>1. ValueIn(environment, k) = ValueIn(Outer, k) /\ ValueIn(mEnv, k) = ValueIn(environment, k)
      BY <1>1, <1>2, <1>3, <2>1, OutsideLines
    <3>2. ValueIn(environment', k) = ValueIn(mEnv, k)
      BY <1>1, <2>1 DEF ValueIn
    <3>3. QED
      BY <3>1, <3>2
  <2>2. QED
    BY <1>1, <2>1 DEF OuterInv, Defined
<1>8. first' = mEnv
  <2>1. CASE round > 1
    <3>1. /\ DOMAIN mEnv = DOMAIN first
          /\ \A i \in 1..len : LastOf(i, len) => first[script[i].name] = Meant(script, Outer)[i]
          /\ \A k \in DOMAIN mEnv : ~Defined(k, len) => mEnv[k] = first[k]
      BY <1>1, <1>2, <2>1 DEF FirstInv
    <3>2. ASSUME NEW k \in DOMAIN mEnv PROVE mEnv[k] = first[k]
      <4>1. CASE Defined(k, len)
        <5>1. PICK i \in 1..len : script[i].name = k /\ LastOf(i, len)
          BY <4>1, LastDefiner
        <5>2. QED
          BY <1>4, <3>1, <5>1
      <4>2. CASE ~Defined(k, len)
        BY <3>1, <4>2
      <4>3. QED
        BY <4>1, <4>2
    <3>3. mEnv = first
      <4>1. /\ mEnv = [k \in DOMAIN mEnv |-> mEnv[k]] /\ first = [k \in DOMAIN first |-> first[k]]
        BY <1>3 DEF IsMap
      <4>2. [k \in DOMAIN mEnv |-> mEnv[k]] = [k \in DOMAIN first |-> first[k]]
        BY <3>1, <3>2
      <4>3. QED
        BY <4>1, <4>2
    <3>4. QED
      BY <1>1, <2>1, <3>3
  <2>2. CASE ~(round > 1)
    BY <1>1, <1>2, <2>2
  <2>3. QED
    BY <2>1, <2>2
<1>9. FirstInv'
  BY <1>1, <1>4, <1>5, <1>8 DEF FirstInv, Leaves, LastOf
<1>10. QED
  BY <1>6, <1>7, <1>9

LEMMA RestartNext == EnvTypeOK /\ PlainInv /\ RestartInv /\ [EnvNext]_envVars => RestartInv'
<1> SUFFICES ASSUME EnvTypeOK, PlainInv, RestartInv, [EnvNext]_envVars, Plain', Settled'
             PROVE  LeftInv' /\ OuterInv' /\ FirstInv'
  BY DEF RestartInv
<1>1. UNCHANGED script
  BY DEF EnvNext, GetCurrentEnv, LoadEnvVar, LoadPShellEnvVar, ExpandReference, EndExpansion,
         SetEnvironment, Again, envVars
<1>2. Plain /\ Settled
  BY <1>1 DEF Plain, Settled, Referred
<1>3. LeftInv /\ OuterInv /\ FirstInv
  BY <1>2 DEF RestartInv
<1>4. CASE SetEnvironment
  BY <1>2, <1>3, <1>4, RestartEnds
<1>5. CASE loading \in {"read", "expand"} /\ ~SetEnvironment
  BY <1>2, <1>3, <1>5, RestartReading
<1>6. CASE loading \in {"begin", "run"}
  <2>1. ~LoadEnvVar /\ ~LoadPShellEnvVar /\ ~ExpandReference /\ ~EndExpansion /\ ~SetEnvironment
    BY <1>6 DEF LoadEnvVar, LoadPShellEnvVar, ExpandReference, EndExpansion, SetEnvironment
  <2>2. CASE GetCurrentEnv
    BY <1>3, <2>2, RestartBegins
  <2>3. CASE Again
    <3>1. /\ loading = "run" /\ loading' = "begin"
          /\ UNCHANGED <<script, mEnv, environment, at, first>>
      BY <2>3 DEF Again
    <3>2. QED
      BY <1>3, <3>1 DEF LeftInv, OuterInv, FirstInv, Leaves, LastOf, Defined
  <2>4. CASE UNCHANGED envVars
    BY <1>3, <2>4 DEF LeftInv, OuterInv, FirstInv, Leaves, LastOf, Defined, envVars
  <2>5. QED
    BY <2>1, <2>2, <2>3, <2>4 DEF EnvNext
<1>7. loading \in {"begin", "read", "expand", "run"}
  BY DEF EnvTypeOK
<1>8. QED
  BY <1>4, <1>5, <1>6, <1>7

LEMMA RestartInit == EnvInit => RestartInv
<1> SUFFICES ASSUME EnvInit PROVE LeftInv /\ OuterInv /\ FirstInv
  BY DEF RestartInv
<1>1. environment = Outer /\ loading = "begin" /\ round = 1
  BY DEF EnvInit
<1>2. QED
  BY <1>1 DEF LeftInv, OuterInv, FirstInv

(* A restart gives the commands the same variables as the first start did: *)
(* GetCurrentEnv reads back the environment that the round before it set,  *)
(* and each line puts the value there again that it put there first, unless*)
(* it refers to what it or a later line defines.                           *)
THEOREM RestartIsSame == EnvSpec => []RestartSameEnv
<1>1. EnvTypeOK /\ PlainInv /\ [EnvNext]_envVars => PlainInv'
  BY PlainNext
<1>2. EnvTypeOK /\ PlainInv /\ RestartInv /\ [EnvNext]_envVars => RestartInv'
  BY RestartNext
<1>3. RestartInv => RestartSameEnv
  BY DEF RestartInv, FirstInv, RestartSameEnv
<1>4. QED
  BY <1>1, <1>2, <1>3, PlainInit, RestartInit, EnvTypeCorrect, PTL DEF EnvSpec

=============================================================================
