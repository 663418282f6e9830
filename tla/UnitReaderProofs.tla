--------------------------- MODULE UnitReaderProofs ---------------------------
(***************************************************************************)
(* What systemctl's reader makes of a unit file, and that the wrapper's    *)
(* makes the same of it, proved for every set of files and of texts.       *)
(*                                                                         *)
(* The argument: the reader goes through the file once (next), and before  *)
(* line e it has recorded what the file says before e (Covers).  While it  *)
(* is in a section that holds of the section's heading, and attrs holds    *)
(* the pairs from there on (OpenSection); both are stated with the place   *)
(* where it is (SectionInv).  Of a file that the wrapper accepts the sole  *)
(* [Service] section is then known in full when the type is chosen.        *)
(***************************************************************************)
EXTENDS UnitReader, FiniteSetTheorems, SequenceTheorems, WellFoundedInduction, TLAPS

-----------------------------------------------------------------------------
(* The concatenation of a sequence of sequences, which the folds of the    *)
(* library define by a recursive function: that the function is there and  *)
(* what it is is shown with the least number for which it would not be so. *)

Smaller == {pair \in Nat \X Nat : pair[1] < pair[2]}

LEMMA SmallerWellFounded == IsWellFoundedOn(Smaller, Nat)
BY NatLessThanWellFounded, Zenon DEF OpToRel, Smaller

\* A set of natural numbers has a smallest one: what stands in for induction below.
LEMMA HasSmallest ==
  ASSUME NEW T \in SUBSET Nat, T # {}
  PROVE  \E x \in T : \A y \in T : ~(y < x)
<1>1. \E x \in T : \A y \in T : ~(<<y, x>> \in Smaller)
  BY SmallerWellFounded, WFMin, Zenon
<1>2. \A x, y \in Nat : y < x => <<y, x>> \in Smaller
  BY DEF Smaller
<1>3. QED
  BY <1>1, <1>2

\* The concatenation of the first i members, if f has those of fewer.
Joined(s, f, i) == IF i = 1 THEN s[i] ELSE f[i - 1] \o s[i]
Partials(s) == CHOOSE f : f = [i \in 1..Len(s) |-> Joined(s, f, i)]

LEMMA FlattenIs ==
  ASSUME NEW s, Len(s) # 0
  PROVE  FlattenSeq(s) = Partials(s)[Len(s)]
BY Zenon DEF FlattenSeq, Partials, Joined

LEMMA PartialsExist ==
  ASSUME NEW s, Len(s) \in Nat
  PROVE  \E f : f = [i \in 1..Len(s) |-> Joined(s, f, i)]
<1> DEFINE len == Len(s)
           UpTo(f, n) == /\ f = [i \in 1..len |-> f[i]]
                         /\ \A i \in 1..len : i <= n => f[i] = Joined(s, f, i)
           T == {n \in Nat : ~\E f : UpTo(f, n)}
<1>1. T = {}
  <2> SUFFICES ASSUME T # {} PROVE FALSE
    OBVIOUS
  <2>1. PICK x \in T : \A y \in T : ~(y < x)
    BY HasSmallest
  <2>2. UpTo([i \in 1..len |-> 0], 0)
    OBVIOUS
  <2>3. x \in Nat \ {0}
    BY <2>1, <2>2
  <2>4. x - 1 \in Nat /\ x - 1 \notin T
    BY <2>1, <2>3
  <2>5. PICK f : UpTo(f, x - 1)
    BY <2>4
  <2> DEFINE g == [i \in 1..len |-> IF i = x THEN Joined(s, f, x) ELSE f[i]]
  <2>6. \A i \in 1..len : g[i] = IF i = x THEN Joined(s, f, x) ELSE f[i]
    OBVIOUS
  <2>7. g = [i \in 1..len |-> g[i]]
    OBVIOUS
  <2> HIDE DEF g
  <2>8. ASSUME NEW i \in 1..len, i <= x PROVE g[i] = Joined(s, g, i)
    <3>1. i = 1 \/ (i - 1 \in 1..len /\ i - 1 # x)
      BY <2>3, <2>8
    <3>2. Joined(s, g, i) = Joined(s, f, i)
      BY <2>6, <3>1 DEF Joined
    <3>3. i # x => i <= x - 1
      BY <2>3, <2>8
    <3>4. QED
      BY <2>5, <2>6, <3>2, <3>3
  <2>9. UpTo(g, x)
    BY <2>7, <2>8
  <2>10. QED
    BY <2>1, <2>9
<1>2. PICK f : UpTo(f, len)
  BY <1>1
<1>3. [i \in 1..len |-> f[i]] = [i \in 1..len |-> Joined(s, f, i)]
  BY <1>2
<1>4. f = [i \in 1..len |-> Joined(s, f, i)]
  BY <1>2, <1>3
<1>5. QED
  BY <1>4

LEMMA PartialsAre ==
  ASSUME NEW T, NEW s \in Seq(Seq(T)), NEW i \in 1..Len(s)
  PROVE  Partials(s)[i] = Joined(s, Partials(s), i)
<1>1. Len(s) \in Nat
  OBVIOUS
<1>2. Partials(s) = [j \in 1..Len(s) |-> Joined(s, Partials(s), j)]
  BY <1>1, PartialsExist, Zenon DEF Partials
<1> DEFINE p == Partials(s)
<1>3. p = [j \in 1..Len(s) |-> Joined(s, p, j)]
  BY <1>2
<1> HIDE DEF p
<1>4. p[i] = Joined(s, p, i)
  BY <1>3
<1>5. QED
  BY <1>4 DEF p

LEMMA PartialsType ==
  ASSUME NEW T, NEW s \in Seq(Seq(T)), NEW i \in 1..Len(s)
  PROVE  Partials(s)[i] \in Seq(T)
<1> DEFINE p == Partials(s)
           Bad == {j \in 1..Len(s) : p[j] \notin Seq(T)}
<1>1. \A j \in 1..Len(s) : p[j] = Joined(s, p, j)
  BY PartialsAre
<1> HIDE DEF p
<1>2. SUFFICES ASSUME Bad # {} PROVE FALSE
  BY DEF p
<1>3. Bad \in SUBSET Nat
  OBVIOUS
<1>4. PICK x \in Bad : \A y \in Bad : ~(y < x)
  BY <1>2, <1>3, HasSmallest
<1>5. x \in 1..Len(s) /\ s[x] \in Seq(T) /\ Len(s) \in Nat
  BY <1>4
<1>6. x # 1 => p[x - 1] \in Seq(T)
  BY <1>4, <1>5
<1>7. x # 1 => p[x - 1] \o s[x] \in Seq(T)
  BY <1>5, <1>6, ConcatProperties
<1>8. p[x] \in Seq(T)
  BY <1>1, <1>5, <1>7 DEF Joined
<1>9. QED
  BY <1>4, <1>8

LEMMA FlattenType ==
  ASSUME NEW T, NEW s \in Seq(Seq(T))
  PROVE  FlattenSeq(s) \in Seq(T)
<1>1. CASE Len(s) = 0
  <2>1. FlattenSeq(s) = s /\ s = << >>
    BY <1>1 DEF FlattenSeq
  <2>2. QED
    BY <2>1
<1>2. CASE Len(s) # 0
  BY <1>2, FlattenIs, PartialsType
<1>3. QED
  BY <1>1, <1>2

\* Before the first member that is not empty there is nothing.
LEMMA PartialsEmpty ==
  ASSUME NEW T, NEW s \in Seq(Seq(T)), NEW n \in 1..Len(s), \A j \in 1..n : s[j] = << >>
  PROVE  Partials(s)[n] = << >>
<1> DEFINE p == Partials(s)
           Bad == {j \in 1..n : p[j] # << >>}
<1>1. \A j \in 1..Len(s) : p[j] = Joined(s, p, j)
  BY PartialsAre
<1> HIDE DEF p
<1>2. SUFFICES ASSUME Bad # {} PROVE FALSE
  BY DEF p
<1>3. Bad \in SUBSET Nat
  OBVIOUS
<1>4. PICK x \in Bad : \A y \in Bad : ~(y < x)
  BY <1>2, <1>3, HasSmallest
<1>5. x \in 1..Len(s) /\ x \in 1..n /\ s[x] = << >> /\ Len(s) \in Nat
  BY <1>4
<1>6. x # 1 => p[x - 1] = << >>
  BY <1>4, <1>5
<1>7. << >> \o << >> = << >>
  OBVIOUS
<1>8. p[x] = << >>
  BY <1>1, <1>5, <1>6, <1>7 DEF Joined
<1>9. QED
  BY <1>4, <1>8

\* The members of s are those of a and of b, and those of a come first.
Merges(s, a, b) ==
  /\ Len(a) = Len(s) /\ Len(b) = Len(s)
  /\ \A i \in 1..Len(s) : s[i] = IF a[i] = << >> THEN b[i] ELSE a[i]
  /\ \A i, j \in 1..Len(s) : a[i] # << >> /\ j <= i => b[j] = << >>

IsNested(s, T) == s \in Seq(Seq(T))

MergedAt(s, a, b, j) == Partials(s)[j] = Partials(a)[j] \o Partials(b)[j]

LEMMA PartialsMerge ==
  ASSUME NEW T, NEW s, NEW a, NEW b, IsNested(s, T), IsNested(a, T), IsNested(b, T),
         Merges(s, a, b)
  PROVE  \A j \in 1..Len(s) : MergedAt(s, a, b, j)
<1> DEFINE p == Partials(s)
           q == Partials(a)
           r == Partials(b)
           Both(j) == q[j] \o r[j]
           Bad == {j \in 1..Len(s) : p[j] # Both(j)}
<1>1. Len(s) \in Nat /\ Len(a) = Len(s) /\ Len(b) = Len(s)
  BY DEF Merges, IsNested
<1>2. \A j \in 1..Len(s) : /\ p[j] = Joined(s, p, j) /\ p[j] \in Seq(T)
                           /\ q[j] = Joined(a, q, j) /\ q[j] \in Seq(T)
                           /\ r[j] = Joined(b, r, j) /\ r[j] \in Seq(T)
  BY <1>1, PartialsAre, PartialsType DEF IsNested
<1>3. ASSUME NEW j \in 1..Len(s), a[j] # << >> PROVE r[j] = << >>
  <2>1. \A k \in 1..j : k \in 1..Len(s) /\ k <= j
    BY <1>1
  <2>2. \A k \in 1..j : b[k] = << >>
    BY <1>3, <2>1 DEF Merges
  <2>3. QED
    BY <1>1, <2>2, PartialsEmpty DEF IsNested
<1> HIDE DEF p, q, r, Both
<1>4. SUFFICES ASSUME Bad # {} PROVE FALSE
  BY DEF p, q, r, Both, MergedAt
<1>5. Bad \in SUBSET Nat
  BY <1>1
<1>6. PICK x \in Bad : \A y \in Bad : ~(y < x)
  BY <1>4, <1>5, HasSmallest
<1>7. x \in 1..Len(s) /\ s[x] \in Seq(T) /\ a[x] \in Seq(T) /\ b[x] \in Seq(T)
  BY <1>1, <1>6 DEF IsNested
<1>8. CASE a[x] = << >>
  <2>1. s[x] = b[x]
    BY <1>7, <1>8 DEF Merges
  <2>2. CASE x = 1
    <3>1. p[x] = b[x] /\ q[x] = << >> /\ r[x] = b[x]
      BY <1>2, <1>7, <1>8, <2>1, <2>2 DEF Joined
    <3>2. QED
      BY <1>6, <1>7, <3>1, ConcatEmptySeq DEF Both
  <2>3. CASE x # 1
    <3>1. x - 1 \in 1..Len(s) /\ p[x - 1] = Both(x - 1)
      BY <1>1, <1>6, <1>7, <2>3
    <3>2. q[x - 1] \in Seq(T) /\ r[x - 1] \in Seq(T)
      BY <1>2, <3>1
    <3>3. p[x] = p[x - 1] \o b[x] /\ q[x] = q[x - 1] \o << >> /\ r[x] = r[x - 1] \o b[x]
      BY <1>2, <1>7, <1>8, <2>1, <2>3 DEF Joined
    <3>4. q[x] = q[x - 1]
      BY <3>2, <3>3, ConcatEmptySeq
    <3>5. (q[x - 1] \o r[x - 1]) \o b[x] = q[x - 1] \o (r[x - 1] \o b[x])
      <4>1. PICK u \in Seq(T) : u = q[x - 1]
        BY <3>2
      <4>2. PICK v \in Seq(T) : v = r[x - 1]
        BY <3>2
      <4>3. PICK w \in Seq(T) : w = b[x]
        BY <1>7
      <4>4. (u \o v) \o w = u \o (v \o w)
        BY ConcatAssociative
      <4>5. QED
        BY <4>1, <4>2, <4>3, <4>4
    <3>6. p[x] = q[x] \o r[x]
      BY <3>1, <3>3, <3>4, <3>5, Zenon DEF Both
    <3>7. QED
      BY <1>6, <3>6 DEF Both
  <2>4. QED
    BY <2>2, <2>3
<1>9. CASE a[x] # << >>
  <2>1. s[x] = a[x] /\ b[x] = << >> /\ r[x] = << >>
    BY <1>1, <1>3, <1>7, <1>9 DEF Merges
  <2>2. CASE x = 1
    <3>1. p[x] = a[x] /\ q[x] = a[x]
      BY <1>2, <1>7, <2>1, <2>2 DEF Joined
    <3>2. QED
      BY <1>6, <1>7, <2>1, <3>1, ConcatEmptySeq DEF Both
  <2>3. CASE x # 1
    <3>1. x - 1 \in 1..Len(s) /\ p[x - 1] = Both(x - 1)
      BY <1>1, <1>6, <1>7, <2>3
    <3>2. q[x - 1] \in Seq(T) /\ r[x - 1] \in Seq(T)
      BY <1>2, <3>1
    <3>3. r[x] = r[x - 1] \o << >>
      BY <1>2, <1>7, <2>1, <2>3 DEF Joined
    <3>4. p[x - 1] = q[x - 1]
      BY <2>1, <3>1, <3>2, <3>3, ConcatEmptySeq DEF Both
    <3>5. p[x] = q[x - 1] \o a[x] /\ q[x] = q[x - 1] \o a[x]
      BY <1>2, <1>7, <2>1, <2>3, <3>4 DEF Joined
    <3>6. q[x] \in Seq(T)
      BY <1>2, <1>7
    <3>7. QED
      BY <1>6, <2>1, <3>5, <3>6, ConcatEmptySeq DEF Both
  <2>4. QED
    BY <2>2, <2>3
<1>10. QED
  BY <1>8, <1>9

LEMMA FlattenMerges ==
  ASSUME NEW T, NEW s, NEW a, NEW b, IsNested(s, T), IsNested(a, T), IsNested(b, T),
         Merges(s, a, b), Len(s) # 0
  PROVE  FlattenSeq(s) = FlattenSeq(a) \o FlattenSeq(b)
<1>1. Len(s) \in 1..Len(s) /\ Len(a) = Len(s) /\ Len(b) = Len(s)
  BY DEF Merges, IsNested
<1>2. MergedAt(s, a, b, Len(s))
  BY <1>1, PartialsMerge, Zenon
<1>3. QED
  BY <1>1, <1>2, FlattenIs DEF MergedAt

\* What the first members of two sequences make up is the same if they are.
LEMMA PartialsPrefix ==
  ASSUME NEW T, NEW s, NEW a, IsNested(s, T), IsNested(a, T), Len(a) <= Len(s),
         \A i \in 1..Len(a) : a[i] = s[i]
  PROVE  \A i \in 1..Len(a) : Partials(a)[i] = Partials(s)[i]
<1> DEFINE p == Partials(s)
           q == Partials(a)
           Bad == {i \in 1..Len(a) : q[i] # p[i]}
<1>1. Len(s) \in Nat /\ Len(a) \in Nat
  BY DEF IsNested
<1>2. /\ \A i \in 1..Len(s) : p[i] = Joined(s, p, i)
      /\ \A i \in 1..Len(a) : q[i] = Joined(a, q, i)
  BY PartialsAre DEF IsNested
<1> HIDE DEF p, q
<1>3. SUFFICES ASSUME Bad # {} PROVE FALSE
  BY DEF p, q
<1>a. Bad \in SUBSET Nat
  BY <1>1
<1>4. PICK x \in Bad : \A y \in Bad : ~(y < x)
  BY <1>3, <1>a, HasSmallest
<1>5. x \in 1..Len(a) /\ x \in 1..Len(s) /\ a[x] = s[x]
  BY <1>1, <1>4
<1>6. x # 1 => x - 1 \in 1..Len(a) /\ q[x - 1] = p[x - 1]
  BY <1>1, <1>4, <1>5
<1>7. Joined(a, q, x) = Joined(s, p, x)
  BY <1>5, <1>6 DEF Joined
<1>8. QED
  BY <1>2, <1>4, <1>5, <1>7

KeptIn(names, S) == [k \in DOMAIN names |-> IF names[k] \in S THEN <<names[k]>> ELSE << >>]
Keep(x, S) == IF x \in S THEN <<x>> ELSE << >>

LEMMA KeptType ==
  ASSUME NEW T, NEW u \in Seq(T), NEW S
  PROVE  /\ KeptIn(u, S) \in Seq(Seq(T)) /\ Len(KeptIn(u, S)) = Len(u)
         /\ \A k \in 1..Len(u) : KeptIn(u, S)[k] = Keep(u[k], S)
<1>1. DOMAIN u = 1..Len(u) /\ Len(u) \in Nat
  OBVIOUS
<1>2. \A k \in 1..Len(u) : Keep(u[k], S) \in Seq(T)
  BY DEF Keep
<1>3. KeptIn(u, S) = [k \in 1..Len(u) |-> Keep(u[k], S)]
  BY <1>1 DEF KeptIn, Keep
<1>4. KeptIn(u, S) \in [1..Len(u) -> Seq(T)]
  BY <1>2, <1>3
<1>5. QED
  BY <1>1, <1>3, <1>4, IsASeq, LenProperties

LEMMA AmongNone == ASSUME NEW S PROVE Among(<< >>, S) = << >>
<1>1. << >> \in Seq({}) /\ Len(<< >>) = 0
  BY EmptySeq
<1>2. KeptIn(<< >>, S) \in Seq(Seq({})) /\ Len(KeptIn(<< >>, S)) = 0
  BY <1>1, KeptType
<1>3. KeptIn(<< >>, S) = << >>
  BY <1>2, EmptySeq
<1>4. FlattenSeq(<< >>) = << >>
  BY <1>1 DEF FlattenSeq
<1>5. QED
  BY <1>3, <1>4 DEF Among, KeptIn

\* One more name is one more of those in S, or none.
LEMMA AmongOneMore ==
  ASSUME NEW T, NEW u \in Seq(T), NEW x \in T, NEW S
  PROVE  Among(u \o <<x>>, S) = Among(u, S) \o Keep(x, S)
<1> DEFINE v == u \o <<x>>
           n == Len(u)
           s == KeptIn(v, S)
           a == KeptIn(u, S)
<1>1. /\ v \in Seq(T) /\ n \in Nat /\ Len(v) = n + 1 /\ v[n + 1] = x
      /\ \A k \in 1..n : v[k] = u[k]
  OBVIOUS
<1> HIDE DEF v
<1>2. s \in Seq(Seq(T)) /\ Len(s) = n + 1 /\ \A k \in 1..n + 1 : s[k] = Keep(v[k], S)
  BY <1>1, KeptType
<1>3. a \in Seq(Seq(T)) /\ Len(a) = n /\ \A k \in 1..n : a[k] = Keep(u[k], S)
  BY KeptType
<1>4. Among(v, S) = FlattenSeq(s) /\ Among(u, S) = FlattenSeq(a)
  BY DEF Among, KeptIn
<1> HIDE DEF s, a
<1>5. FlattenSeq(s) = Joined(s, Partials(s), n + 1)
  <2>1. n + 1 \in 1..Len(s) /\ Len(s) # 0
    BY <1>1, <1>2
  <2>2. FlattenSeq(s) = Partials(s)[n + 1]
    BY <1>2, <2>1, FlattenIs
  <2>3. QED
    BY <1>2, <2>1, <2>2, PartialsAre
<1>6. s[n + 1] = Keep(x, S) /\ Keep(x, S) \in Seq(T)
  BY <1>1, <1>2 DEF Keep
<1>7. CASE n = 0
  <2>1. FlattenSeq(a) = << >>
    BY <1>3, <1>7, EmptySeq DEF FlattenSeq
  <2>2. FlattenSeq(s) = Keep(x, S)
    BY <1>5, <1>6, <1>7 DEF Joined
  <2>3. QED
    BY <1>4, <1>6, <2>1, <2>2, ConcatEmptySeq DEF v
<1>8. CASE n # 0
  <2>1. \A k \in 1..n : a[k] = s[k]
    BY <1>1, <1>2, <1>3
  <2>2. Partials(a)[n] = Partials(s)[n]
    <3>1. IsNested(s, T) /\ IsNested(a, T) /\ Len(a) <= Len(s) /\ n \in 1..Len(a)
      BY <1>1, <1>2, <1>3, <1>8 DEF IsNested
    <3>2. \A k \in 1..Len(a) : a[k] = s[k]
      BY <1>3, <2>1
    <3>3. \A k \in 1..Len(a) : Partials(a)[k] = Partials(s)[k]
      BY <3>1, <3>2, PartialsPrefix
    <3>4. QED
      BY <3>1, <3>3
  <2>3. FlattenSeq(a) = Partials(s)[n]
    BY <1>3, <1>8, <2>2, FlattenIs
  <2>4. FlattenSeq(s) = Partials(s)[n] \o Keep(x, S)
    BY <1>1, <1>5, <1>6, <1>8 DEF Joined
  <2>5. QED
    BY <1>4, <2>3, <2>4 DEF v
<1>9. QED
  BY <1>7, <1>8

\* No member of s has more than one name, and t has those of them that are in S.
Filters(t, s, S) ==
  /\ Len(t) = Len(s)
  /\ \A i \in 1..Len(s) :
       \/ s[i] = << >> /\ t[i] = << >>
       \/ \E x : s[i] = <<x>> /\ t[i] = Keep(x, S)

LEMMA PartialsFilter ==
  ASSUME NEW T, NEW s, NEW t, NEW S, IsNested(s, T), IsNested(t, T), Filters(t, s, S)
  PROVE  \A i \in 1..Len(s) : Among(Partials(s)[i], S) = Partials(t)[i]
<1> DEFINE p == Partials(s)
           q == Partials(t)
           Bad == {i \in 1..Len(s) : Among(p[i], S) # q[i]}
<1>1. Len(s) \in Nat /\ Len(t) = Len(s)
  BY DEF IsNested, Filters
<1>2. \A i \in 1..Len(s) : /\ p[i] = Joined(s, p, i) /\ p[i] \in Seq(T)
                           /\ q[i] = Joined(t, q, i) /\ q[i] \in Seq(T)
  BY <1>1, PartialsAre, PartialsType DEF IsNested
<1> HIDE DEF p, q
<1>3. SUFFICES ASSUME Bad # {} PROVE FALSE
  BY DEF p, q
<1>a. Bad \in SUBSET Nat
  BY <1>1
<1>4. PICK x \in Bad : \A y \in Bad : ~(y < x)
  BY <1>3, <1>a, HasSmallest
<1>5. x \in 1..Len(s) /\ s[x] \in Seq(T) /\ t[x] \in Seq(T)
  BY <1>1, <1>4 DEF IsNested
<1>6. x # 1 => x - 1 \in 1..Len(s) /\ Among(p[x - 1], S) = q[x - 1]
  BY <1>1, <1>4, <1>5
\* The names before line x, and those of them in S.
<1> DEFINE u == IF x = 1 THEN << >> ELSE p[x - 1]
           w == IF x = 1 THEN << >> ELSE q[x - 1]
<1>7. u \in Seq(T) /\ w \in Seq(T) /\ Among(u, S) = w
  BY <1>2, <1>6, AmongNone
<1>8. p[x] = u \o s[x] /\ q[x] = w \o t[x]
  <2>1. CASE x = 1
    <3>1. p[x] = s[x] /\ q[x] = t[x]
      BY <1>2, <1>5, <2>1 DEF Joined
    <3>2. QED
      BY <1>5, <2>1, <3>1, ConcatEmptySeq
  <2>2. CASE x # 1
    BY <1>2, <1>5, <2>2 DEF Joined
  <2>3. QED
    BY <2>1, <2>2
<1> HIDE DEF u, w
<1>9. CASE s[x] = << >> /\ t[x] = << >>
  <2>1. p[x] = u /\ q[x] = w
    BY <1>7, <1>8, <1>9, ConcatEmptySeq
  <2>2. QED
    BY <1>4, <1>7, <2>1
<1>10. ASSUME NEW e, s[x] = <<e>>, t[x] = Keep(e, S) PROVE FALSE
  <2>1. e \in T
    BY <1>5, <1>10
  <2>2. Among(u \o <<e>>, S) = Among(u, S) \o Keep(e, S)
    BY <1>7, <2>1, AmongOneMore
  <2>3. QED
    BY <1>4, <1>7, <1>8, <1>10, <2>2
<1>11. QED
  BY <1>5, <1>9, <1>10 DEF Filters

LEMMA FlattenFilters ==
  ASSUME NEW T, NEW s, NEW t, NEW S, IsNested(s, T), IsNested(t, T), Filters(t, s, S)
  PROVE  Among(FlattenSeq(s), S) = FlattenSeq(t)
<1>1. Len(s) \in Nat /\ Len(t) = Len(s)
  BY DEF IsNested, Filters
<1>2. CASE Len(s) = 0
  <2>1. FlattenSeq(s) = << >> /\ FlattenSeq(t) = << >>
    BY <1>1, <1>2, EmptySeq DEF FlattenSeq, IsNested
  <2>2. QED
    BY <2>1, AmongNone
<1>3. CASE Len(s) # 0
  BY <1>1, <1>3, FlattenIs, PartialsFilter
<1>4. QED
  BY <1>2, <1>3

-----------------------------------------------------------------------------
(* Names in the order of their lines.                                      *)

\* Names for some of the lines.
IsNaming(f, T) == \A i \in DOMAIN file : i \in DOMAIN f => f[i] \in Seq(T)
Parts(f) == [i \in DOMAIN file |-> IF i \in DOMAIN f THEN f[i] ELSE << >>]

LEMMA PartsType ==
  ASSUME NEW T, NEW f, file \in Seq(FileLine), IsNaming(f, T)
  PROVE  /\ Parts(f) \in Seq(Seq(T)) /\ Len(Parts(f)) = Len(file)
         /\ \A i \in 1..Len(file) : Parts(f)[i] = IF i \in DOMAIN f THEN f[i] ELSE << >>
<1>1. DOMAIN file = 1..Len(file) /\ Len(file) \in Nat
  OBVIOUS
<1>2. << >> \in Seq(T)
  OBVIOUS
<1>3. \A i \in 1..Len(file) : (IF i \in DOMAIN f THEN f[i] ELSE << >>) \in Seq(T)
  BY <1>1, <1>2 DEF IsNaming
<1>4. Parts(f) = [i \in 1..Len(file) |-> IF i \in DOMAIN f THEN f[i] ELSE << >>]
  BY <1>1 DEF Parts
<1>5. Parts(f) \in [1..Len(file) -> Seq(T)]
  BY <1>3, <1>4
<1>6. QED
  BY <1>1, <1>4, <1>5, IsASeq, LenProperties

LEMMA InOrderType ==
  ASSUME NEW T, NEW f, file \in Seq(FileLine), IsNaming(f, T)
  PROVE  InOrder(f) \in Seq(T)
BY PartsType, FlattenType DEF InOrder, Parts

LEMMA InOrderNone ==
  ASSUME file \in Seq(FileLine), NEW f, DOMAIN f = {}
  PROVE  InOrder(f) = << >>
<1>1. IsNaming(f, STRING)
  BY DEF IsNaming
<1> DEFINE s == Parts(f)
<1>2. s \in Seq(Seq(STRING)) /\ Len(s) = Len(file) /\ \A i \in 1..Len(file) : s[i] = << >>
  BY <1>1, PartsType
<1> HIDE DEF s
<1>3. CASE Len(s) = 0
  <2>1. FlattenSeq(s) = s /\ s = << >>
    BY <1>2, <1>3, EmptySeq DEF FlattenSeq
  <2>2. QED
    BY <2>1 DEF InOrder, Parts, s
<1>4. CASE Len(s) # 0
  <2>1. Len(s) \in 1..Len(s)
    BY <1>2, <1>4
  <2>2. FlattenSeq(s) = << >>
    BY <1>2, <1>4, <2>1, FlattenIs, PartialsEmpty
  <2>3. QED
    BY <2>2 DEF InOrder, Parts, s
<1>5. QED
  BY <1>3, <1>4

Together(h, f, g) == InOrder(h) = InOrder(f) \o InOrder(g)

\* What is said of the lines before k and of those behind it, together.
LEMMA InOrderJoins ==
  ASSUME NEW T, NEW h, NEW f, NEW g, file \in Seq(FileLine), file # << >>,
         IsNaming(f, T), IsNaming(g, T),
         DOMAIN h = DOMAIN f \cup DOMAIN g,
         \A i \in DOMAIN f : h[i] = f[i], \A i \in DOMAIN g : h[i] = g[i],
         \A i \in DOMAIN f, j \in DOMAIN g : i \in Int /\ j \in Int /\ i < j
  PROVE  Together(h, f, g)
<1>1. IsNaming(h, T)
  BY DEF IsNaming
<1>2. Len(file) \in Nat /\ Len(file) # 0
  BY EmptySeq
<1> DEFINE s == Parts(h)
           a == Parts(f)
           b == Parts(g)
<1>3. /\ s \in Seq(Seq(T)) /\ Len(s) = Len(file)
      /\ \A i \in 1..Len(file) : s[i] = IF i \in DOMAIN h THEN h[i] ELSE << >>
  BY <1>1, PartsType
<1>4. /\ a \in Seq(Seq(T)) /\ Len(a) = Len(file)
      /\ \A i \in 1..Len(file) : a[i] = IF i \in DOMAIN f THEN f[i] ELSE << >>
  BY PartsType
<1>5. /\ b \in Seq(Seq(T)) /\ Len(b) = Len(file)
      /\ \A i \in 1..Len(file) : b[i] = IF i \in DOMAIN g THEN g[i] ELSE << >>
  BY PartsType
<1> HIDE DEF s, a, b
<1>6. \A i \in 1..Len(s) : s[i] = IF a[i] = << >> THEN b[i] ELSE a[i]
  <2> SUFFICES ASSUME NEW i \in 1..Len(file) PROVE s[i] = IF a[i] = << >> THEN b[i] ELSE a[i]
    BY <1>3
  <2>1. CASE i \in DOMAIN f
    <3>1. i \notin DOMAIN g
      BY <1>2, <2>1
    <3>2. s[i] = a[i] /\ b[i] = << >>
      BY <1>3, <1>4, <1>5, <2>1, <3>1
    <3>3. QED
      BY <3>2
  <2>2. CASE i \notin DOMAIN f
    <3>1. a[i] = << >> /\ s[i] = b[i]
      BY <1>3, <1>4, <1>5, <2>2
    <3>2. QED
      BY <3>1
  <2>3. QED
    BY <2>1, <2>2
<1>7. \A i, j \in 1..Len(s) : a[i] # << >> /\ j <= i => b[j] = << >>
  <2> SUFFICES ASSUME NEW i \in 1..Len(file), NEW j \in 1..Len(file), a[i] # << >>, j <= i
               PROVE  b[j] = << >>
    BY <1>3
  <2>1. i \in DOMAIN f
    BY <1>4
  <2>2. j \notin DOMAIN g
    BY <2>1
  <2>3. QED
    BY <1>5, <2>2
<1>8. Merges(s, a, b)
  BY <1>3, <1>4, <1>5, <1>6, <1>7 DEF Merges
<1>9. FlattenSeq(s) = FlattenSeq(a) \o FlattenSeq(b)
  BY <1>2, <1>3, <1>4, <1>5, <1>8, FlattenMerges DEF IsNested
<1>10. QED
  BY <1>9 DEF Together, InOrder, Parts, s, a, b

Selects(g, f, S, i) ==
  \E x : f[i] = <<x>> /\ (i \in DOMAIN g <=> x \in S) /\ (i \in DOMAIN g => g[i] = <<x>>)

\* Of lines with one name each, those whose name is in S give the names in S.
LEMMA InOrderFilters ==
  ASSUME NEW T, NEW S, NEW f, NEW g, file \in Seq(FileLine), IsNaming(f, T),
         DOMAIN g \subseteq DOMAIN f,
         \A i \in DOMAIN f : Selects(g, f, S, i)
  PROVE  Among(InOrder(f), S) = InOrder(g)
<1>0. \A i \in DOMAIN g : g[i] = f[i]
  BY DEF Selects
<1>1. IsNaming(g, T)
  BY <1>0 DEF IsNaming
<1> DEFINE s == Parts(f)
           t == Parts(g)
<1>2. /\ s \in Seq(Seq(T)) /\ Len(s) = Len(file)
      /\ \A i \in 1..Len(file) : s[i] = IF i \in DOMAIN f THEN f[i] ELSE << >>
  BY PartsType
<1>3. /\ t \in Seq(Seq(T)) /\ Len(t) = Len(file)
      /\ \A i \in 1..Len(file) : t[i] = IF i \in DOMAIN g THEN g[i] ELSE << >>
  BY <1>1, PartsType
<1> HIDE DEF s, t
<1>4. ASSUME NEW i \in 1..Len(file)
      PROVE  \/ s[i] = << >> /\ t[i] = << >>
             \/ \E x : s[i] = <<x>> /\ t[i] = Keep(x, S)
  <2>1. CASE i \notin DOMAIN f
    BY <1>2, <1>3, <2>1
  <2>2. CASE i \in DOMAIN f
    <3>0. Selects(g, f, S, i)
      BY <2>2
    <3>1. PICK x : /\ f[i] = <<x>> /\ (i \in DOMAIN g <=> x \in S)
                   /\ (i \in DOMAIN g => g[i] = <<x>>)
      BY <3>0 DEF Selects
    <3>2. s[i] = <<x>> /\ t[i] = Keep(x, S)
      BY <1>2, <1>3, <2>2, <3>1 DEF Keep
    <3>3. QED
      BY <3>2
  <2>3. QED
    BY <2>1, <2>2
<1>5. Filters(t, s, S)
  BY <1>2, <1>3, <1>4 DEF Filters
<1>6. Among(FlattenSeq(s), S) = FlattenSeq(t)
  BY <1>2, <1>3, <1>5, FlattenFilters DEF IsNested
<1>7. QED
  BY <1>6 DEF InOrder, Parts, s, t

\* The library's Max is the greatest element.
LEMMA MaxIs ==
  ASSUME NEW n \in Nat, NEW S \in SUBSET (1..n), S # {}
  PROVE  Max(S) \in S /\ \A k \in S : k <= Max(S)
<1> DEFINE T == {x \in Nat : n - x \in S}
<1>1. T # {}
  <2>1. PICK s \in S : TRUE
    OBVIOUS
  <2>2. n - s \in Nat /\ n - (n - s) = s
    BY <2>1
  <2>3. QED
    BY <2>1, <2>2
<1>2. PICK x \in T : \A y \in T : ~(y < x)
  BY <1>1, HasSmallest
<1>3. n - x \in S /\ \A k \in S : n - x >= k
  <2> SUFFICES ASSUME NEW k \in S PROVE n - x >= k
    BY <1>2
  <2>1. n - k \in Nat /\ n - (n - k) = k
    OBVIOUS
  <2>2. n - k \in T
    BY <2>1
  <2>3. QED
    BY <1>2, <2>1, <2>2
<1>4. Max(S) \in S /\ \A k \in S : Max(S) >= k
  BY <1>3 DEF Max
<1>5. QED
  BY <1>4

-----------------------------------------------------------------------------
(* The lines of a file.                                                    *)

LEMMA FileFacts ==
  ASSUME ReaderTypeOK
  PROVE  /\ file \in Seq(FileLine) /\ Len(file) \in Nat /\ DOMAIN file = 1..Len(file)
         /\ \A i \in DOMAIN file : file[i] \in FileLine
<1>1. file \in Seq(FileLine)
  BY FilesAssumption DEF ReaderTypeOK
<1>2. QED
  BY <1>1

LEMMA LineFacts ==
  ASSUME NEW l \in FileLine
  PROVE  /\ l.kind \in {"text", "comment", "pair"} /\ l.text \in STRING /\ l.value \in Vocabulary
         /\ l.names \in Seq(Vocabulary) /\ l.blank \in {"none", "before", "after"} /\ l.long \in BOOLEAN
         /\ l.kind = "pair" => l.text \in Keys /\ (l.text \in Lists <=> l.names # << >>)
         /\ l.kind = "comment" => l.text \in {"#", ";"}
         /\ l.kind = "text" => l.text \in Range(Texts)
         /\ l.kind = "text" /\ l.text = "" /\ ~l.long => l = Blank
<1>1. l.kind = "text" => l = [Text(l.text) EXCEPT !.long = l.long]
  BY DEF FileLine
<1>2. l.kind = "text" /\ l.text = "" /\ ~l.long => l = Blank
  <2> SUFFICES ASSUME l.kind = "text", l.text = "", ~l.long PROVE l = Blank
    OBVIOUS
  <2>1. l = [Text("") EXCEPT !.long = l.long] /\ l.long = FALSE
    BY <1>1 DEF FileLine
  <2>2. QED
    BY <2>1 DEF Blank, Text
<1>3. QED
  BY <1>2 DEF FileLine

LEMMA RankIs ==
  ASSUME NEW t \in Range(Texts)
  PROVE  Rank(t) \in Nat \ {0} /\ Rank(t) \in DOMAIN Texts /\ Texts[Rank(t)] = t
<1>1. \E i \in DOMAIN Texts : Texts[i] = t
  BY DEF Range
<1>2. Rank(t) \in DOMAIN Texts /\ Texts[Rank(t)] = t
  BY <1>1 DEF Rank
<1>3. Texts \in Seq(STRING)
  BY TextsAssumption DEF TextsAssumption
<1>4. DOMAIN Texts = 1..Len(Texts) /\ Len(Texts) \in Nat
  BY <1>3
<1>5. QED
  BY <1>2, <1>4

LEMMA HeadingRanks ==
  /\ Rank("[Install]") \in Nat /\ Rank("[Service]") \in Nat /\ Rank("[Unit]") \in Nat
  /\ 0 < Rank("[Install]") /\ Rank("[Install]") < Rank("[Service]") /\ Rank("[Service]") < Rank("[Unit]")
<1>1. "[Install]" \in Range(Texts) /\ "[Service]" \in Range(Texts) /\ "[Unit]" \in Range(Texts)
  BY TextsAssumption DEF TextsAssumption, Sections
<1>2. \A t \in Range(Texts) : Rank(t) \in Nat \ {0}
  BY RankIs
<1>3. Rank("[Install]") \in Nat \ {0} /\ Rank("[Service]") \in Nat \ {0} /\ Rank("[Unit]") \in Nat \ {0}
  BY <1>1, <1>2
<1>4. Rank("[Install]") < Rank("[Service]") /\ Rank("[Service]") < Rank("[Unit]")
  BY TextsAssumption DEF TextsAssumption
<1>5. QED
  BY <1>3, <1>4

\* A heading begins its own section.
LEMMA SectionOfHeading ==
  ASSUME NEW l, l.kind = "text", l.text \in Sections
  PROVE  SectionOf(l) = l.text
<1>1. Compared(l) = Rank(l.text)
  BY DEF Compared
<1>2. CASE l.text = "[Unit]"
  BY <1>1, <1>2, HeadingRanks DEF SectionOf
<1>3. CASE l.text = "[Service]"
  BY <1>1, <1>3, HeadingRanks DEF SectionOf
<1>4. CASE l.text = "[Install]"
  BY <1>1, <1>4, HeadingRanks DEF SectionOf
<1>5. QED
  BY <1>2, <1>3, <1>4 DEF Sections

LEMMA SectionOfType ==
  ASSUME NEW l
  PROVE  SectionOf(l) \in Sections \cup {"none"}
BY DEF SectionOf, Sections

Heading(i) == file[i].kind = "text" /\ file[i].text \in Sections

\* A line belongs to the last heading above it.
LEMMA OwnSectionIs ==
  ASSUME ReaderTypeOK, NEW h \in DOMAIN file, NEW i \in DOMAIN file, h <= i, Heading(h),
         \A j \in DOMAIN file : h < j /\ j <= i => ~Heading(j)
  PROVE  OwnSection(i) = file[h].text
<1>1. Len(file) \in Nat /\ DOMAIN file = 1..Len(file)
  BY FileFacts
<1>2. Heads(i) \in SUBSET (1..i) /\ h \in Heads(i)
  BY <1>1 DEF Heads, Heading
<1>3. Max(Heads(i)) \in Heads(i) /\ h <= Max(Heads(i))
  <2>1. i \in Nat /\ Heads(i) # {}
    BY <1>1, <1>2
  <2>2. Max(Heads(i)) \in Heads(i) /\ \A k \in Heads(i) : k <= Max(Heads(i))
    BY <1>2, <2>1, MaxIs
  <2>3. QED
    BY <1>2, <2>2
<1>4. Max(Heads(i)) = h
  <2>1. Max(Heads(i)) \in 1..i /\ Heading(Max(Heads(i)))
    BY <1>3 DEF Heads, Heading
  <2>2. QED
    BY <1>1, <1>3, <2>1
<1>5. QED
  BY <1>2, <1>4 DEF OwnSection

\* It has such a heading unless no line up to it is one.
LEMMA OwnHeading ==
  ASSUME ReaderTypeOK, NEW i \in DOMAIN file, OwnSection(i) # "none"
  PROVE  \E h \in DOMAIN file : /\ h <= i /\ Heading(h) /\ OwnSection(i) = file[h].text
                                /\ \A j \in DOMAIN file : j <= i /\ Heading(j) => j <= h
<1>1. Len(file) \in Nat /\ DOMAIN file = 1..Len(file)
  BY FileFacts
<1>2. Heads(i) \in SUBSET (1..i) /\ Heads(i) # {}
  BY DEF Heads, OwnSection
<1>3. Max(Heads(i)) \in Heads(i) /\ \A k \in Heads(i) : k <= Max(Heads(i))
  <2>1. i \in Nat
    BY <1>1
  <2>2. QED
    BY <1>2, <2>1, MaxIs
<1> DEFINE h == Max(Heads(i))
<1>4. OwnSection(i) = file[h].text
  BY <1>2 DEF OwnSection
<1> HIDE DEF h
<1>5. h \in Heads(i) /\ \A k \in Heads(i) : k <= h
  BY <1>3 DEF h
<1>6. h \in 1..i /\ Heading(h)
  BY <1>5 DEF Heads, Heading
<1>7. \A j \in DOMAIN file : j <= i /\ Heading(j) => j \in Heads(i)
  BY <1>1 DEF Heads, Heading
<1>8. QED
  BY <1>1, <1>4, <1>5, <1>6, <1>7

\* Names of some of the lines.
Names(S) == [i \in S |-> NamesOf(i)]
Short    == \A i \in DOMAIN file : ~file[i].long

\* What a step says of the file after it, it says of the file before it.
LEMMA OwnSectionKept ==
  ASSUME file' = file, NEW i PROVE OwnSection(i)' = OwnSection(i)
BY DEF OwnSection, Heads

LEMMA PairsKept ==
  ASSUME file' = file, NEW key PROVE PairsOf(key)' = PairsOf(key)
<1>1. \A i : OwnSection(i)' = OwnSection(i)
  BY OwnSectionKept
<1>2. QED
  BY <1>1 DEF PairsOf

LEMMA NamesKept ==
  ASSUME file' = file, NEW S PROVE Names(S)' = Names(S)
<1>1. \A i : NamesOf(i)' = NamesOf(i)
  BY DEF NamesOf
<1>2. QED
  BY <1>1 DEF Names

LEMMA InOrderKept ==
  ASSUME file' = file, NEW f PROVE InOrder(f)' = InOrder(f)
BY DEF InOrder

LEMMA ShortKept ==
  ASSUME file' = file PROVE Short' <=> Short
BY DEF Short

LEMMA SingletonType == ASSUME NEW T, NEW e \in T PROVE <<e>> \in Seq(T)
OBVIOUS

\* NamesOf gives a list of names.
LEMMA NamesOfType ==
  ASSUME ReaderTypeOK, NEW i \in DOMAIN file
  PROVE  NamesOf(i) \in Seq(Vocabulary)
<1> DEFINE names == IF file[i].blank = "after" THEN <<"">> \o file[i].names ELSE file[i].names
<1>1. file[i].names \in Seq(Vocabulary)
  BY FileFacts, LineFacts
<1>2. <<"">> \in Seq(Vocabulary)
  BY VocabularyAssumption, SingletonType DEF VocabularyAssumption
<1>3. <<"">> \o file[i].names \in Seq(Vocabulary)
  BY <1>1, <1>2, ConcatProperties
<1>4. names \in Seq(Vocabulary)
  BY <1>1, <1>3
<1> HIDE DEF names
<1>5. DOMAIN names = 1..Len(names) /\ Len(names) \in Nat /\ \A k \in 1..Len(names) : names[k] \in Vocabulary
  BY <1>4, LenProperties
<1> DEFINE Name(k) == IF k \in {1, Len(names)} THEN names[k] ELSE "merged"
<1>6. "merged" \in Vocabulary
  BY VocabularyAssumption DEF VocabularyAssumption
<1>7. \A k \in 1..Len(names) : Name(k) \in Vocabulary
  BY <1>5, <1>6
<1>8. [k \in 1..Len(names) |-> Name(k)] \in Seq(Vocabulary)
  <2> HIDE DEF Name
  <2>1. QED
    BY <1>5, <1>7, IsASeq
<1>9. NamesOf(i) = [k \in DOMAIN names |-> Name(k)]
  BY DEF NamesOf, names
<1>10. QED
  BY <1>5, <1>8, <1>9

LEMMA NamesAreNaming ==
  ASSUME ReaderTypeOK, NEW S
  PROVE  IsNaming(Names(S), Vocabulary)
BY NamesOfType DEF IsNaming, Names

-----------------------------------------------------------------------------
(* The type invariant.                                                     *)

\* At the end of the file the stream has been read up to it, and one line further
\* when a newline ends the last one.
StreamInv ==
  /\ stream = "good" => next <= Len(file) + 1
  /\ stream = "eof" => next > Len(file) /\ (newline => next = Len(file) + 2)
  /\ Short => stream # "failed"

OpensFirst == reading = "open" => stream = "good" /\ next = 1

ReaderInv == ReaderTypeOK /\ StreamInv /\ OpensFirst

LEMMA BufferType ==
  ASSUME ReaderTypeOK
  PROVE  Buffer \in Range(file) \cup {Blank}
<1>1. DOMAIN file = 1..Len(file) /\ Len(file) \in Nat /\ next \in 1..Len(file) + 2
  BY FileFacts DEF ReaderTypeOK
<1>2. next <= Len(file) => file[next] \in Range(file)
  BY <1>1 DEF Range
<1>3. QED
  BY <1>2 DEF Buffer

LEMMA GetLineKeeps ==
  ASSUME ReaderInv, GetLine
  PROVE  /\ file' = file /\ newline' = newline /\ stream' \in {"good", "eof", "failed"}
         /\ next' \in 1..Len(file) + 2
         /\ StreamInv'
<1>1. DOMAIN file = 1..Len(file) /\ Len(file) \in Nat /\ next \in 1..Len(file) + 2
  BY FileFacts DEF ReaderInv, ReaderTypeOK
<1>2. file' = file /\ newline' = newline /\ stream' = StreamAfter
  BY DEF GetLine
<1>3. stream \in {"good", "eof", "failed"} /\ newline \in BOOLEAN
  BY DEF ReaderInv, ReaderTypeOK
<1>4. stream' \in {"good", "eof", "failed"}
  BY <1>2, <1>3 DEF StreamAfter
<1>5. CASE stream # "good"
  <2>1. stream' = stream /\ next' = next
    BY <1>2, <1>5 DEF StreamAfter, GetLine
  <2>2. StreamInv'
    BY <1>2, <2>1, ShortKept DEF StreamInv, ReaderInv
  <2>3. QED
    BY <1>1, <1>2, <1>4, <2>1, <2>2
<1>6. CASE stream = "good"
  <2>1. next' = next + 1 /\ next <= Len(file) + 1
    BY <1>6 DEF GetLine, ReaderInv, StreamInv
  <2>2. CASE next > Len(file)
    <3>1. stream' = "eof" /\ next' = Len(file) + 2
      BY <1>1, <1>2, <1>6, <2>1, <2>2 DEF StreamAfter
    <3>2. StreamInv'
      BY <1>1, <1>2, <3>1 DEF StreamInv
    <3>3. QED
      BY <1>1, <1>2, <1>4, <3>1, <3>2
  <2>3. CASE next <= Len(file) /\ file[next].long
    <3>1. stream' = "failed" /\ ~Short
      BY <1>1, <1>2, <1>6, <2>3 DEF StreamAfter, Short
    <3>2. StreamInv'
      BY <1>2, <3>1, ShortKept DEF StreamInv
    <3>3. QED
      BY <1>1, <1>2, <1>4, <2>1, <2>3, <3>2
  <2>4. CASE next <= Len(file) /\ ~file[next].long
    <3>1. stream' = IF next = Len(file) /\ ~newline THEN "eof" ELSE "good"
      <4>1. ~(next > Len(file))
        BY <1>1, <2>4
      <4>2. QED
        BY <1>2, <1>6, <2>4, <4>1, Zenon DEF StreamAfter
    <3>2. CASE next = Len(file) /\ ~newline
      <4>1. stream' = "eof" /\ next' = Len(file) + 1 /\ ~newline'
        BY <1>2, <2>1, <3>1, <3>2
      <4>2. QED
        BY <1>1, <1>2, <4>1 DEF StreamInv
    <3>3. CASE ~(next = Len(file) /\ ~newline)
      <4>1. stream' = "good" /\ next' <= Len(file) + 1
        <5>1. stream' = "good"
          BY <3>1, <3>3, Zenon
        <5>2. QED
          BY <1>1, <1>2, <2>1, <2>4, <5>1
      <4>2. stream' # "eof" /\ stream' # "failed" /\ next' <= Len(file') + 1
        BY <1>2, <4>1
      <4>3. StreamInv'
        BY <4>2, Zenon DEF StreamInv
      <4>4. QED
        BY <1>1, <1>2, <1>4, <2>1, <2>4, <4>3
    <3>4. QED
      BY <1>1, <1>2, <1>4, <2>1, <2>4, <3>2, <3>3
  <2>5. QED
    BY <1>1, <2>2, <2>3, <2>4
<1>7. QED
  BY <1>5, <1>6

LEMMA StreamKept ==
  ASSUME ReaderInv, UNCHANGED <<file, newline, stream, next>>
  PROVE  StreamInv'
BY ShortKept DEF ReaderInv, StreamInv

LEMMA KnownType ==
  ASSUME ReaderTypeOK, NEW key
  PROVE  /\ Known(key) \in SUBSET (1..Len(file)) /\ Known(key) \subseteq attrs
         /\ Known(key) # {} => Max(Known(key)) \in Known(key)
<1>1. Known(key) \subseteq attrs
  BY DEF Known
<1>2. DOMAIN file = 1..Len(file) /\ Len(file) \in Nat
  BY FileFacts
<1>3. Known(key) \in SUBSET (1..Len(file))
  BY <1>1, <1>2 DEF ReaderTypeOK
<1>4. QED
  BY <1>1, <1>2, <1>3, MaxIs

UnitType == [type : Vocabulary, after : Seq(Vocabulary), pairs : SUBSET ((DOMAIN file) \X Sections)]

LEMMA RecordType ==
  ASSUME ReaderTypeOK, section \in Sections, NEW u \in UnitType
  PROVE  Record(u) \in UnitType
<1> DEFINE new == {<<i, section>> : i \in {j \in attrs : Recognised(j)}}
<1>1. new \in SUBSET ((DOMAIN file) \X Sections)
  BY DEF ReaderTypeOK
<1>2. Record(u) = [u EXCEPT !.pairs = u.pairs \cup new]
  BY DEF Record
<1> HIDE DEF new
<1>3. u.pairs \cup new \in SUBSET ((DOMAIN file) \X Sections)
  BY <1>1 DEF UnitType
<1>4. QED
  BY <1>2, <1>3 DEF UnitType

LEMMA AssignType ==
  ASSUME ReaderTypeOK, Assign
  PROVE  unit' \in UnitType
<1>1. unit \in UnitType
  BY DEF ReaderTypeOK, UnitType
<1>2. CASE AssignUnit
  <2> DEFINE more == InOrder(Names(Known("After")))
  <2>1. more \in Seq(Vocabulary)
    BY FileFacts, NamesAreNaming, InOrderType
  <2>2. unit.after \in Seq(Vocabulary)
    BY <1>1 DEF UnitType
  <2>3. unit' = Record([unit EXCEPT !.after = unit.after \o more]) /\ section = "[Unit]"
    BY <1>2 DEF AssignUnit, Names
  <2> HIDE DEF more
  <2>4. PICK w \in Seq(Vocabulary) : w = unit.after \o more
    BY <2>1, <2>2, ConcatProperties
  <2>5. [unit EXCEPT !.after = w] \in UnitType
    BY <1>1, <2>4 DEF UnitType
  <2>6. unit' = Record([unit EXCEPT !.after = w])
    BY <2>3, <2>4
  <2>7. QED
    BY <2>3, <2>5, <2>6, RecordType DEF Sections
<1>3. CASE AssignService
  <2> DEFINE type == IF Known("Type") # {} THEN TypeOf(Max(Known("Type"))) ELSE DefaultType
  <2>1. DefaultType \in Vocabulary
    BY VocabularyAssumption DEF DefaultType, VocabularyAssumption
  <2>2. \A i \in DOMAIN file : TypeOf(i) \in Vocabulary
    BY FileFacts, LineFacts, VocabularyAssumption DEF TypeOf, VocabularyAssumption
  <2>3. Known("Type") # {} => Max(Known("Type")) \in DOMAIN file
    BY KnownType DEF ReaderTypeOK
  <2>4. type \in Vocabulary
    BY <2>1, <2>2, <2>3
  <2>5. unit' = Record([unit EXCEPT !.type = type]) /\ section = "[Service]"
    BY <1>3 DEF AssignService
  <2> HIDE DEF type
  <2>6. [unit EXCEPT !.type = type] \in UnitType
    BY <1>1, <2>4 DEF UnitType
  <2>7. QED
    BY <2>5, <2>6, RecordType DEF Sections
<1>4. CASE AssignInstall
  BY <1>1, <1>4, RecordType DEF AssignInstall, Sections
<1>5. QED
  BY <1>2, <1>3, <1>4 DEF Assign

LEMMA ReaderInvInit == ReaderInit => ReaderInv
<1> SUFFICES ASSUME ReaderInit PROVE ReaderInv
  OBVIOUS
<1>1. file \in Seq(FileLine) /\ Len(file) \in Nat
  BY FilesAssumption DEF ReaderInit, FilesAssumption
<1>2. unit \in UnitType
  <2>1. "simple" \in Vocabulary /\ << >> \in Seq(Vocabulary)
    BY VocabularyAssumption, EmptySeq DEF VocabularyAssumption
  <2>2. QED
    BY <2>1 DEF ReaderInit, UnitType
<1>3. ReaderTypeOK
  BY <1>1, <1>2 DEF ReaderInit, ReaderTypeOK, UnitType
<1>4. QED
  BY <1>1, <1>3 DEF ReaderInit, ReaderInv, StreamInv, OpensFirst

LEMMA ReaderInvNext == ReaderInv /\ [ReaderNext]_readerVars => ReaderInv'
<1> SUFFICES ASSUME ReaderInv, [ReaderNext]_readerVars PROVE ReaderInv'
  OBVIOUS
<1> USE DEF ReaderInv
<1>0. /\ file \in Seq(FileLine) /\ newline \in BOOLEAN /\ stream \in {"good", "eof", "failed"}
      /\ next \in 1..Len(file) + 2 /\ line \in Range(file) \cup {Blank}
      /\ section \in Sections \cup {"none"} /\ attrs \subseteq DOMAIN file /\ unit \in UnitType
      /\ reading \in {"open", "dispatch", "split", "assign", "pushing", "done"}
  BY DEF ReaderTypeOK, UnitType
<1> DEFINE Kept == UNCHANGED <<file, newline, stream, next>>
<1>1. (Kept \/ GetLine) /\ line' \in {line, Buffer} /\ section' \in {section, SectionOf(line)}
        /\ attrs' \in {{}, attrs, Collected} /\ (unit' = unit \/ Assign)
        /\ \/ reading' \in {"dispatch", "split", "assign", "pushing", "done"}
           \/ reading' = reading /\ (reading # "open" \/ Kept)
  <2>1. CASE OpenUnit
    BY <2>1 DEF OpenUnit
  <2>2. CASE SkipComment
    BY <2>2 DEF SkipComment
  <2>3. CASE ParseSection
    BY <2>3 DEF ParseSection
  <2>4. CASE EndReading
    BY <2>4 DEF EndReading
  <2>5. CASE SplitLine
    BY <2>5 DEF SplitLine, Collected
  <2>6. CASE SplitHeading
    BY <2>6 DEF SplitHeading
  <2>7. CASE SplitEnd
    BY <2>7 DEF SplitEnd
  <2>8. CASE Assign
    BY <2>8 DEF Assign
  <2>9. CASE PushForever
    BY <2>9 DEF PushForever
  <2>10. CASE UNCHANGED readerVars
    BY <2>10 DEF readerVars
  <2>11. QED
    BY <2>1, <2>2, <2>3, <2>4, <2>5, <2>6, <2>7, <2>8, <2>9, <2>10 DEF ReaderNext
<1>2. file' = file /\ newline' = newline /\ StreamInv'
      /\ stream' \in {"good", "eof", "failed"} /\ next' \in 1..Len(file) + 2
  BY <1>0, <1>1, GetLineKeeps, StreamKept
<1>3. line' \in Range(file) \cup {Blank}
  BY <1>0, <1>1, BufferType
<1>4. section' \in Sections \cup {"none"}
  BY <1>0, <1>1, SectionOfType
<1>5. attrs' \subseteq DOMAIN file
  <2>1. Collected \subseteq DOMAIN file
    <3>1. CASE Buffer.kind = "pair"
      <4>1. Blank.kind = "text"
        BY DEF Blank, Text
      <4>2. next <= Len(file)
        BY <3>1, <4>1 DEF Buffer
      <4>3. next \in DOMAIN file
        BY <1>0, <4>2, FileFacts
      <4>4. QED
        BY <1>0, <4>3 DEF Collected
    <3>2. QED
      BY <1>0, <3>1 DEF Collected
  <2>2. QED
    BY <1>0, <1>1, <2>1
<1>6. unit' \in UnitType
  BY <1>0, <1>1, AssignType
<1>7. Range(file)' = Range(file) /\ UnitType' = UnitType /\ (DOMAIN file)' = DOMAIN file
  BY <1>2 DEF UnitType, Range
<1>8. reading' \in {"open", "dispatch", "split", "assign", "pushing", "done"}
  BY <1>0, <1>1
<1>9. ReaderTypeOK'
  BY <1>0, <1>2, <1>3, <1>4, <1>5, <1>6, <1>7, <1>8 DEF ReaderTypeOK, UnitType
<1>10. OpensFirst'
  BY <1>1 DEF OpensFirst
<1>11. QED
  BY <1>2, <1>9, <1>10

\* The reader keeps the type of its state and what the stream's state says of
\* its place in the file.
THEOREM ReaderInvariant == ReaderSpec => []ReaderInv
<1>1. QED
  BY ReaderInvInit, ReaderInvNext, PTL DEF ReaderSpec

\* ParseSystemDServiceUnit and the section parsers keep the state's type, for
\* every file: they read no line behind the one after the file's end.
THEOREM ReaderTypeCorrect == ReaderSpec => []ReaderTypeOK
<1>1. ReaderInv => ReaderTypeOK
  BY DEF ReaderInv
<1>2. QED
  BY <1>1, ReaderInvariant, PTL

-----------------------------------------------------------------------------
(* Every step gets on.                                                     *)

PlaceOf(r, s) == IF r = "assign" THEN 2 ELSE IF r = "dispatch" THEN 1
                 ELSE IF r = "split" /\ s = "eof" THEN 3 ELSE 0

LEMMA StepDescends ==
  ASSUME NEW l \in Nat, NEW n \in Nat, NEW m \in Nat, NEW p \in 0..3, NEW q \in 0..3,
         m <= l + 2, (m = n /\ q < p) \/ m = n + 1
  PROVE  4 * (l + 2 - m) + q \in Nat /\ 4 * (l + 2 - m) + q < 4 * (l + 2 - n) + p
<1>1. CASE m = n /\ q < p
  BY <1>1
<1>2. CASE m = n + 1
  BY <1>2
<1>3. QED
  BY <1>1, <1>2

\* A step leaves the place for an earlier one, or takes a line.
LEMMA Advances ==
  ASSUME ReaderInv, ReaderNext, Short
  PROVE  StepsLeft' \in Nat /\ StepsLeft' < StepsLeft
<1> DEFINE p == PlaceOf(reading, stream)
           q == PlaceOf(reading', stream')
<1>1. Len(file) \in Nat /\ next \in 1..Len(file) + 2
  BY FileFacts DEF ReaderInv, ReaderTypeOK
<1>2. Place = p /\ Place' = q
  BY DEF Place, PlaceOf
<1>3. p \in 0..3 /\ q \in 0..3
  BY DEF PlaceOf
<1>4. stream # "failed"
  BY DEF ReaderInv, StreamInv
<1>5. stream \in {"good", "eof", "failed"}
  BY DEF ReaderInv, ReaderTypeOK
<1>6. GetLine /\ stream = "good" => next' = next + 1
  BY DEF GetLine
<1>7. /\ file' = file
      /\ \/ next' = next + 1
         \/ next' = next /\ q < p
  <2>1. CASE OpenUnit
    <3>1. stream = "good"
      BY <2>1 DEF OpenUnit, ReaderInv, OpensFirst
    <3>2. QED
      BY <1>6, <2>1, <3>1 DEF OpenUnit, GetLine
  <2>2. CASE SkipComment
    BY <1>4, <1>5, <1>6, <2>2 DEF SkipComment, GetLine
  <2>3. CASE ParseSection
    BY <1>4, <1>5, <2>3 DEF ParseSection, PlaceOf
  <2>4. CASE EndReading
    BY <2>4 DEF EndReading, PlaceOf
  <2>5. CASE SplitLine
    BY <1>4, <1>5, <1>6, <2>5 DEF SplitLine, GetLine
  <2>6. CASE SplitHeading
    BY <1>4, <1>5, <1>6, <2>6 DEF SplitHeading, GetLine
  <2>7. CASE SplitEnd
    BY <2>7 DEF SplitEnd, PlaceOf
  <2>8. CASE Assign
    BY <2>8 DEF Assign, PlaceOf
  <2>9. CASE PushForever
    BY <2>9 DEF PushForever, PlaceOf
  <2>10. QED
    BY <2>1, <2>2, <2>3, <2>4, <2>5, <2>6, <2>7, <2>8, <2>9 DEF ReaderNext
<1>8. next' \in 1..Len(file) + 2
  <2>1. ReaderTypeOK'
    BY ReaderInvNext DEF ReaderInv
  <2>2. QED
    BY <1>7, <2>1 DEF ReaderTypeOK
<1> HIDE DEF p, q
<1>9. next \in Nat /\ next' \in Nat /\ next' <= Len(file) + 2
  BY <1>1, <1>8
<1>10. /\ 4 * (Len(file) + 2 - next') + q \in Nat
       /\ 4 * (Len(file) + 2 - next') + q < 4 * (Len(file) + 2 - next) + p
  BY <1>1, <1>3, <1>7, <1>9, StepDescends
<1>11. StepsLeft = 4 * (Len(file) + 2 - next) + p /\ StepsLeft' = 4 * (Len(file) + 2 - next') + q
  BY <1>2, <1>7 DEF StepsLeft
<1>12. QED
  BY <1>10, <1>11

\* No loop of the reader turns without getting on: every step of
\* ParseSystemDServiceUnit and split_elems takes one of StepsLeft.
THEOREM ReadingGetsOn == ReaderSpec => ReadingAdvances
<1>1. ReaderInv /\ [ReaderNext]_readerVars
        => [Short => StepsLeft' \in Nat /\ StepsLeft' < StepsLeft]_readerVars
  BY Advances
<1>2. QED
  BY <1>1, ReaderInvariant, PTL DEF ReaderSpec, ReadingAdvances, Short

-----------------------------------------------------------------------------
(* Sections.                                                               *)

AllPairs == UNION {PairsOf(key) : key \in Keys}

\* The unit u holds what the file says before line e.
Covers(u, e) ==
  /\ u.pairs = {<<i, OwnSection(i)>> : i \in {j \in AllPairs : j < e}}
  /\ u.after = InOrder(Names({j \in PairsOf("After") : j < e}))

\* What is collected for section s are the pairs from its heading h to line e.
OpenSection(s, as, h, e) ==
  /\ h < e /\ Heading(h) /\ file[h].text = s
  /\ \A i \in DOMAIN file : h < i /\ i < e => ~Heading(i)
  /\ as = {i \in DOMAIN file : h < i /\ i < e /\ file[i].kind = "pair"}

LEMMA AllPairsKept ==
  ASSUME file' = file PROVE AllPairs' = AllPairs
<1>1. \A key : PairsOf(key)' = PairsOf(key)
  BY PairsKept
<1>2. QED
  BY <1>1 DEF AllPairs

LEMMA CoversKept ==
  ASSUME file' = file, NEW u, NEW e PROVE Covers(u, e)' <=> Covers(u, e)
<1>1. \A i : OwnSection(i)' = OwnSection(i)
  BY OwnSectionKept
<1>2. \A S : Names(S)' = Names(S)
  BY NamesKept
<1>3. \A f : InOrder(f)' = InOrder(f)
  BY InOrderKept
<1>4. AllPairs' = AllPairs /\ PairsOf("After")' = PairsOf("After")
  BY AllPairsKept, PairsKept
<1> DEFINE f == Names({j \in PairsOf("After") : j < e})
<1>5. InOrder(f)' = InOrder(f) /\ f' = f
  BY <1>2, <1>3, <1>4
<1>6. QED
  BY <1>1, <1>4, <1>5 DEF Covers

LEMMA OpenSectionKept ==
  ASSUME file' = file, NEW s, NEW as, NEW h, NEW e
  PROVE  OpenSection(s, as, h, e)' <=> OpenSection(s, as, h, e)
BY DEF OpenSection, Heading

LEMMA PairFacts ==
  ASSUME ReaderTypeOK, NEW key, NEW i \in PairsOf(key)
  PROVE  /\ i \in DOMAIN file /\ i \in Nat /\ file[i].kind = "pair" /\ file[i].text = key
         /\ key \in Keys /\ OwnSection(i) = Home[key] /\ ~Heading(i)
<1>1. i \in DOMAIN file /\ file[i].kind = "pair" /\ file[i].text = key /\ OwnSection(i) = Home[key]
  BY DEF PairsOf
<1>2. file[i] \in FileLine /\ i \in Nat
  BY <1>1, FileFacts
<1>3. file[i].text \in Keys
  BY <1>1, <1>2, LineFacts
<1>4. ~Heading(i)
  BY <1>1 DEF Heading
<1>5. QED
  BY <1>1, <1>2, <1>3, <1>4

\* What is known of an open section are the pairs of the file from its heading on.
LEMMA SectionPairs ==
  ASSUME ReaderTypeOK, PlainPairs, NEW h \in DOMAIN file, NEW e \in Nat,
         OpenSection(section, attrs, h, e), NEW key \in Keys
  PROVE  /\ \A i \in attrs : i \in DOMAIN file /\ h < i /\ i < e /\ OwnSection(i) = section
         /\ Known(key) = {i \in PairsOf(key) : h < i /\ i < e}
         /\ {j \in PairsOf(key) : j < e} = {j \in PairsOf(key) : j < h} \cup Known(key)
<1>1. DOMAIN file = 1..Len(file) /\ Len(file) \in Nat /\ h \in Nat
  BY FileFacts
<1>2. attrs = {i \in DOMAIN file : h < i /\ i < e /\ file[i].kind = "pair"}
  BY DEF OpenSection
<1>3. \A i \in DOMAIN file : h < i /\ i < e => OwnSection(i) = section
  <2> SUFFICES ASSUME NEW i \in DOMAIN file, h < i, i < e PROVE OwnSection(i) = section
    OBVIOUS
  <2>1. \A j \in DOMAIN file : h < j /\ j <= i => ~Heading(j)
    BY <1>1 DEF OpenSection
  <2>2. Heading(h) /\ file[h].text = section /\ h <= i
    BY <1>1 DEF OpenSection
  <2>3. QED
    BY <2>1, <2>2, OwnSectionIs
<1>4. \A i \in PairsOf(key) : /\ i \in DOMAIN file /\ i \in Nat /\ file[i].kind = "pair"
                              /\ file[i].text = key /\ OwnSection(i) = Home[key]
  BY PairFacts
<1>5. \A i \in DOMAIN file : file[i].kind = "pair" /\ file[i].text = key /\ OwnSection(i) = Home[key]
                               => i \in PairsOf(key)
  BY DEF PairsOf
<1>6. Known(key) = {i \in attrs : Home[file[i].text] = section /\ file[i].text = key}
  BY <1>2 DEF Known, Recognised, PlainPairs
<1>7. Known(key) = {i \in PairsOf(key) : h < i /\ i < e}
  BY <1>2, <1>3, <1>4, <1>5, <1>6
<1>8. h \notin PairsOf(key)
  BY PairFacts DEF OpenSection
<1>9. {j \in PairsOf(key) : j < e} = {j \in PairsOf(key) : j < h} \cup {i \in PairsOf(key) : h < i /\ i < e}
  <2>1. h < e
    BY DEF OpenSection
  <2>2. \A j \in PairsOf(key) : j < e <=> j < h \/ (h < j /\ j < e)
    BY <1>1, <1>4, <1>8, <2>1
  <2>3. QED
    BY <2>2
<1>10. QED
  BY <1>2, <1>3, <1>7, <1>9

\* The pairs of a section are recorded.
LEMMA PairsRecorded ==
  ASSUME ReaderTypeOK, PlainPairs, NEW h \in DOMAIN file, NEW e \in Nat,
         OpenSection(section, attrs, h, e), NEW u, Covers(u, h)
  PROVE  u.pairs \cup {<<i, section>> : i \in {j \in attrs : Recognised(j)}}
           = {<<i, OwnSection(i)>> : i \in {j \in AllPairs : j < e}}
<1> DEFINE New == {j \in attrs : Recognised(j)}
<1>1. \A i \in attrs : OwnSection(i) = section /\ file[i].kind = "pair" /\ file[i].text \in Keys
  <2>1. \A i \in attrs : i \in DOMAIN file /\ OwnSection(i) = section
    BY SectionPairs DEF Keys, Lists
  <2>2. \A i \in attrs : file[i].kind = "pair"
    BY DEF OpenSection
  <2>3. QED
    BY <2>1, <2>2, FileFacts, LineFacts
<1>2. New = UNION {Known(key) : key \in Keys}
  BY <1>1 DEF Known
<1>3. \A key \in Keys : {j \in PairsOf(key) : j < e} = {j \in PairsOf(key) : j < h} \cup Known(key)
  BY SectionPairs
<1>4. {j \in AllPairs : j < e} = {j \in AllPairs : j < h} \cup New
  BY <1>2, <1>3 DEF AllPairs
<1>5. {<<i, section>> : i \in New} = {<<i, OwnSection(i)>> : i \in New}
  BY <1>1
<1>6. u.pairs = {<<i, OwnSection(i)>> : i \in {j \in AllPairs : j < h}}
  BY DEF Covers
<1> HIDE DEF New
<1>7. QED
  BY <1>4, <1>5, <1>6 DEF New

\* The names of a section's After= lines come behind those of the sections before.
LEMMA AfterRecorded ==
  ASSUME ReaderTypeOK, PlainPairs, file # << >>, NEW h \in DOMAIN file, NEW e \in Nat,
         OpenSection(section, attrs, h, e), NEW u, Covers(u, h)
  PROVE  InOrder(Names({j \in PairsOf("After") : j < e})) = u.after \o InOrder(Names(Known("After")))
<1> DEFINE A == {j \in PairsOf("After") : j < h}
           B == Known("After")
           C == {j \in PairsOf("After") : j < e}
<1>1. "After" \in Keys
  BY DEF Keys, Lists
<1>2. C = A \cup B /\ B = {i \in PairsOf("After") : h < i /\ i < e}
  BY <1>1, SectionPairs
<1>3. u.after = InOrder(Names(A))
  BY DEF Covers
<1>4. \A i \in A, j \in B : i \in Int /\ j \in Int /\ i < j
  <2>1. \A i \in PairsOf("After") : i \in Nat
    BY PairFacts
  <2>2. h \in Nat
    BY FileFacts
  <2>3. QED
    BY <1>2, <2>1, <2>2
<1> HIDE DEF A, B, C
<1>5. DOMAIN Names(C) = C /\ DOMAIN Names(A) = A /\ DOMAIN Names(B) = B
  BY DEF Names
<1>6. /\ \A i \in A : Names(C)[i] = Names(A)[i]
      /\ \A i \in B : Names(C)[i] = Names(B)[i]
  BY <1>2 DEF Names
<1>7. IsNaming(Names(A), Vocabulary) /\ IsNaming(Names(B), Vocabulary) /\ file \in Seq(FileLine)
  BY NamesAreNaming DEF ReaderTypeOK
<1>8. DOMAIN Names(C) = DOMAIN Names(A) \cup DOMAIN Names(B)
  BY <1>2, <1>5
<1>9. InOrder(Names(C)) = InOrder(Names(A)) \o InOrder(Names(B))
  <2> DEFINE f == Names(A)
             g == Names(B)
             k == Names(C)
  <2>1. /\ \A i \in DOMAIN f : k[i] = f[i]
        /\ \A i \in DOMAIN g : k[i] = g[i]
        /\ \A i \in DOMAIN f, j \in DOMAIN g : i \in Int /\ j \in Int /\ i < j
    BY <1>4, <1>5, <1>6
  <2>2. DOMAIN k = DOMAIN f \cup DOMAIN g /\ IsNaming(f, Vocabulary) /\ IsNaming(g, Vocabulary)
    BY <1>7, <1>8
  <2> HIDE DEF f, g, k
  <2>3. Together(k, f, g)
    BY <1>7, <2>1, <2>2, InOrderJoins, Zenon
  <2>4. QED
    BY <2>3 DEF f, g, k, Together
<1>10. QED
  BY <1>3, <1>9 DEF B, C

\* A section other than [Unit] has none.
LEMMA NothingAfter ==
  ASSUME ReaderTypeOK, PlainPairs, NEW h \in DOMAIN file, NEW e \in Nat,
         OpenSection(section, attrs, h, e), section # "[Unit]"
  PROVE  {j \in PairsOf("After") : j < e} = {j \in PairsOf("After") : j < h}
<1>1. "After" \in Keys /\ Home["After"] = "[Unit]"
  BY DEF Keys, Lists, Home
<1>2. Known("After") = {}
  BY <1>1 DEF Known, Recognised
<1>3. QED
  BY <1>1, <1>2, SectionPairs

\* The end of a section records all that is before it.
LEMMA AssignCovers ==
  ASSUME ReaderTypeOK, PlainPairs, file # << >>, NEW h \in DOMAIN file, NEW e \in Nat,
         OpenSection(section, attrs, h, e), Covers(unit, h), Assign
  PROVE  Covers(unit', e)
<1>1. unit \in UnitType
  BY DEF ReaderTypeOK, UnitType
<1> DEFINE new == unit.pairs \cup {<<i, section>> : i \in {j \in attrs : Recognised(j)}}
<1>2. new = {<<i, OwnSection(i)>> : i \in {j \in AllPairs : j < e}}
  BY PairsRecorded
<1>3. \A u : Record(u) = [u EXCEPT !.pairs = u.pairs \cup {<<i, section>> : i \in {j \in attrs : Recognised(j)}}]
  BY DEF Record
<1> DEFINE all == InOrder(Names({j \in PairsOf("After") : j < e}))
<1>4. unit'.pairs = new /\ unit'.after = all
  <2>1. CASE AssignUnit
    <3> DEFINE after == unit.after \o InOrder(Names(Known("After")))
    <3>1. unit' = Record([unit EXCEPT !.after = after])
      BY <2>1 DEF AssignUnit, Names
    <3>2. after = all
      BY AfterRecorded
    <3> HIDE DEF after, all
    <3>3. unit' = [[unit EXCEPT !.after = after] EXCEPT !.pairs = new]
      BY <1>1, <1>3, <3>1 DEF UnitType
    <3> HIDE DEF new
    <3>4. unit'.pairs = new /\ unit'.after = after
      BY <1>1, <3>3 DEF UnitType
    <3>5. QED
      BY <3>2, <3>4
  <2>2. CASE AssignService
    <3> DEFINE type == IF Known("Type") # {} THEN TypeOf(Max(Known("Type"))) ELSE DefaultType
    <3>1. unit' = Record([unit EXCEPT !.type = type]) /\ section = "[Service]"
      BY <2>2 DEF AssignService
    <3> HIDE DEF type
    <3>2. unit' = [[unit EXCEPT !.type = type] EXCEPT !.pairs = new]
      BY <1>1, <1>3, <3>1 DEF UnitType
    <3>3. unit.after = all
      BY <3>1, NothingAfter DEF Covers
    <3> HIDE DEF new, all
    <3>4. unit'.pairs = new /\ unit'.after = unit.after
      BY <1>1, <3>2 DEF UnitType
    <3>5. QED
      BY <3>3, <3>4
  <2>3. CASE AssignInstall
    <3>1. unit' = [unit EXCEPT !.pairs = new] /\ section = "[Install]"
      BY <1>3, <2>3 DEF AssignInstall
    <3>3. unit.after = all
      BY <3>1, NothingAfter DEF Covers
    <3> HIDE DEF new, all
    <3>4. unit'.pairs = new /\ unit'.after = unit.after
      BY <1>1, <3>1 DEF UnitType
    <3>5. QED
      BY <3>3, <3>4
  <2>4. QED
    BY <2>1, <2>2, <2>3 DEF Assign
<1>5. QED
  BY <1>2, <1>4 DEF Covers

Plain == WellFormed /\ PlainPairs

\* A section has ended before line e: with the file, or with a heading there.
Ended(st, n, l, e) ==
  \/ st = "eof" /\ e = n
  \/ e = n - 1 /\ e \in DOMAIN file /\ Heading(e) /\ l = file[e]

AtOpen     == unit.pairs = {} /\ unit.after = << >>
AtDispatch == /\ Covers(unit, next)
              /\ stream # "eof" => /\ next - 1 \in DOMAIN file /\ Heading(next - 1)
                                   /\ line = file[next - 1]
AtSplit    == \E h \in DOMAIN file : OpenSection(section, attrs, h, next) /\ Covers(unit, h)
AtAssign   == \E h \in DOMAIN file, e \in Nat :
                /\ OpenSection(section, attrs, h, e) /\ Covers(unit, h)
                /\ Ended(stream, next, line, e)
AtEnd      == stream = "eof" /\ Covers(unit, next)

SectionInv == Plain =>
  /\ reading = "open" => AtOpen
  /\ reading = "dispatch" => AtDispatch
  /\ reading = "split" => AtSplit
  /\ reading = "assign" => AtAssign
  /\ reading = "done" => AtEnd
  /\ reading # "pushing"

LEMMA FileKept == [ReaderNext]_readerVars => file' = file /\ newline' = newline
BY DEF ReaderNext, readerVars, OpenUnit, SkipComment, ParseSection, EndReading, SplitLine,
       SplitHeading, SplitEnd, Assign, PushForever, GetLine

LEMMA PlainKept == ASSUME file' = file PROVE Plain' <=> Plain
BY DEF Plain, WellFormed, PlainPairs

LEMMA HeadingKept == ASSUME file' = file, NEW i PROVE Heading(i)' <=> Heading(i)
BY DEF Heading

LEMMA EndedKept ==
  ASSUME file' = file, NEW s, NEW n, NEW l, NEW e PROVE Ended(s, n, l, e)' <=> Ended(s, n, l, e)
BY DEF Ended, Heading

\* A line with the text of a heading is one.
LEMMA HeadingText ==
  ASSUME ReaderTypeOK, NEW i \in DOMAIN file, file[i].text \in Sections
  PROVE  Heading(i)
<1>1. /\ file[i].kind \in {"text", "comment", "pair"}
      /\ file[i].kind = "pair" => file[i].text \in Keys
      /\ file[i].kind = "comment" => file[i].text \in {"#", ";"}
  BY FileFacts, LineFacts
<1>2. file[i].kind # "pair"
  BY <1>1 DEF Keys, Scalars, Lists, Sections
<1>3. file[i].kind # "comment"
  BY <1>1 DEF Sections
<1>4. QED
  BY <1>1, <1>2, <1>3 DEF Heading

\* A heading holds no pair.
LEMMA CoversHeading ==
  ASSUME ReaderTypeOK, NEW h \in DOMAIN file, Heading(h), NEW u
  PROVE  Covers(u, h + 1) <=> Covers(u, h)
<1>1. \A key : \A j \in PairsOf(key) : j \in Nat /\ j # h
  BY PairFacts
<1>2. h \in Nat
  BY FileFacts
<1>3. {j \in AllPairs : j < h + 1} = {j \in AllPairs : j < h}
  BY <1>1, <1>2 DEF AllPairs
<1>4. {j \in PairsOf("After") : j < h + 1} = {j \in PairsOf("After") : j < h}
  BY <1>1, <1>2
<1>5. QED
  BY <1>3, <1>4 DEF Covers

\* The lines behind the file's end hold none either.
LEMMA CoversAll ==
  ASSUME ReaderTypeOK, NEW n \in Nat, n > Len(file), NEW u, Covers(u, n)
  PROVE  /\ u.pairs = {<<i, OwnSection(i)>> : i \in AllPairs}
         /\ u.after = InOrder(Names(PairsOf("After")))
<1>1. \A key : \A j \in PairsOf(key) : j < n
  BY PairFacts, FileFacts
<1>2. {j \in AllPairs : j < n} = AllPairs
  BY <1>1 DEF AllPairs
<1>3. {j \in PairsOf("After") : j < n} = PairsOf("After")
  BY <1>1
<1>4. QED
  BY <1>2, <1>3 DEF Covers

LEMMA CoversNone ==
  ASSUME ReaderTypeOK, NEW u, u.pairs = {}, u.after = << >>
  PROVE  Covers(u, 1)
<1>1. \A key : \A j \in PairsOf(key) : j \in Nat /\ ~(j < 1)
  BY PairFacts, FileFacts
<1>2. {j \in AllPairs : j < 1} = {} /\ {j \in PairsOf("After") : j < 1} = {}
  BY <1>1 DEF AllPairs
<1>3. file \in Seq(FileLine) /\ DOMAIN Names({}) = {}
  BY DEF ReaderTypeOK, Names
<1>4. InOrder(Names({})) = << >>
  BY <1>3, InOrderNone
<1>5. QED
  BY <1>2, <1>4 DEF Covers

LEMMA SectionOfLine ==
  ASSUME ReaderTypeOK, NEW h \in DOMAIN file, Heading(h)
  PROVE  /\ file[h].kind # "comment" /\ file[h].text \in Sections
         /\ SectionOf(file[h]) = file[h].text /\ SectionOf(file[h]) # "none"
<1>1. file[h].kind = "text" /\ file[h].text \in Sections
  BY DEF Heading
<1>2. SectionOf(file[h]) = file[h].text
  BY <1>1, SectionOfHeading
<1>3. QED
  BY <1>1, <1>2 DEF Sections

LEMMA SectionInvInit == ReaderInit => SectionInv
BY DEF ReaderInit, SectionInv, AtOpen

\* One line more of a section.
LEMMA SectionGrows ==
  ASSUME ReaderTypeOK, NEW s, NEW as, NEW h \in DOMAIN file, OpenSection(s, as, h, next),
         next \in DOMAIN file => ~Heading(next)
  PROVE  OpenSection(s, IF next \in DOMAIN file /\ file[next].kind = "pair"
                        THEN as \cup {next} ELSE as, h, next + 1)
<1>1. DOMAIN file = 1..Len(file) /\ Len(file) \in Nat /\ next \in Nat /\ h \in Nat
  BY FileFacts DEF ReaderTypeOK
<1>2. h < next + 1
  BY <1>1 DEF OpenSection
<1>3. \A i \in DOMAIN file : h < i /\ i < next + 1 => i < next \/ i = next
  BY <1>1
<1>4. \A i \in DOMAIN file : h < i /\ i < next + 1 => ~Heading(i)
  BY <1>3 DEF OpenSection
<1>5. as = {i \in DOMAIN file : h < i /\ i < next /\ file[i].kind = "pair"} /\ h < next
  BY DEF OpenSection
<1>6. \A i \in DOMAIN file : i < next + 1 <=> i < next \/ i = next
  BY <1>1
<1>7. (IF next \in DOMAIN file /\ file[next].kind = "pair" THEN as \cup {next} ELSE as)
        = {i \in DOMAIN file : h < i /\ i < next + 1 /\ file[i].kind = "pair"}
  BY <1>1, <1>5, <1>6
<1>8. QED
  BY <1>2, <1>4, <1>7 DEF OpenSection

LEMMA BufferIs ==
  ASSUME ReaderTypeOK, stream = "good"
  PROVE  Buffer = IF next \in DOMAIN file THEN file[next] ELSE Blank
<1>1. DOMAIN file = 1..Len(file) /\ Len(file) \in Nat /\ next \in 1..Len(file) + 2
  BY FileFacts DEF ReaderTypeOK
<1>2. QED
  BY <1>1 DEF Buffer

\* Each step from one place to another keeps what is said of the places.
LEMMA SectionInvNext ==
  ReaderInv /\ SectionInv /\ [ReaderNext]_readerVars => SectionInv'
<1> SUFFICES ASSUME ReaderInv, SectionInv, [ReaderNext]_readerVars, Plain PROVE SectionInv'
  BY FileKept, PlainKept DEF SectionInv
<1>1. /\ ReaderTypeOK /\ Len(file) \in Nat /\ DOMAIN file = 1..Len(file)
      /\ next \in 1..Len(file) + 2 /\ file # << >> /\ PlainPairs
  BY FileFacts DEF ReaderInv, ReaderTypeOK, Plain, WellFormed
<1>2. file' = file
  BY FileKept
<1>3. stream \in {"good", "eof"}
  BY DEF ReaderInv, ReaderTypeOK, StreamInv, Plain, WellFormed, Short
<1>4. /\ \A u, e : Covers(u, e)' <=> Covers(u, e)
      /\ \A s, as, h, e : OpenSection(s, as, h, e)' <=> OpenSection(s, as, h, e)
      /\ \A i : Heading(i)' <=> Heading(i)
      /\ \A s, n, l, e : Ended(s, n, l, e)' <=> Ended(s, n, l, e)
  BY <1>2, CoversKept, OpenSectionKept, HeadingKept, EndedKept
<1>5. stream = "good" /\ GetLine => next' = next + 1
  BY DEF GetLine
<1>6. CASE OpenUnit
  <2>1. stream = "good" /\ next = 1 /\ AtOpen
    BY <1>6 DEF OpenUnit, ReaderInv, OpensFirst, SectionInv
  <2>2. next' = 2 /\ line' = Buffer /\ unit' = unit /\ reading' = "dispatch"
    BY <1>5, <1>6, <2>1 DEF OpenUnit
  <2>3. 1 \in DOMAIN file /\ Heading(1)
    <3>1. 1 \in DOMAIN file
      BY <1>1, EmptySeq DEF ReaderTypeOK
    <3>2. file[1].text \in Sections
      BY DEF Plain, WellFormed
    <3>3. QED
      BY <1>1, <3>1, <3>2, HeadingText
  <2>4. line' = file[1]
    BY <1>1, <2>1, <2>2, <2>3, BufferIs
  <2>5. Covers(unit, 2)
    <3>1. Covers(unit, 1)
      BY <1>1, <2>1, CoversNone DEF AtOpen
    <3>2. Covers(unit, 1 + 1)
      BY <1>1, <2>3, <3>1, CoversHeading
    <3>3. QED
      BY <3>2
  <2>6. AtDispatch'
    BY <1>2, <1>4, <2>2, <2>3, <2>4, <2>5 DEF AtDispatch
  <2>7. QED
    BY <2>2, <2>6 DEF SectionInv
<1>7. CASE SkipComment
  <2>1. AtDispatch /\ stream # "eof" /\ line.kind = "comment"
    BY <1>7 DEF SkipComment, SectionInv
  <2>2. QED
    BY <1>1, <2>1, SectionOfLine DEF AtDispatch
<1>8. CASE ParseSection
  <2>1. /\ AtDispatch /\ stream # "eof" /\ section' = SectionOf(line) /\ attrs' = {}
        /\ reading' = "split" /\ next' = next /\ unit' = unit
    BY <1>8 DEF ParseSection, SectionInv
  <2> DEFINE h == next - 1
  <2>2. h \in DOMAIN file /\ Heading(h) /\ line = file[h] /\ Covers(unit, next) /\ next = h + 1
    BY <1>1, <2>1 DEF AtDispatch
  <2> HIDE DEF h
  <2>3. Covers(unit, h)
    BY <1>1, <2>2, CoversHeading
  <2>4. section' = file[h].text
    BY <1>1, <2>1, <2>2, SectionOfLine
  <2>5. OpenSection(section', {}, h, next)
    <3>1. h < next /\ \A i \in DOMAIN file : ~(h < i /\ i < next)
      BY <1>1, <2>2
    <3>2. QED
      BY <2>2, <2>4, <3>1 DEF OpenSection
  <2>6. AtSplit'
    BY <1>2, <1>4, <2>1, <2>2, <2>3, <2>5 DEF AtSplit
  <2>7. QED
    BY <2>1, <2>6 DEF SectionInv
<1>9. CASE EndReading
  <2>1. /\ AtDispatch
        /\ stream = "eof" \/ (line.kind # "comment" /\ SectionOf(line) = "none")
        /\ reading' = "done" /\ next' = next /\ unit' = unit /\ stream' = stream
    BY <1>9 DEF EndReading, SectionInv
  <2>2. stream = "eof" /\ AtDispatch
    <3>1. AtDispatch
      BY <1>9 DEF EndReading, SectionInv
    <3>2. QED
      BY <1>1, <2>1, <3>1, SectionOfLine DEF AtDispatch
  <2>3. AtEnd'
    BY <1>4, <2>1, <2>2 DEF AtEnd, AtDispatch
  <2>4. QED
    BY <2>1, <2>3 DEF SectionInv
<1>10. CASE SplitLine
  <2>1. stream = "good" /\ AtSplit
    BY <1>3, <1>10 DEF SplitLine, SectionInv
  <2>2. /\ Buffer.kind # "text" \/ Buffer = Blank
        /\ next' = next + 1 /\ attrs' = Collected /\ section' = section /\ unit' = unit
        /\ reading' = "split"
    BY <1>5, <1>10, <2>1 DEF SplitLine
  <2>3. PICK h \in DOMAIN file : OpenSection(section, attrs, h, next) /\ Covers(unit, h)
    BY <2>1 DEF AtSplit
  <2>4. next \in DOMAIN file => ~Heading(next)
    <3>1. Blank.text = ""
      BY DEF Blank, Text
    <3>2. QED
      BY <1>1, <2>1, <2>2, <3>1, BufferIs DEF Heading, Sections
  <2>5. Collected = IF next \in DOMAIN file /\ file[next].kind = "pair"
                    THEN attrs \cup {next} ELSE attrs
    <3>1. Blank.kind = "text"
      BY DEF Blank, Text
    <3>2. QED
      BY <1>1, <2>1, <3>1, BufferIs DEF Collected
  <2>6. OpenSection(section', attrs', h, next')
    BY <1>1, <2>2, <2>3, <2>4, <2>5, SectionGrows
  <2>7. AtSplit'
    BY <1>2, <1>4, <2>2, <2>3, <2>6 DEF AtSplit
  <2>8. QED
    BY <2>2, <2>7 DEF SectionInv
<1>11. CASE SplitHeading
  <2>1. stream = "good" /\ AtSplit
    BY <1>3, <1>11 DEF SplitHeading, SectionInv
  <2>2. /\ Buffer.kind = "text" /\ Buffer # Blank /\ next' = next + 1 /\ line' = Buffer
        /\ attrs' = attrs /\ section' = section /\ unit' = unit /\ reading' = "assign"
    BY <1>5, <1>11, <2>1 DEF SplitHeading
  <2>3. PICK h \in DOMAIN file : OpenSection(section, attrs, h, next) /\ Covers(unit, h)
    BY <2>1 DEF AtSplit
  <2>4. next \in DOMAIN file /\ line' = file[next]
    BY <1>1, <2>1, <2>2, BufferIs
  <2>5. Heading(next)
    <3>1. file[next].kind = "text" /\ file[next] # Blank /\ ~file[next].long
          /\ file[next].text \in Sections \cup {""}
      BY <2>2, <2>4 DEF Plain, WellFormed
    <3>2. file[next].text # ""
      BY <1>1, <2>4, <3>1, FileFacts, LineFacts
    <3>3. QED
      BY <3>1, <3>2 DEF Heading
  <2>6. Ended(stream', next', line', next) /\ next \in Nat
    BY <1>1, <2>2, <2>4, <2>5 DEF Ended
  <2>7. AtAssign'
    BY <1>2, <1>4, <2>2, <2>3, <2>6 DEF AtAssign
  <2>8. QED
    BY <2>2, <2>7 DEF SectionInv
<1>12. CASE SplitEnd
  <2>1. stream = "eof" /\ AtSplit /\ reading' = "assign"
        /\ UNCHANGED <<stream, next, line, section, attrs, unit>>
    BY <1>12 DEF SplitEnd, SectionInv
  <2>2. PICK h \in DOMAIN file : OpenSection(section, attrs, h, next) /\ Covers(unit, h)
    BY <2>1 DEF AtSplit
  <2>3. Ended(stream', next', line', next) /\ next \in Nat
    BY <1>1, <2>1 DEF Ended
  <2>4. AtAssign'
    BY <1>2, <1>4, <2>1, <2>2, <2>3 DEF AtAssign
  <2>5. QED
    BY <2>1, <2>4 DEF SectionInv
<1>13. CASE Assign
  <2>1. AtAssign /\ reading' = "dispatch" /\ UNCHANGED <<stream, next, line>>
    BY <1>13 DEF Assign, SectionInv
  <2>2. PICK h \in DOMAIN file, e \in Nat :
          /\ OpenSection(section, attrs, h, e) /\ Covers(unit, h) /\ Ended(stream, next, line, e)
    BY <2>1 DEF AtAssign
  <2>3. Covers(unit', e)
    BY <1>1, <1>13, <2>2, AssignCovers
  <2>4. Covers(unit', next) /\ (stream # "eof" => next - 1 \in DOMAIN file /\ Heading(next - 1)
                                                   /\ line = file[next - 1])
    <3>1. CASE stream = "eof" /\ e = next
      BY <2>3, <3>1
    <3>2. CASE e = next - 1 /\ e \in DOMAIN file /\ Heading(e) /\ line = file[e]
      <4>1. next = e + 1
        BY <1>1, <3>2
      <4>2. Covers(unit', e + 1)
        BY <1>1, <2>3, <3>2, CoversHeading
      <4>3. QED
        BY <3>2, <4>1, <4>2
    <3>3. QED
      BY <2>2, <3>1, <3>2 DEF Ended
  <2>5. AtDispatch'
    BY <1>2, <1>4, <2>1, <2>4 DEF AtDispatch
  <2>6. QED
    BY <2>1, <2>5 DEF SectionInv
<1>14. CASE PushForever
  <2>1. PICK i \in Known("WantedBy") : Endless(i)
    BY <1>14 DEF PushForever
  <2>2. i \in DOMAIN file
    BY <1>1, <2>1, KnownType
  <2>3. file[i].blank = "none" /\ Len(file[i].names) <= 1
    BY <1>1, <2>2 DEF PlainPairs
  <2>4. Len(file[i].names) \in Nat
    BY <1>1, <2>2, FileFacts, LineFacts, LenProperties
  <2>5. QED
    BY <2>1, <2>3, <2>4 DEF Endless
<1>15. CASE UNCHANGED readerVars
  <2>1. UNCHANGED <<file, stream, next, line, section, attrs, unit, reading>>
    BY <1>15 DEF readerVars
  <2>2. /\ AtOpen => AtOpen'
        /\ AtDispatch => AtDispatch'
        /\ AtSplit => AtSplit'
        /\ AtAssign => AtAssign'
        /\ AtEnd => AtEnd'
    BY <1>4, <2>1 DEF AtOpen, AtDispatch, AtSplit, AtAssign, AtEnd
  <2>3. QED
    BY <2>1, <2>2 DEF SectionInv
<1>16. QED
  BY <1>6, <1>7, <1>8, <1>9, <1>10, <1>11, <1>12, <1>13, <1>14, <1>15 DEF ReaderNext

\* Wherever the reader is, it has recorded the pairs before the section that it
\* is in, and collected those of the section.
THEOREM SectionInvariant == ReaderSpec => []SectionInv
<1>1. QED
  BY ReaderInvariant, SectionInvInit, SectionInvNext, PTL DEF ReaderSpec

\* systemctl reads every pair of a well-formed file, in the section whose heading
\* stands above it.
THEOREM SectionsAreRight == ReaderSpec => []SectionsRight
<1>1. ReaderInv /\ SectionInv => SectionsRight
  <2> SUFFICES ASSUME ReaderInv, SectionInv, reading = "done", WellFormed, PlainPairs
               PROVE  unit.pairs = {<<i, OwnSection(i)>> : i \in AllPairs}
    BY DEF SectionsRight, AllPairs
  <2>1. stream = "eof" /\ Covers(unit, next)
    BY DEF SectionInv, Plain, AtEnd
  <2>2. ReaderTypeOK /\ next \in Nat /\ next > Len(file)
    BY <2>1, FileFacts DEF ReaderInv, ReaderTypeOK, StreamInv
  <2>3. QED
    BY <2>1, <2>2, CoversAll
<1>2. QED
  BY <1>1, ReaderInvariant, SectionInvariant, PTL

-----------------------------------------------------------------------------
(* The two readings.                                                       *)

\* Line h begins the one [Service] section, which is not cut off by the file's end.
SoleService(h) ==
  /\ Heading(h) /\ file[h].text = "[Service]" /\ (newline \/ h # Len(file))
  /\ \A i \in DOMAIN file : i # h => file[i].text # "[Service]"

Agreeable == /\ Plain /\ Accepts
             /\ PairsOf("BusName") = {} \/ PairsOf("ExecStart") # {}
             /\ \A i \in PairsOf("Type") : file[i].value \in TypeNames

\* Once the reader has left the section, the type is the one the wrapper reads.
ServiceInv == Agreeable => \A h \in DOMAIN file :
  /\ SoleService(h) /\ h < next - 1
  /\ ~(reading \in {"split", "assign"} /\ section = "[Service]")
  => unit.type = WrapperType

LEMMA SoleServiceKept ==
  ASSUME file' = file, newline' = newline, NEW h PROVE SoleService(h)' <=> SoleService(h)
BY DEF SoleService, Heading

LEMMA WrapperTypeKept == ASSUME file' = file PROVE WrapperType' = WrapperType
<1>1. \A key : PairsOf(key)' = PairsOf(key)
  BY PairsKept
<1>2. QED
  BY <1>1 DEF WrapperType

LEMMA AgreeableKept == ASSUME file' = file PROVE Agreeable' <=> Agreeable
<1>1. \A key : PairsOf(key)' = PairsOf(key)
  BY PairsKept
<1>2. Accepts' <=> Accepts
  BY <1>1 DEF Accepts
<1>3. QED
  BY <1>1, <1>2, PlainKept DEF Agreeable

LEMMA OneValue ==
  ASSUME ReaderTypeOK, Accepts, NEW key \in Scalars, PairsOf(key) # {}
  PROVE  \E i \in DOMAIN file : PairsOf(key) = {i}
<1>1. DOMAIN file = 1..Len(file) /\ Len(file) \in Nat /\ PairsOf(key) \subseteq DOMAIN file
  BY FileFacts, PairFacts
<1>2. IsFiniteSet(PairsOf(key))
  <2>1. IsFiniteSet(1..Len(file))
    BY <1>1, FS_Interval
  <2>2. PairsOf(key) \in SUBSET (1..Len(file))
    BY <1>1
  <2>3. QED
    BY <2>1, <2>2, FS_Subset
<1>3. Cardinality(PairsOf(key)) \in Nat /\ Cardinality(PairsOf(key)) # 0
  BY <1>2, FS_CardinalityType, FS_EmptySet
<1>4. Cardinality(PairsOf(key)) = 1
  BY <1>3 DEF Accepts
<1>5. PICK i : PairsOf(key) = {i}
  BY <1>2, <1>4, FS_Singleton
<1>6. QED
  BY <1>1, <1>5

\* The [Service] section's type is the one that the wrapper reads.
LEMMA SameType ==
  ASSUME ReaderTypeOK, Agreeable, AssignService,
         \A key \in Scalars : Known(key) = PairsOf(key)
  PROVE  unit'.type = WrapperType
<1>1. Known("Type") = PairsOf("Type") /\ Known("ExecStart") = PairsOf("ExecStart")
        /\ Known("BusName") = PairsOf("BusName")
  BY DEF Scalars
<1> DEFINE type == IF Known("Type") # {} THEN TypeOf(Max(Known("Type"))) ELSE DefaultType
<1>2. type = WrapperType
  <2>1. CASE PairsOf("Type") = {}
    BY <1>1, <2>1 DEF Agreeable, DefaultType, WrapperType
  <2>2. CASE PairsOf("Type") # {}
    <3>1. PICK i \in DOMAIN file : PairsOf("Type") = {i}
      BY <2>2, OneValue DEF Agreeable, Scalars
    <3>2. Max(PairsOf("Type")) = i
      BY <1>1, <3>1, KnownType
    <3>3. TypeOf(i) = file[i].value /\ file[i].value \in TypeNames
      BY <3>1 DEF TypeOf, Agreeable, Plain, PlainPairs
    <3>4. QED
      BY <1>1, <2>2, <3>2, <3>3 DEF WrapperType
  <2>3. QED
    BY <2>1, <2>2
<1>3. unit' = Record([unit EXCEPT !.type = type])
  BY DEF AssignService
<1> HIDE DEF type
<1>4. unit \in [type : Vocabulary, after : Seq(Vocabulary), pairs : SUBSET ((DOMAIN file) \X Sections)]
  BY DEF ReaderTypeOK
<1>5. unit'.type = type
  BY <1>3, <1>4 DEF Record
<1>6. QED
  BY <1>2, <1>5

\* All pairs of [Service] stand in its one section.
LEMMA AllKnown ==
  ASSUME ReaderTypeOK, Plain, NEW h \in DOMAIN file, SoleService(h), NEW e \in Nat,
         OpenSection(section, attrs, h, e), Ended(stream, next, line, e),
         stream = "eof" => next > Len(file), NEW key \in Scalars
  PROVE  Known(key) = PairsOf(key)
<1>1. key \in Keys /\ Home[key] = "[Service]"
  BY DEF Keys, Scalars, Home
<1>2. Known(key) = {i \in PairsOf(key) : h < i /\ i < e}
  BY <1>1, SectionPairs DEF Plain
<1>3. ASSUME NEW i \in PairsOf(key) PROVE h < i /\ i < e
  <2>1. i \in DOMAIN file /\ OwnSection(i) = "[Service]" /\ ~Heading(i)
    BY <1>1, PairFacts
  <2>2. PICK g \in DOMAIN file :
           /\ g <= i /\ Heading(g) /\ file[g].text = "[Service]"
           /\ \A j \in DOMAIN file : j <= i /\ Heading(j) => j <= g
    BY <2>1, OwnHeading
  <2>3. g = h
    BY <2>2 DEF SoleService
  <2>4. h < i
    BY <2>1, <2>2, <2>3, FileFacts
  <2>5. i < e
    <3>1. CASE stream = "eof" /\ e = next
      BY <2>1, <3>1, FileFacts
    <3>2. CASE e \in DOMAIN file /\ Heading(e)
      <4>1. h < e
        BY DEF OpenSection
      <4>2. ~(e <= i)
        BY <2>2, <2>3, <3>2, <4>1, FileFacts
      <4>3. QED
        BY <2>1, <3>2, <4>2, FileFacts
    <3>3. QED
      BY <3>1, <3>2 DEF Ended
  <2>6. QED
    BY <2>4, <2>5
<1>4. QED
  BY <1>2, <1>3

LEMMA ServiceInvInit == ReaderInit => ServiceInv
<1> SUFFICES ASSUME ReaderInit PROVE ServiceInv
  OBVIOUS
<1>1. file \in Seq(FileLine) /\ next = 1
  BY FilesAssumption DEF ReaderInit, FilesAssumption
<1>2. \A h \in DOMAIN file : ~(h < next - 1)
  BY <1>1
<1>3. QED
  BY <1>2 DEF ServiceInv

\* A section other than the sole [Service] section was not opened by its line.
LEMMA OtherSection ==
  ASSUME ReaderTypeOK, NEW g \in DOMAIN file, NEW h \in DOMAIN file, SoleService(h),
         OpenSection(section, attrs, g, next), section # "[Service]"
  PROVE  h # next - 1
<1>1. SUFFICES ASSUME h = next - 1 PROVE FALSE
  OBVIOUS
<1>2. g < next /\ g # h /\ \A i \in DOMAIN file : g < i /\ i < next => ~Heading(i)
  BY DEF OpenSection, SoleService
<1>3. g < h /\ h < next
  BY <1>1, <1>2, FileFacts DEF ReaderTypeOK
<1>4. QED
  BY <1>2, <1>3 DEF SoleService

\* Only the assignment of the sole section chooses a type.
LEMMA ServiceInvNext ==
  ReaderInv /\ SectionInv /\ ServiceInv /\ [ReaderNext]_readerVars => ServiceInv'
<1> SUFFICES ASSUME ReaderInv, SectionInv, ServiceInv, [ReaderNext]_readerVars, Agreeable,
                    NEW h \in DOMAIN file, SoleService(h), h < next' - 1,
                    ~(reading' \in {"split", "assign"} /\ section' = "[Service]")
             PROVE  unit'.type = WrapperType
  BY FileKept, AgreeableKept, SoleServiceKept, WrapperTypeKept DEF ServiceInv
<1>1. /\ ReaderTypeOK /\ Len(file) \in Nat /\ DOMAIN file = 1..Len(file)
      /\ next \in 1..Len(file) + 2 /\ Plain /\ h \in Nat
  BY FileFacts DEF ReaderInv, ReaderTypeOK, Agreeable
<1>2. /\ unit \in [type : Vocabulary, after : Seq(Vocabulary), pairs : SUBSET ((DOMAIN file) \X Sections)]
      /\ section \in Sections \cup {"none"}
  BY DEF ReaderInv, ReaderTypeOK
<1>3. stream \in {"good", "eof"}
  BY <1>1 DEF ReaderInv, ReaderTypeOK, StreamInv, Plain, WellFormed, Short
<1>4. h < next - 1 /\ ~(reading \in {"split", "assign"} /\ section = "[Service]")
        => unit.type = WrapperType
  BY DEF ServiceInv
<1>5. stream = "good" /\ GetLine => next' = next + 1
  BY DEF GetLine
<1>6. CASE OpenUnit
  <2>1. next' = 2
    BY <1>5, <1>6 DEF OpenUnit, ReaderInv, OpensFirst
  <2>2. QED
    BY <1>1, <2>1
<1>7. CASE SkipComment
  <2>1. AtDispatch /\ stream # "eof" /\ line.kind = "comment"
    BY <1>1, <1>7 DEF SkipComment, SectionInv
  <2>2. QED
    BY <1>1, <2>1, SectionOfLine DEF AtDispatch
<1>8. CASE ParseSection
  BY <1>4, <1>8 DEF ParseSection
<1>9. CASE EndReading
  BY <1>4, <1>9 DEF EndReading
<1>10. CASE SplitLine \/ SplitHeading
  <2>1. /\ stream = "good" /\ AtSplit /\ next' = next + 1 /\ section' = section /\ unit' = unit
        /\ reading' \in {"split", "assign"} /\ reading = "split"
    BY <1>1, <1>3, <1>5, <1>10 DEF SplitLine, SplitHeading, SectionInv
  <2>2. PICK g \in DOMAIN file : OpenSection(section, attrs, g, next)
    BY <2>1 DEF AtSplit
  <2>3. section # "[Service]"
    BY <2>1
  <2>4. h # next - 1
    BY <1>1, <2>2, <2>3, OtherSection
  <2>5. h < next - 1
    BY <1>1, <2>1, <2>4
  <2>6. QED
    BY <1>4, <2>1, <2>3, <2>5
<1>11. CASE SplitEnd
  BY <1>4, <1>11 DEF SplitEnd
<1>12. CASE Assign
  <2>1. AtAssign /\ next' = next /\ reading = "assign"
    BY <1>1, <1>12 DEF Assign, SectionInv
  <2>2. CASE section # "[Service]"
    <3>1. unit.type = WrapperType
      BY <1>4, <2>1, <2>2
    <3>2. AssignUnit \/ AssignInstall
      BY <1>12, <2>2 DEF Assign, AssignService
    <3>3. \A u : u \in UnitType => Record(u).type = u.type
      BY DEF Record, UnitType
    <3>4. CASE AssignUnit
      <4> DEFINE more == InOrder([i \in Known("After") |-> NamesOf(i)])
                 after == unit.after \o more
      <4>1. unit' = Record([unit EXCEPT !.after = after])
        BY <3>4 DEF AssignUnit
      <4> HIDE DEF after
      <4>2. unit'.type = unit.type
        BY <1>2, <4>1 DEF Record
      <4>3. QED
        BY <3>1, <4>2
    <3>5. CASE AssignInstall
      BY <1>2, <3>1, <3>5 DEF AssignInstall, Record
    <3>6. QED
      BY <3>2, <3>4, <3>5
  <2>3. CASE section = "[Service]"
    <3>1. AssignService
      BY <1>12, <2>3 DEF Assign, AssignUnit, AssignInstall
    <3>2. PICK g \in DOMAIN file, e \in Nat :
             OpenSection(section, attrs, g, e) /\ Ended(stream, next, line, e)
      BY <2>1 DEF AtAssign
    <3>3. g = h
      BY <2>3, <3>2 DEF OpenSection, SoleService
    <3>4. stream = "eof" => next > Len(file)
      BY DEF ReaderInv, StreamInv
    <3>5. \A key \in Scalars : Known(key) = PairsOf(key)
      BY <1>1, <3>2, <3>3, <3>4, AllKnown
    <3>6. QED
      BY <1>1, <3>1, <3>5, SameType
  <2>4. QED
    BY <2>2, <2>3
<1>13. CASE PushForever
  <2>1. SectionInv' /\ Plain'
    BY <1>1, SectionInvNext, FileKept, PlainKept
  <2>2. QED
    BY <1>13, <2>1 DEF PushForever, SectionInv
<1>14. CASE UNCHANGED readerVars
  BY <1>4, <1>14 DEF readerVars
<1>15. QED
  BY <1>6, <1>7, <1>8, <1>9, <1>10, <1>11, <1>12, <1>13, <1>14 DEF ReaderNext

\* Behind the sole [Service] section the unit has the type that the wrapper reads.
THEOREM ServiceInvariant == ReaderSpec => []ServiceInv
<1>1. QED
  BY ReaderInvariant, SectionInvariant, ServiceInvInit, ServiceInvNext, PTL DEF ReaderSpec

\* Each After= line of a plain file is one name, to systemctl and to the wrapper.
LEMMA OneName ==
  ASSUME ReaderTypeOK, PlainPairs, NEW i \in PairsOf("After")
  PROVE  /\ NamesOf(i) = <<LineName(i)>>
         /\ \A S : i \in Containing(S) <=> LineName(i) \in S
<1>1. i \in DOMAIN file /\ file[i].kind = "pair" /\ file[i].text = "After"
  BY PairFacts
<1>2. file[i].names \in Seq(Vocabulary) /\ file[i].names # << >>
  BY <1>1, FileFacts, LineFacts DEF Lists
<1>3. file[i].blank = "none" /\ Len(file[i].names) <= 1
  BY <1>1 DEF PlainPairs
<1> DEFINE names == file[i].names
<1>4. Len(names) = 1 /\ DOMAIN names = 1..1
  <2>1. Len(names) \in Nat \ {0} /\ DOMAIN names = 1..Len(names)
    BY <1>2, EmptySeq, LenProperties
  <2>2. Len(names) <= 1
    BY <1>3
  <2> HIDE DEF names
  <2>3. Len(names) = 1
    BY <2>1, <2>2
  <2>4. QED
    BY <2>1, <2>3
<1>5. NamesOf(i) = [k \in 1..1 |-> IF k \in {1, 1} THEN names[k] ELSE "merged"]
  BY <1>3, <1>4 DEF NamesOf
<1>6. LineName(i) = names[1]
  BY <1>4 DEF LineName
<1>7. ASSUME NEW S PROVE i \in Containing(S) <=> names[1] \in S
  BY <1>4 DEF Containing
<1> HIDE DEF names
<1>8. NamesOf(i) = <<names[1]>>
  BY <1>5
<1>9. QED
  BY <1>6, <1>7, <1>8

\* Of the names that systemctl reads, those in S are the ones of the lines that
\* the wrapper puts with those of S.
LEMMA SameNames ==
  ASSUME ReaderTypeOK, PlainPairs, NEW S, NEW lines,
         lines \subseteq PairsOf("After"),
         \A i \in PairsOf("After") : i \in lines <=> i \in Containing(S)
  PROVE  Among(InOrder(Names(PairsOf("After"))), S) = NamesIn(lines)
<1> DEFINE f == Names(PairsOf("After"))
           g == [i \in lines |-> <<LineName(i)>>]
<1>1. DOMAIN f = PairsOf("After") /\ \A i \in PairsOf("After") : f[i] = NamesOf(i)
  BY DEF Names
<1>2. DOMAIN g = lines /\ \A i \in lines : g[i] = <<LineName(i)>>
  OBVIOUS
<1>3. file \in Seq(FileLine) /\ PairsOf("After") \subseteq DOMAIN file
  BY PairFacts DEF ReaderTypeOK
<1>4. IsNaming(f, Vocabulary)
  BY <1>3, NamesAreNaming
<1> HIDE DEF f, g
<1>5. ASSUME NEW i \in DOMAIN f PROVE Selects(g, f, S, i)
  <2>1. f[i] = <<LineName(i)>> /\ (i \in lines <=> LineName(i) \in S)
    BY <1>1, OneName
  <2>2. QED
    BY <1>2, <2>1 DEF Selects
<1>6. Among(InOrder(f), S) = InOrder(g)
  BY <1>1, <1>2, <1>3, <1>4, <1>5, InOrderFilters
<1>7. QED
  BY <1>6 DEF NamesIn, f, g

\* A file that the wrapper accepts means the same to systemctl and to the wrapper.
THEOREM ReadersDoAgree == ReaderSpec => []ReadersAgree
<1>1. ReaderInv /\ SectionInv /\ ServiceInv => ReadersAgree
  <2> SUFFICES ASSUME ReaderInv, SectionInv, ServiceInv,
                      reading = "done", WellFormed, PlainPairs, Accepts
               PROVE  ReadersAgree
    BY DEF ReadersAgree
  <2>1. stream = "eof" /\ Covers(unit, next)
    BY DEF SectionInv, Plain, AtEnd
  <2>2. /\ ReaderTypeOK /\ next \in Nat /\ next > Len(file) /\ Len(file) \in Nat
        /\ DOMAIN file = 1..Len(file) /\ (newline => next = Len(file) + 2)
    BY <2>1, FileFacts DEF ReaderInv, ReaderTypeOK, StreamInv
  <2>3. /\ Among(unit.after, ServiceNames) = WrapperAfter.services
        /\ Among(unit.after, TargetNames) = WrapperAfter.files
    <3>1. unit.after = InOrder(Names(PairsOf("After")))
      BY <2>1, <2>2, CoversAll
    <3>2. \A i \in PairsOf("After") :
             i \in Containing(TargetNames) \ Containing(ServiceNames)
               <=> i \in Containing(TargetNames)
      BY <2>2, OneName, NamesAssumption
    <3>3. Among(unit.after, ServiceNames) = NamesIn(Containing(ServiceNames))
      BY <2>2, <3>1, SameNames DEF Containing
    <3>4. Containing(TargetNames) \ Containing(ServiceNames) \subseteq PairsOf("After")
      BY DEF Containing
    <3>5. Among(unit.after, TargetNames) =
            NamesIn(Containing(TargetNames) \ Containing(ServiceNames))
      BY <2>2, <3>1, <3>2, <3>4, SameNames
    <3>6. QED
      BY <3>3, <3>5 DEF WrapperAfter
  <2>4. ASSUME Cardinality({i \in DOMAIN file : file[i].text = "[Service]"}) = 1,
               newline \/ Last(file).text # "[Service]",
               PairsOf("BusName") = {} \/ PairsOf("ExecStart") # {},
               \A i \in PairsOf("Type") : file[i].value \in TypeNames
        PROVE  unit.type = WrapperType
    <3> DEFINE S == {i \in DOMAIN file : file[i].text = "[Service]"}
    <3>1. IsFiniteSet(S)
      <4>1. IsFiniteSet(1..Len(file))
        BY <2>2, FS_Interval
      <4>2. S \in SUBSET (1..Len(file))
        BY <2>2
      <4>3. QED
        BY <4>1, <4>2, FS_Subset
    <3>2. PICK h : S = {h}
      BY <2>4, <3>1, FS_Singleton
    <3>3. h \in DOMAIN file /\ file[h].text = "[Service]"
          /\ \A i \in DOMAIN file : i # h => file[i].text # "[Service]"
      BY <3>2
    <3>4. Heading(h)
      BY <2>2, <3>3, HeadingText DEF Sections
    <3>5. newline \/ h # Len(file)
      BY <2>4, <3>3 DEF Last
    <3>6. SoleService(h) /\ Agreeable
      BY <2>4, <3>3, <3>4, <3>5 DEF SoleService, Agreeable, Plain
    <3>7. h < next - 1
      <4>1. CASE newline
        BY <2>2, <3>3, <4>1
      <4>2. CASE h # Len(file)
        BY <2>2, <3>3, <4>2
      <4>3. QED
        BY <3>5, <4>1, <4>2
    <3>8. QED
      BY <3>3, <3>6, <3>7 DEF ServiceInv
  <2>5. QED
    BY <2>3, <2>4 DEF ReadersAgree
<1>2. QED
  BY <1>1, ReaderInvariant, SectionInvariant, ServiceInvariant, PTL
=============================================================================
