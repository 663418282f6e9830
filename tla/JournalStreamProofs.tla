--------------------------- MODULE JournalStreamProofs ---------------------------
(***************************************************************************)
(* What JournalStream keeps, proved for any threads, uses of the stream    *)
(* and sizes of its buffer.                                                *)
(***************************************************************************)
EXTENDS JournalStream, SequenceTheorems, FiniteSetTheorems, TLAPS

\* The characters of the lines, and the final null.
Glyph == {"null"} \cup
  UNION {UNION {{u.line[t][i] : i \in DOMAIN u.line[t]} : t \in Threads} : u \in Uses}

Places == {"idle", "put", "load", "store", "flush", "reset", "sync"}
Writer == [pc: Places, k: Nat, p: Nat, wrote: BOOLEAN]
Output == [by: Threads, text: Seq(Glyph), stale: BOOLEAN]

\* A thread is at the start of its line, inside it, or behind its newline.
InLine(t) ==
  /\ writer[t].pc = "idle" => writer[t].k = 1
  /\ writer[t].pc # "idle" => writer[t].k \in 1..Len(Line(t))
  /\ writer[t].pc \in {"flush", "reset", "sync"} => writer[t].k = Len(Line(t))
  /\ writer[t].pc = "store" => writer[t].p <= Limit + Beyond

\* Inductive.
StreamTyped ==
  /\ use \in Uses /\ opened \in 0..Len(use.opens) /\ held \in {Invalid, opened} /\ handle \in 0..opened
  /\ toFile \in BOOLEAN /\ failed \in BOOLEAN /\ overlap \in BOOLEAN
  /\ current \in Nat /\ chars \in [0..Limit + Beyond -> Glyph]
  /\ writer \in [Threads -> Writer] /\ out \in Seq(Output)
  /\ \A t \in Threads : InLine(t)

LEMMA FunctionSet ==
  ASSUME NEW S, NEW T, NEW f \in [S -> T], NEW x, NEW v \in T
  PROVE  [f EXCEPT ![x] = v] \in [S -> T]
OBVIOUS

LEMMA FunctionAll ==
  ASSUME NEW S, NEW T, NEW v \in T
  PROVE  [x \in S |-> v] \in [S -> T]
OBVIOUS

-----------------------------------------------------------------------------
(* How a thread moves.                                                     *)

Moved(t, at, k, p, wrote) ==
  /\ writer' \in [Threads -> Writer]
  /\ writer'[t].pc = at /\ writer'[t].k = k /\ writer'[t].p = p /\ writer'[t].wrote = wrote
  /\ \A u \in Threads : u # t => writer'[u] = writer[u]

LEMMA WriterSet ==
  ASSUME writer \in [Threads -> Writer], NEW t \in Threads, NEW w \in Writer,
         writer' = [writer EXCEPT ![t] = w]
  PROVE  Moved(t, w.pc, w.k, w.p, w.wrote)
BY DEF Moved

LEMMA Fields ==
  ASSUME NEW w \in Writer
  PROVE  w.pc \in Places /\ w.k \in Nat /\ w.p \in Nat /\ w.wrote \in BOOLEAN
BY DEF Writer

LEMMA MovedTo ==
  ASSUME writer \in [Threads -> Writer], NEW t \in Threads, NEW at \in Places,
         writer' = [writer EXCEPT ![t].pc = at]
  PROVE  Moved(t, at, writer[t].k, writer[t].p, writer[t].wrote)
<1>1. [writer[t] EXCEPT !.pc = at] \in Writer
  BY DEF Writer
<1>2. QED
  BY <1>1, WriterSet DEF Writer

\* The records that the steps make of a thread's.
GoesOn(w, v, k) == w \in Writer /\ w.pc = "put" /\ w.k = k /\ w.p = v.p /\ w.wrote = v.wrote

LEMMA WriterGoesOn ==
  ASSUME NEW v \in Writer, NEW k \in Nat, NEW w, w = [v EXCEPT !.pc = "put", !.k = k]
  PROVE  GoesOn(w, v, k)
BY DEF Writer, Places, GoesOn

LEMMA WriterP ==
  ASSUME NEW v \in Writer, NEW p \in Nat, NEW w, w = [v EXCEPT !.p = p]
  PROVE  w \in Writer /\ w.pc = v.pc /\ w.k = v.k /\ w.p = p /\ w.wrote = v.wrote
BY DEF Writer

LEMMA WriterBegins ==
  ASSUME NEW v \in Writer, NEW w, w = [[v EXCEPT !.pc = "put"] EXCEPT !.wrote = TRUE]
  PROVE  w \in Writer /\ w.pc = "put" /\ w.k = v.k /\ w.p = v.p /\ w.wrote = TRUE
BY DEF Writer, Places

\* What is known of a use of the stream.
LEMMA UseFacts ==
  ASSUME StreamTyped
  PROVE  /\ use.opens \in Seq(OutputType) /\ Len(use.opens) \in Nat /\ opened \in Nat
         /\ \A t \in Threads : /\ Line(t) \in Seq(STRING) /\ Len(Line(t)) \in Nat
                               /\ \A i \in 1..Len(Line(t)) : Line(t)[i] = NL <=> i = Len(Line(t))
         /\ Limit \in Nat \ {0} /\ Beyond \in Nat /\ Main \in Threads
<1>1. use \in Use /\ use \in Uses
  BY StreamAssumption DEF StreamTyped
<1>2. use.opens \in Seq(OutputType) /\ Len(use.opens) \in Nat /\ opened \in Nat
  BY <1>1 DEF Use, StreamTyped
<1>3. ASSUME NEW t \in Threads
      PROVE  /\ Line(t) \in Seq(STRING) /\ Len(Line(t)) \in Nat
             /\ \A i \in 1..Len(Line(t)) : Line(t)[i] = NL <=> i = Len(Line(t))
  <2>1. use.line[t] \in Seq(STRING)
    BY <1>1 DEF Use
  <2>2. DOMAIN use.line[t] = 1..Len(use.line[t]) /\ Len(use.line[t]) \in Nat
    BY <2>1, LenProperties
  <2>3. QED
    BY <1>1, <2>1, <2>2, StreamAssumption DEF Line
<1>4. QED
  BY <1>2, <1>3, StreamAssumption

LEMMA LineGlyphs ==
  ASSUME StreamTyped, NEW t \in Threads, NEW i \in 1..Len(Line(t))
  PROVE  Line(t)[i] \in Glyph
<1>1. use \in Uses
  BY DEF StreamTyped
<1>2. i \in DOMAIN use.line[t]
  BY UseFacts, LenProperties DEF Line
<1>3. Line(t)[i] \in {use.line[t][j] : j \in DOMAIN use.line[t]}
  BY <1>2, Zenon DEF Line
<1>4. Line(t)[i] \in UNION {{use.line[v][j] : j \in DOMAIN use.line[v]} : v \in Threads}
  <2> DEFINE Of(v) == {use.line[v][j] : j \in DOMAIN use.line[v]}
  <2>1. Line(t)[i] \in Of(t)
    BY <1>3
  <2> HIDE DEF Of
  <2>2. Line(t)[i] \in UNION {Of(v) : v \in Threads}
    BY <2>1
  <2>3. QED
    BY <2>2 DEF Of
<1>5. QED
  <2> DEFINE All(u) == UNION {{u.line[v][j] : j \in DOMAIN u.line[v]} : v \in Threads}
  <2>1. Line(t)[i] \in All(use)
    BY <1>4
  <2> HIDE DEF All
  <2>2. Line(t)[i] \in UNION {All(u) : u \in Uses}
    BY <1>1, <2>1
  <2>3. QED
    BY <2>2 DEF All, Glyph

LEMMA MainHasLine ==
  ASSUME StreamTyped, opened < Len(use.opens)
  PROVE  Len(Line(Main)) \in Nat \ {0}
<1>1. use.opens # << >>
  BY UseFacts
<1>2. use.line[Main] # << >>
  BY <1>1, StreamAssumption DEF StreamTyped
<1>3. Line(Main) \in Seq(STRING)
  BY UseFacts
<1>4. QED
  BY <1>2, <1>3, LenProperties, EmptySeq DEF Line

\* AfterChar changes the record of the thread alone.
LEMMA AfterCharRecord ==
  ASSUME StreamTyped, NEW t \in Threads, writer[t].pc # "idle"
  PROVE  \E w \in Writer :
           /\ AfterChar(t) = [writer EXCEPT ![t] = w] /\ w.p = writer[t].p /\ w.wrote = writer[t].wrote
           /\ \/ writer[t].k = Len(Line(t)) /\ w.pc = "flush" /\ w.k = writer[t].k
              \/ writer[t].k + 1 \in 1..Len(Line(t)) /\ w.pc = "put" /\ w.k = writer[t].k + 1
<1>1. /\ writer \in [Threads -> Writer] /\ writer[t] \in Writer /\ writer[t].k \in 1..Len(Line(t))
      /\ "flush" \in Places /\ "put" \in Places
  BY DEF StreamTyped, InLine, Places
<1>2. Char(t) = NL <=> writer[t].k = Len(Line(t))
  BY <1>1, UseFacts DEF Char
<1>3. CASE Char(t) = NL
  <2> DEFINE w == [writer[t] EXCEPT !.pc = "flush"]
  <2>1. w \in Writer /\ w.pc = "flush" /\ w.k = writer[t].k /\ w.p = writer[t].p /\ w.wrote = writer[t].wrote
    BY <1>1 DEF Writer, Places
  <2>2. AfterChar(t) = [writer EXCEPT ![t] = w]
    BY <1>3, Zenon DEF AfterChar
  <2> HIDE DEF w
  <2>3. QED
    BY <1>2, <1>3, <2>1, <2>2
<1>4. CASE Char(t) # NL
  <2>1. PICK k \in Nat : k = writer[t].k + 1
    BY <1>1
  <2> DEFINE w == [writer[t] EXCEPT !.pc = "put", !.k = k]
  <2>2. GoesOn(w, writer[t], k)
    BY <1>1, WriterGoesOn, Zenon
  <2>3. AfterChar(t) = [writer EXCEPT ![t] = w]
    BY <1>4, <2>1, Zenon DEF AfterChar
  <2> HIDE DEF w
  <2>4. writer[t].k + 1 \in 1..Len(Line(t))
    BY <1>1, <1>2, <1>4, UseFacts
  <2>5. QED
    BY <2>1, <2>2, <2>3, <2>4 DEF GoesOn
<1>5. QED
  BY <1>3, <1>4

LEMMA CharMoves ==
  ASSUME StreamTyped, NEW t \in Threads, writer[t].pc # "idle", writer' = AfterChar(t)
  PROVE  \/ /\ writer[t].k = Len(Line(t))
            /\ Moved(t, "flush", writer[t].k, writer[t].p, writer[t].wrote)
         \/ /\ writer[t].k + 1 \in 1..Len(Line(t))
            /\ Moved(t, "put", writer[t].k + 1, writer[t].p, writer[t].wrote)
<1>1. PICK w \in Writer :
        /\ AfterChar(t) = [writer EXCEPT ![t] = w] /\ w.p = writer[t].p /\ w.wrote = writer[t].wrote
        /\ \/ writer[t].k = Len(Line(t)) /\ w.pc = "flush" /\ w.k = writer[t].k
           \/ writer[t].k + 1 \in 1..Len(Line(t)) /\ w.pc = "put" /\ w.k = writer[t].k + 1
  BY AfterCharRecord
<1>2. writer' = [writer EXCEPT ![t] = w] /\ writer \in [Threads -> Writer]
  BY <1>1 DEF StreamTyped
<1>3. Moved(t, w.pc, w.k, w.p, w.wrote)
  BY <1>2, WriterSet
<1>4. QED
  BY <1>1, <1>3

LEMMA StoreMoves ==
  ASSUME StreamTyped, NEW t \in Threads, Store(t)
  PROVE  \/ /\ writer[t].k = Len(Line(t))
            /\ Moved(t, "flush", writer[t].k, 0, writer[t].wrote)
         \/ /\ writer[t].k + 1 \in 1..Len(Line(t))
            /\ Moved(t, "put", writer[t].k + 1, 0, writer[t].wrote)
<1>1. PICK w \in Writer :
        /\ AfterChar(t) = [writer EXCEPT ![t] = w] /\ w.p = writer[t].p /\ w.wrote = writer[t].wrote
        /\ \/ writer[t].k = Len(Line(t)) /\ w.pc = "flush" /\ w.k = writer[t].k
           \/ writer[t].k + 1 \in 1..Len(Line(t)) /\ w.pc = "put" /\ w.k = writer[t].k + 1
  BY AfterCharRecord DEF Store, At
<1> DEFINE v == [w EXCEPT !.p = 0]
<1>2. v \in Writer /\ v.pc = w.pc /\ v.k = w.k /\ v.p = 0 /\ v.wrote = w.wrote
  BY WriterP, Zenon
<1>3. writer \in [Threads -> Writer]
  BY DEF StreamTyped
<1>4. AfterChar(t)[t] = w
  BY <1>1, <1>3
<1>5. writer' = [AfterChar(t) EXCEPT ![t] = v]
  BY <1>4, Zenon DEF Store
<1> HIDE DEF v
<1>6. writer' = [writer EXCEPT ![t] = v]
  BY <1>1, <1>3, <1>5
<1>7. Moved(t, v.pc, v.k, v.p, v.wrote)
  BY <1>2, <1>3, <1>6, WriterSet
<1>8. QED
  BY <1>1, <1>2, <1>7

LEMMA LoadMoves ==
  ASSUME StreamTyped, NEW t \in Threads, Load(t)
  PROVE  Moved(t, "store", writer[t].k, current, writer[t].wrote)
<1>1. writer \in [Threads -> Writer] /\ writer[t] \in Writer /\ current \in Nat
  BY DEF StreamTyped
<1> DEFINE w == [writer[t] EXCEPT !.pc = "store", !.p = current]
<1>2. /\ w \in Writer /\ w.pc = "store" /\ w.k = writer[t].k
      /\ w.p = current /\ w.wrote = writer[t].wrote
  BY <1>1 DEF Writer, Places
<1>3. writer' = [writer EXCEPT ![t] = w]
  BY <1>1 DEF Load
<1> HIDE DEF w
<1>4. QED
  BY <1>1, <1>2, <1>3, WriterSet

LEMMA SyncMoves ==
  ASSUME StreamTyped, NEW t \in Threads, Sync(t)
  PROVE  \/ current > 0 /\ Moved(t, "flush", writer[t].k, writer[t].p, writer[t].wrote)
         \/ current = 0 /\ Moved(t, "idle", 1, writer[t].p, writer[t].wrote)
<1>1. writer \in [Threads -> Writer] /\ writer[t] \in Writer /\ current \in Nat
  BY DEF StreamTyped
<1>2. CASE current > 0
  <2>1. writer' = [writer EXCEPT ![t].pc = "flush"] /\ "flush" \in Places
    BY <1>2 DEF Sync, Move, Places
  <2>2. QED
    BY <1>1, <1>2, <2>1, MovedTo
<1>3. CASE ~(current > 0)
  <2> DEFINE w == [writer[t] EXCEPT !.pc = "idle", !.k = 1]
  <2>1. /\ w \in Writer /\ w.pc = "idle" /\ w.k = 1
        /\ w.p = writer[t].p /\ w.wrote = writer[t].wrote
    BY <1>1 DEF Writer, Places
  <2>2. writer' = [writer EXCEPT ![t] = w]
    BY <1>3 DEF Sync
  <2> HIDE DEF w
  <2>3. Moved(t, w.pc, w.k, w.p, w.wrote)
    BY <1>1, <2>1, <2>2, WriterSet
  <2>4. current = 0
    BY <1>1, <1>3
  <2>5. QED
    BY <2>1, <2>3, <2>4
<1>4. QED
  BY <1>2, <1>3

LEMMA BeginMoves ==
  ASSUME StreamTyped, NEW t \in Threads, BeginLine(t)
  PROVE  Moved(t, "put", 1, writer[t].p, TRUE) /\ 1 \in 1..Len(Line(t))
<1>1. writer \in [Threads -> Writer] /\ writer[t] \in Writer /\ writer[t].k = 1
  BY DEF StreamTyped, InLine, BeginLine
<1> DEFINE v == [writer[t] EXCEPT !.pc = "put"]
           w == [v EXCEPT !.wrote = TRUE]
<1>2. w \in Writer /\ w.pc = "put" /\ w.k = writer[t].k /\ w.p = writer[t].p /\ w.wrote = TRUE
  BY <1>1, WriterBegins, Zenon
<1>3. [writer EXCEPT ![t].pc = "put"][t] = v
  BY <1>1
<1>4. writer' = [[writer EXCEPT ![t].pc = "put"] EXCEPT ![t].wrote = TRUE]
  BY DEF BeginLine
<1>5. writer' = [[writer EXCEPT ![t].pc = "put"] EXCEPT ![t] = w]
  BY <1>3, <1>4, Zenon
<1>6. [writer EXCEPT ![t].pc = "put"] = [writer EXCEPT ![t] = v]
  OBVIOUS
<1> HIDE DEF v, w
<1>7. writer' = [writer EXCEPT ![t] = w]
  BY <1>1, <1>5, <1>6
<1>8. Moved(t, w.pc, w.k, w.p, w.wrote)
  BY <1>1, <1>2, <1>7, WriterSet
<1>9. Line(t) \in Seq(STRING) /\ Line(t) # << >>
  BY UseFacts DEF BeginLine, Line
<1>10. 1 \in 1..Len(Line(t))
  BY <1>9, LenProperties, EmptySeq
<1>11. QED
  BY <1>1, <1>2, <1>8, <1>10

-----------------------------------------------------------------------------
(* Type correctness.                                                       *)

LEMMA InLineKept ==
  ASSUME StreamTyped, NEW t \in Threads, NEW at, NEW k, NEW p, NEW wrote, use' = use,
         Moved(t, at, k, p, wrote),
         at = "idle" => k = 1,
         at # "idle" => k \in 1..Len(Line(t)),
         at \in {"flush", "reset", "sync"} => k = Len(Line(t)),
         at = "store" => p <= Limit + Beyond
  PROVE  writer' \in [Threads -> Writer] /\ \A u \in Threads : InLine(u)'
<1>1. Line(t)' = Line(t) /\ \A u \in Threads : Line(u)' = Line(u)
  BY DEF Line
<1>2. InLine(t)'
  BY <1>1 DEF Moved, InLine
<1>3. ASSUME NEW u \in Threads, u # t PROVE InLine(u)'
  <2>1. InLine(u) /\ writer'[u] = writer[u]
    BY <1>3 DEF StreamTyped, Moved
  <2>2. QED
    BY <1>1, <2>1 DEF InLine
<1>4. QED
  BY <1>2, <1>3 DEF Moved

\* A step of a thread that is inside its line.
LEMMA WriterAt ==
  ASSUME StreamTyped, NEW t \in Threads, NEW at, At(t, at), at # "idle"
  PROVE  /\ writer[t].pc = at /\ writer[t].k \in 1..Len(Line(t)) /\ writer[t].p \in Nat
         /\ at \in {"flush", "reset", "sync"} => writer[t].k = Len(Line(t))
         /\ at = "store" => writer[t].p <= Limit + Beyond
BY DEF StreamTyped, InLine, At, Writer

LEMMA WriterStepTyped ==
  ASSUME StreamTyped, NEW t \in Threads, WriterStep(t)
  PROVE  StreamTyped'
<1>1. /\ use' = use /\ opened' = opened /\ held' = held /\ handle' = handle /\ failed' = failed
      /\ toFile' = toFile /\ overlap' = overlap
  BY DEF WriterStep, Put, Load, Store, Flush, Reset, Sync, StreamUnchanged
<1>2. /\ current \in Nat /\ chars \in [0..Limit + Beyond -> Glyph] /\ out \in Seq(Output)
      /\ writer \in [Threads -> Writer] /\ Limit \in Nat /\ Beyond \in Nat
  BY UseFacts DEF StreamTyped
<1>3. writer' \in [Threads -> Writer] /\ \A u \in Threads : InLine(u)'
  <2>1. CASE Put(t)
    <3>1. writer[t].pc = "put" /\ writer[t].k \in 1..Len(Line(t)) /\ "load" \in Places
      BY <2>1, WriterAt DEF Put, Places
    <3>2. CASE HasRoom
      <4>1. Moved(t, "load", writer[t].k, writer[t].p, writer[t].wrote)
        BY <1>2, <2>1, <3>1, <3>2, MovedTo DEF Put, Move
      <4>2. QED
        BY <1>1, <3>1, <4>1, InLineKept
    <3>3. CASE ~HasRoom
      <4>1. writer' = AfterChar(t)
        BY <2>1, <3>3 DEF Put
      <4>2. QED
        BY <1>1, <3>1, <4>1, CharMoves, InLineKept
    <3>4. QED
      BY <3>2, <3>3
  <2>2. CASE Load(t)
    <3>1. writer[t].k \in 1..Len(Line(t)) /\ current <= Limit + Beyond
      BY <2>2, WriterAt DEF Load
    <3>2. QED
      BY <1>1, <2>2, <3>1, LoadMoves, InLineKept
  <2>3. CASE Store(t)
    <3>1. writer[t].k \in 1..Len(Line(t))
      BY <2>3, WriterAt DEF Store
    <3>2. QED
      BY <1>1, <2>3, <3>1, StoreMoves, InLineKept
  <2>4. CASE Flush(t) \/ Reset(t)
    <3>1. /\ writer[t].k \in 1..Len(Line(t)) /\ writer[t].k = Len(Line(t))
          /\ "reset" \in Places /\ "sync" \in Places
      BY <2>4, WriterAt DEF Flush, Reset, Places
    <3>2. PICK at \in {"reset", "sync"} : writer' = [writer EXCEPT ![t].pc = at]
      BY <2>4 DEF Flush, Reset, Move
    <3>3. Moved(t, at, writer[t].k, writer[t].p, writer[t].wrote)
      BY <1>2, <3>1, <3>2, MovedTo
    <3>4. QED
      BY <1>1, <3>1, <3>3, InLineKept
  <2>5. CASE Sync(t)
    <3>1. writer[t].k \in 1..Len(Line(t)) /\ writer[t].k = Len(Line(t))
      BY <2>5, WriterAt DEF Sync
    <3>2. QED
      BY <1>1, <2>5, <3>1, SyncMoves, InLineKept
  <2>6. QED
    BY <2>1, <2>2, <2>3, <2>4, <2>5 DEF WriterStep
<1>4. current' \in Nat
  <2>1. CASE Store(t)
    <3>1. writer[t].p \in Nat
      BY <2>1, WriterAt DEF Store
    <3>2. QED
      BY <2>1, <3>1 DEF Store
  <2>2. CASE ~Store(t)
    BY <1>2, <2>2 DEF WriterStep, Put, Load, Flush, Reset, Rewound, Sync
  <2>3. QED
    BY <2>1, <2>2
<1>5. chars' \in [0..Limit + Beyond -> Glyph]
  <2>1. CASE Store(t)
    <3>1. writer[t].k \in 1..Len(Line(t))
      BY <2>1, WriterAt DEF Store
    <3>2. Char(t) \in Glyph
      BY <3>1, LineGlyphs DEF Char
    <3>3. chars' = [chars EXCEPT ![writer[t].p] = Char(t)]
      BY <2>1 DEF Store
    <3>4. QED
      BY <1>2, <3>2, <3>3, FunctionSet, Zenon
  <2>2. CASE Flush(t)
    <3>1. chars' = [chars EXCEPT ![current] = "null"] /\ "null" \in Glyph
      BY <2>2 DEF Flush, Glyph
    <3>2. QED
      BY <1>2, <3>1, FunctionSet, Zenon
  <2>3. CASE ~Store(t) /\ ~Flush(t)
    <3>1. chars' = chars
      BY <2>3 DEF WriterStep, Put, Load, Reset, Sync
    <3>2. QED
      BY <1>2, <3>1
  <2>4. QED
    BY <2>1, <2>2, <2>3
<1>6. out' \in Seq(Output)
  <2>1. CASE Flush(t)
    <3>1. Written \in Seq(Glyph)
      <4>1. \A i \in 1..current : i - 1 \in 0..Limit + Beyond
        BY <1>2, <2>1 DEF Flush
      <4>2. \A i \in 1..current : chars[i - 1] \in Glyph
        BY <1>2, <4>1
      <4>3. QED
        BY <1>2, <4>2 DEF Written
    <3>2. [by |-> t, text |-> Written, stale |-> handle # held] \in Output
      BY <3>1 DEF Output
    <3>3. QED
      BY <1>2, <2>1, <3>2, AppendProperties DEF Flush
  <2>2. CASE ~Flush(t)
    BY <1>2, <2>2 DEF WriterStep, Put, Load, Store, Reset, Sync
  <2>3. QED
    BY <2>1, <2>2
<1>7. QED
  BY <1>1, <1>3, <1>4, <1>5, <1>6 DEF StreamTyped

LEMMA BeginLineTyped ==
  ASSUME StreamTyped, NEW t \in Threads, BeginLine(t)
  PROVE  StreamTyped'
<1>1. /\ use' = use /\ opened' = opened /\ held' = held /\ handle' = handle /\ failed' = failed
      /\ toFile' = toFile /\ current' = current /\ chars' = chars /\ out' = out
      /\ overlap' \in BOOLEAN
  BY DEF BeginLine, StreamTyped
<1>2. writer' \in [Threads -> Writer] /\ \A u \in Threads : InLine(u)'
  BY <1>1, BeginMoves, InLineKept
<1>3. QED
  BY <1>1, <1>2 DEF StreamTyped

\* OpenStream and OpenFails.
LEMMA OpenTyped ==
  ASSUME StreamTyped, OpenStream \/ OpenFails
  PROVE  StreamTyped'
<1>1. /\ use' = use /\ current' = current /\ chars' = chars /\ out' = out /\ overlap' = overlap
      /\ Quiet /\ opened < Len(use.opens)
  BY UseFacts DEF OpenStream, OpenFails, AllOpened, StreamTyped
<1>2. opened \in Nat /\ Len(use.opens) \in Nat /\ handle \in 0..opened /\ held \in {0, opened}
  BY UseFacts DEF StreamTyped, Invalid
<1>3. /\ opened' \in 0..Len(use.opens) /\ held' \in {Invalid, opened'} /\ handle' \in 0..opened'
      /\ toFile' \in BOOLEAN /\ failed' \in BOOLEAN
  <2>1. ClosedHandle \in 0..opened
    BY <1>2 DEF ClosedHandle, Invalid
  <2>2. CASE OpenStream
    <3>1. /\ opened' = opened + 1 /\ failed' = failed
          /\ \/ held' = opened' /\ handle' = opened' /\ toFile' = TRUE
             \/ held' = Invalid /\ handle' = ClosedHandle /\ toFile' = toFile
      BY <2>2 DEF OpenStream, GivenHandle
    <3>2. opened' \in 0..Len(use.opens) /\ opened' \in 0..opened' /\ 0 \in 0..opened'
          /\ 0..opened \subseteq 0..opened'
      BY <1>1, <1>2, <3>1
    <3>3. QED
      BY <1>2, <2>1, <3>1, <3>2 DEF Invalid, StreamTyped
  <2>3. CASE OpenFails
    <3>1. /\ opened' = opened /\ failed' = TRUE /\ held' = Invalid /\ handle' = ClosedHandle
          /\ toFile' = TRUE
      BY <2>3 DEF OpenFails
    <3>2. QED
      BY <1>1, <1>2, <2>1, <3>1 DEF Invalid, StreamTyped
  <2>4. QED
    BY <2>2, <2>3
<1>4. writer' \in [Threads -> Writer] /\ \A u \in Threads : InLine(u)'
  <2>1. CASE writer' = [writer EXCEPT ![Main].pc = "put"]
    <3>1. "put" \in Places /\ Main \in Threads /\ writer \in [Threads -> Writer]
      BY UseFacts DEF Places, StreamTyped
    <3>2. Moved(Main, "put", writer[Main].k, writer[Main].p, writer[Main].wrote)
      BY <2>1, <3>1, MovedTo
    <3>3. writer[Main].k = 1
      BY <1>1, <3>1 DEF Quiet, StreamTyped, InLine
    <3>4. 1 \in 1..Len(Line(Main))
      BY <1>1, MainHasLine
    <3>5. QED
      BY <1>1, <3>1, <3>2, <3>3, <3>4, InLineKept
  <2>2. CASE writer' = writer
    BY <1>1, <2>2 DEF StreamTyped, InLine, Line
  <2>3. QED
    BY <2>1, <2>2 DEF OpenStream, OpenFails
<1>5. QED
  BY <1>1, <1>3, <1>4 DEF StreamTyped

LEMMA StreamInitTyped == StreamInit => StreamTyped
<1> SUFFICES ASSUME StreamInit PROVE StreamTyped
  OBVIOUS
<1>1. writer \in [Threads -> Writer] /\ \A t \in Threads : writer[t].pc = "idle" /\ writer[t].k = 1
  BY DEF StreamInit, Writer, Places
<1>2. \A t \in Threads : InLine(t)
  BY <1>1 DEF InLine
<1>3. Len(use.opens) \in Nat
  <2>1. use \in Use
    BY StreamAssumption DEF StreamInit
  <2>2. QED
    BY <2>1 DEF Use
<1>4. chars \in [0..Limit + Beyond -> Glyph]
  <2>1. "null" \in Glyph
    BY DEF Glyph
  <2>2. QED
    BY <2>1, FunctionAll, Zenon DEF StreamInit
<1>5. out \in Seq(Output)
  BY EmptySeq DEF StreamInit
<1>6. /\ use \in Uses /\ opened = 0 /\ held = 0 /\ handle = 0 /\ toFile = FALSE /\ current = 0
      /\ failed = FALSE /\ overlap = FALSE
  BY DEF StreamInit, Invalid
<1>7. opened \in 0..Len(use.opens) /\ held \in {Invalid, opened} /\ handle \in 0..opened /\ current \in Nat
  BY <1>3, <1>6 DEF Invalid
<1>8. toFile \in BOOLEAN /\ failed \in BOOLEAN /\ overlap \in BOOLEAN
  BY <1>6
<1>9. QED
  BY <1>1, <1>2, <1>4, <1>5, <1>6, <1>7, <1>8, Zenon DEF StreamTyped

LEMMA StreamStepTyped ==
  ASSUME StreamTyped, [StreamNext]_streamVars
  PROVE  StreamTyped'
<1>1. CASE UNCHANGED streamVars
  BY <1>1 DEF streamVars, StreamTyped, InLine, Line
<1>2. CASE StreamNext
  BY <1>2, OpenTyped, BeginLineTyped, WriterStepTyped DEF StreamNext
<1>3. QED
  BY <1>1, <1>2

(* Type correctness: a thread's place is in its line, a handle is one that *)
(* was opened, the buffer keeps its size, for any threads and uses.        *)
THEOREM StreamTypeCorrect == StreamSpec => []StreamTypeOK
<1>1. StreamTyped => StreamTypeOK
  <2> SUFFICES ASSUME StreamTyped PROVE StreamTypeOK
    OBVIOUS
  <2>1. \A t \in Threads : writer[t].k = 1 \/ writer[t].k \in DOMAIN Line(t)
    <3>1. SUFFICES ASSUME NEW t \in Threads PROVE writer[t].k = 1 \/ writer[t].k \in DOMAIN Line(t)
      OBVIOUS
    <3>2. DOMAIN Line(t) = 1..Len(Line(t))
      BY UseFacts, LenProperties
    <3>3. InLine(t)
      BY DEF StreamTyped
    <3>4. QED
      BY <3>2, <3>3 DEF InLine
  <2>2. QED
    BY <2>1 DEF StreamTyped, StreamTypeOK
<1>2. QED
  BY <1>1, StreamInitTyped, StreamStepTyped, PTL DEF StreamSpec

-----------------------------------------------------------------------------
(* What is in the buffer, as long as no two threads were in it at once.    *)

Inside(t) == writer[t].pc # "idle"
Cut(n) == IF n <= Limit THEN n ELSE Limit

\* The buffer holds the first n characters of t's line.
Filled(t, n) == current = n /\ \A i \in 1..n : chars[i - 1] = Line(t)[i]

BufferOf(t) ==
  /\ At(t, "put") => Filled(t, Cut(writer[t].k - 1))
  /\ At(t, "load") => writer[t].k - 1 < Limit /\ Filled(t, writer[t].k - 1)
  /\ At(t, "store") => /\ writer[t].k - 1 < Limit /\ writer[t].p = writer[t].k - 1
                       /\ Filled(t, writer[t].k - 1)
  /\ At(t, "flush") => Filled(t, Cut(Len(Line(t))))
  /\ At(t, "sync") => current = 0

\* Inductive, with StreamTyped.
BufferInv == ~overlap =>
  /\ \A t, u \in Threads : Inside(t) /\ Inside(u) => t = u
  /\ Quiet => current = 0
  /\ \A t \in Threads : BufferOf(t)

\* Main's move in OpenStream and OpenFails.
LEMMA OpenMoves ==
  ASSUME StreamTyped, OpenStream \/ OpenFails
  PROVE  writer' = writer \/ Moved(Main, "put", 1, writer[Main].p, writer[Main].wrote)
<1>1. Quiet
  BY DEF OpenStream, OpenFails
<1>2. CASE writer' = [writer EXCEPT ![Main].pc = "put"]
  <2>1. "put" \in Places /\ Main \in Threads /\ writer \in [Threads -> Writer]
    BY UseFacts DEF Places, StreamTyped
  <2>2. Moved(Main, "put", writer[Main].k, writer[Main].p, writer[Main].wrote)
    BY <1>2, <2>1, MovedTo
  <2>3. writer[Main].k = 1
    BY <1>1, <2>1 DEF Quiet, StreamTyped, InLine
  <2>4. QED
    BY <2>2, <2>3
<1>3. CASE writer' = writer
  BY <1>3
<1>4. QED
  BY <1>2, <1>3 DEF OpenStream, OpenFails

\* The number of characters that the buffer takes of the first n.
LEMMA CutFacts ==
  /\ Cut(0) = 0
  /\ \A n \in Nat : Cut(n) \in Nat /\ Cut(n) <= n /\ Cut(n) <= Limit
  /\ \A n \in Nat : Cut(n) < Limit => Cut(n) = n
  /\ \A n \in Nat : n < Limit => Cut(n) = n /\ Cut(n + 1) = n + 1
  /\ \A n \in Nat : ~(Cut(n) < Limit) => Cut(n + 1) = Cut(n)
<1>1. Limit \in Nat \ {0}
  BY StreamAssumption
<1>2. QED
  BY <1>1 DEF Cut

\* After a step of the one thread that is inside a line.
LEMMA BufferKept ==
  ASSUME StreamTyped, NEW t \in Threads, NEW at, NEW k, NEW p, NEW wrote, Moved(t, at, k, p, wrote),
         \A u \in Threads : u # t => writer[u].pc = "idle",
         at = "idle" => current' = 0,
         BufferOf(t)'
  PROVE  BufferInv'
<1>1. writer'[t].pc = at /\ \A u \in Threads : u # t => writer'[u].pc = "idle"
  BY DEF Moved
<1>2. \A u \in Threads : u # t => BufferOf(u)'
  BY <1>1 DEF BufferOf, At
<1>3. \A u, v \in Threads : Inside(u)' /\ Inside(v)' => u = v
  BY <1>1 DEF Inside
<1>4. Quiet' => current' = 0
  BY <1>1 DEF Quiet
<1>5. QED
  BY <1>2, <1>3, <1>4 DEF BufferInv

\* After a character, when the buffer holds the line up to it.
LEMMA CharBuffer ==
  ASSUME StreamTyped, NEW t \in Threads, NEW p, writer[t].k \in Nat, Line(t)' = Line(t),
         \/ /\ writer[t].k = Len(Line(t))
            /\ Moved(t, "flush", writer[t].k, p, writer[t].wrote)
         \/ /\ writer[t].k + 1 \in 1..Len(Line(t))
            /\ Moved(t, "put", writer[t].k + 1, p, writer[t].wrote),
         \A u \in Threads : u # t => writer[u].pc = "idle",
         current' = Cut(writer[t].k),
         \A i \in 1..Cut(writer[t].k) : chars'[i - 1] = Line(t)'[i]
  PROVE  BufferInv'
<1>1. CASE /\ writer[t].k = Len(Line(t))
           /\ Moved(t, "flush", writer[t].k, p, writer[t].wrote)
  <2>1. BufferOf(t)'
    BY <1>1 DEF BufferOf, At, Moved, Filled, Cut
  <2>2. QED
    BY <1>1, <2>1, BufferKept
<1>2. CASE /\ writer[t].k + 1 \in 1..Len(Line(t))
           /\ Moved(t, "put", writer[t].k + 1, p, writer[t].wrote)
  <2>1. writer'[t].pc = "put" /\ writer'[t].k - 1 = writer[t].k
    BY <1>2 DEF Moved
  <2>2. BufferOf(t)'
    BY <2>1 DEF BufferOf, At, Filled, Cut
  <2>3. QED
    BY <1>2, <2>2, BufferKept
<1>3. QED
  BY <1>1, <1>2

LEMMA WriterStepBuffer ==
  ASSUME StreamTyped, BufferInv, NEW t \in Threads, WriterStep(t)
  PROVE  BufferInv'
<1>1. use' = use /\ overlap' = overlap
  BY DEF WriterStep, Put, Load, Store, Flush, Reset, Sync, StreamUnchanged
<1>2. CASE overlap
  BY <1>1, <1>2 DEF BufferInv
<1>3. CASE ~overlap
  <2>1. BufferOf(t) /\ \A u, v \in Threads : Inside(u) /\ Inside(v) => u = v
    BY <1>3 DEF BufferInv
  <2>2. Inside(t)
    BY DEF WriterStep, Put, Load, Store, Flush, Reset, Sync, At, Inside
  <2>3. \A u \in Threads : u # t => writer[u].pc = "idle"
    BY <2>1, <2>2 DEF Inside
  <2>4. Line(t)' = Line(t)
    BY <1>1 DEF Line
  <2>5. /\ writer[t].k \in 1..Len(Line(t)) /\ Len(Line(t)) \in Nat /\ Limit \in Nat \ {0}
        /\ writer[t].k \in Nat /\ writer[t].k - 1 \in Nat /\ (writer[t].k - 1) + 1 = writer[t].k
        /\ current \in Nat /\ writer \in [Threads -> Writer] /\ (writer[t].k + 1) - 1 = writer[t].k
    <3>1. Len(Line(t)) \in Nat /\ Limit \in Nat \ {0}
      BY UseFacts
    <3>2. current \in Nat /\ writer \in [Threads -> Writer] /\ InLine(t)
      BY DEF StreamTyped
    <3>3. writer[t].k \in 1..Len(Line(t))
      BY <2>2, <3>2 DEF InLine, Inside
    <3> DEFINE k == writer[t].k
               len == Len(Line(t))
    <3>4. k \in 1..len /\ len \in Nat
      BY <3>1, <3>3
    <3> HIDE DEF k, len
    <3>5. k \in Nat /\ k - 1 \in Nat /\ (k - 1) + 1 = k /\ (k + 1) - 1 = k
      BY <3>4
    <3>6. QED
      BY <3>1, <3>2, <3>4, <3>5 DEF k, len
  <2>6. CASE Put(t)
    <3>1. Filled(t, Cut(writer[t].k - 1)) /\ writer[t].pc = "put" /\ "load" \in Places
      BY <2>1, <2>6 DEF BufferOf, Put, At, Places
    <3>2. current' = current /\ chars' = chars
      BY <2>6 DEF Put
    <3>3. CASE HasRoom
      <4>1. Moved(t, "load", writer[t].k, writer[t].p, writer[t].wrote)
        BY <2>5, <2>6, <3>1, <3>3, MovedTo DEF Put, Move
      <4>2. current = Cut(writer[t].k - 1) /\ current < Limit
        BY <3>1, <3>3 DEF Filled, HasRoom
      <4>3. Cut(writer[t].k - 1) = writer[t].k - 1
        BY <2>5, <4>2, CutFacts
      <4>4. Filled(t, writer[t].k - 1)'
        BY <2>4, <3>1, <3>2, <4>1, <4>3 DEF Filled, Moved
      <4>5. BufferOf(t)'
        BY <4>1, <4>2, <4>3, <4>4 DEF BufferOf, At, Moved
      <4>6. QED
        BY <2>3, <4>1, <4>5, BufferKept
    <3>4. CASE ~HasRoom
      <4>1. writer' = AfterChar(t) /\ writer[t].pc # "idle"
        BY <2>6, <3>1, <3>4 DEF Put
      <4>2. Cut(writer[t].k) = Cut(writer[t].k - 1)
        BY <2>5, <3>1, <3>4, CutFacts DEF Filled, HasRoom
      <4>3. current' = Cut(writer[t].k) /\ \A i \in 1..Cut(writer[t].k) : chars'[i - 1] = Line(t)'[i]
        BY <2>4, <3>1, <3>2, <4>2 DEF Filled
      <4>4. QED
        BY <2>3, <2>4, <2>5, <4>1, <4>3, CharMoves, CharBuffer
    <3>5. QED
      BY <3>3, <3>4
  <2>7. CASE Load(t)
    <3>1. writer[t].k - 1 < Limit /\ Filled(t, writer[t].k - 1)
      BY <2>1, <2>7 DEF BufferOf, Load
    <3>2. current' = current /\ chars' = chars
      BY <2>7 DEF Load
    <3>3. Moved(t, "store", writer[t].k, current, writer[t].wrote)
      BY <2>7, LoadMoves
    <3>4. Filled(t, writer[t].k - 1)'
      BY <2>4, <3>1, <3>2, <3>3 DEF Filled, Moved
    <3>5. BufferOf(t)'
      BY <3>1, <3>3, <3>4 DEF BufferOf, At, Moved, Filled
    <3>6. QED
      BY <2>3, <3>3, <3>5, BufferKept
  <2>8. CASE Store(t)
    <3>1. /\ writer[t].k - 1 < Limit /\ writer[t].p = writer[t].k - 1
          /\ Filled(t, writer[t].k - 1) /\ writer[t].pc # "idle"
      BY <2>1, <2>8 DEF BufferOf, Store, At
    <3>2. current' = writer[t].k /\ chars' = [chars EXCEPT ![writer[t].k - 1] = Line(t)[writer[t].k]]
      BY <2>5, <2>8, <3>1 DEF Store, Char
    <3>3. DOMAIN chars = 0..Limit + Beyond /\ Beyond \in Nat
      BY UseFacts DEF StreamTyped
    <3>4. writer[t].k - 1 \in DOMAIN chars
      BY <2>5, <3>1, <3>3
    <3>5. ASSUME NEW i \in 1..writer[t].k PROVE chars'[i - 1] = Line(t)'[i]
      <4>1. CASE i = writer[t].k
        BY <2>4, <3>2, <3>4, <4>1
      <4>2. CASE i # writer[t].k
        <5>1. i \in 1..(writer[t].k - 1) /\ i - 1 # writer[t].k - 1
          BY <2>5, <4>2
        <5>2. chars[i - 1] = Line(t)[i]
          BY <3>1, <5>1 DEF Filled
        <5>3. QED
          BY <2>4, <3>2, <5>1, <5>2
      <4>3. QED
        BY <4>1, <4>2
    <3>6. Cut(writer[t].k) = writer[t].k
      BY <2>5, <3>1, CutFacts
    <3>7. QED
      BY <2>3, <2>4, <2>5, <2>8, <3>2, <3>5, <3>6, StoreMoves, CharBuffer
  <2>9. CASE Flush(t)
    <3>1. Moved(t, "reset", writer[t].k, writer[t].p, writer[t].wrote)
      BY <2>5, <2>9, MovedTo DEF Flush, Move, Places
    <3>2. BufferOf(t)'
      BY <3>1 DEF BufferOf, At, Moved
    <3>3. QED
      BY <2>3, <3>1, <3>2, BufferKept
  <2>10. CASE Reset(t)
    <3>1. Moved(t, "sync", writer[t].k, writer[t].p, writer[t].wrote)
      BY <2>5, <2>10, MovedTo DEF Reset, Move, Places
    <3>2. BufferOf(t)'
      BY <2>10, <3>1 DEF BufferOf, At, Moved, Reset, Rewound
    <3>3. QED
      BY <2>3, <3>1, <3>2, BufferKept
  <2>11. CASE Sync(t)
    <3>1. current = 0 /\ current' = current
      BY <2>1, <2>11 DEF BufferOf, Sync
    <3>2. Moved(t, "idle", 1, writer[t].p, writer[t].wrote)
      BY <2>11, <3>1, SyncMoves
    <3>3. BufferOf(t)'
      BY <3>2 DEF BufferOf, At, Moved
    <3>4. QED
      BY <2>3, <3>1, <3>2, <3>3, BufferKept
  <2>12. QED
    BY <2>6, <2>7, <2>8, <2>9, <2>10, <2>11 DEF WriterStep
<1>4. QED
  BY <1>2, <1>3

LEMMA BeginLineBuffer ==
  ASSUME StreamTyped, BufferInv, NEW t \in Threads, BeginLine(t)
  PROVE  BufferInv'
<1>1. CASE overlap'
  BY <1>1 DEF BufferInv
<1>2. CASE ~overlap'
  <2>1. ~overlap /\ \A u \in Threads : writer[u].pc = "idle"
    BY <1>2 DEF BeginLine
  <2>2. current = 0 /\ current' = current
    BY <2>1 DEF BufferInv, Quiet, BeginLine
  <2>3. Moved(t, "put", 1, writer[t].p, TRUE)
    BY BeginMoves
  <2>4. BufferOf(t)'
    <3>1. writer'[t].pc = "put" /\ writer'[t].k - 1 = 0
      BY <2>3 DEF Moved
    <3>2. Filled(t, Cut(writer[t].k - 1))'
      BY <2>2, <3>1, CutFacts DEF Filled
    <3>3. QED
      BY <3>1, <3>2 DEF BufferOf, At
  <2>5. QED
    BY <2>1, <2>3, <2>4, BufferKept
<1>3. QED
  BY <1>1, <1>2

LEMMA OpenBuffer ==
  ASSUME StreamTyped, BufferInv, OpenStream \/ OpenFails
  PROVE  BufferInv'
<1>1. Quiet /\ overlap' = overlap /\ current' = current /\ Main \in Threads
  BY UseFacts DEF OpenStream, OpenFails
<1>2. CASE overlap
  BY <1>1, <1>2 DEF BufferInv
<1>3. CASE ~overlap
  <2>1. current' = 0 /\ \A u \in Threads : writer[u].pc = "idle"
    BY <1>1, <1>3 DEF BufferInv, Quiet
  <2>2. CASE writer' = writer
    <3>1. \A u \in Threads : writer'[u].pc = "idle"
      BY <2>1, <2>2
    <3>2. QED
      BY <2>1, <3>1 DEF BufferInv, BufferOf, At, Inside
  <2>3. CASE Moved(Main, "put", 1, writer[Main].p, writer[Main].wrote)
    <3>1. writer'[Main].pc = "put" /\ writer'[Main].k - 1 = 0
      BY <2>3 DEF Moved
    <3>2. Filled(Main, Cut(writer[Main].k - 1))'
      BY <2>1, <3>1, CutFacts DEF Filled
    <3>3. BufferOf(Main)'
      BY <3>1, <3>2 DEF BufferOf, At
    <3>4. QED
      BY <1>1, <2>1, <2>3, <3>3, BufferKept
  <2>4. QED
    BY <2>2, <2>3, OpenMoves
<1>4. QED
  BY <1>2, <1>3

LEMMA BufferInit == StreamInit => BufferInv
<1> SUFFICES ASSUME StreamInit PROVE BufferInv
  OBVIOUS
<1>1. current = 0 /\ \A t \in Threads : writer[t].pc = "idle"
  BY DEF StreamInit
<1>2. QED
  BY <1>1 DEF BufferInv, BufferOf, At, Inside

LEMMA BufferStep ==
  ASSUME StreamTyped, BufferInv, [StreamNext]_streamVars
  PROVE  BufferInv'
<1>1. CASE UNCHANGED streamVars
  <2>1. /\ writer' = writer /\ current' = current /\ chars' = chars /\ use' = use
        /\ overlap' = overlap
    BY <1>1 DEF streamVars
  <2>2. \A t \in Threads : BufferOf(t) => BufferOf(t)'
    BY <2>1 DEF BufferOf, Filled, At, Line, Cut
  <2>3. QED
    BY <2>1, <2>2 DEF BufferInv, Inside, Quiet
<1>2. CASE StreamNext
  BY <1>2, OpenBuffer, BeginLineBuffer, WriterStepBuffer DEF StreamNext
<1>3. QED
  BY <1>1, <1>2

(* A store is inside the buffer, and so is the final null, as long as no   *)
(* two threads were inside a line at once: for any threads and sizes.      *)
THEOREM BufferIsKept == StreamSpec => []StaysInBuffer
<1>1. StreamTyped /\ BufferInv => StaysInBuffer
  <2> SUFFICES ASSUME StreamTyped, BufferInv, ~overlap, NEW t \in Threads
               PROVE  /\ At(t, "store") => writer[t].p < Limit
                      /\ At(t, "flush") => current <= Limit
    BY DEF StaysInBuffer
  <2>1. BufferOf(t)
    BY DEF BufferInv
  <2>2. At(t, "store") => writer[t].p < Limit
    BY <2>1 DEF BufferOf
  <2>3. At(t, "flush") => current <= Limit
    BY <2>1, UseFacts, CutFacts DEF BufferOf, Filled
  <2>4. QED
    BY <2>2, <2>3
<1>2. QED
  BY <1>1, StreamInitTyped, StreamStepTyped, BufferInit, BufferStep, PTL DEF StreamSpec

-----------------------------------------------------------------------------
(* What has been written.                                                  *)

LinesOf(t) == {i \in DOMAIN out : out[i].by = t}

\* Inductive, with StreamTyped and BufferInv.  A thread other than Main writes when
\* the stream is open for good, so that what it is written to is the same ever after.
OutInv ==
  /\ \A i \in DOMAIN out : out[i].text = Kept(out[i].by)
  /\ \A t \in Threads \ {Main} :
       /\ writer[t].wrote => AllOpened
       /\ Inside(t) => writer[t].wrote
       /\ \A i, j \in LinesOf(t) : i = j
       /\ ~overlap /\ (~writer[t].wrote \/ writer[t].pc \in {"put", "load", "store", "flush"}) =>
            LinesOf(t) = {}
       /\ ~overlap /\ Writes /\ writer[t].wrote /\ writer[t].pc \in {"idle", "reset", "sync"} =>
            LinesOf(t) # {}

\* Inductive, with StreamTyped: the two handles differ only when an open has failed.
HandleInv == ~failed => handle = held /\ \A i \in DOMAIN out : ~out[i].stale

\* What Flush adds to out.
LEMMA OutGrows ==
  ASSUME StreamTyped, NEW o \in Output, out' = Append(out, o)
  PROVE  /\ DOMAIN out = 1..Len(out) /\ DOMAIN out' = 1..Len(out) + 1 /\ Len(out) \in Nat
         /\ \A i \in DOMAIN out : out'[i] = out[i]
         /\ out'[Len(out) + 1] = o
         /\ \A t \in Threads : t # o.by => LinesOf(t)' = LinesOf(t)
         /\ LinesOf(o.by)' = LinesOf(o.by) \cup {Len(out) + 1}
<1>1. out \in Seq(Output)
  BY DEF StreamTyped
<1>2. /\ out' \in Seq(Output) /\ Len(out') = Len(out) + 1 /\ out'[Len(out) + 1] = o
      /\ \A i \in 1..Len(out) : out'[i] = out[i]
  BY <1>1, AppendProperties
<1>3. DOMAIN out = 1..Len(out) /\ DOMAIN out' = 1..Len(out) + 1 /\ Len(out) \in Nat
  BY <1>1, <1>2, LenProperties
<1>4. 1..Len(out) + 1 = 1..Len(out) \cup {Len(out) + 1} /\ Len(out) + 1 \notin 1..Len(out)
  BY <1>3
<1>5. \A t \in Threads : t # o.by => LinesOf(t)' = LinesOf(t)
  BY <1>2, <1>3, <1>4 DEF LinesOf
<1>6. LinesOf(o.by)' = LinesOf(o.by) \cup {Len(out) + 1}
  <2>1. \A i : i \in LinesOf(o.by)' <=> i \in DOMAIN out' /\ out'[i].by = o.by
    BY DEF LinesOf
  <2>2. QED
    BY <1>2, <1>3, <1>4, <2>1 DEF LinesOf
<1>7. QED
  BY <1>2, <1>3, <1>5, <1>6

\* What Flush writes, if it writes.
LEMMA FlushWrites ==
  ASSUME StreamTyped, NEW t \in Threads, Flush(t)
  PROVE  \/ out' = out /\ (overlap \/ ~Writes)
         \/ /\ ~overlap
            /\ \E o \in Output : /\ o.by = t /\ o.text = Written /\ o.stale = (handle # held)
                                 /\ out' = Append(out, o)
<1>1. /\ chars \in [0..Limit + Beyond -> Glyph] /\ current \in Nat /\ current <= Limit + Beyond
      /\ Limit \in Nat /\ Beyond \in Nat
  BY UseFacts DEF StreamTyped, Flush
<1>2. Written \in Seq(Glyph)
  <2>1. \A i \in 1..current : i - 1 \in 0..Limit + Beyond
    BY <1>1
  <2>2. \A i \in 1..current : chars[i - 1] \in Glyph
    BY <1>1, <2>1
  <2>3. QED
    BY <1>1, <2>2 DEF Written
<1> DEFINE o == [by |-> t, text |-> Written, stale |-> handle # held]
<1>3. o \in Output /\ o.by = t /\ o.text = Written /\ o.stale = (handle # held)
  BY <1>2 DEF Output
<1>4. out' = IF Writes /\ ~overlap THEN Append(out, o) ELSE out
  BY DEF Flush
<1> HIDE DEF o
<1>5. QED
  BY <1>3, <1>4

\* A line that is flushed alone is the line as far as it fits.
LEMMA FlushesKept ==
  ASSUME StreamTyped, BufferInv, ~overlap, NEW t \in Threads, At(t, "flush")
  PROVE  Written = Kept(t)
<1>1. Filled(t, Cut(Len(Line(t))))
  BY DEF BufferInv, BufferOf
<1>2. PICK n \in Nat : n = Cut(Len(Line(t))) /\ n <= Len(Line(t))
  BY UseFacts, CutFacts
<1>3. Written = [i \in 1..n |-> chars[i - 1]] /\ \A i \in 1..n : chars[i - 1] = Line(t)[i]
  BY <1>1, <1>2 DEF Written, Filled
<1>4. Written = [i \in 1..n |-> Line(t)[i]]
  BY <1>3
<1>5. Kept(t) = SubSeq(Line(t), 1, n)
  BY <1>2 DEF Kept, Cut
<1>6. SubSeq(Line(t), 1, n) = [i \in 1..n |-> Line(t)[i]]
  <2>1. Line(t) \in Seq(STRING) /\ \A i \in 1..n : Line(t)[i] \in STRING
    BY <1>2, UseFacts
  <2>2. /\ SubSeq(Line(t), 1, n) \in Seq(STRING) /\ Len(SubSeq(Line(t), 1, n)) = n
        /\ \A i \in 1..n : SubSeq(Line(t), 1, n)[i] = Line(t)[i]
    <3>1. /\ SubSeq(Line(t), 1, n) \in Seq(STRING)
          /\ Len(SubSeq(Line(t), 1, n)) = IF 1 <= n THEN n - 1 + 1 ELSE 0
          /\ \A i \in 1..n - 1 + 1 : SubSeq(Line(t), 1, n)[i] = Line(t)[1 + i - 1]
      BY <2>1, SubSeqProperties
    <3>2. n - 1 + 1 = n /\ \A i \in 1..n : 1 + i - 1 = i
      OBVIOUS
    <3>3. QED
      BY <3>1, <3>2
  <2>3. QED
    BY <2>2
<1>7. QED
  BY <1>4, <1>5, <1>6

-----------------------------------------------------------------------------
(* OutInv, by its parts.                                                   *)

CutLine(l) == SubSeq(l, 1, IF Len(l) <= Limit THEN Len(l) ELSE Limit)
OutText == \A i \in DOMAIN out : out[i].text = CutLine(use.line[out[i].by])

Once(t) ==
  /\ writer[t].wrote => AllOpened
  /\ Inside(t) => writer[t].wrote
  /\ \A i, j \in LinesOf(t) : i = j
  /\ ~overlap /\ (~writer[t].wrote \/ writer[t].pc \in {"put", "load", "store", "flush"}) =>
       LinesOf(t) = {}
  /\ ~overlap /\ Writes /\ writer[t].wrote /\ writer[t].pc \in {"idle", "reset", "sync"} =>
       LinesOf(t) # {}

LEMMA OutParts == OutInv <=> OutText /\ \A t \in Threads \ {Main} : Once(t)
BY DEF OutInv, OutText, Once, Kept, Line, CutLine

LEMMA OutTextStep ==
  ASSUME StreamTyped, BufferInv, OutText, [StreamNext]_streamVars
  PROVE  OutText'
<1>1. use' = use
  BY DEF StreamNext, OpenStream, OpenFails, BeginLine, WriterStep, Put, Load, Store, Flush,
         Reset, Sync, StreamUnchanged, streamVars
<1>2. CASE out' = out
  BY <1>1, <1>2 DEF OutText
<1>3. ASSUME NEW t \in Threads, Flush(t) PROVE OutText'
  <2>1. CASE out' = out
    BY <1>2, <2>1
  <2>2. CASE out' # out
    <3>1. PICK o \in Output : ~overlap /\ o.by = t /\ o.text = Written /\ out' = Append(out, o)
      BY <1>3, <2>2, FlushWrites
    <3>2. o.text = CutLine(use.line[o.by])
      <4>1. Written = Kept(t)
        BY <1>3, <3>1, FlushesKept DEF Flush
      <4>2. QED
        BY <3>1, <4>1 DEF Kept, Line, CutLine
    <3>3. \A i \in DOMAIN out' : i \in DOMAIN out \/ i = Len(out) + 1
      <4>1. DOMAIN out' = 1..Len(out) + 1 /\ DOMAIN out = 1..Len(out) /\ Len(out) \in Nat
        BY <3>1, OutGrows
      <4>2. QED
        BY <4>1
    <3>4. \A i \in DOMAIN out : out'[i] = out[i] /\ out[i].text = CutLine(use.line[out[i].by])
      BY <3>1, OutGrows DEF OutText
    <3>5. out'[Len(out) + 1] = o
      BY <3>1, OutGrows
    <3>6. QED
      BY <1>1, <3>2, <3>3, <3>4, <3>5 DEF OutText
  <2>3. QED
    BY <2>1, <2>2
<1>4. CASE \A t \in Threads : ~Flush(t)
  <2>1. out' = out
    BY <1>4 DEF StreamNext, OpenStream, OpenFails, BeginLine, WriterStep, Put, Load, Store,
                Reset, Sync, streamVars
  <2>2. QED
    BY <1>2, <2>1
<1>5. QED
  BY <1>3, <1>4

\* A step that leaves a thread alone, and its lines.
LEMMA OnceKept ==
  ASSUME NEW t \in Threads, Once(t), writer'[t] = writer[t], LinesOf(t)' = LinesOf(t),
         overlap' = FALSE => overlap = FALSE, overlap' \in BOOLEAN, overlap \in BOOLEAN,
         AllOpened => AllOpened', Writes' = Writes
  PROVE  Once(t)'
BY DEF Once, Inside

LEMMA WriterStepOnce ==
  ASSUME StreamTyped, BufferInv, NEW t \in Threads, WriterStep(t),
         NEW u \in Threads \ {Main}, Once(u)
  PROVE  Once(u)'
<1>1. /\ use' = use /\ opened' = opened /\ handle' = handle /\ toFile' = toFile
      /\ overlap' = overlap /\ overlap \in BOOLEAN
  BY DEF WriterStep, Put, Load, Store, Flush, Reset, Sync, StreamUnchanged, StreamTyped
<1>2. AllOpened' = AllOpened /\ Writes' = Writes
  BY <1>1 DEF AllOpened, Writes
<1>3. ~Flush(t) => out' = out
  BY DEF WriterStep, Put, Load, Store, Reset, Sync
<1>4. writer \in [Threads -> Writer] /\ writer[t] \in Writer
  BY DEF StreamTyped
<1>5. PICK at, k, p : /\ Moved(t, at, k, p, writer[t].wrote)
                      /\ \/ Put(t) /\ at \in {"load", "put", "flush"} /\ writer[t].pc = "put"
                         \/ Load(t) /\ at = "store" /\ writer[t].pc = "load"
                         \/ Store(t) /\ at \in {"put", "flush"} /\ writer[t].pc = "store"
                         \/ Flush(t) /\ at = "reset" /\ writer[t].pc = "flush"
                         \/ Reset(t) /\ at = "sync" /\ writer[t].pc = "reset"
                         \/ /\ Sync(t) /\ writer[t].pc = "sync"
                            /\ (at = "idle" \/ (at = "flush" /\ current > 0))
  <2>1. CASE Put(t)
    <3>1. writer[t].pc = "put" /\ "load" \in Places
      BY <2>1 DEF Put, At, Places
    <3>2. CASE HasRoom
      <4>1. Moved(t, "load", writer[t].k, writer[t].p, writer[t].wrote)
        BY <1>4, <2>1, <3>1, <3>2, MovedTo DEF Put, Move
      <4>2. QED
        BY <2>1, <3>1, <4>1
    <3>3. CASE ~HasRoom
      <4>1. writer' = AfterChar(t) /\ writer[t].pc # "idle"
        BY <2>1, <3>1, <3>3 DEF Put
      <4>2. QED
        BY <2>1, <3>1, <4>1, CharMoves
    <3>4. QED
      BY <3>2, <3>3
  <2>2. CASE Load(t)
    BY <2>2, LoadMoves DEF Load, At
  <2>3. CASE Store(t)
    BY <2>3, StoreMoves DEF Store, At
  <2>4. CASE Flush(t)
    <3>1. Moved(t, "reset", writer[t].k, writer[t].p, writer[t].wrote)
      BY <1>4, <2>4, MovedTo DEF Flush, Move, Places
    <3>2. QED
      BY <2>4, <3>1 DEF Flush, At
  <2>5. CASE Reset(t)
    <3>1. Moved(t, "sync", writer[t].k, writer[t].p, writer[t].wrote)
      BY <1>4, <2>5, MovedTo DEF Reset, Move, Places
    <3>2. QED
      BY <2>5, <3>1 DEF Reset, At
  <2>6. CASE Sync(t)
    <3>1. /\ writer[t].pc = "sync"
          /\ \/ current > 0 /\ Moved(t, "flush", writer[t].k, writer[t].p, writer[t].wrote)
             \/ Moved(t, "idle", 1, writer[t].p, writer[t].wrote)
      BY <2>6, SyncMoves DEF Sync, At
    <3>2. QED
      BY <2>6, <3>1
  <2>7. QED
    BY <2>1, <2>2, <2>3, <2>4, <2>5, <2>6 DEF WriterStep
<1>6. CASE u # t
  <2>1. writer'[u] = writer[u]
    BY <1>5, <1>6 DEF Moved
  <2>2. LinesOf(u)' = LinesOf(u)
    <3>1. CASE out' = out
      BY <3>1 DEF LinesOf
    <3>2. CASE out' # out
      <4>1. PICK o \in Output : o.by = t /\ out' = Append(out, o)
        BY <1>3, <3>2, FlushWrites
      <4>2. QED
        BY <1>6, <4>1, OutGrows
    <3>3. QED
      BY <3>1, <3>2
  <2>3. QED
    BY <1>1, <1>2, <2>1, <2>2, OnceKept
<1>7. CASE u = t
  <2>1. writer'[t].pc = at /\ writer'[t].wrote = writer[t].wrote /\ writer[t].wrote /\ AllOpened
    BY <1>5, <1>7 DEF Moved, Once, Inside
  <2>2. CASE ~Flush(t)
    <3>1. LinesOf(t)' = LinesOf(t)
      BY <1>3, <2>2 DEF LinesOf
    <3>2. ~overlap /\ writer[t].pc = "sync" => current = 0
      BY DEF BufferInv, BufferOf, At
    <3>3. CASE writer[t].pc \in {"put", "load", "store"}
      <4>1. at \in {"put", "load", "store", "flush"}
        BY <1>5, <2>2, <3>3
      <4>2. QED
        BY <1>1, <1>2, <1>7, <2>1, <3>1, <3>3, <4>1 DEF Once
    <3>4. CASE writer[t].pc \in {"reset", "sync"}
      <4>1. overlap \/ at \in {"idle", "sync"}
        BY <1>5, <2>2, <3>2, <3>4
      <4>2. QED
        BY <1>1, <1>2, <1>7, <2>1, <3>1, <3>4, <4>1 DEF Once
    <3>5. QED
      BY <1>5, <2>2, <3>3, <3>4
  <2>3. CASE Flush(t)
    <3>1. at = "reset" /\ writer[t].pc = "flush"
      BY <1>5, <2>3 DEF Flush, At, Put, Load, Store, Reset, Sync
    <3>2. CASE out' = out /\ (overlap \/ ~Writes)
      <4>1. LinesOf(t)' = LinesOf(t)
        BY <3>2 DEF LinesOf
      <4>2. QED
        BY <1>1, <1>2, <1>7, <2>1, <3>1, <3>2, <4>1 DEF Once
    <3>3. CASE ~(out' = out /\ (overlap \/ ~Writes))
      <4>1. PICK o \in Output : ~overlap /\ o.by = t /\ out' = Append(out, o)
        BY <2>3, <3>3, FlushWrites
      <4>2. LinesOf(t) = {}
        BY <1>7, <3>1, <4>1 DEF Once
      <4>3. LinesOf(t)' = {Len(out) + 1}
        BY <4>1, <4>2, OutGrows
      <4>4. QED
        BY <1>2, <1>7, <2>1, <3>1, <4>3 DEF Once
    <3>4. QED
      BY <3>2, <3>3
  <2>4. QED
    BY <2>2, <2>3
<1>8. QED
  BY <1>6, <1>7

LEMMA OnceStep ==
  ASSUME StreamTyped, BufferInv, [StreamNext]_streamVars, NEW u \in Threads \ {Main}, Once(u)
  PROVE  Once(u)'
<1>1. CASE UNCHANGED streamVars
  BY <1>1 DEF streamVars, Once, Inside, AllOpened, Writes, LinesOf
<1>2. CASE OpenStream \/ OpenFails
  <2>1. out' = out /\ overlap' = overlap /\ ~AllOpened
    BY <1>2 DEF OpenStream, OpenFails
  <2>2. writer'[u] = writer[u]
    BY <1>2, OpenMoves DEF Moved
  <2>3. ~writer[u].wrote /\ LinesOf(u)' = LinesOf(u)
    BY <2>1 DEF Once, LinesOf
  <2>4. QED
    BY <2>1, <2>2, <2>3 DEF Once, Inside
<1>3. ASSUME NEW t \in Threads, BeginLine(t) PROVE Once(u)'
  <2>1. /\ out' = out /\ opened' = opened /\ use' = use /\ handle' = handle /\ toFile' = toFile
        /\ overlap \in BOOLEAN /\ overlap' \in BOOLEAN /\ (overlap => overlap')
        /\ AllOpened /\ ~writer[t].wrote
    BY <1>3 DEF BeginLine, StreamTyped
  <2>2. LinesOf(u)' = LinesOf(u) /\ Writes' = Writes /\ AllOpened'
    BY <2>1 DEF LinesOf, Writes, AllOpened
  <2>3. Moved(t, "put", 1, writer[t].p, TRUE)
    BY <1>3, BeginMoves
  <2>4. CASE u # t
    <3>1. writer'[u] = writer[u]
      BY <2>3, <2>4 DEF Moved
    <3>2. QED
      BY <2>1, <2>2, <3>1, OnceKept
  <2>5. CASE u = t
    <3>1. writer'[u].pc = "put" /\ writer'[u].wrote = TRUE /\ ~writer[u].wrote
      BY <2>1, <2>3, <2>5 DEF Moved
    <3>2. QED
      BY <2>1, <2>2, <3>1 DEF Once
  <2>6. QED
    BY <2>4, <2>5
<1>4. ASSUME NEW t \in Threads, WriterStep(t) PROVE Once(u)'
  BY <1>4, WriterStepOnce
<1>5. QED
  BY <1>1, <1>2, <1>3, <1>4 DEF StreamNext

LEMMA OutInit == StreamInit => OutInv
<1> SUFFICES ASSUME StreamInit PROVE OutInv
  OBVIOUS
<1>1. out = << >> /\ \A t \in Threads : writer[t].pc = "idle" /\ writer[t].wrote = FALSE
  BY DEF StreamInit
<1>2. DOMAIN out = {} /\ \A t : LinesOf(t) = {}
  BY <1>1 DEF LinesOf
<1>3. QED
  BY <1>1, <1>2 DEF OutInv, Inside

LEMMA OutStep ==
  ASSUME StreamTyped, BufferInv, OutInv, [StreamNext]_streamVars
  PROVE  OutInv'
<1>1. OutText /\ \A t \in Threads \ {Main} : Once(t)
  BY OutParts
<1>2. OutText' /\ \A t \in Threads \ {Main} : Once(t)'
  BY <1>1, OutTextStep, OnceStep
<1>3. QED
  BY <1>2 DEF OutInv, OutText, Once, Kept, Line, CutLine

(* What is written, as long as no two threads were inside a line at once,  *)
(* is the lines of the threads, each whole up to the limit and once: for   *)
(* any threads, lines and sizes of the buffer.                             *)
THEOREM LinesAreWhole == StreamSpec => []LinesIntact
<1>1. StreamTyped /\ OutInv => LinesIntact
  <2> SUFFICES ASSUME StreamTyped, OutInv, NEW t \in Threads \ {Main}
               PROVE  /\ Cardinality(LinesOf(t)) <= 1
                      /\ At(t, "idle") /\ writer[t].wrote /\ Writes /\ ~overlap => LinesOf(t) # {}
    BY DEF LinesIntact, OutInv, LinesOf
  <2>1. \A i, j \in LinesOf(t) : i = j
    BY DEF OutInv
  <2>2. LinesOf(t) = {} \/ \E i : LinesOf(t) = {i}
    BY <2>1
  <2>3. Cardinality(LinesOf(t)) <= 1
    BY <2>2, FS_EmptySet, FS_Singleton
  <2>4. QED
    BY <2>3 DEF OutInv, At
<1>2. QED
  BY <1>1, StreamInitTyped, StreamStepTyped, BufferInit, BufferStep, OutInit, OutStep, PTL
     DEF StreamSpec

-----------------------------------------------------------------------------
(* The handle of the buffer.                                               *)

LEMMA HandleInit == StreamInit => HandleInv
<1>1. StreamInit => out = << >> /\ handle = held
  BY DEF StreamInit
<1>2. QED
  BY <1>1 DEF HandleInv

LEMMA HandleStep ==
  ASSUME StreamTyped, HandleInv, [StreamNext]_streamVars
  PROVE  HandleInv'
<1>1. CASE failed'
  BY <1>1 DEF HandleInv
<1>2. CASE OpenStream /\ ~failed'
  <2>1. failed' = failed /\ out' = out /\ opened' = opened + 1 /\ opened < Len(use.opens)
    BY <1>2, UseFacts DEF OpenStream, AllOpened, StreamTyped
  <2>2. handle = held /\ \A i \in DOMAIN out : ~out[i].stale
    BY <1>2, <2>1 DEF HandleInv
  <2>3. handle' = held'
    <3>1. CASE NeedsHandle(use.opens[opened'])
      BY <1>2, <3>1 DEF OpenStream, GivenHandle
    <3>2. CASE ~NeedsHandle(use.opens[opened'])
      <4>1. opened \in Nat /\ opened' \in DOMAIN use.opens
        BY <2>1, UseFacts, LenProperties
      <4>2. ~(opened' > 1)
        BY <3>2, <4>1, StreamAssumption DEF StreamTyped
      <4>3. opened = 0
        BY <2>1, <4>1, <4>2
      <4>4. held = Invalid /\ handle = Invalid
        BY <4>3 DEF StreamTyped, Invalid
      <4>5. QED
        BY <1>2, <3>2, <4>4 DEF OpenStream, ClosedHandle
    <3>3. QED
      BY <3>1, <3>2
  <2>4. QED
    BY <2>1, <2>2, <2>3 DEF HandleInv
<1>3. CASE ~OpenStream /\ ~failed'
  <2>1. handle' = handle /\ held' = held /\ ~failed
    <3>1. CASE UNCHANGED streamVars
      BY <1>3, <3>1 DEF streamVars
    <3>2. ASSUME NEW t \in Threads, BeginLine(t) PROVE handle' = handle /\ held' = held /\ ~failed
      BY <3>2 DEF BeginLine
    <3>3. ASSUME NEW t \in Threads, WriterStep(t) PROVE handle' = handle /\ held' = held /\ failed' = failed
      BY <3>3 DEF WriterStep, Put, Load, Store, Flush, Reset, Sync, StreamUnchanged
    <3>4. ~OpenFails
      BY <1>3 DEF OpenFails
    <3>5. QED
      BY <1>3, <3>1, <3>2, <3>3, <3>4 DEF StreamNext
  <2>2. handle = held /\ \A i \in DOMAIN out : ~out[i].stale
    BY <2>1 DEF HandleInv
  <2>3. CASE out' = out
    BY <2>1, <2>2, <2>3 DEF HandleInv
  <2>4. CASE out' # out
    <3>1. PICK t \in Threads : Flush(t)
      BY <1>3, <2>4 DEF StreamNext, OpenFails, BeginLine, WriterStep, Put, Load, Store, Reset,
                        Sync, streamVars
    <3>2. PICK o \in Output : o.stale = (handle # held) /\ out' = Append(out, o)
      BY <2>4, <3>1, FlushWrites
    <3>3. \A i \in DOMAIN out' : out'[i] = o \/ (i \in DOMAIN out /\ out'[i] = out[i])
      <4>1. /\ DOMAIN out' = 1..Len(out) + 1 /\ DOMAIN out = 1..Len(out) /\ Len(out) \in Nat
            /\ out'[Len(out) + 1] = o /\ \A i \in DOMAIN out : out'[i] = out[i]
        BY <3>2, OutGrows
      <4>2. \A i \in DOMAIN out' : i = Len(out) + 1 \/ i \in DOMAIN out
        BY <4>1
      <4>3. QED
        BY <4>1, <4>2
    <3>4. QED
      BY <2>1, <2>2, <3>2, <3>3 DEF HandleInv
  <2>5. QED
    BY <2>3, <2>4
<1>4. QED
  BY <1>1, <1>2, <1>3

(* Nothing is written to a closed handle as long as no open has failed, in *)
(* whatever order and with whatever types the stream is opened, if one     *)
(* that is opened again needs a handle.                                    *)
THEOREM HandleIsOpen == StreamSpec => []NoStaleWrite
<1>1. HandleInv => NoStaleWrite
  BY DEF HandleInv, NoStaleWrite
<1>2. QED
  BY <1>1, StreamInitTyped, StreamStepTyped, HandleInit, HandleStep, PTL DEF StreamSpec

=============================================================================
