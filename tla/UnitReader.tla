----------------------------- MODULE UnitReader -----------------------------
(***************************************************************************)
(* The two programs' readings of one unit file: systemctl's, line by line  *)
(* (service_unit.cpp: ParseSystemDServiceUnit, split_elems and the section *)
(* parsers), and the wrapper's, which boost::program_options splits        *)
(* (systemd-exec.cpp: ParseArgs).                                          *)
(*                                                                         *)
(* A line is a record, its text one of a few in the order of their         *)
(* characters: systemctl compares a heading with "[Unit]", "[Service]" and *)
(* "[Install]" by compare(..) != npos, and npos is -1, "less", so that     *)
(* each of the three stands for all the text that does not sort before it. *)
(***************************************************************************)
EXTENDS Integers, Sequences, FiniteSets, SequencesExt

CONSTANTS
  Texts,        \* the texts of a line without '=', in the order of their characters
  Vocabulary,   \* the values and names of pairs
  ServiceNames, \* the names that contain ".service"
  TargetNames,  \* those of the others that contain ".target"
  Files         \* the unit files, each a sequence of lines

Scalars == {"Type", "ExecStart", "BusName"}
Lists   == {"After", "WantedBy"}
Keys    == Scalars \cup Lists
Home == [After |-> "[Unit]", Type |-> "[Service]", ExecStart |-> "[Service]",
         BusName |-> "[Service]", WantedBy |-> "[Install]"]
Sections == {"[Unit]", "[Service]", "[Install]"}
TypeNames == {"simple", "forking", "oneshot", "dbus", "notify", "idle"}

(***************************************************************************)
(* text: the text, or the key of a pair, or what a comment begins with;    *)
(* value: that of a scalar; names: that of a list; blank: where a blank is *)
(* next to '='; long: MAX_BUFFER_SIZE characters or more.                  *)
(***************************************************************************)
Text(t)      == [kind |-> "text", text |-> t, value |-> "", names |-> << >>,
                 blank |-> "none", long |-> FALSE]
Comment(c)   == [Text(c) EXCEPT !.kind = "comment"]
Pair(key, v) == [Text(key) EXCEPT !.kind = "pair", !.value = v]
List(key, n) == [Text(key) EXCEPT !.kind = "pair", !.names = n]
Blank        == Text("")

FileLine ==
  {l \in [kind : {"text", "comment", "pair"}, text : STRING, value : Vocabulary,
          names : Seq(Vocabulary), blank : {"none", "before", "after"}, long : BOOLEAN] :
     \/ l.kind = "text" /\ l.text \in Range(Texts) /\ l = [Text(l.text) EXCEPT !.long = l.long]
     \/ l.kind = "comment" /\ l.text \in {"#", ";"}
     \/ l.kind = "pair" /\ l.text \in Keys /\ (l.text \in Lists <=> l.names # << >>)}

Rank(t) == CHOOSE i \in DOMAIN Texts : Texts[i] = t

\* Each text has its place, and the three headings stand in theirs.
ASSUME TextsAssumption ==
  /\ Texts \in Seq(STRING) /\ IsInjective(Texts)
  /\ Sections \cup {""} \subseteq Range(Texts)
  /\ Rank("") < Rank("[Install]") /\ Rank("[Install]") < Rank("[Service]")
  /\ Rank("[Service]") < Rank("[Unit]")
ASSUME VocabularyAssumption ==
  {"", "merged", "undefined", "simple", "oneshot", "dbus"} \subseteq Vocabulary
ASSUME NamesAssumption ==
  ServiceNames \cup TargetNames \subseteq Vocabulary /\ ServiceNames \cap TargetNames = {}
ASSUME FilesAssumption == Files \subseteq Seq(FileLine)

VARIABLES
  file,      \* the unit file
  newline,   \* does its last line end with a newline?
  stream,    \* the state of fs: "good", "eof" or "failed"
  next,      \* the line that getline reads next
  line,      \* the variable line of ParseSystemDServiceUnit
  section,   \* the section that split_elems collects for
  attrs,     \* the lines it has collected (a set: they come in the order of the file)
  unit,      \* the SystemDUnit so far
  reading    \* where the reader is

readerVars == <<file, newline, stream, next, line, section, attrs, unit, reading>>

-----------------------------------------------------------------------------
\* The line that getline leaves in BUFFER, and the state of the stream after.
\* Behind a line too long for BUFFER the stream has failed, but is not at its end.
Buffer == IF stream = "good" /\ next <= Len(file) THEN file[next] ELSE Blank

StreamAfter ==
  IF stream # "good" THEN stream
  ELSE IF next > Len(file) THEN "eof"
  ELSE IF file[next].long THEN "failed"
  ELSE IF next = Len(file) /\ ~newline THEN "eof" ELSE "good"

GetLine == /\ stream' = StreamAfter
           /\ next' = IF stream = "good" THEN next + 1 ELSE next
           /\ UNCHANGED <<file, newline>>

\* The text that systemctl compares: a pair's begins with a capital, before '['.
Compared(l) == IF l.kind = "text" THEN Rank(l.text) ELSE 0

\* Mutant of SectionOf: the second and the third comparison in the wrong order.
SectionOfSwapped(l) ==
  IF Compared(l) >= Rank("[Unit]") THEN "[Unit]"
  ELSE IF Compared(l) >= Rank("[Install]") THEN "[Install]" ELSE "none"

SectionOf(l) ==
  IF Compared(l) >= Rank("[Unit]") THEN "[Unit]"
  ELSE IF Compared(l) >= Rank("[Service]") THEN "[Service]"
  ELSE IF Compared(l) >= Rank("[Install]") THEN "[Install]" ELSE "none"

-----------------------------------------------------------------------------
(* ParseSystemDServiceUnit.                                                *)

OpenUnit ==
  /\ reading = "open" /\ reading' = "dispatch"
  /\ GetLine /\ line' = Buffer
  /\ UNCHANGED <<section, attrs, unit>>

\* Mutant of SkipComment: the next line is not read.
SkipCommentInPlace ==
  /\ reading = "dispatch" /\ stream # "eof" /\ line.kind = "comment"
  /\ line' = Buffer
  /\ UNCHANGED <<file, newline, stream, next, section, attrs, unit, reading>>

\* A comment before the first heading: the next line is read, but line stays.
SkipComment ==
  /\ reading = "dispatch" /\ stream # "eof" /\ line.kind = "comment"
  /\ GetLine
  /\ UNCHANGED <<line, section, attrs, unit, reading>>

\* Mutant of ParseSection: the end of the file is not looked at.
ParseSectionAtEnd ==
  /\ reading = "dispatch" /\ line.kind # "comment"
  /\ SectionOf(line) # "none"
  /\ section' = SectionOf(line) /\ attrs' = {} /\ reading' = "split"
  /\ UNCHANGED <<file, newline, stream, next, line, unit>>

ParseSection ==
  /\ reading = "dispatch" /\ stream # "eof" /\ line.kind # "comment"
  /\ SectionOf(line) # "none"
  /\ section' = SectionOf(line) /\ attrs' = {} /\ reading' = "split"
  /\ UNCHANGED <<file, newline, stream, next, line, unit>>

\* The end, or a line that begins no section.
EndReading ==
  /\ reading = "dispatch"
  /\ stream = "eof" \/ (line.kind # "comment" /\ SectionOf(line) = "none")
  /\ reading' = "done"
  /\ UNCHANGED <<file, newline, stream, next, line, section, attrs, unit>>

-----------------------------------------------------------------------------
(* split_elems, and the section parser that called it.                     *)

\* Mutant of Collected: empty lines and comments are collected too.
CollectedAll == attrs \cup {next}

Collected == IF Buffer.kind = "pair" THEN attrs \cup {next} ELSE attrs

SplitLine ==
  /\ reading = "split" /\ stream # "eof"
  /\ Buffer.kind # "text" \/ Buffer = Blank
  /\ GetLine /\ line' = Buffer
  /\ attrs' = Collected
  /\ UNCHANGED <<section, unit, reading>>

\* Any line without '=' ends the section, be it a heading or not.
SplitHeading ==
  /\ reading = "split" /\ stream # "eof"
  /\ Buffer.kind = "text" /\ Buffer # Blank
  /\ GetLine /\ line' = Buffer /\ reading' = "assign"
  /\ UNCHANGED <<section, attrs, unit>>

SplitEnd ==
  /\ reading = "split" /\ stream = "eof" /\ reading' = "assign"
  /\ UNCHANGED <<file, newline, stream, next, line, section, attrs, unit>>

\* A key is known in its own section only, and with no blank before it or behind it.
Recognised(i) == Home[file[i].text] = section /\ file[i].blank # "before"
Known(key) == {i \in attrs : Recognised(i) /\ file[i].text = key}

\* The names that f gives to some of the lines, in the order of the lines.
InOrder(f) == FlattenSeq([i \in DOMAIN file |-> IF i \in DOMAIN f THEN f[i] ELSE << >>])

\* The names of one line.  The second argument of substr is a length but the
\* code passes an end: each name between the first and the last gets a part of
\* what follows.  A blank behind '=' is an empty first name.
NamesOf(i) ==
  LET names == IF file[i].blank = "after" THEN <<"">> \o file[i].names ELSE file[i].names
  IN [k \in DOMAIN names |-> IF k \in {1, Len(names)} THEN names[k] ELSE "merged"]

\* A text that is no type's name, as one with a blank before it is not.
TypeOf(i) ==
  IF file[i].blank = "after" \/ file[i].value \notin TypeNames THEN "undefined" ELSE file[i].value

\* Mutant of DefaultType: a service with a bus name is simple.
DefaultTypeSimple == IF Known("ExecStart") # {} THEN "simple" ELSE "oneshot"

DefaultType ==
  IF Known("ExecStart") = {} THEN "oneshot"
  ELSE IF Known("BusName") = {} THEN "simple" ELSE "dbus"

Record(u) == [u EXCEPT !.pairs = @ \cup {<<i, section>> : i \in
                                         {j \in attrs : Recognised(j)}}]

AssignUnit ==
  /\ section = "[Unit]"
  /\ unit' = Record([unit EXCEPT !.after = @ \o InOrder([i \in Known("After") |-> NamesOf(i)])])

\* The mask of the keys is local: a second section forgets the first one's.
AssignService ==
  /\ section = "[Service]"
  /\ unit' = Record([unit EXCEPT !.type =
       IF Known("Type") # {} THEN TypeOf(Max(Known("Type"))) ELSE DefaultType])

\* The list loops of the [Install] section start again at the blank they found.
Endless(i) == Len(file[i].names) > 1 \/ file[i].blank = "after"
AssignInstall ==
  /\ section = "[Install]"
  /\ \A i \in Known("WantedBy") : ~Endless(i)
  /\ unit' = Record(unit)

Assign ==
  /\ reading = "assign" /\ reading' = "dispatch"
  /\ AssignUnit \/ AssignService \/ AssignInstall
  /\ UNCHANGED <<file, newline, stream, next, line, section, attrs>>

\* It pushes names until the memory is used up.
PushForever ==
  /\ reading = "assign" /\ reading' = "pushing" /\ section = "[Install]"
  /\ \E i \in Known("WantedBy") : Endless(i)
  /\ UNCHANGED <<file, newline, stream, next, line, section, attrs, unit>>

-----------------------------------------------------------------------------
ReaderInit ==
  /\ file \in Files /\ newline \in BOOLEAN
  /\ stream = "good" /\ next = 1 /\ line = Blank /\ section = "none" /\ attrs = {}
  /\ unit = [type |-> "simple", after |-> << >>, pairs |-> {}]
  /\ reading = "open"

ReaderNext ==
  \/ OpenUnit \/ SkipComment \/ ParseSection \/ EndReading
  \/ SplitLine \/ SplitHeading \/ SplitEnd \/ Assign \/ PushForever

ReaderSpec == ReaderInit /\ [][ReaderNext]_readerVars

ReaderTypeOK ==
  /\ file \in Seq(FileLine) /\ newline \in BOOLEAN /\ stream \in {"good", "eof", "failed"}
  /\ next \in 1..Len(file) + 2 /\ line \in Range(file) \cup {Blank}
  /\ section \in Sections \cup {"none"} /\ attrs \subseteq DOMAIN file
  /\ unit \in [type : Vocabulary, after : Seq(Vocabulary), pairs : SUBSET ((DOMAIN file) \X Sections)]
  /\ reading \in {"open", "dispatch", "split", "assign", "pushing", "done"}

-----------------------------------------------------------------------------
(* The wrapper's reading of the same file.                                 *)

Heads(i) == {h \in 1..i : file[h].kind = "text" /\ file[h].text \in Sections}
OwnSection(i) == IF Heads(i) = {} THEN "none" ELSE file[Max(Heads(i))].text

PairsOf(key) == {i \in DOMAIN file :
  file[i].kind = "pair" /\ file[i].text = key /\ OwnSection(i) = Home[key]}

\* parse_config_file and store throw: on a line that is neither heading, pair nor
\* '#', and on the second value of an option that takes one.
Accepts ==
  /\ \A i \in DOMAIN file : file[i].kind = "text" => file[i] = Blank \/ file[i].text \in Sections
  /\ \A i \in DOMAIN file : file[i].kind = "comment" => file[i].text = "#"
  /\ \A key \in Scalars : Cardinality(PairsOf(key)) <= 1

\* Nothing is assigned for a text that is no type's name: the type is whatever
\* the memory held.
WrapperType ==
  IF PairsOf("Type") # {}
  THEN LET value == file[Max(PairsOf("Type"))].value
       IN IF value \in TypeNames THEN value ELSE "unset"
  ELSE IF PairsOf("BusName") # {} THEN "dbus"
  ELSE IF PairsOf("ExecStart") # {} THEN "simple" ELSE "oneshot"

\* Each After= line is one name, whatever blanks it has, and of the kind that
\* comes first of those it contains.
LineName(i) == IF Len(file[i].names) = 1 THEN file[i].names[1] ELSE "merged"
Containing(S) == {i \in PairsOf("After") : \E k \in DOMAIN file[i].names : file[i].names[k] \in S}
NamesIn(lines) == InOrder([i \in lines |-> <<LineName(i)>>])

\* Mutant of WrapperAfter: what is no service is taken for a target.
WrapperAfterAll ==
  [services |-> NamesIn(Containing(ServiceNames)),
   files    |-> NamesIn(PairsOf("After") \ Containing(ServiceNames))]

\* Services and targets are waited for in different ways; other names are dropped.
WrapperAfter ==
  [services |-> NamesIn(Containing(ServiceNames)),
   files    |-> NamesIn(Containing(TargetNames) \ Containing(ServiceNames))]

-----------------------------------------------------------------------------
\* A file as its author means it: it begins with a heading, all headings are of
\* the three sections, and no line is too long.
WellFormed ==
  /\ file # << >> /\ file[1].text \in Sections
  /\ \A i \in DOMAIN file : ~file[i].long
  /\ \A i \in DOMAIN file : file[i].kind = "text" => file[i].text \in Sections \cup {""}

PlainPairs == \A i \in DOMAIN file : file[i].blank = "none" /\ Len(file[i].names) <= 1

(* systemctl reads every pair of a well-formed file, in the section whose  *)
(* heading stands above it, with comments and empty lines anywhere and     *)
(* with or without a newline at the end.                                   *)
SectionsRight ==
  reading = "done" /\ WellFormed /\ PlainPairs =>
    unit.pairs = {<<i, OwnSection(i)>> : i \in UNION {PairsOf(key) : key \in Keys}}

\* Those of the names that are in S.
Among(names, S) == FlattenSeq([k \in DOMAIN names |-> IF names[k] \in S THEN <<names[k]>> ELSE << >>])

(* A file that the wrapper accepts means the same to systemctl and to the  *)
(* wrapper. systemctl keeps all the names of After= in one list, which the *)
(* pool makes wait dependencies of; the wrapper sorts them into services   *)
(* and targets, waits for each in its own way and drops the rest: the      *)
(* services that both have are the same and in the same order, and so are  *)
(* the targets. The type is the same when it is one of the six that have a *)
(* name, there is one [Service] section (not an empty one with the file's  *)
(* end in its heading), and no BusName without ExecStart.                  *)
ReadersAgree ==
  reading = "done" /\ WellFormed /\ PlainPairs /\ Accepts =>
    /\ Among(unit.after, ServiceNames) = WrapperAfter.services
    /\ Among(unit.after, TargetNames) = WrapperAfter.files
    /\ /\ Cardinality({i \in DOMAIN file : file[i].text = "[Service]"}) = 1
       /\ newline \/ Last(file).text # "[Service]"
       /\ PairsOf("BusName") = {} \/ PairsOf("ExecStart") # {}
       /\ \A i \in PairsOf("Type") : file[i].value \in TypeNames
       => unit.type = WrapperType

(* Every step of a reading uses up a line, or what is left to do with the  *)
(* one it has, of StepsLeft in all, as long as no line is too long: no     *)
(* loop of the reader (over comments, over the lines of a section, over    *)
(* the sections) turns without getting on.                                 *)
Place == IF reading = "assign" THEN 2
         ELSE IF reading = "dispatch" THEN 1
         ELSE IF reading = "split" /\ stream = "eof" THEN 3 ELSE 0
StepsLeft == 4 * (Len(file) + 2 - next) + Place

ReadingAdvances ==
  [][(\A i \in DOMAIN file : ~file[i].long) => StepsLeft' \in Nat /\ StepsLeft' < StepsLeft]_readerVars

(* systemctl's reading ends for every file, be it well-formed or not, as   *)
(* long as no line is too long and no WantedBy= has a blank.               *)
ReadingEnds ==
  /\ reading = "dispatch"
  /\ \A i \in DOMAIN file : ~file[i].long
  /\ \A i \in DOMAIN file : file[i].text = "WantedBy" => ~Endless(i)
  ~> reading = "done"
=============================================================================
