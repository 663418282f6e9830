------------------------------ MODULE MCHelpers ------------------------------
(* Instances for TLC's run of the parts that stand by themselves: the unit *)
(* reader, the environment files and the log stream.  A behaviour is one   *)
(* part's (part), with the others at rest.                                 *)
EXTENDS UnitReader, EnvFile, JournalStream

VARIABLE part
helperVars == <<part, readerVars, envVars, streamVars>>

-----------------------------------------------------------------------------
(* UnitReader: headings it knows, one before, between and behind them, and *)
(* text that is no heading; every file of two lines after each of three    *)
(* first ones, and of four of the commonest lines.  Of the names in After= *)
(* a is a service's, b a target's and c of another kind of unit.           *)
TextOrder == <<"", "--flag", "[Automount]", "[Install]", "[Path]", "[Service]",
               "[Timer]", "[Unit]", "flag">>

VocabularyUsed == {"", "merged", "undefined", "simple", "oneshot", "dbus", "forking",
              "idling", "cmd", "bus", "a", "b", "c", "t", "u"}

CommonLines == {Text("[Unit]"), Text("[Service]"), Comment("#"), Pair("Type", "forking"),
  Pair("ExecStart", "cmd"), Pair("BusName", "bus"), List("After", <<"a">>), List("After", <<"b">>)}

AllLines == {Text(t) : t \in ToSet(TextOrder)} \cup CommonLines \cup
  {Comment(";"), List("After", <<"c">>), List("After", <<"a", "b", "c">>),
   Pair("Type", "idling"),
   List("WantedBy", <<"t">>), List("WantedBy", <<"t", "u">>),
   [Pair("Type", "forking") EXCEPT !.blank = "after"],
   [Pair("ExecStart", "cmd") EXCEPT !.blank = "before"],
   [Pair("ExecStart", "cmd") EXCEPT !.long = TRUE]}

FirstLines == {Text("[Unit]"), Text("[Service]"), Comment("#")}

UnitFiles == UNION {[1..n -> AllLines] : n \in 0..2} \cup
  {<<l>> \o f : l \in FirstLines, f \in [1..2 -> AllLines] \cup [1..4 -> CommonLines]}

-----------------------------------------------------------------------------
(* EnvFile: up to three lines that define A and B (and a, the same name),  *)
(* plain, with references, and with what the code does not take for the    *)
(* end of a name.                                                          *)
Tokens == {"A", "B", "a", "t", Env, ";"}
UpperCase == [t \in Tokens |-> IF t = "a" THEN "A" ELSE t]
OuterEnv == <<"A">> :> <<"t">>

EnvLine(n, v, ps) == [name |-> <<n>>, value |-> v, ps |-> ps]

EnvLines ==
  {EnvLine(n, v, TRUE) : n \in {"A", "B"},
     v \in {<<"t", "t">>, <<Env, "A">>, <<"t", Env, "B">>, <<Env, "a">>}}
  \cup {EnvLine(n, v, FALSE) : n \in {"A", "B", "a"}, v \in {<<"t">>, <<Env, "A">>}}
  \cup {EnvLine("B", <<Env, "A", ";", Env, "B">>, TRUE), EnvLine("B", <<Env>>, TRUE)}

EnvScripts == UNION {[1..n -> EnvLines] : n \in 0..3}

-----------------------------------------------------------------------------
(* JournalStream: two threads that race, the first with a line longer than *)
(* the buffer; a log that is opened twice, with a line in between; a type  *)
(* that needs no file.                                                     *)
CONSTANTS main, t1, t2

Lines(m, s, h) == (main :> m) @@ (t1 :> s) @@ (t2 :> h)
Unused == [opens |-> << >>, between |-> FALSE, line |-> Lines(<< >>, << >>, << >>)]
Race   == [Unused EXCEPT !.opens = <<"journal">>,
                         !.line = Lines(<<"m", NL>>, <<"s", "s", NL>>, <<"h", NL>>)]
Twice  == [opens |-> <<"file:", "file:">>, between |-> TRUE,
           line |-> Lines(<<"m", NL>>, << >>, << >>)]
Nowhere == [Twice EXCEPT !.opens = <<"null">>]
StreamUses == {Unused, Race, Twice, Nowhere}

-----------------------------------------------------------------------------
HelperInit ==
  \/ /\ part = "reader" /\ script = << >> /\ use = Unused
     /\ EnvInit /\ StreamInit /\ ReaderInit
  \/ /\ part = "environment" /\ file = << >> /\ newline = TRUE /\ use = Unused
     /\ ReaderInit /\ StreamInit /\ EnvInit
  \/ /\ part = "stream" /\ file = << >> /\ newline = TRUE /\ script = << >>
     /\ ReaderInit /\ EnvInit /\ StreamInit

ReaderSteps == part = "reader" /\ ReaderNext /\ UNCHANGED <<part, envVars, streamVars>>
EnvSteps    == part = "environment" /\ EnvNext /\ UNCHANGED <<part, readerVars, streamVars>>
StreamSteps == part = "stream" /\ StreamNext /\ UNCHANGED <<part, readerVars, envVars>>

HelperNext == ReaderSteps \/ EnvSteps \/ StreamSteps

\* The reader and the loading of the environment are single threads that run on.
HelperSpec == /\ HelperInit /\ [][HelperNext]_helperVars
              /\ WF_helperVars(ReaderSteps) /\ WF_helperVars(EnvSteps)
=============================================================================
