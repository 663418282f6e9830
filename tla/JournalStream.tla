---------------------------- MODULE JournalStream ----------------------------
(***************************************************************************)
(* The log stream of the wrapper (journalstream.h, journalstream.cpp): one *)
(* wojournalstream, the opens ParseArgs and wmain make of it, and the      *)
(* threads that write lines to it afterwards.  Nothing locks the buffer:   *)
(* a thread may be put off between any two accesses to it.                 *)
(*                                                                         *)
(* A line is written character by character through overflow, and ends in  *)
(* std::endl, a newline and a sync.                                        *)
(***************************************************************************)
EXTENDS Integers, Sequences, FiniteSets

CONSTANTS
  Main,       \* the thread that opens the stream
  Threads,    \* all the threads that write to it
  Uses,       \* the ways a stream is used (Use)
  Limit,      \* MAX_BUFFER_SIZE: 2048 in the code
  Beyond      \* bound: the places behind m_buffer that are modelled

NL == "\n"

\* The types that open does not refuse, with a file or without.
OutputType == {"inherit", "null", "journal", "syslog", "journal+console", "syslog+console", "file:"}
NeedsHandle(type) == type \notin {"inherit", "null"}

(***************************************************************************)
(* opens: the output types Main opens it with, in turn; between: does Main *)
(* write its line after each; line: what each thread writes, the others'   *)
(* when the stream is open.  A stream that is opened again is the log, and *)
(* that as a file.                                                         *)
(***************************************************************************)
Use == [opens: Seq(OutputType), between: BOOLEAN, line: [Threads -> Seq(STRING)]]

ASSUME StreamAssumption ==
  /\ Main \in Threads /\ Limit \in Nat \ {0} /\ Beyond \in Nat
  /\ Uses \subseteq Use
  /\ \A u \in Uses : \A t \in Threads : \A i \in DOMAIN u.line[t] :
       u.line[t][i] = NL <=> i = Len(u.line[t])
  /\ \A u \in Uses : u.opens # << >> => u.line[Main] # << >>
  /\ \A u \in Uses : \A i \in DOMAIN u.opens : i > 1 => NeedsHandle(u.opens[i])

\* INVALID_HANDLE_VALUE; the others are numbered as they are opened.  It stands too
\* for the null in m_filehandle of a global stream before its first open, which the
\* default constructor does not set: nothing can be written to that either.
Invalid == 0

VARIABLES
  use,       \* how the stream is used
  opened,    \* the opens made so far
  held,      \* m_filehandle of the stream
  handle,    \* m_filehandle of the buffer
  toFile,    \* m_file_output
  current,   \* m_current, as an index into m_buffer
  chars,     \* m_buffer
  writer,    \* where each thread is in its line: pc, character, copy of m_current
  out,       \* history: what WriteFile was given, until two threads overlap
  failed,    \* history: an open has thrown
  overlap    \* history: two threads have been inside a line at once

streamVars == <<use, opened, held, handle, toFile, current, chars, writer, out, failed, overlap>>

-----------------------------------------------------------------------------
(* open.                                                                   *)

AllOpened == opened = Len(use.opens)
Quiet == \A t \in Threads : writer[t].pc = "idle"

\* Mutant of GivenHandle: a buffer that has a handle keeps it.
GivenHandleOnce(new) == IF handle = Invalid THEN new ELSE handle

GivenHandle(new) == new

\* The old handle is closed, and given to the buffer all the same.
ClosedHandle == IF held = Invalid THEN handle ELSE held

\* A sync writes what is left: nothing, since a line ends with one.  A new handle
\* replaces the old one, if the type needs one.
OpenStream ==
  /\ Quiet /\ ~failed /\ ~AllOpened
  /\ opened' = opened + 1
  /\ IF NeedsHandle(use.opens[opened'])
     THEN held' = opened' /\ handle' = GivenHandle(opened') /\ toFile' = TRUE
     ELSE held' = Invalid /\ handle' = ClosedHandle /\ toFile' = toFile
  /\ writer' = IF use.between THEN [writer EXCEPT ![Main].pc = "put"] ELSE writer
  /\ UNCHANGED <<use, current, chars, out, failed, overlap>>

\* CreateFile fails: open throws, with the closed handle in the buffer.  wmain
\* writes the exception to the log, and the process ends.
OpenFails ==
  /\ Quiet /\ ~failed /\ ~AllOpened /\ NeedsHandle(use.opens[opened + 1])
  /\ held' = Invalid /\ handle' = ClosedHandle /\ toFile' = TRUE /\ failed' = TRUE
  /\ writer' = [writer EXCEPT ![Main].pc = "put"]
  /\ UNCHANGED <<use, opened, current, chars, out, overlap>>

\* With the stream open, the other threads write a line each.
BeginLine(t) ==
  /\ t # Main /\ AllOpened /\ ~failed /\ use.line[t] # << >>
  /\ writer[t].pc = "idle" /\ ~writer[t].wrote
  /\ writer' = [writer EXCEPT ![t].pc = "put", ![t].wrote = TRUE]
  /\ overlap' = (overlap \/ \E u \in Threads : writer[u].pc # "idle")
  /\ UNCHANGED <<use, opened, held, handle, toFile, current, chars, out, failed>>

-----------------------------------------------------------------------------
(* overflow, for one character, and sync.                                  *)

Line(t) == use.line[t]
Char(t) == Line(t)[writer[t].k]
At(t, pc) == writer[t].pc = pc
Move(t, pc) == writer' = [writer EXCEPT ![t].pc = pc]
StreamUnchanged == UNCHANGED <<use, opened, held, handle, failed, toFile, overlap>>

\* Mutant of HasRoom: the last place of the buffer, for the final null, is used.
HasRoomForNull == current <= Limit

HasRoom == current < Limit

\* Mutant of AfterChar: the place in the line goes on behind the newline.
AfterCharOn(t) == [writer EXCEPT ![t] =
  [@ EXCEPT !.pc = IF Char(t) = NL THEN "flush" ELSE "put", !.k = writer[t].k + 1]]

\* The next character, or the newline's flush.
AfterChar(t) == [writer EXCEPT ![t] =
  IF Char(t) = NL THEN [@ EXCEPT !.pc = "flush"]
                  ELSE [@ EXCEPT !.pc = "put", !.k = writer[t].k + 1]]

\* A character that has no room is dropped, a newline too.
Put(t) ==
  /\ At(t, "put")
  /\ IF HasRoom THEN Move(t, "load") ELSE writer' = AfterChar(t)
  /\ StreamUnchanged /\ UNCHANGED <<current, chars, out>>

\* *m_current++ = c reads m_current ...
Load(t) ==
  /\ At(t, "load") /\ current <= Limit + Beyond
  /\ writer' = [writer EXCEPT ![t].pc = "store", ![t].p = current]
  /\ StreamUnchanged /\ UNCHANGED <<current, chars, out>>

\* ... and writes it back and stores the character where it was.
Store(t) ==
  /\ At(t, "store")
  /\ current' = writer[t].p + 1
  /\ chars' = [chars EXCEPT ![writer[t].p] = Char(t)]
  /\ writer' = [AfterChar(t) EXCEPT ![t].p = 0]
  /\ StreamUnchanged /\ UNCHANGED out

Written == [i \in 1..current |-> chars[i - 1]]
Writes == toFile /\ handle # Invalid

\* The final null, and WriteFile up to m_current.
Flush(t) ==
  /\ At(t, "flush") /\ current <= Limit + Beyond
  /\ Move(t, "reset")
  /\ chars' = [chars EXCEPT ![current] = "null"]
  /\ out' = IF Writes /\ ~overlap
            THEN Append(out, [by |-> t, text |-> Written, stale |-> handle # held]) ELSE out
  /\ StreamUnchanged /\ UNCHANGED current

\* Mutant of Rewound: m_current stays where it is.
RewoundNever == current

Rewound == 0

Reset(t) ==
  /\ At(t, "reset") /\ Move(t, "sync")
  /\ current' = Rewound
  /\ StreamUnchanged /\ UNCHANGED <<chars, out>>

\* If another thread has put something since, this one writes it.
Sync(t) ==
  /\ At(t, "sync")
  /\ IF current > 0 THEN Move(t, "flush")
     ELSE writer' = [writer EXCEPT ![t] = [@ EXCEPT !.pc = "idle", !.k = 1]]
  /\ StreamUnchanged /\ UNCHANGED <<current, chars, out>>

-----------------------------------------------------------------------------
StreamInit ==
  /\ use \in Uses
  /\ opened = 0 /\ held = Invalid /\ handle = Invalid /\ toFile = FALSE
  /\ current = 0 /\ chars = [i \in 0..Limit + Beyond |-> "null"]
  /\ writer = [t \in Threads |-> [pc |-> "idle", k |-> 1, p |-> 0, wrote |-> FALSE]]
  /\ out = << >> /\ failed = FALSE /\ overlap = FALSE

WriterStep(t) == Put(t) \/ Load(t) \/ Store(t) \/ Flush(t) \/ Reset(t) \/ Sync(t)

StreamNext == OpenStream \/ OpenFails \/ \E t \in Threads : BeginLine(t) \/ WriterStep(t)

StreamSpec == StreamInit /\ [][StreamNext]_streamVars

StreamTypeOK ==
  /\ opened \in 0..Len(use.opens) /\ held \in {Invalid, opened} /\ handle \in 0..opened
  /\ \A t \in Threads : writer[t].k = 1 \/ writer[t].k \in DOMAIN Line(t)
  /\ DOMAIN chars = 0..Limit + Beyond

(* As long as no two threads are inside a line at once, each character and *)
(* the final null are stored inside the buffer.  (When they are, a thread  *)
(* that has read m_current before another one set it back moves it on past *)
(* the end, and the next thread starts from there.)                        *)
StaysInBuffer ==
  ~overlap => \A t \in Threads : /\ At(t, "store") => writer[t].p < Limit
                                 /\ At(t, "flush") => current <= Limit

\* What a thread that is alone writes: its line, cut off at the limit.
Kept(t) == SubSeq(Line(t), 1, IF Len(Line(t)) <= Limit THEN Len(Line(t)) ELSE Limit)

(* Under the same condition, what reaches the file are whole lines: a line *)
(* is written once it has ended, with no other one's characters in it.     *)
LinesIntact ==
  /\ \A i \in DOMAIN out : out[i].text = Kept(out[i].by)
  /\ \A t \in Threads \ {Main} : LET lines == {i \in DOMAIN out : out[i].by = t} IN
       /\ Cardinality(lines) <= 1
       /\ At(t, "idle") /\ writer[t].wrote /\ Writes /\ ~overlap => lines # {}

(* Nothing is written to a handle that has been closed, unless an open     *)
(* failed: the message that says so is written to it.                      *)
NoStaleWrite == ~failed => \A i \in DOMAIN out : ~out[i].stale
=============================================================================
