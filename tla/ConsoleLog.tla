------------------------------ MODULE ConsoleLog ------------------------------
(***************************************************************************)
(* The console realization of LogSink                                      *)
(* (packages/observability/logging/src/console.rs): emit() takes the locks *)
(* of stdout and of stderr, in this order, and writes a line to one of     *)
(* them in two writes.                                                     *)
(*                                                                         *)
(* A text is a sequence of words and line breaks, and what a stream holds  *)
(* is the text that was written to it.                                     *)
(***************************************************************************)
EXTENDS Naturals, Sequences, SequencesExt

CONSTANTS
    Emitters,      \* the threads that emit records
    Nobody,        \* the holder of a free lock
    Words,         \* what texts are made of: the line breaks and words without any
    MinimumLevel,  \* the configuration: minimum_level,
    StderrFrom,    \* stderr_from
    Prefix         \* and prefix, a text or the empty one

Severity == [Trace |-> 0, Debug |-> 1, Info |-> 2, Warn |-> 3, Error |-> 4]
Breaks   == {"\n", "\r"}
Streams  == {"stdout", "stderr"}

ASSUME EmittersAssumption == Nobody \notin Emitters
ASSUME LevelsAssumption == {MinimumLevel, StderrFrom} \subseteq DOMAIN Severity
ASSUME WordsAssumption == Breaks \cup {"\\n", "\\r"} \cup DOMAIN Severity \subseteq Words

Texts == Seq(Words)
LogRecords == [level : DOMAIN Severity, target : Texts, message : Texts]

ASSUME PrefixAssumption == Prefix \in Texts

VARIABLES
    held,     \* who holds each stream's lock
    emitting, \* where each emit is, "none" when there is none
    record,   \* the record of each emit
    content,  \* what has been written to each stream
    emitted,  \* what the last emit of each emitter returned
    lines,    \* history: the records that each stream got, in order
    broken    \* history: the streams on which a write failed

consoleVars == <<held, emitting, record, content, emitted, lines, broken>>

ConsoleInit ==
    /\ held = [s \in Streams |-> Nobody]
    /\ emitting = [e \in Emitters |-> "none"]
    /\ record = [e \in Emitters |-> [level |-> "Info", target |-> <<>>, message |-> <<>>]]
    /\ content = [s \in Streams |-> <<>>]
    /\ emitted = [e \in Emitters |-> "none"]
    /\ lines = [s \in Streams |-> <<>>]
    /\ broken = {}
-----------------------------------------------------------------------------
\* Mutant of Escaped: one of the two line breaks is forgotten.
EscapedHalf(text) == [i \in DOMAIN text |-> IF text[i] = "\n" THEN "\\n" ELSE text[i]]

\* escape_line_breaks
Escaped(text) ==
    [i \in DOMAIN text |-> CASE text[i] = "\n" -> "\\n"
                             [] text[i] = "\r" -> "\\r"
                             [] OTHER -> text[i]]

\* format_console_record
Line(r) == Escaped(Prefix) \o <<r.level>> \o Escaped(r.target) \o Escaped(r.message)

Destination(r) == IF Severity[r.level] >= Severity[StderrFrom] THEN "stderr" ELSE "stdout"
-----------------------------------------------------------------------------
(* emit() *)

Emit(e, r) ==
    /\ emitting[e] = "none"
    /\ emitting' = [emitting EXCEPT ![e] = "stdout"]
    /\ record' = [record EXCEPT ![e] = r]
    /\ emitted' = [emitted EXCEPT ![e] = "none"]
    /\ UNCHANGED <<held, content, lines, broken>>

LockStdout(e) ==
    /\ emitting[e] = "stdout" /\ held["stdout"] = Nobody
    /\ held' = [held EXCEPT !["stdout"] = e]
    /\ emitting' = [emitting EXCEPT ![e] = "stderr"]
    /\ UNCHANGED <<record, content, emitted, lines, broken>>

LockStderr(e) ==
    /\ emitting[e] = "stderr" /\ held["stderr"] = Nobody
    /\ held' = [held EXCEPT !["stderr"] = e]
    /\ emitting' = [emitting EXCEPT ![e] = "text"]
    /\ UNCHANGED <<record, content, emitted, lines, broken>>

\* Both locks are released when emit returns.
Returns(e, how) ==
    /\ held' = [s \in Streams |-> IF held[s] = e THEN Nobody ELSE held[s]]
    /\ emitting' = [emitting EXCEPT ![e] = "none"]
    /\ emitted' = [emitted EXCEPT ![e] = how]
    /\ UNCHANGED record

\* write_console_record: a record below the minimum level is Ok and not written.
Skip(e) ==
    /\ emitting[e] = "text"
    /\ Severity[record[e].level] < Severity[MinimumLevel]
    /\ Returns(e, "Ok")
    /\ UNCHANGED <<content, lines, broken>>

Writes(e, where) ==
    /\ emitting[e] = where
    /\ Severity[record[e].level] >= Severity[MinimumLevel]

\* write_line: the text, and then the line break.
WriteText(e) ==
    LET s == Destination(record[e])
    IN  /\ Writes(e, "text")
        /\ content' = [content EXCEPT ![s] = @ \o Line(record[e])]
        /\ lines' = [lines EXCEPT ![s] = Append(@, record[e])]
        /\ emitting' = [emitting EXCEPT ![e] = "newline"]
        /\ UNCHANGED <<held, record, emitted, broken>>

WriteNewline(e) ==
    LET s == Destination(record[e])
    IN  /\ Writes(e, "newline")
        /\ content' = [content EXCEPT ![s] = Append(@, "\n")]
        /\ Returns(e, "Ok")
        /\ UNCHANGED <<lines, broken>>

\* Mutant of WriteFails: the guards leak with the error.
WriteFailsLocked(e) ==
    LET s == Destination(record[e])
    IN  /\ Writes(e, "text") \/ Writes(e, "newline")
        /\ emitting' = [emitting EXCEPT ![e] = "none"]
        /\ emitted' = [emitted EXCEPT ![e] = "WriteFailed"]
        /\ broken' = broken \cup {s}
        /\ UNCHANGED <<held, record, content, lines>>

\* Either write may fail, the first after a part of the text.
WriteFails(e) ==
    LET s == Destination(record[e])
        text == IF emitting[e] = "text" THEN Line(record[e]) ELSE <<>>
    IN  /\ Writes(e, "text") \/ Writes(e, "newline")
        /\ \E k \in {0, Len(text) \div 2} :
              content' = [content EXCEPT ![s] = @ \o SubSeq(text, 1, k)]
        /\ broken' = broken \cup {s}
        /\ Returns(e, "WriteFailed")
        /\ UNCHANGED lines

Write(e) == Skip(e) \/ WriteText(e) \/ WriteNewline(e) \/ WriteFails(e)
-----------------------------------------------------------------------------
\* "Console output is one record per line": on a stream on which no write has failed
\* every line is one record, whole, in the order in which they were emitted, whatever
\* line breaks the records carry; only the last may still lack its line break.
OneRecordPerLine ==
    \A s \in Streams \ broken :
        LET text == [i \in DOMAIN lines[s] |-> Line(lines[s][i])]
        IN  /\ \A i \in DOMAIN text : \A k \in DOMAIN text[i] : text[i][k] \notin Breaks
            /\ FlattenSeq([i \in DOMAIN text |-> Append(text[i], "\n")])
                 \in {content[s], Append(content[s], "\n")}
=============================================================================
