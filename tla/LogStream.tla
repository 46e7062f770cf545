------------------------------ MODULE LogStream ------------------------------
(***************************************************************************)
(* The text of a log statement: log::Stream (log_stream.h, base/log/       *)
(* stream.cc) on its FixedBuffer, and what Logger puts in front of it and  *)
(* behind it (logging.cc).  A stream is the parts that found room and the  *)
(* bytes they take; a part is its name, its size and whether it is a       *)
(* number, as there are two tests of the room left.                        *)
(***************************************************************************)
EXTENDS Integers, SequencesExt

SmallBuffer == 4096
MaxNumericSize == 48

NoStream == [parts |-> <<>>, length |-> 0]

Room(s) == SmallBuffer - s.length

Add(s, part) == [parts |-> Append(s.parts, part.name), length |-> s.length + part.size]

\* Defect: a text may fill the buffer.
AppendText_Fill(s, part) == IF Room(s) >= part.size THEN Add(s, part) ELSE s

\* FixedBuffer::append(), through operator<< of bool, char, texts and Fmt: a
\* text that does not leave a byte free is dropped as a whole.
AppendText(s, part) == IF Room(s) > part.size THEN Add(s, part) ELSE s

\* formatInteger(): dropped unless the longest number would fit.
AppendInteger(s, part) == IF Room(s) >= MaxNumericSize THEN Add(s, part) ELSE s

\* Pointers, with 0x in front of the digits.
AppendPointer(s, part) ==
  IF Room(s) >= MaxNumericSize THEN Add(s, [part EXCEPT !.size = @ + 2]) ELSE s

\* Doubles: add() is given what snprintf() returns for "%.12g".
AppendDouble(s, part) == IF Room(s) >= MaxNumericSize THEN Add(s, part) ELSE s

Insert(s, part) ==
  CASE part.type = "text"    -> AppendText(s, part)
    [] part.type = "integer" -> AppendInteger(s, part)
    [] part.type = "pointer" -> AppendPointer(s, part)
    [] part.type = "double"  -> AppendDouble(s, part)

InsertAll(s, parts) == FoldLeft(Insert, s, parts)

Text(name, size) == [type |-> "text", name |-> name, size |-> size]
Number(type, name, size) == [type |-> type, name |-> name, size |-> size]

\* operator<<(const char*).
CString(isNull, size) == Text("string", IF isNull THEN 6 ELSE size)

\* The end of formatTime(): the second and the micro-seconds, with a Z for UTC.
TimeParts(utc) == <<Text("time", 19), Text("micro", IF utc THEN 9 ELSE 8)>>

\* Logger::Data::Data(): tidSize and error belong to the thread.
Header(utc, tidSize, error) ==
  LET reason == <<CString(FALSE, error.textSize), Text("errno=", 8),
                  Number("integer", "errno", error.digits), Text(")", 2)>>
  IN  InsertAll(NoStream, TimeParts(utc) \o <<Text("tid", tidSize), Text("level", 9)>>
                            \o (IF error.digits > 0 THEN reason ELSE <<>>))

\* Logger::Data::finish().
Finish(s, nameSize, lineDigits) ==
  InsertAll(s, <<Text(" - ", 3), Text("name", nameSize), Text(":", 1),
                 Number("integer", "line", lineDigits), Text("newline", 1)>>)
=============================================================================
