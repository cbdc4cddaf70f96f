------------------------------ MODULE Checksum ------------------------------
(***************************************************************************)
(* CalculateBytes of internal/checksum/checksum.go: the content of a       *)
(* migration is cut into lines, and the bytes of the lines are hashed.     *)
(*                                                                         *)
(* A byte is "CR", "LF" or any other; "BOM" stands for the three bytes of  *)
(* a byte-order mark.  Positions count from 1.  The CRC32 depends on the   *)
(* bytes written to it and on nothing else, so `crc` is what was written.  *)
(***************************************************************************)
EXTENDS Integers, Sequences

CONSTANTS
  Bytes,  \* the bytes there are
  Files   \* the contents of migrations

ASSUME FilesAssumption == Files \subseteq Seq(Bytes)

VARIABLES
  file,    \* the content, as it is on disk
  data,    \* the content that is split
  i,       \* the position splitLines is at
  start,   \* where the line begins
  lines,   \* the lines found
  hashed,  \* how many of them were written to the CRC32
  crc,     \* what was written to it
  pc       \* "trim", "split", "hash" or "done"

vars == <<file, data, i, start, lines, hashed, crc, pc>>

Init ==
  /\ file \in Files
  /\ data = <<>> /\ i = 1 /\ start = 1
  /\ lines = <<>> /\ hashed = 0 /\ crc = <<>>
  /\ pc = "trim"

\* Faulty: the byte-order mark is part of the first line.
TrimNothing ==
  /\ pc = "trim"
  /\ data' = file
  /\ pc' = "split"
  /\ UNCHANGED <<file, i, start, lines, hashed, crc>>

\* bytes.TrimPrefix: at most one byte-order mark, at the very beginning.
Trim ==
  /\ pc = "trim"
  /\ data' = IF file # <<>> /\ file[1] = "BOM" THEN Tail(file) ELSE file
  /\ pc' = "split"
  /\ UNCHANGED <<file, i, start, lines, hashed, crc>>

At(byte) == pc = "split" /\ i <= Len(data) /\ data[i] = byte

\* The line ends before the byte at i, and the next one begins n bytes later.
EndLine(n) ==
  /\ lines' = Append(lines, SubSeq(data, start, i - 1))
  /\ i' = i + n
  /\ start' = i + n
  /\ UNCHANGED <<file, data, hashed, crc, pc>>

LineFeed == At("LF") /\ EndLine(1)

\* Faulty: as on a Unix system, where CR is a byte like any other.
CarriageReturnIsText ==
  At("CR") /\ i' = i + 1 /\ UNCHANGED <<file, data, start, lines, hashed, crc, pc>>

CarriageReturn ==
  At("CR") /\ EndLine(IF i < Len(data) /\ data[i + 1] = "LF" THEN 2 ELSE 1)

Other ==
  /\ pc = "split" /\ i <= Len(data) /\ data[i] \notin {"CR", "LF"}
  /\ i' = i + 1
  /\ UNCHANGED <<file, data, start, lines, hashed, crc, pc>>

\* A last line without a terminator.
LastLine ==
  /\ pc = "split" /\ i > Len(data)
  /\ lines' = IF start <= Len(data) THEN Append(lines, SubSeq(data, start, Len(data))) ELSE lines
  /\ pc' = "hash"
  /\ UNCHANGED <<file, data, i, start, hashed, crc>>

\* crc.Write of one line.
Hash ==
  /\ pc = "hash" /\ hashed < Len(lines)
  /\ crc' = crc \o lines[hashed + 1]
  /\ hashed' = hashed + 1
  /\ UNCHANGED <<file, data, i, start, lines, pc>>

Sum32 ==
  /\ pc = "hash" /\ hashed = Len(lines)
  /\ pc' = "done"
  /\ UNCHANGED <<file, data, i, start, lines, hashed, crc>>

Next == Trim \/ LineFeed \/ CarriageReturn \/ Other \/ LastLine \/ Hash \/ Sum32

Spec == Init /\ [][Next]_vars

-----------------------------------------------------------------------------
(* What must hold.                                                         *)

\* The bytes of the first n bytes of s that are not line ends, for each n.
Texts(s) ==
  LET text[n \in 0..Len(s)] ==
        IF n = 0 THEN <<>>
        ELSE IF s[n] \in {"CR", "LF"} THEN text[n - 1] ELSE Append(text[n - 1], s[n])
  IN  text

\* What is hashed is the content without its line ends, whichever they are, and
\* without a leading byte-order mark (checksum.go:12-23): the lines of a file
\* checked out with other line ends give the recorded checksum, and nothing but
\* line ends is left out.
EndingsDoNotCount ==
  pc = "done" =>
    LET text == IF file # <<>> /\ file[1] = "BOM" THEN Tail(file) ELSE file
    IN  crc = Texts(text)[Len(text)]

\* BufferedReader.readLine (java.io), which Flyway reads a migration with: byte
\* after byte, and a line feed right after a carriage return is skipped.
JavaByte(r, byte) ==
  CASE byte = "LF" /\ r.skipLF -> [r EXCEPT !.skipLF = FALSE]
    [] byte = "CR" \/ (byte = "LF" /\ ~ r.skipLF) ->
         [lines |-> Append(r.lines, r.line), line |-> <<>>, open |-> FALSE,
          skipLF |-> byte = "CR"]
    [] OTHER -> [r EXCEPT !.line = Append(@, byte), !.open = TRUE, !.skipLF = FALSE]

\* The state of the reader after n bytes of s, for each n.
JavaReader(s) ==
  LET read[n \in 0..Len(s)] ==
        IF n = 0 THEN [lines |-> <<>>, line |-> <<>>, open |-> FALSE, skipLF |-> FALSE]
        ELSE JavaByte(read[n - 1], s[n])
  IN  read

JavaLines(s) ==
  LET last == JavaReader(s)[Len(s)]
  IN  IF last.open THEN Append(last.lines, last.line) ELSE last.lines

\* The lines are those Flyway reads (checksum.go:52-56): none is added at the end
\* of the file and none lost between two terminators.
LinesOfFlyway == pc = "done" => lines = JavaLines(data)

=============================================================================
