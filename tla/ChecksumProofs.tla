--------------------------- MODULE ChecksumProofs ---------------------------
(***************************************************************************)
(* Proofs about Checksum: for every content, what is hashed is the content *)
(* without its line ends, and the lines are those Flyway reads.            *)
(***************************************************************************)
EXTENDS Checksum, NatSets, SequenceTheorems

-----------------------------------------------------------------------------
(* Sequences.                                                              *)

\* A stretch of a sequence that begins behind its end is empty; one that gets longer
\* at its end has one element appended.
LEMMA Stretch ==
  ASSUME NEW s \in Seq(Bytes), NEW a \in 1..(Len(s) + 1), NEW b \in (a - 1)..Len(s)
  PROVE  /\ SubSeq(s, a, a - 1) = <<>>
         /\ SubSeq(s, a, b) \in Seq(Bytes)
         /\ Len(SubSeq(s, a, b)) = b - a + 1
         /\ a <= b => SubSeq(s, a, b) = Append(SubSeq(s, a, b - 1), s[b])
<1>1. \A j \in a..b : s[j] \in Bytes
  OBVIOUS
<1>2. a \in Int /\ b \in Int /\ a - 1 <= b /\ b - a + 1 >= 0
  OBVIOUS
<1>3. SubSeq(s, a, b) \in Seq(Bytes) /\ Len(SubSeq(s, a, b)) = b - a + 1
  BY <1>1, <1>2, SubSeqProperties
<1>4. SubSeq(s, a, a - 1) = <<>>
  BY <1>2, SubSeqEmpty
<1>5. ASSUME a <= b PROVE SubSeq(s, a, b) = Append(SubSeq(s, a, b - 1), s[b])
  <2>1. a \in 1..Len(s) /\ b \in a..Len(s)
    BY <1>5
  <2>2. SubSeq(s, a, b) = SubSeq(s, a, b - 1) \o <<s[b]>>
    BY <2>1, SubSeqRecursiveSecond
  <2>3. SubSeq(s, a, b - 1) \in Seq(Bytes)
    <3>1. \A j \in a..(b - 1) : s[j] \in Bytes
      BY <1>1
    <3> QED
      BY <1>2, <3>1, SubSeqProperties
  <2> QED
    BY <2>1, <2>2, <2>3, AppendIsConcat
<1> QED
  BY <1>3, <1>4, <1>5

\* What is appended to the second of two sequences is appended to both.
LEMMA AppendBehind ==
  ASSUME NEW s \in Seq(Bytes), NEW t \in Seq(Bytes), NEW e \in Bytes
  PROVE  s \o Append(t, e) = Append(s \o t, e)
<1>1. <<e>> \in Seq(Bytes)
  OBVIOUS
<1>2. Append(t, e) = t \o <<e>> /\ Append(s \o t, e) = (s \o t) \o <<e>>
  BY AppendIsConcat, ConcatProperties
<1> QED
  BY <1>1, <1>2, ConcatAssociative

-----------------------------------------------------------------------------
(* The recursive definitions compute what they say.                        *)

\* The text before position n + 1: a byte that is no line end is appended to the
\* text before it.
LEMMA TextsDef ==
  ASSUME NEW s \in Seq(Bytes)
  PROVE  /\ Texts(s) \in [0..Len(s) -> Seq(Bytes)]
         /\ Texts(s)[0] = <<>>
         /\ \A n \in 1..Len(s) :
              Texts(s)[n] = IF s[n] \in {"CR", "LF"} THEN Texts(s)[n - 1]
                            ELSE Append(Texts(s)[n - 1], s[n])
<1> DEFINE Body(g) == [n \in 0..Len(s) |->
                         IF n = 0 THEN <<>>
                         ELSE IF s[n] \in {"CR", "LF"} THEN g[n - 1] ELSE Append(g[n - 1], s[n])]
           step == [p \in Nat \X Seq(Bytes) |->
                      IF p[1] \in 1..Len(s) /\ s[p[1]] \notin {"CR", "LF"}
                      THEN Append(p[2], s[p[1]]) ELSE p[2]]
<1>1. step \in [Nat \X Seq(Bytes) -> Seq(Bytes)]
  <2>1. ASSUME NEW n \in Nat, NEW t \in Seq(Bytes), n \in 1..Len(s)
        PROVE  Append(t, s[n]) \in Seq(Bytes)
    BY <2>1
  <2> QED
    BY <2>1
<1>2. <<>> \in Seq(Bytes) /\ Len(s) \in Nat
  OBVIOUS
<1>3. Recursions(Seq(Bytes), <<>>, step, Len(s)) # {}
  <2> HIDE DEF step
  <2> QED
    BY <1>1, <1>2, NatRec
<1>4. PICK g \in [0..Len(s) -> Seq(Bytes)] :
        g[0] = <<>> /\ \A k \in 1..Len(s) : g[k] = step[<<k, g[k - 1]>>]
  <2> HIDE DEF step
  <2> QED
    BY <1>3 DEF Recursions
<1>5. g = Body(g)
  <2>1. ASSUME NEW n \in 0..Len(s) PROVE g[n] = Body(g)[n]
    <3>1. CASE n = 0
      BY <3>1, <1>4
    <3>2. CASE n \in 1..Len(s)
      <4>1. n - 1 \in 0..Len(s) /\ n \in Nat
        BY <3>2
      <4>2. g[n - 1] \in Seq(Bytes)
        BY <4>1
      <4>3. <<n, g[n - 1]>> \in Nat \X Seq(Bytes)
        BY <4>1, <4>2
      <4>4. step[<<n, g[n - 1]>>] = IF s[n] \in {"CR", "LF"} THEN g[n - 1]
                                    ELSE Append(g[n - 1], s[n])
        BY <3>2, <4>3
      <4> QED
        BY <1>4, <3>2, <4>4
    <3> QED
      BY <3>1, <3>2
  <2> QED
    BY <2>1
<1>6. Texts(s) = CHOOSE f : f = Body(f)
  BY DEF Texts
<1>7. Texts(s) = Body(Texts(s))
  <2> HIDE DEF Body
  <2> QED
    BY <1>5, <1>6
<1> DEFINE text == Texts(s)
           T == {n \in Nat : n \in 0..Len(s) => text[n] \in Seq(Bytes)}
<1>8. /\ text = [n \in 0..Len(s) |-> text[n]]
      /\ text[0] = <<>>
      /\ \A n \in 1..Len(s) :
           text[n] = IF s[n] \in {"CR", "LF"} THEN text[n - 1] ELSE Append(text[n - 1], s[n])
  <2> HIDE DEF text
  <2>1. text = Body(text)
    BY <1>7 DEF text
  <2>2. \A n \in 0..Len(s) : text[n] = Body(text)[n]
    BY <2>1
  <2>3. DOMAIN text = 0..Len(s) /\ text = [n \in DOMAIN text |-> text[n]]
    BY <2>1, Zenon
  <2>4. text = [n \in 0..Len(s) |-> text[n]]
    BY <2>3
  <2>5. text[0] = <<>>
    BY <2>2, <1>2
  <2>6. ASSUME NEW n \in 1..Len(s)
        PROVE  text[n] = IF s[n] \in {"CR", "LF"} THEN text[n - 1] ELSE Append(text[n - 1], s[n])
    BY <2>2
  <2> QED
    BY <2>4, <2>5, <2>6
<1> HIDE DEF text
<1>9. T = Nat
  <2>1. T \in SUBSET Nat /\ 0 \in T
    BY <1>2, <1>8
  <2>2. ASSUME NEW n \in T PROVE n + 1 \in T
    <3>1. SUFFICES ASSUME n + 1 \in 0..Len(s) PROVE text[n + 1] \in Seq(Bytes)
      OBVIOUS
    <3>2. n + 1 \in 1..Len(s) /\ (n + 1) - 1 = n /\ text[n] \in Seq(Bytes) /\ s[n + 1] \in Bytes
      BY <3>1
    <3>3. text[n + 1] = IF s[n + 1] \in {"CR", "LF"} THEN text[n] ELSE Append(text[n], s[n + 1])
      BY <3>2, <1>8
    <3> QED
      BY <3>2, <3>3
  <2> HIDE DEF T
  <2> QED
    BY <2>1, <2>2, NatInd
<1>10. \A n \in 0..Len(s) : text[n] \in Seq(Bytes)
  BY <1>9
<1> QED
  BY <1>8, <1>10 DEF text

\* The states of Java's reader.
Readers == [lines : Seq(Seq(Bytes)), line : Seq(Bytes), open : BOOLEAN, skipLF : BOOLEAN]

\* Each byte takes a state of the reader to a state of the reader.
LEMMA JavaByteType ==
  ASSUME NEW r \in Readers, NEW byte \in Bytes
  PROVE  JavaByte(r, byte) \in Readers
<1>1. /\ r.lines \in Seq(Seq(Bytes)) /\ r.line \in Seq(Bytes)
      /\ r.open \in BOOLEAN /\ r.skipLF \in BOOLEAN
  BY DEF Readers
<1>2. Append(r.lines, r.line) \in Seq(Seq(Bytes)) /\ Append(r.line, byte) \in Seq(Bytes)
      /\ <<>> \in Seq(Bytes)
  BY <1>1, AppendProperties, EmptySeq
<1>3. CASE byte = "LF" /\ r.skipLF
  BY <1>1, <1>3 DEF JavaByte, Readers
<1>4. CASE byte = "CR" \/ (byte = "LF" /\ ~ r.skipLF)
  <2>1. JavaByte(r, byte) = [lines |-> Append(r.lines, r.line), line |-> <<>>, open |-> FALSE,
                             skipLF |-> byte = "CR"]
    BY <1>4 DEF JavaByte
  <2> QED
    BY <1>2, <2>1 DEF Readers
<1>5. CASE byte \notin {"CR", "LF"}
  <2>1. JavaByte(r, byte) = [r EXCEPT !.line = Append(@, byte), !.open = TRUE, !.skipLF = FALSE]
    BY <1>5 DEF JavaByte
  <2> QED
    BY <1>1, <1>2, <2>1 DEF Readers
<1> QED
  BY <1>1, <1>3, <1>4, <1>5

\* The reader goes on from one byte to the next.
LEMMA JavaReaderDef ==
  ASSUME NEW s \in Seq(Bytes)
  PROVE  /\ JavaReader(s) \in [0..Len(s) -> Readers]
         /\ JavaReader(s)[0] = [lines |-> <<>>, line |-> <<>>, open |-> FALSE, skipLF |-> FALSE]
         /\ \A n \in 1..Len(s) : JavaReader(s)[n] = JavaByte(JavaReader(s)[n - 1], s[n])
<1> DEFINE base == [lines |-> <<>>, line |-> <<>>, open |-> FALSE, skipLF |-> FALSE]
           Body(g) == [n \in 0..Len(s) |->
                         IF n = 0 THEN base ELSE JavaByte(g[n - 1], s[n])]
           step == [p \in Nat \X Readers |->
                      IF p[1] \in 1..Len(s) THEN JavaByte(p[2], s[p[1]]) ELSE p[2]]
<1>1. step \in [Nat \X Readers -> Readers]
  <2>1. ASSUME NEW n \in Nat, NEW r \in Readers, n \in 1..Len(s)
        PROVE  JavaByte(r, s[n]) \in Readers
    BY <2>1, JavaByteType
  <2> QED
    BY <2>1
<1>2. base \in Readers /\ Len(s) \in Nat
  BY EmptySeq DEF Readers
<1>3. Recursions(Readers, base, step, Len(s)) # {}
  <2> HIDE DEF step, base
  <2> QED
    BY <1>1, <1>2, NatRec
<1>4. PICK g \in [0..Len(s) -> Readers] :
        g[0] = base /\ \A k \in 1..Len(s) : g[k] = step[<<k, g[k - 1]>>]
  <2> HIDE DEF step, base
  <2> QED
    BY <1>3 DEF Recursions
<1>5. g = Body(g)
  <2>1. ASSUME NEW n \in 0..Len(s) PROVE g[n] = Body(g)[n]
    <3>1. CASE n = 0
      BY <3>1, <1>4
    <3>2. CASE n \in 1..Len(s)
      <4>1. n - 1 \in 0..Len(s) /\ n \in Nat
        BY <3>2
      <4>2. g[n - 1] \in Readers
        BY <4>1
      <4>3. <<n, g[n - 1]>> \in Nat \X Readers
        BY <4>1, <4>2
      <4>4. step[<<n, g[n - 1]>>] = JavaByte(g[n - 1], s[n])
        BY <3>2, <4>3
      <4> QED
        BY <1>4, <3>2, <4>4
    <3> QED
      BY <3>1, <3>2
  <2> QED
    BY <2>1
<1>6. JavaReader(s) = CHOOSE f : f = Body(f)
  BY DEF JavaReader
<1>7. JavaReader(s) = Body(JavaReader(s))
  <2> HIDE DEF Body
  <2> QED
    BY <1>5, <1>6
<1> DEFINE read == JavaReader(s)
           T == {n \in Nat : n \in 0..Len(s) => read[n] \in Readers}
<1>8. /\ read = [n \in 0..Len(s) |-> read[n]]
      /\ read[0] = base
      /\ \A n \in 1..Len(s) : read[n] = JavaByte(read[n - 1], s[n])
  <2> HIDE DEF read, base
  <2>1. read = Body(read)
    BY <1>7 DEF read
  <2>2. \A n \in 0..Len(s) : read[n] = Body(read)[n]
    BY <2>1
  <2>3. DOMAIN read = 0..Len(s) /\ read = [n \in DOMAIN read |-> read[n]]
    BY <2>1, Zenon
  <2>4. read = [n \in 0..Len(s) |-> read[n]]
    BY <2>3
  <2>5. read[0] = base
    BY <2>2, <1>2
  <2>6. ASSUME NEW n \in 1..Len(s) PROVE read[n] = JavaByte(read[n - 1], s[n])
    BY <2>2
  <2> QED
    BY <2>4, <2>5, <2>6
<1> HIDE DEF read
<1>9. T = Nat
  <2>1. T \in SUBSET Nat /\ 0 \in T
    BY <1>2, <1>8
  <2>2. ASSUME NEW n \in T PROVE n + 1 \in T
    <3>1. SUFFICES ASSUME n + 1 \in 0..Len(s) PROVE read[n + 1] \in Readers
      OBVIOUS
    <3>2. n + 1 \in 1..Len(s) /\ (n + 1) - 1 = n /\ read[n] \in Readers /\ s[n + 1] \in Bytes
      BY <3>1
    <3>3. read[n + 1] = JavaByte(read[n], s[n + 1])
      BY <3>2, <1>8
    <3> QED
      BY <3>2, <3>3, JavaByteType
  <2> HIDE DEF T
  <2> QED
    BY <2>1, <2>2, NatInd
<1>10. \A n \in 0..Len(s) : read[n] \in Readers
  BY <1>9
<1> QED
  BY <1>8, <1>10 DEF read

-----------------------------------------------------------------------------
(* The content that is split, and how far it is.                           *)

Stripped(s) == IF s # <<>> /\ s[1] = "BOM" THEN Tail(s) ELSE s

TypeInv ==
  /\ file \in Seq(Bytes) /\ data \in Seq(Bytes)
  /\ i \in 1..(Len(data) + 1) /\ start \in 1..i
  /\ lines \in Seq(Seq(Bytes)) /\ hashed \in 0..Len(lines) /\ crc \in Seq(Bytes)
  /\ pc \in {"trim", "split", "hash", "done"}
  /\ pc = "trim" => data = <<>> /\ i = 1 /\ start = 1
  /\ pc \in {"trim", "split"} => hashed = 0
  /\ pc = "trim" => lines = <<>>
  /\ pc # "trim" => data = Stripped(file)
  /\ pc = "done" => hashed = Len(lines)

\* The bytes of the first n lines, for each n.
Sums(f) ==
  /\ f[0] = <<>>
  /\ \A n \in 1..Len(lines) : f[n] = f[n - 1] \o lines[n]

\* The text of the lines, and of the line being read, is the text of what was read;
\* the text of the lines hashed is what was hashed.
SumInv ==
  \E f \in [0..Len(lines) -> Seq(Bytes)] :
    /\ Sums(f)
    /\ crc = f[hashed]
    /\ pc \in {"trim", "split"} =>
         Texts(data)[i - 1] = f[Len(lines)] \o SubSeq(data, start, i - 1)
    /\ pc \in {"hash", "done"} => Texts(data)[Len(data)] = f[Len(lines)]

\* Java's reader has come as far, with the same lines.  It may still have to skip a
\* line feed, but then there is none.
JavaInv ==
  /\ pc \in {"trim", "split"} =>
       LET r == JavaReader(data)[i - 1]
       IN  /\ r.lines = lines
           /\ r.line = SubSeq(data, start, i - 1)
           /\ r.open <=> start < i
           /\ r.skipLF => ~ (i <= Len(data) /\ data[i] = "LF")
  /\ pc \in {"hash", "done"} => lines = JavaLines(data)

\* The split starts at the first byte.
LEMMA InitType == Init => TypeInv
<1> SUFFICES ASSUME Init PROVE TypeInv
  OBVIOUS
<1>1. file \in Seq(Bytes)
  BY FilesAssumption DEF Init
<1> QED
  BY <1>1, EmptySeq DEF Init, TypeInv

\* Positions stay within the content, and the content is the file without its mark.
LEMMA NextType == TypeInv /\ [Next]_vars => TypeInv'
<1> SUFFICES ASSUME TypeInv, [Next]_vars PROVE TypeInv'
  OBVIOUS
<1> USE DEF TypeInv
<1>1. CASE Trim
  <2>1. Stripped(file) \in Seq(Bytes)
    BY HeadTailProperties DEF Stripped
  <2>2. data' = Stripped(file)
    BY <1>1 DEF Trim, Stripped
  <2> QED
    BY <1>1, <2>1, <2>2, LenProperties DEF Trim, Stripped
<1>2. ASSUME NEW n \in {1, 2}, EndLine(n), i + n <= Len(data) + 1, pc = "split"
      PROVE  TypeInv'
  <2>1. SubSeq(data, start, i - 1) \in Seq(Bytes)
    BY <1>2, Stretch
  <2>2. lines' \in Seq(Seq(Bytes)) /\ Len(lines') = Len(lines) + 1
    BY <1>2, <2>1, AppendProperties DEF EndLine
  <2> QED
    BY <1>2, <2>2 DEF EndLine
<1>3. CASE LineFeed
  BY <1>2, <1>3 DEF LineFeed, At
<1>4. CASE CarriageReturn
  BY <1>2, <1>4 DEF CarriageReturn, At
<1>5. CASE Other
  BY <1>5 DEF Other
<1>6. CASE LastLine
  <2>1. SubSeq(data, start, Len(data)) \in Seq(Bytes)
    BY Stretch
  <2>2. Append(lines, SubSeq(data, start, Len(data))) \in Seq(Seq(Bytes))
        /\ Len(Append(lines, SubSeq(data, start, Len(data)))) = Len(lines) + 1
    BY <2>1, AppendProperties
  <2> QED
    BY <1>6, <2>2 DEF LastLine
<1>7. CASE Hash
  <2>1. crc' \in Seq(Bytes)
    <3>1. lines[hashed + 1] \in Seq(Bytes)
      BY <1>7 DEF Hash
    <3> QED
      BY <1>7, <3>1, ConcatProperties DEF Hash
  <2> QED
    BY <1>7, <2>1 DEF Hash
<1>8. CASE Sum32
  BY <1>8 DEF Sum32
<1>9. CASE UNCHANGED vars
  BY <1>9 DEF vars
<1> QED
  BY <1>1, <1>3, <1>4, <1>5, <1>6, <1>7, <1>8, <1>9 DEF Next

-----------------------------------------------------------------------------
(* What is hashed.                                                         *)

\* Nothing is read and nothing is hashed.
LEMMA InitSum == Init => SumInv
<1> SUFFICES ASSUME Init PROVE SumInv
  OBVIOUS
<1> DEFINE f == [n \in 0..0 |-> <<>>]
<1>1. /\ lines = <<>> /\ Len(lines) = 0 /\ data = <<>> /\ Len(data) = 0 /\ crc = <<>>
      /\ hashed = 0 /\ i = 1 /\ start = 1 /\ pc = "trim" /\ <<>> \in Seq(Bytes)
  BY EmptySeq DEF Init
<1>2. f \in [0..Len(lines) -> Seq(Bytes)] /\ Sums(f) /\ f[0] = <<>>
  BY <1>1 DEF Sums
<1>3. Texts(data)[i - 1] = <<>>
  <2>1. data \in Seq(Bytes) /\ i - 1 = 0
    BY <1>1
  <2>2. Texts(data)[0] = <<>>
    BY <2>1, TextsDef
  <2> QED
    BY <2>1, <2>2
<1>4. f[Len(lines)] \o SubSeq(data, start, i - 1) = <<>>
  BY <1>1, <1>2, Stretch, ConcatEmptySeq
<1> HIDE DEF f
<1> QED
  BY <1>1, <1>2, <1>3, <1>4 DEF SumInv

\* A line more is a sum more.
LEMMA OneMore ==
  ASSUME TypeInv, NEW f \in [0..Len(lines) -> Seq(Bytes)], Sums(f), NEW line \in Seq(Bytes),
         lines' = Append(lines, line)
  PROVE  \E g \in [0..Len(lines') -> Seq(Bytes)] :
           /\ Sums(g)'
           /\ \A n \in 0..Len(lines) : g[n] = f[n]
           /\ g[Len(lines')] = f[Len(lines)] \o line
<1> DEFINE N == Len(lines)
           g == [n \in 0..(N + 1) |-> IF n \in 0..N THEN f[n] ELSE f[N] \o line]
<1>1. /\ N \in Nat /\ Len(lines') = N + 1 /\ lines'[N + 1] = line
      /\ \A n \in 1..N : lines'[n] = lines[n]
  BY AppendProperties, LenProperties DEF TypeInv
<1>2. N \in 0..N /\ N + 1 \in 0..(N + 1) /\ N + 1 \notin 0..N /\ (N + 1) - 1 = N
  BY <1>1
<1> HIDE DEF N
<1>3. f[N] \o line \in Seq(Bytes)
  BY <1>2, ConcatProperties DEF N
<1>4. g \in [0..Len(lines') -> Seq(Bytes)]
  BY <1>1, <1>3 DEF N
<1>5. (\A n \in 0..N : g[n] = f[n]) /\ g[N + 1] = f[N] \o line
  BY <1>1, <1>2
<1> HIDE DEF g
<1>6. ASSUME NEW n \in 1..Len(lines') PROVE g[n] = g[n - 1] \o lines'[n]
  <2>1. CASE n \in 1..N
    <3>1. n \in 0..N /\ n - 1 \in 0..N
      BY <1>1, <2>1
    <3> QED
      BY <1>1, <1>5, <2>1, <3>1 DEF Sums, N
  <2>2. CASE n = N + 1
    BY <1>1, <1>2, <1>5, <2>2
  <2> QED
    BY <1>1, <2>1, <2>2
<1>7. g[0] = <<>>
  BY <1>1, <1>5 DEF Sums
<1> QED
  BY <1>1, <1>4, <1>5, <1>6, <1>7 DEF Sums, N

\* Each step preserves the sums: a terminator adds nothing to the text, another byte adds
\* itself, and a line hashed adds its own bytes.
LEMMA NextSum == TypeInv /\ SumInv /\ [Next]_vars => SumInv'
<1> SUFFICES ASSUME TypeInv, SumInv, [Next]_vars PROVE SumInv'
  OBVIOUS
<1>1. TypeInv'
  BY NextType
<1>2. PICK f \in [0..Len(lines) -> Seq(Bytes)] :
        /\ Sums(f)
        /\ crc = f[hashed]
        /\ pc \in {"trim", "split"} =>
             Texts(data)[i - 1] = f[Len(lines)] \o SubSeq(data, start, i - 1)
        /\ pc \in {"hash", "done"} => Texts(data)[Len(data)] = f[Len(lines)]
  BY DEF SumInv
<1>3. Len(lines) \in Nat /\ Len(data) \in Nat /\ data \in Seq(Bytes) /\ lines \in Seq(Seq(Bytes))
  BY LenProperties DEF TypeInv
<1>4. f[0] = <<>> /\ f[Len(lines)] \in Seq(Bytes)
  BY <1>2, <1>3, SMTT(20) DEF Sums
<1>5. CASE Trim
  <2>1. /\ i' = 1 /\ start' = 1 /\ lines' = lines /\ lines = <<>> /\ Len(lines) = 0
        /\ crc' = crc /\ hashed' = hashed /\ pc' = "split" /\ data' \in Seq(Bytes)
    BY <1>1, <1>5 DEF Trim, TypeInv
  <2>2. Texts(data')[0] = <<>>
    BY <2>1, TextsDef
  <2>3. SubSeq(data', 1, 0) = <<>>
    BY SubSeqEmpty
  <2>4. Texts(data')[i' - 1] = f[Len(lines')] \o SubSeq(data', start', i' - 1)
    BY <2>1, <2>2, <2>3, <1>4, ConcatEmptySeq
  <2>5. Sums(f)'
    BY <1>2, <2>1 DEF Sums
  <2> QED
    BY <1>2, <2>1, <2>4, <2>5 DEF SumInv
<1>6. ASSUME NEW n \in {1, 2}, EndLine(n), i + n <= Len(data) + 1, pc = "split",
             \A k \in i..(i + n - 1) : data[k] \in {"CR", "LF"}
      PROVE  SumInv'
  <2> DEFINE line == SubSeq(data, start, i - 1)
  <2>1. line \in Seq(Bytes) /\ lines' = Append(lines, line)
    BY <1>3, <1>6, Stretch DEF TypeInv, EndLine
  <2>2. PICK g \in [0..Len(lines') -> Seq(Bytes)] :
          /\ Sums(g)'
          /\ \A k \in 0..Len(lines) : g[k] = f[k]
          /\ g[Len(lines')] = f[Len(lines)] \o line
    <3> HIDE DEF line
    <3> QED
      BY <1>2, <2>1, OneMore
  <2>3. Texts(data)[i + n - 1] = Texts(data)[i - 1]
    <3>1. i \in 1..Len(data) /\ Texts(data)[i] = Texts(data)[i - 1]
      <4>1. i \in i..(i + n - 1) /\ i \in 1..Len(data)
        BY <1>3, <1>6 DEF TypeInv
      <4>2. data[i] \in {"CR", "LF"}
        BY <1>6, <4>1
      <4> QED
        BY <1>3, <4>1, <4>2, TextsDef
    <3>2. CASE n = 2
      <4>1. i + 1 \in 1..Len(data) /\ (i + 1) - 1 = i /\ data[i + 1] \in {"CR", "LF"}
        BY <1>3, <1>6, <3>2 DEF TypeInv
      <4>2. Texts(data)[i + 1] = Texts(data)[i]
        BY <1>3, <4>1, TextsDef
      <4> QED
        BY <3>1, <3>2, <4>1, <4>2
    <3> QED
      BY <3>1, <3>2 DEF TypeInv
  <2>4. /\ i' = i + n /\ start' = i + n /\ data' = data /\ crc' = crc /\ hashed' = hashed
        /\ pc' = pc
    BY <1>6 DEF EndLine
  <2>5. SubSeq(data, i + n, (i + n) - 1) = <<>>
    BY <1>3, <1>6, SubSeqEmpty DEF TypeInv
  <2>6. g[Len(lines')] \in Seq(Bytes)
    <3>1. f[Len(lines)] \o line \in Seq(Bytes)
      BY <1>4, <2>1, ConcatProperties
    <3> QED
      BY <2>2, <3>1
  <2>7. Texts(data')[i' - 1] = g[Len(lines')] \o SubSeq(data', start', i' - 1)
    <3>1. Texts(data)[i - 1] = g[Len(lines')]
      BY <1>2, <1>6, <2>2
    <3>2. g[Len(lines')] \o <<>> = g[Len(lines')]
      BY <2>6, ConcatEmptySeq
    <3>3. SubSeq(data', start', i' - 1) = <<>> /\ i' - 1 = i + n - 1
      BY <2>4, <2>5 DEF TypeInv
    <3>4. Texts(data')[i' - 1] = Texts(data)[i + n - 1]
      BY <2>4, <3>3
    <3> QED
      BY <2>3, <3>1, <3>2, <3>3, <3>4
  <2>8. crc' = g[hashed']
    BY <1>2, <2>2, <2>4 DEF TypeInv
  <2> QED
    BY <1>6, <2>2, <2>4, <2>7, <2>8 DEF SumInv
<1>7. CASE LineFeed
  <2>1. i + 1 <= Len(data) + 1 /\ \A k \in i..(i + 1 - 1) : data[k] \in {"CR", "LF"}
    BY <1>3, <1>7 DEF LineFeed, At, TypeInv
  <2> QED
    BY <1>6, <1>7, <2>1 DEF LineFeed, At
<1>8. CASE CarriageReturn
  <2>1. CASE i < Len(data) /\ data[i + 1] = "LF"
    <3>1. i + 2 <= Len(data) + 1 /\ \A k \in i..(i + 2 - 1) : k = i \/ k = i + 1
      BY <1>3, <2>1 DEF TypeInv
    <3> QED
      BY <1>6, <1>8, <2>1, <3>1 DEF CarriageReturn, At
  <2>2. CASE ~ (i < Len(data) /\ data[i + 1] = "LF")
    <3>1. i + 1 <= Len(data) + 1 /\ \A k \in i..(i + 1 - 1) : k = i
      BY <1>3, <1>8 DEF TypeInv, CarriageReturn, At
    <3> QED
      BY <1>6, <1>8, <2>2, <3>1 DEF CarriageReturn, At
  <2> QED
    BY <2>1, <2>2
<1>9. CASE Other
  <2>1. i \in 1..Len(data) /\ data[i] \in Bytes /\ start \in 1..i /\ start \in 1..(Len(data) + 1)
    BY <1>3, <1>9 DEF Other, TypeInv
  <2>2. Texts(data)[i] = Append(Texts(data)[i - 1], data[i])
    BY <1>3, <1>9, <2>1, TextsDef DEF Other
  <2>3. SubSeq(data, start, i) = Append(SubSeq(data, start, i - 1), data[i])
        /\ SubSeq(data, start, i - 1) \in Seq(Bytes)
    BY <1>3, <2>1, Stretch
  <2>4. Texts(data)[i] = f[Len(lines)] \o SubSeq(data, start, i)
    BY <1>2, <1>4, <1>9, <2>1, <2>2, <2>3, AppendBehind, ZenonT(30) DEF Other
  <2>5. (i + 1) - 1 = i
    BY <2>1
  <2>6. Sums(f)'
    BY <1>2, <1>9 DEF Sums, Other
  <2> QED
    BY <1>2, <1>9, <2>4, <2>5, <2>6 DEF Other, SumInv
<1>10. CASE LastLine
  <2>1. i = Len(data) + 1 /\ i - 1 = Len(data) /\ start \in 1..(Len(data) + 1)
    BY <1>3, <1>10 DEF LastLine, TypeInv
  <2>2. Texts(data)[Len(data)] = f[Len(lines)] \o SubSeq(data, start, Len(data))
    BY <1>2, <1>10, <2>1 DEF LastLine
  <2>3. CASE start <= Len(data)
    <3> DEFINE line == SubSeq(data, start, Len(data))
    <3>1. line \in Seq(Bytes) /\ lines' = Append(lines, line)
      BY <1>3, <1>10, <2>1, <2>3, Stretch DEF LastLine
    <3>2. PICK g \in [0..Len(lines') -> Seq(Bytes)] :
            /\ Sums(g)'
            /\ \A k \in 0..Len(lines) : g[k] = f[k]
            /\ g[Len(lines')] = f[Len(lines)] \o line
      <4> HIDE DEF line
      <4> QED
        BY <1>2, <3>1, OneMore
    <3>3. crc' = g[hashed'] /\ data' = data /\ pc' = "hash"
      BY <1>2, <1>10, <3>2 DEF TypeInv, LastLine
    <3> QED
      BY <2>2, <3>2, <3>3 DEF SumInv
  <2>4. CASE ~ (start <= Len(data))
    <3>1. lines' = lines /\ data' = data /\ crc' = crc /\ hashed' = hashed /\ pc' = "hash"
      BY <1>10, <2>4 DEF LastLine
    <3>2. SubSeq(data, start, Len(data)) = <<>>
      BY <1>3, <2>1, <2>4, SubSeqEmpty
    <3>3. Texts(data)[Len(data)] = f[Len(lines)]
      BY <1>4, <2>2, <3>2, ConcatEmptySeq
    <3>4. Sums(f)'
      BY <1>2, <3>1 DEF Sums
    <3> QED
      BY <1>2, <3>1, <3>3, <3>4 DEF SumInv
  <2> QED
    BY <2>3, <2>4
<1>11. CASE Hash
  <2>1. /\ hashed + 1 \in 1..Len(lines) /\ (hashed + 1) - 1 = hashed /\ hashed' = hashed + 1
        /\ crc' = crc \o lines[hashed + 1] /\ lines' = lines /\ data' = data /\ pc' = pc
        /\ pc = "hash"
    BY <1>3, <1>11 DEF Hash, TypeInv
  <2>2. crc' = f[hashed']
    BY <1>2, <2>1 DEF Sums
  <2>3. Sums(f)'
    BY <1>2, <2>1 DEF Sums
  <2> QED
    BY <1>2, <2>1, <2>2, <2>3 DEF SumInv
<1>12. CASE Sum32
  <2>1. Sums(f)'
    BY <1>2, <1>12 DEF Sums, Sum32
  <2> QED
    BY <1>2, <1>12, <2>1 DEF SumInv, Sum32
<1>13. CASE UNCHANGED vars
  <2>1. Sums(f)'
    BY <1>2, <1>13 DEF Sums, vars
  <2> QED
    BY <1>2, <1>13, <2>1 DEF SumInv, vars
<1> QED
  BY <1>5, <1>7, <1>8, <1>9, <1>10, <1>11, <1>12, <1>13 DEF Next

\* EndingsDoNotCount, for every content: what is hashed is the content without its
\* line ends and without a leading byte-order mark.
THEOREM EndingsNeverCount == Spec => []EndingsDoNotCount
<1>1. Init => TypeInv /\ SumInv
  BY InitType, InitSum
<1>2. TypeInv /\ SumInv /\ [Next]_vars => TypeInv' /\ SumInv'
  BY NextType, NextSum
<1>3. TypeInv /\ SumInv => EndingsDoNotCount
  BY DEF TypeInv, SumInv, EndingsDoNotCount, Stripped
<1> QED
  BY <1>1, <1>2, <1>3, PTL DEF Spec

-----------------------------------------------------------------------------
(* The lines.                                                              *)

\* A terminator ends the line for Java's reader as well, unless it is the line feed
\* that it skips.
LEMMA JavaByteCases ==
  ASSUME NEW r \in Readers, NEW byte \in Bytes
  PROVE  /\ (byte = "LF" /\ ~ r.skipLF) \/ byte = "CR" =>
              /\ JavaByte(r, byte).lines = Append(r.lines, r.line)
              /\ JavaByte(r, byte).line = <<>>
              /\ ~ JavaByte(r, byte).open
              /\ JavaByte(r, byte).skipLF <=> byte = "CR"
         /\ byte = "LF" /\ r.skipLF =>
              /\ JavaByte(r, byte).lines = r.lines
              /\ JavaByte(r, byte).line = r.line
              /\ JavaByte(r, byte).open = r.open
              /\ ~ JavaByte(r, byte).skipLF
         /\ byte \notin {"CR", "LF"} =>
              /\ JavaByte(r, byte).lines = r.lines
              /\ JavaByte(r, byte).line = Append(r.line, byte)
              /\ JavaByte(r, byte).open
              /\ ~ JavaByte(r, byte).skipLF
<1>1. CASE (byte = "LF" /\ ~ r.skipLF) \/ byte = "CR"
  <2>1. JavaByte(r, byte) = [lines |-> Append(r.lines, r.line), line |-> <<>>, open |-> FALSE,
                             skipLF |-> byte = "CR"]
    BY <1>1 DEF JavaByte
  <2> DEFINE t == JavaByte(r, byte)
  <2>2. t = [lines |-> Append(r.lines, r.line), line |-> <<>>, open |-> FALSE,
             skipLF |-> byte = "CR"]
    BY <2>1
  <2> HIDE DEF t
  <2>3. /\ t.lines = Append(r.lines, r.line) /\ t.line = <<>> /\ ~ t.open
        /\ t.skipLF <=> byte = "CR"
    BY <2>2
  <2> QED
    BY <1>1, <2>3 DEF t
<1>2. CASE byte = "LF" /\ r.skipLF
  <2>1. JavaByte(r, byte) = [r EXCEPT !.skipLF = FALSE]
    BY <1>2 DEF JavaByte
  <2> QED
    BY <1>2, <2>1 DEF Readers
<1>3. CASE byte \notin {"CR", "LF"}
  <2>1. JavaByte(r, byte) = [r EXCEPT !.line = Append(@, byte), !.open = TRUE, !.skipLF = FALSE]
    BY <1>3 DEF JavaByte
  <2> QED
    BY <1>3, <2>1 DEF Readers
<1> QED
  BY <1>1, <1>2, <1>3

\* Java's reader has read nothing and has no line.
LEMMA InitJava == Init => JavaInv
<1> SUFFICES ASSUME Init PROVE JavaInv
  OBVIOUS
<1>1. /\ lines = <<>> /\ data \in Seq(Bytes) /\ Len(data) = 0 /\ i = 1 /\ start = 1 /\ i - 1 = 0
      /\ pc = "trim"
  BY EmptySeq DEF Init
<1>2. JavaReader(data)[0] = [lines |-> <<>>, line |-> <<>>, open |-> FALSE, skipLF |-> FALSE]
  BY <1>1, JavaReaderDef
<1>3. SubSeq(data, 1, 0) = <<>>
  BY SubSeqEmpty
<1>4. JavaReader(data)[0].open = FALSE /\ JavaReader(data)[0].skipLF = FALSE
  BY <1>2
<1>5. JavaReader(data)[0].lines = <<>> /\ JavaReader(data)[0].line = <<>>
  BY <1>2
<1>6. ~ (start < i) /\ JavaReader(data)[i - 1] = JavaReader(data)[0]
  BY <1>1
<1>7. /\ JavaReader(data)[i - 1].lines = lines
      /\ JavaReader(data)[i - 1].line = SubSeq(data, start, i - 1)
  BY <1>1, <1>3, <1>5
<1> QED
  BY <1>1, <1>4, <1>6, <1>7 DEF JavaInv

\* Each step takes Java's reader along; a CR and the LF behind it are two bytes for the
\* reader, of which the second is skipped.
LEMMA NextJava == TypeInv /\ JavaInv /\ [Next]_vars => JavaInv'
<1> SUFFICES ASSUME TypeInv, JavaInv, [Next]_vars PROVE JavaInv'
  OBVIOUS
<1>1. TypeInv'
  BY NextType
<1>2. Len(lines) \in Nat /\ Len(data) \in Nat /\ data \in Seq(Bytes) /\ lines \in Seq(Seq(Bytes))
  BY LenProperties DEF TypeInv
<1> DEFINE R(n) == JavaReader(data)[n]
<1>3. \A n \in 0..Len(data) : R(n) \in Readers
  BY <1>2, JavaReaderDef
<1>4. \A n \in 1..Len(data) : R(n) = JavaByte(R(n - 1), data[n]) /\ data[n] \in Bytes
  BY <1>2, JavaReaderDef
<1> HIDE DEF R
<1>5. pc = "split" =>
        /\ R(i - 1).lines = lines
        /\ R(i - 1).line = SubSeq(data, start, i - 1)
        /\ R(i - 1).open <=> start < i
        /\ R(i - 1).skipLF => ~ (i <= Len(data) /\ data[i] = "LF")
  BY DEF JavaInv, R
<1>6. CASE Trim
  <2>1. /\ i' = 1 /\ start' = 1 /\ i' - 1 = 0 /\ lines' = <<>> /\ pc' = "split"
        /\ data' \in Seq(Bytes)
    BY <1>1, <1>6 DEF Trim, TypeInv
  <2>2. JavaReader(data')[0] = [lines |-> <<>>, line |-> <<>>, open |-> FALSE, skipLF |-> FALSE]
    BY <2>1, JavaReaderDef
  <2>3. SubSeq(data', 1, 0) = <<>>
    BY SubSeqEmpty
  <2>4. JavaReader(data')[0].open = FALSE /\ JavaReader(data')[0].skipLF = FALSE
    BY <2>2
  <2>5. JavaReader(data')[0].lines = <<>> /\ JavaReader(data')[0].line = <<>>
    BY <2>2
  <2>6. ~ (start' < i') /\ JavaReader(data')[i' - 1] = JavaReader(data')[0]
    BY <2>1
  <2>7. /\ JavaReader(data')[i' - 1].lines = lines'
        /\ JavaReader(data')[i' - 1].line = SubSeq(data', start', i' - 1)
    BY <2>1, <2>3, <2>5, <2>6
  <2> QED
    BY <2>1, <2>4, <2>6, <2>7 DEF JavaInv
<1>7. ASSUME i <= Len(data), pc = "split", data[i] \in {"CR", "LF"}
      PROVE  /\ i \in 1..Len(data) /\ R(i) \in Readers
             /\ R(i).lines = Append(lines, SubSeq(data, start, i - 1))
             /\ R(i).line = <<>> /\ ~ R(i).open
             /\ R(i).skipLF <=> data[i] = "CR"
  <2>1. i \in 1..Len(data) /\ i - 1 \in 0..Len(data) /\ i \in 0..Len(data)
    BY <1>2, <1>7 DEF TypeInv
  <2>2. R(i) = JavaByte(R(i - 1), data[i]) /\ R(i - 1) \in Readers /\ data[i] \in Bytes
    BY <1>3, <1>4, <2>1
  <2>3. data[i] = "LF" => ~ R(i - 1).skipLF
    BY <1>5, <1>7
  <2> DEFINE q == R(i - 1)
             t == JavaByte(q, data[i])
  <2>4. q.lines = lines /\ q.line = SubSeq(data, start, i - 1)
    BY <1>5, <1>7
  <2>5. /\ R(i) = t /\ q \in Readers /\ R(i) \in Readers
        /\ data[i] = "LF" => ~ q.skipLF
    BY <1>3, <2>1, <2>2, <2>3
  <2> HIDE DEF q
  <2>6. /\ t.lines = Append(q.lines, q.line) /\ t.line = <<>> /\ ~ t.open
        /\ t.skipLF <=> data[i] = "CR"
    BY <1>7, <2>2, <2>5, JavaByteCases
  <2> HIDE DEF t
  <2> QED
    BY <2>1, <2>4, <2>5, <2>6
<1>8. ASSUME NEW n \in {1, 2}, EndLine(n), i + n <= Len(data) + 1, pc = "split",
             R(i + n - 1).lines = Append(lines, SubSeq(data, start, i - 1)),
             R(i + n - 1).line = <<>>, ~ R(i + n - 1).open,
             R(i + n - 1).skipLF => ~ (i + n <= Len(data) /\ data[i + n] = "LF")
      PROVE  JavaInv'
  <2>1. /\ i' = i + n /\ start' = i + n /\ data' = data /\ pc' = "split"
        /\ lines' = Append(lines, SubSeq(data, start, i - 1))
        /\ i' - 1 = i + n - 1 /\ ~ (start' < i')
    BY <1>8 DEF EndLine, TypeInv
  <2>2. SubSeq(data, i + n, i + n - 1) = <<>>
    BY <1>8, SubSeqEmpty DEF TypeInv
  <2>3. JavaReader(data')[i' - 1] = R(i + n - 1)
    BY <2>1 DEF R
  <2> QED
    BY <1>8, <2>1, <2>2, <2>3 DEF JavaInv
<1>9. CASE LineFeed
  <2>1. i + 1 <= Len(data) + 1 /\ i + 1 - 1 = i /\ pc = "split" /\ EndLine(1) /\ data[i] = "LF"
        /\ i <= Len(data)
    BY <1>2, <1>9 DEF LineFeed, At, TypeInv
  <2>2. ~ R(i).skipLF
    BY <1>7, <2>1
  <2> QED
    BY <1>7, <1>8, <2>1, <2>2
<1>10. CASE CarriageReturn
  <2>1. pc = "split" /\ data[i] = "CR" /\ i <= Len(data)
    BY <1>10 DEF CarriageReturn, At
  <2>2. CASE i < Len(data) /\ data[i + 1] = "LF"
    <3>1. EndLine(2)
      BY <1>10, <2>2 DEF CarriageReturn
    <3>2. i + 1 \in 1..Len(data) /\ (i + 1) - 1 = i /\ i + 2 - 1 = i + 1 /\ i + 2 <= Len(data) + 1
      BY <1>2, <2>2 DEF TypeInv
    <3>3. R(i + 1) = JavaByte(R(i), "LF") /\ "LF" \in Bytes
      BY <1>4, <2>2, <3>2
    <3>4. R(i).skipLF /\ R(i) \in Readers
      BY <1>7, <2>1
    <3>5. /\ R(i + 1).lines = R(i).lines /\ R(i + 1).line = R(i).line
          /\ R(i + 1).open = R(i).open /\ ~ R(i + 1).skipLF
      BY <3>3, <3>4, JavaByteCases
    <3> QED
      BY <1>7, <1>8, <2>1, <3>1, <3>2, <3>5
  <2>3. CASE ~ (i < Len(data) /\ data[i + 1] = "LF")
    <3>1. EndLine(1)
      BY <1>10, <2>3 DEF CarriageReturn
    <3>2. i + 1 <= Len(data) + 1 /\ i + 1 - 1 = i /\ ~ (i + 1 <= Len(data) /\ data[i + 1] = "LF")
      BY <1>2, <2>1, <2>3 DEF TypeInv
    <3> QED
      BY <1>7, <1>8, <2>1, <3>1, <3>2
  <2> QED
    BY <2>2, <2>3
<1>11. CASE Other
  <2>1. /\ i \in 1..Len(data) /\ i - 1 \in 0..Len(data) /\ start \in 1..i
        /\ start \in 1..(Len(data) + 1) /\ pc = "split" /\ data[i] \notin {"CR", "LF"}
    BY <1>2, <1>11 DEF Other, TypeInv
  <2>2. R(i) = JavaByte(R(i - 1), data[i]) /\ R(i - 1) \in Readers /\ data[i] \in Bytes
    BY <1>3, <1>4, <2>1
  <2>3. SubSeq(data, start, i) = Append(SubSeq(data, start, i - 1), data[i])
    BY <1>2, <2>1, Stretch
  <2>4. /\ R(i).lines = lines /\ R(i).line = SubSeq(data, start, i) /\ R(i).open
        /\ ~ R(i).skipLF
    <3> DEFINE q == R(i - 1)
               t == JavaByte(q, data[i])
    <3>1. q.lines = lines /\ q.line = SubSeq(data, start, i - 1)
      BY <1>5, <2>1
    <3>2. R(i) = t /\ q \in Readers
      BY <2>2
    <3> HIDE DEF q
    <3>3. t.lines = q.lines /\ t.line = Append(q.line, data[i]) /\ t.open /\ ~ t.skipLF
      BY <2>1, <2>2, <3>2, JavaByteCases
    <3> HIDE DEF t
    <3> QED
      BY <2>3, <3>1, <3>2, <3>3
  <2>5. /\ i' = i + 1 /\ i' - 1 = i /\ start' = start /\ start' < i' /\ data' = data
        /\ lines' = lines /\ pc' = "split"
    BY <1>11, <2>1 DEF Other
  <2>6. JavaReader(data')[i' - 1] = R(i)
    BY <2>5 DEF R
  <2> QED
    BY <2>4, <2>5, <2>6 DEF JavaInv
<1>12. CASE LastLine
  <2>1. i - 1 = Len(data) /\ pc = "split" /\ (start < i <=> start <= Len(data))
    BY <1>2, <1>12 DEF LastLine, TypeInv
  <2>2. lines' = JavaLines(data)
    BY <1>5, <1>12, <2>1 DEF LastLine, JavaLines, R
  <2> QED
    BY <1>12, <2>2 DEF LastLine, JavaInv
<1>13. CASE Hash \/ Sum32
  BY <1>13 DEF Hash, Sum32, JavaInv
<1>14. CASE UNCHANGED vars
  BY <1>14 DEF vars, JavaInv
<1> QED
  BY <1>6, <1>9, <1>10, <1>11, <1>12, <1>13, <1>14 DEF Next

\* LinesOfFlyway, for every content: the lines are those of Java's readLine.
THEOREM LinesAreFlyways == Spec => []LinesOfFlyway
<1>1. Init => TypeInv /\ JavaInv
  BY InitType, InitJava
<1>2. TypeInv /\ JavaInv /\ [Next]_vars => TypeInv' /\ JavaInv'
  BY NextType, NextJava
<1>3. JavaInv => LinesOfFlyway
  BY DEF JavaInv, LinesOfFlyway
<1> QED
  BY <1>1, <1>2, <1>3, PTL DEF Spec

=============================================================================
