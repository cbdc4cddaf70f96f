----------------------------- MODULE SplitProofs -----------------------------
(***************************************************************************)
(* Proofs about Split, as Prepare calls it: for every migration, the       *)
(* statements come in order, do not overlap and are trimmed, nothing of    *)
(* the script gets lost, and it is cut where its reader ends a statement.  *)
(*                                                                         *)
(* The reader goes symbol by symbol, Split from token to token.  The       *)
(* invariant of the last theorem says that wherever Split stops, the       *)
(* reader is in the mode that Split takes for granted, and that the        *)
(* statements found so far lie between the delimiters the reader has met.  *)
(***************************************************************************)
EXTENDS Prepare, NatSets, SequenceTheorems

-----------------------------------------------------------------------------
(* What the searches return.                                               *)

\* A search from k on ends between k and the end of the script.
LEMMA SearchRange ==
  ASSUME NEW s \in Seq(Symbols), NEW k \in 1..(Len(s) + 1), NEW S
  PROVE  /\ Find(s, k, S) \in k..(Len(s) + 1)
         /\ SkipAll(s, k, S) \in k..(Len(s) + 1)
<1> DEFINE Hits == {j \in k..Len(s) : s[j] \in S} \cup {Len(s) + 1}
           Misses == {j \in k..Len(s) : s[j] \notin S} \cup {Len(s) + 1}
<1>1. Hits \in SUBSET Nat /\ Misses \in SUBSET Nat /\ Hits # {} /\ Misses # {}
  OBVIOUS
<1>2. Hits \subseteq k..(Len(s) + 1) /\ Misses \subseteq k..(Len(s) + 1)
  OBVIOUS
<1>3. Find(s, k, S) = Min(Hits) /\ SkipAll(s, k, S) = Min(Misses)
  BY DEF Find, SkipAll
<1> HIDE DEF Hits, Misses
<1>4. Min(Hits) \in Hits /\ Min(Misses) \in Misses
  BY <1>1, MinOfNats
<1> QED
  BY <1>2, <1>3, <1>4

\* A delimiter line names a delimiter and ends behind its beginning.
LEMMA DirectiveRange ==
  ASSUME NEW s \in Seq(Symbols), NEW k \in 1..(Len(s) + 1), Directive(s, k).found
  PROVE  /\ Directive(s, k).next \in k..(Len(s) + 1)
         /\ Directive(s, k).delimiter \in Seq(Symbols)
         /\ \E w \in DOMAIN s : s[w] = "DELIMITER"
<1> DEFINE word  == SkipAll(s, k, {" "})
           token == SkipAll(s, word + 1, {" "})
           end   == Find(s, token, Blanks)
           eol   == Find(s, end, {"nl"})
<1>1. /\ word <= Len(s) /\ s[word] = "DELIMITER" /\ end > token
      /\ Directive(s, k).delimiter = SubSeq(s, token, end - 1)
      /\ Directive(s, k).next = Min({eol + 1, Len(s) + 1})
  BY DEF Directive
<1> HIDE DEF word, token, end, eol
<1>2. word \in k..Len(s)
  <2>1. word \in k..(Len(s) + 1)
    BY SearchRange DEF word
  <2> QED
    BY <1>1, <2>1
<1>3. token \in (word + 1)..(Len(s) + 1)
  <2>1. word + 1 \in 1..(Len(s) + 1)
    BY <1>2
  <2> QED
    BY <2>1, SearchRange DEF token
<1>4. end \in token..(Len(s) + 1)
  <2>1. token \in 1..(Len(s) + 1)
    BY <1>2, <1>3
  <2> QED
    BY <2>1, SearchRange DEF end
<1>5. eol \in end..(Len(s) + 1)
  <2>1. end \in 1..(Len(s) + 1)
    BY <1>2, <1>3, <1>4
  <2> QED
    BY <2>1, SearchRange DEF eol
<1>6. Min({eol + 1, Len(s) + 1}) \in k..(Len(s) + 1)
  <2> DEFINE T == {eol + 1, Len(s) + 1}
  <2>1. T \in SUBSET Nat /\ T # {} /\ \A t \in T : k <= t
    BY <1>2, <1>3, <1>4, <1>5
  <2>2. Len(s) + 1 \in T
    OBVIOUS
  <2> HIDE DEF T
  <2>3. Min(T) \in T /\ Min(T) <= Len(s) + 1
    BY <2>1, <2>2, MinOfNats
  <2> QED
    BY <2>1, <2>3 DEF T
<1>7. SubSeq(s, token, end - 1) \in Seq(Symbols)
  <2>1. \A n \in token..(end - 1) : n \in 1..Len(s)
    BY <1>2, <1>3, <1>4
  <2>2. token \in Int /\ end - 1 \in Int
    BY <1>2, <1>3, <1>4
  <2> QED
    BY <2>1, <2>2, SubSeqProperties
<1> QED
  BY <1>1, <1>2, <1>6, <1>7

\* The opening token of a body is a text.
LEMMA TagIsText ==
  ASSUME NEW s \in Seq(Symbols), NEW k \in 1..Len(s)
  PROVE  DollarTag(s, k) \in Seq(Symbols)
<1> DEFINE end == SkipAll(s, k + 1, TagSymbols)
<1>1. end \in (k + 1)..(Len(s) + 1)
  BY SearchRange
<1>2. DollarTag(s, k) = IF end <= Len(s) /\ s[end] = "$" THEN SubSeq(s, k, end) ELSE <<>>
  BY DEF DollarTag
<1> HIDE DEF end
<1>3. CASE end <= Len(s)
  <2>1. k \in Int /\ end \in Int /\ \A n \in k..end : n \in 1..Len(s)
    BY <1>1, <1>3
  <2>2. \A n \in k..end : s[n] \in Symbols
    BY <2>1
  <2>3. SubSeq(s, k, end) \in Seq(Symbols)
    BY <2>1, <2>2, SubSeqProperties
  <2>4. <<>> \in Seq(Symbols)
    BY EmptySeq
  <2> QED
    BY <1>2, <2>3, <2>4
<1>4. CASE ~ (end <= Len(s))
  BY <1>2, <1>4
<1> QED
  BY <1>3, <1>4

\* A comment or a body ends behind its beginning and within the script.
LEMMA BehindRange ==
  ASSUME NEW text \in Seq(Symbols), NEW k \in Nat, script \in Seq(Symbols),
         NEW n \in 1..(Len(script) + 1), n <= k
  PROVE  Behind(text, k) \in n..(Len(script) + 1)
<1> DEFINE T == {j + Len(text) : j \in {x \in k..Len(script) : Matches(script, text, x)}}
                  \cup {Len(script) + 1}
<1>1. Len(text) \in Nat /\ Len(script) \in Nat
  BY LenProperties
<1>2. T \in SUBSET Nat /\ T # {} /\ Len(script) + 1 \in T
  BY <1>1
<1>3. \A t \in T : n <= t
  BY <1>1
<1>4. Behind(text, k) = Min(T)
  BY DEF Behind
<1> HIDE DEF T
<1>5. Min(T) \in T /\ Min(T) <= Len(script) + 1
  BY <1>2, MinOfNats
<1>6. Min(T) \in Nat /\ n <= Min(T)
  BY <1>2, <1>3, <1>5
<1> QED
  BY <1>1, <1>4, <1>5, <1>6

\* flush gives a statement that covers every symbol from `from` to i that is not
\* blank, begins and ends with one, or nothing when there is none.
LEMMA FlushCovers ==
  ASSUME script \in Seq(Symbols), from \in Nat \ {0}, i \in Nat
  PROVE  \/ /\ Flush = <<>>
            /\ \A k \in from..(i - 1) : script[k] \in Blanks
         \/ \E a \in from..(i - 1), b \in from..(i - 1) :
              /\ Flush = <<<<a, b>>>> /\ a <= b
              /\ script[a] \notin Blanks /\ script[b] \notin Blanks
              /\ \A k \in from..(i - 1) : script[k] \notin Blanks => a <= k /\ k <= b
<1> DEFINE solid == {k \in from..(i - 1) : script[k] \notin Blanks}
<1>1. CASE solid = {}
  BY <1>1 DEF Flush
<1>2. CASE solid # {}
  <2>1. solid \in SUBSET Nat /\ solid \subseteq from..(i - 1)
    OBVIOUS
  <2>2. IsFiniteSet(solid)
    <3>1. IsFiniteSet(from..(i - 1))
      BY FS_Interval
    <3> QED
      BY <2>1, <3>1, FS_Subset
  <2>3. Flush = <<<<Min(solid), Max(solid)>>>>
    BY <1>2 DEF Flush
  <2>4. \A k \in solid : script[k] \notin Blanks
    OBVIOUS
  <2>5. \A k \in from..(i - 1) : script[k] \notin Blanks => k \in solid
    OBVIOUS
  <2> HIDE DEF solid
  <2>6. /\ Min(solid) \in solid /\ \A k \in solid : Min(solid) <= k
        /\ Max(solid) \in solid /\ \A k \in solid : k <= Max(solid)
    BY <1>2, <2>1, <2>2, MinOfNats, MaxOfNats
  <2>7. Min(solid) <= Max(solid)
    BY <2>6
  <2> QED
    BY <2>1, <2>3, <2>4, <2>5, <2>6, <2>7
<1> QED
  BY <1>1, <1>2

-----------------------------------------------------------------------------
(* The invariant.                                                          *)

\* What the variables hold.
Typed ==
  /\ script \in Seq(Symbols)
  /\ from \in Nat \ {0} /\ i \in Nat
  /\ delimiter \in Seq(Symbols)
  /\ stmts \in Seq(Nat \X Nat)

\* Without a delimiter line the delimiter stays what it is.
DefaultKept ==
  (\A k \in DOMAIN script : script[k] # "DELIMITER") => delimiter = <<Semicolon>>

SplitInv == Typed /\ DefaultKept /\ InSequence /\ NoTextLost

\* A step that only moves on within the script keeps the invariant.
LEMMA MoveOn ==
  ASSUME SplitInv, UNCHANGED <<script, from, delimiter, stmts>>, i' \in i..(Len(script) + 1)
  PROVE  SplitInv'
<1>1. Typed /\ Len(script) \in Nat
  BY LenProperties DEF SplitInv, Typed
<1>2. Typed' /\ DefaultKept'
  <2>1. i' \in Nat
    BY <1>1 DEF Typed
  <2>2. Typed'
    BY <1>1, <2>1 DEF Typed
  <2> QED
    BY <2>2 DEF SplitInv, DefaultKept
<1>3. InSequence'
  BY <1>1 DEF SplitInv, Typed, InSequence
<1>4. NoTextLost'
  BY DEF SplitInv, NoTextLost
<1> QED
  BY <1>2, <1>3, <1>4 DEF SplitInv

\* A step that flushes what was read up to i, and goes on behind a delimiter.
Flushing ==
  /\ UNCHANGED <<script, delimiter>>
  /\ stmts' = stmts \o Flush
  /\ i' \in i..(Len(script) + 1) /\ from' = i'

NoLineHere == \A k \in DOMAIN script : script[k] # "DELIMITER"

SemicolonsOnly ==
  NoLineHere => \A k \in Nat : i <= k /\ k < i' => script[k] = Semicolon

\* A step that takes a statement, and skips semicolons at most, keeps the invariant.
LEMMA FlushOn ==
  ASSUME SplitInv, Flushing, SemicolonsOnly
  PROVE  SplitInv'
<1>1. /\ script' = script /\ delimiter' = delimiter
      /\ stmts' = stmts \o Flush
      /\ i' \in i..(Len(script) + 1) /\ from' = i'
  BY DEF Flushing
<1>2. /\ script \in Seq(Symbols) /\ Len(script) \in Nat
      /\ from \in Nat \ {0} /\ i \in Nat /\ from <= i
      /\ delimiter \in Seq(Symbols) /\ stmts \in Seq(Nat \X Nat)
  BY LenProperties DEF SplitInv, Typed, InSequence
<1>3. PICK e \in Nat \ {0} : e = i' /\ i <= e /\ e <= Len(script) + 1
  BY <1>1, <1>2
<1>n. /\ from \in Nat \ {0} /\ i \in Nat /\ from <= i
      /\ e \in Nat /\ i <= e
  BY <1>2, <1>3
<1>4. DefaultKept'
  BY <1>1 DEF SplitInv, DefaultKept
<1>5. ASSUME NoLineHere, NEW k \in 1..(e - 1), k < from
      PROVE  \/ script[k] \in Blanks \cup {Semicolon}
             \/ \E l \in DOMAIN stmts : stmts[l][1] <= k /\ k <= stmts[l][2]
  <2>1. k \in 1..(from - 1)
    BY <1>2, <1>5
  <2> QED
    BY <2>1, <1>5 DEF SplitInv, NoTextLost, NoLineHere
<1>6. ASSUME NoLineHere, NEW k \in 1..(e - 1), i <= k
      PROVE  script[k] = Semicolon
  <2>1. k \in Nat /\ k < e
    BY <1>n
  <2> QED
    BY <1>3, <1>6, <2>1 DEF SemicolonsOnly
<1>7. CASE Flush = <<>> /\ \A k \in from..(i - 1) : script[k] \in Blanks
  <2>1. stmts' = stmts
    BY <1>1, <1>2, <1>7, ConcatEmptySeq
  <2>2. Typed'
    BY <1>1, <1>2, <1>3, <2>1 DEF Typed
  <2>3. InSequence'
    <3>1. \A k \in DOMAIN stmts : stmts[k][1] \in Nat /\ stmts[k][2] \in Nat
      BY <1>2
    <3> QED
      BY <1>1, <1>2, <1>3, <2>1, <3>1 DEF SplitInv, InSequence
  <2>4. NoTextLost'
    <3>1. ASSUME NoLineHere, NEW k \in 1..(e - 1)
          PROVE  \/ script[k] \in Blanks \cup {Semicolon}
                 \/ \E l \in DOMAIN stmts : stmts[l][1] <= k /\ k <= stmts[l][2]
      <4>1. CASE k < from
        BY <1>5, <3>1, <4>1
      <4>2. CASE from <= k /\ k < i
        <5>1. k \in from..(i - 1)
          BY <1>n, <4>2
        <5> QED
          BY <1>7, <5>1
      <4>3. CASE i <= k
        BY <1>6, <3>1, <4>3
      <4> QED
        <5>1. k < from \/ (from <= k /\ k < i) \/ i <= k
          BY <1>n
        <5> QED
          BY <4>1, <4>2, <4>3, <5>1
    <3> QED
      BY <1>1, <1>3, <2>1, <3>1 DEF NoTextLost, NoLineHere
  <2> QED
    BY <1>4, <2>2, <2>3, <2>4 DEF SplitInv
<1>8. ASSUME NEW a \in from..(i - 1), NEW b \in from..(i - 1),
             Flush = <<<<a, b>>>>, a <= b,
             script[a] \notin Blanks, script[b] \notin Blanks,
             \A k \in from..(i - 1) : script[k] \notin Blanks => a <= k /\ k <= b
      PROVE  SplitInv'
  <2>1. PICK n \in Nat : n = Len(stmts)
    BY <1>2, LenProperties
  <2>2. /\ stmts' \in Seq(Nat \X Nat) /\ Len(stmts') = n + 1
        /\ stmts'[n + 1] = <<a, b>> /\ \A k \in 1..n : stmts'[k] = stmts[k]
    <3>1. <<<<a, b>>>> \in Seq(Nat \X Nat) /\ Len(<<<<a, b>>>>) = 1
      BY <1>2
    <3>2. stmts' = stmts \o <<<<a, b>>>>
      BY <1>1, <1>8
    <3> QED
      BY <1>2, <2>1, <3>1, <3>2, ConcatProperties
  <2>3. DOMAIN stmts' = 1..(n + 1) /\ DOMAIN stmts = 1..n
    BY <1>2, <2>1, <2>2, LenProperties
  <2>4. Typed'
    BY <1>1, <1>2, <1>3, <2>2 DEF Typed
  <2>5. ASSUME NEW k \in 1..n
        PROVE  /\ stmts'[k] = stmts[k] /\ stmts[k][1] \in Nat /\ stmts[k][2] \in Nat
               /\ 1 <= stmts[k][1] /\ stmts[k][1] <= stmts[k][2] /\ stmts[k][2] < from
               /\ script[stmts[k][1]] \notin Blanks /\ script[stmts[k][2]] \notin Blanks
    <3>1. k \in DOMAIN stmts /\ stmts[k] \in Nat \X Nat
      BY <1>2, <2>1, <2>3
    <3> QED
      BY <2>2, <3>1 DEF SplitInv, InSequence
  <2>6. ASSUME NEW k \in DOMAIN stmts'
        PROVE  /\ 1 <= stmts'[k][1] /\ stmts'[k][1] <= stmts'[k][2] /\ stmts'[k][2] < e
               /\ script[stmts'[k][1]] \notin Blanks /\ script[stmts'[k][2]] \notin Blanks
    <3>1. CASE k = n + 1
      <4>1. stmts'[k][1] = a /\ stmts'[k][2] = b
        BY <2>2, <3>1
      <4> QED
        BY <1>2, <1>3, <1>8, <4>1
    <3>2. CASE k \in 1..n
      <4>1. /\ stmts'[k] = stmts[k] /\ stmts[k][2] \in Nat
            /\ 1 <= stmts[k][1] /\ stmts[k][1] <= stmts[k][2] /\ stmts[k][2] < from
            /\ script[stmts[k][1]] \notin Blanks /\ script[stmts[k][2]] \notin Blanks
        BY <2>5, <3>2
      <4>2. stmts[k][2] < e
        BY <1>n, <4>1
      <4> QED
        BY <4>1, <4>2
    <3> QED
      BY <2>1, <2>3, <3>1, <3>2
  <2>7. ASSUME NEW k \in DOMAIN stmts', NEW l \in DOMAIN stmts', k < l
        PROVE  stmts'[k][2] < stmts'[l][1]
    <3>1. k \in 1..n
      BY <2>1, <2>3, <2>7
    <3>2. CASE l = n + 1
      <4>1. stmts'[k][2] \in Nat /\ stmts'[k][2] < from
        BY <2>5, <3>1
      <4>2. stmts'[l][1] = a
        BY <2>2, <3>2
      <4> QED
        BY <1>n, <4>1, <4>2
    <3>3. CASE l \in 1..n
      <4>1. stmts[k][2] < stmts[l][1]
        BY <2>3, <2>7, <3>1, <3>3 DEF SplitInv, InSequence
      <4> QED
        BY <2>5, <3>1, <3>3, <4>1
    <3> QED
      BY <2>1, <2>3, <3>2, <3>3
  <2>8. InSequence'
    <3>1. \A k, l \in DOMAIN stmts' : k < l => stmts'[k][2] < stmts'[l][1]
      BY <2>7
    <3> QED
      BY <1>1, <1>3, <2>6, <3>1, SMTT(30) DEF InSequence
  <2>9. NoTextLost'
    <3>1. ASSUME NoLineHere, NEW k \in 1..(e - 1)
          PROVE  \/ script[k] \in Blanks \cup {Semicolon}
                 \/ \E l \in DOMAIN stmts' : stmts'[l][1] <= k /\ k <= stmts'[l][2]
      <4>1. CASE k < from
        <5>1. \/ script[k] \in Blanks \cup {Semicolon}
              \/ \E l \in 1..n : stmts[l][1] <= k /\ k <= stmts[l][2]
          BY <1>5, <2>3, <3>1, <4>1
        <5>2. 1..n \subseteq DOMAIN stmts'
          BY <2>1, <2>3
        <5> QED
          BY <2>5, <5>1, <5>2
      <4>2. CASE from <= k /\ k < i
        <5>0. k \in from..(i - 1)
          BY <1>n, <4>2
        <5>1. script[k] \in Blanks \/ (a <= k /\ k <= b)
          BY <1>8, <5>0
        <5>2. n + 1 \in DOMAIN stmts'
          BY <2>1, <2>3
        <5>3. stmts'[n + 1][1] = a /\ stmts'[n + 1][2] = b
          BY <2>2
        <5> QED
          BY <5>1, <5>2, <5>3
      <4>3. CASE i <= k
        BY <1>6, <3>1, <4>3
      <4> QED
        <5>1. k < from \/ (from <= k /\ k < i) \/ i <= k
          BY <1>n
        <5> QED
          BY <4>1, <4>2, <4>3, <5>1
    <3> QED
      BY <1>1, <1>3, <3>1 DEF NoTextLost, NoLineHere
  <2> QED
    BY <1>4, <2>4, <2>8, <2>9 DEF SplitInv
<1> QED
  BY <1>2, <1>7, <1>8, FlushCovers

-----------------------------------------------------------------------------
(* The steps of Split.                                                     *)

\* What matches at a position is within the script.
LEMMA MatchRange ==
  ASSUME NEW text \in Seq(Symbols), script \in Seq(Symbols), i \in Nat, Matches(script, text, i)
  PROVE  i + Len(text) <= Len(script) + 1
BY LenProperties DEF Matches

\* The default delimiter, where it matches, is a semicolon.
LEMMA SemicolonHere ==
  ASSUME NEW s \in Seq(Symbols), NEW k \in 1..Len(s), NEW d, d = <<Semicolon>>, Matches(s, d, k)
  PROVE  Len(d) = 1 /\ s[k] = Semicolon
<1>1. Len(d) = 1 /\ d[1] = Semicolon
  OBVIOUS
<1>2. SubSeq(s, k, k) = d
  <2>1. k + Len(d) - 1 = k
    BY <1>1
  <2> QED
    BY <2>1 DEF Matches
<1>3. \A n \in k..k : s[n] \in Symbols
  OBVIOUS
<1>4. k \in Int /\ 1 \in 1..(k - k + 1) /\ k + 1 - 1 = k
  OBVIOUS
<1>5. SubSeq(s, k, k)[1] = s[k]
  BY <1>3, <1>4, SubSeqProperties
<1> QED
  BY <1>1, <1>2, <1>5

\* A step of Split is a step of a call that runs.
LEMMA SplitRuns ==
  ASSUME SplitNext
  PROVE  pc \in {"scan", "quoted"} /\ pc' # "waiting"
BY DEF SplitNext, ReadDirective, LineComment, BlockComment, DollarBody, Open, Consume, Close,
   Boundary, Plain, Finish, CopyTo, At, More, InDollar

\* Each step of Split keeps the invariant.
LEMMA SplitStep ==
  ASSUME SplitInv, SplitNext
  PROVE  SplitInv'
<1>1. /\ script \in Seq(Symbols) /\ Len(script) \in Nat
      /\ from \in Nat \ {0} /\ i \in Nat \ {0} /\ from <= i
      /\ delimiter \in Seq(Symbols)
  BY LenProperties DEF SplitInv, Typed, InSequence
<1>2. ASSUME More PROVE i \in 1..(Len(script) + 1) /\ i <= Len(script)
  BY <1>1, <1>2 DEF More
<1>3. CASE ReadDirective
  <2>1. More /\ Directive(script, i).found
    BY <1>3 DEF ReadDirective, AtDirective
  <2>2. /\ Directive(script, i).next \in i..(Len(script) + 1)
        /\ Directive(script, i).delimiter \in Seq(Symbols)
        /\ ~ NoLineHere
    BY <1>1, <1>2, <2>1, DirectiveRange DEF NoLineHere
  <2>3. /\ script' = script /\ stmts' = stmts /\ from' = i'
        /\ i' \in i..(Len(script) + 1) /\ delimiter' \in Seq(Symbols)
    BY <1>3, <2>2 DEF ReadDirective
  <2>4. Typed'
    BY <1>1, <2>3 DEF SplitInv, Typed
  <2>5. InSequence'
    <3>1. \A k \in DOMAIN stmts : stmts[k][1] \in Nat /\ stmts[k][2] \in Nat
      BY DEF SplitInv, Typed
    <3> QED
      BY <1>1, <2>3, <3>1 DEF SplitInv, InSequence
  <2>6. DefaultKept' /\ NoTextLost'
    BY <2>2, <2>3 DEF DefaultKept, NoTextLost, NoLineHere
  <2> QED
    BY <2>4, <2>5, <2>6 DEF SplitInv
<1>4. ASSUME NEW k, CopyTo(k), k \in i..(Len(script) + 1) PROVE SplitInv'
  BY <1>4, MoveOn DEF CopyTo
<1>5. CASE LineComment
  <2>1. More /\ CopyTo(Find(script, i, {"nl"}))
    BY <1>5 DEF LineComment, At
  <2> QED
    BY <1>1, <1>2, <1>4, <2>1, SearchRange
<1>6. CASE BlockComment
  <2>1. CopyTo(Behind(<<"*", "/">>, i + 2)) /\ More
    BY <1>6 DEF BlockComment, At
  <2>2. <<"*", "/">> \in Seq(Symbols)
    BY DEF Symbols
  <2>n. i + 2 \in Nat /\ i <= i + 2
    BY <1>1
  <2>3. Behind(<<"*", "/">>, i + 2) \in i..(Len(script) + 1)
    BY <1>1, <1>2, <2>1, <2>2, <2>n, BehindRange
  <2> QED
    BY <1>4, <2>1, <2>3
<1>7. CASE DollarBody
  <2> DEFINE tag == DollarTag(script, i)
  <2>1. CopyTo(Behind(tag, i + Len(tag))) /\ More
    BY <1>7 DEF DollarBody, InDollar, At
  <2>2. tag \in Seq(Symbols)
    BY <1>1, <1>2, <2>1, TagIsText
  <2> HIDE DEF tag
  <2>3. Len(tag) \in Nat /\ i + Len(tag) \in Nat /\ i <= i + Len(tag)
    BY <1>1, <2>2, LenProperties
  <2>4. Behind(tag, i + Len(tag)) \in i..(Len(script) + 1)
    BY <1>1, <1>2, <2>1, <2>2, <2>3, BehindRange
  <2> QED
    BY <1>4, <2>1, <2>4
<1>8. CASE Open
  <2>1. More /\ i' = i + 1 /\ UNCHANGED <<script, from, delimiter, stmts>>
    BY <1>8 DEF Open, At
  <2> QED
    BY <1>1, <1>2, <2>1, MoveOn
<1>9. CASE Consume
  <2>1. /\ i <= Len(script) /\ UNCHANGED <<script, from, delimiter, stmts>>
        /\ \/ i' = i + 1
           \/ i' = i + 2 /\ i < Len(script)
           \/ i' = i + 2 /\ Matches(script, <<quote.by, quote.by>>, i)
    BY <1>9 DEF Consume
  <2>2. ASSUME Matches(script, <<quote.by, quote.by>>, i) PROVE i < Len(script)
    BY <1>1, <2>2 DEF Matches
  <2>3. i' \in i..(Len(script) + 1)
    BY <1>1, <2>1, <2>2
  <2> QED
    BY <2>1, <2>3, MoveOn
<1>10. CASE Close
  <2>1. /\ UNCHANGED <<script, from, delimiter, stmts>>
        /\ (i <= Len(script) /\ i' = i + 1) \/ i' = i
    BY <1>10 DEF Close
  <2>2. i <= Len(script) + 1
    BY DEF SplitInv, InSequence
  <2>3. i' \in i..(Len(script) + 1)
    BY <1>1, <2>1, <2>2
  <2> QED
    BY <2>1, <2>3, MoveOn
<1>11. CASE Boundary
  <2>0. More /\ Matches(script, delimiter, i)
    BY <1>11 DEF Boundary, At
  <2>1. /\ stmts' = stmts \o Flush /\ i' = i + Len(delimiter) /\ from' = i'
        /\ UNCHANGED <<script, delimiter>>
    BY <1>11 DEF Boundary
  <2>2. Len(delimiter) \in Nat /\ i + Len(delimiter) <= Len(script) + 1
    BY <1>1, <2>0, MatchRange, LenProperties
  <2>3. Flushing
    BY <1>1, <2>1, <2>2 DEF Flushing
  <2>4. SemicolonsOnly
    <3>1. ASSUME NoLineHere PROVE Len(delimiter) = 1 /\ script[i] = Semicolon
      <4>1. delimiter = <<Semicolon>>
        BY <3>1 DEF SplitInv, DefaultKept, NoLineHere
      <4> QED
        BY <1>1, <1>2, <2>0, <4>1, SemicolonHere
    <3>2. ASSUME NoLineHere, NEW k \in Nat, i <= k, k < i' PROVE script[k] = Semicolon
      <4>1. i' = i + 1
        BY <2>1, <3>1, <3>2
      <4>2. k = i
        BY <1>1, <3>2, <4>1
      <4> QED
        BY <3>1, <3>2, <4>2
    <3> QED
      BY <3>2 DEF SemicolonsOnly
  <2> QED
    BY <2>3, <2>4, FlushOn
<1>12. CASE Plain
  <2>1. More /\ i' = i + 1 /\ UNCHANGED <<script, from, delimiter, stmts>>
    BY <1>12 DEF Plain
  <2> QED
    BY <1>1, <1>2, <2>1, MoveOn
<1>13. CASE Finish
  <2>1. /\ stmts' = stmts \o Flush /\ i' = i /\ from' = i'
        /\ UNCHANGED <<script, delimiter>>
    BY <1>13 DEF Finish
  <2>2. i <= Len(script) + 1
    BY DEF SplitInv, InSequence
  <2>3. Flushing
    BY <1>1, <2>1, <2>2 DEF Flushing
  <2>4. SemicolonsOnly
    BY <1>1, <2>1 DEF SemicolonsOnly
  <2> QED
    BY <2>3, <2>4, FlushOn
<1> QED
  BY <1>3, <1>5, <1>6, <1>7, <1>8, <1>9, <1>10, <1>11, <1>12, <1>13 DEF SplitNext

-----------------------------------------------------------------------------
(* Prepare: what Split is called with is a text.                           *)

\* What Substitute's variables hold.
SubTyped ==
  /\ content \in Seq(Symbols) /\ out \in Seq(Symbols)
  /\ at \in Nat \ {0}
  /\ settings.prefix \in Seq(Symbols) /\ settings.suffix \in Seq(Symbols)
  /\ \A n \in DOMAIN settings.placeholders : settings.placeholders[n] \in Seq(Symbols)

\* Split has not moved before it is called.
Unmoved ==
  pc = "waiting" => /\ i = 1 /\ from = 1 /\ lineStart = TRUE
                    /\ delimiter = <<Semicolon>> /\ stmts = <<>>

Inv == SplitInv /\ SubTyped /\ Unmoved

\* The first occurrence of a text from position k on.
LEMMA OccurrenceRange ==
  ASSUME NEW s \in Seq(Symbols), NEW text \in Seq(Symbols), NEW k \in Nat \ {0},
         Occurrences(s, text, k) # {}
  PROVE  Min(Occurrences(s, text, k)) \in k..(Len(s) + 1)
<1> DEFINE T == Occurrences(s, text, k)
<1>1. T \subseteq k..(Len(s) + 1) /\ T # {}
  BY DEF Occurrences
<1>2. T \in SUBSET Nat
  BY <1>1
<1> HIDE DEF T
<1>3. Min(T) \in T
  BY <1>1, <1>2, MinOfNats
<1> QED
  BY <1>1, <1>3 DEF T

\* The first placeholder from a position on begins there or behind it, and so does
\* what is behind the placeholder.
LEMMA PlaceholderRange ==
  ASSUME SubTyped, HasPlaceholder(content, at)
  PROVE  Found.start \in at..(Len(content) + 1) /\ Found.next \in Nat \ {0}
<1> DEFINE start == Min(Occurrences(content, settings.prefix, at))
           name  == start + Len(settings.prefix)
           end   == Min(Occurrences(content, settings.suffix, name))
<1>1. /\ Found.start = start /\ Found.next = end + Len(settings.suffix)
      /\ Occurrences(content, settings.prefix, at) # {}
      /\ Occurrences(content, settings.suffix, name) # {}
  BY DEF Found, Placeholder, HasPlaceholder
<1> HIDE DEF start, name, end
<1>2. start \in at..(Len(content) + 1)
  BY <1>1, OccurrenceRange DEF start, SubTyped
<1>3. Len(settings.prefix) \in Nat /\ Len(settings.suffix) \in Nat /\ at \in Nat \ {0}
  BY LenProperties DEF SubTyped
<1>4. name \in Nat \ {0}
  BY <1>2, <1>3 DEF name
<1>5. end \in name..(Len(content) + 1)
  BY <1>1, <1>4, OccurrenceRange DEF end, SubTyped
<1> QED
  BY <1>1, <1>2, <1>3, <1>4, <1>5

\* A part of the content is a text.
LEMMA PartIsText ==
  ASSUME SubTyped, NEW e \in Int, e <= Len(content)
  PROVE  SubSeq(content, at, e) \in Seq(Symbols)
<1>1. content \in Seq(Symbols) /\ at \in Nat \ {0} /\ Len(content) \in Nat
  BY LenProperties DEF SubTyped
<1>2. \A n \in at..e : n \in 1..Len(content)
  BY <1>1
<1>3. \A n \in at..e : content[n] \in Symbols
  BY <1>1, <1>2
<1> QED
  BY <1>1, <1>3, SubSeqProperties

\* The steps of Substitute keep their variables typed.
LEMMA SubStep ==
  ASSUME SubTyped, SubNext
  PROVE  SubTyped'
<1>1. content \in Seq(Symbols) /\ out \in Seq(Symbols) /\ Len(content) \in Nat
  BY LenProperties DEF SubTyped
<1>2. CASE Replace
  <2>1. /\ HasPlaceholder(content, at) /\ Found.name \in DOMAIN settings.placeholders
        /\ out' = out \o SubSeq(content, at, Found.start - 1) \o settings.placeholders[Found.name]
        /\ at' = Found.next /\ UNCHANGED <<content, settings>>
    BY <1>2 DEF Replace
  <2>2. Found.start \in at..(Len(content) + 1) /\ Found.next \in Nat \ {0}
    BY <2>1, PlaceholderRange
  <2>3. Found.start - 1 \in Int /\ Found.start - 1 <= Len(content)
    BY <1>1, <2>2 DEF SubTyped
  <2>4. SubSeq(content, at, Found.start - 1) \in Seq(Symbols)
    BY <2>3, PartIsText
  <2>5. settings.placeholders[Found.name] \in Seq(Symbols)
    BY <2>1 DEF SubTyped
  <2>6. out' \in Seq(Symbols)
    BY <1>1, <2>1, <2>4, <2>5, ConcatProperties
  <2> QED
    BY <2>1, <2>2, <2>6 DEF SubTyped
<1>3. CASE Unknown
  BY <1>3 DEF Unknown, SubTyped
<1>4. CASE CopyRest
  <2>1. /\ out' = out \o SubSeq(content, at, Len(content))
        /\ at' = Len(content) + 1 /\ UNCHANGED <<content, settings>>
    BY <1>4 DEF CopyRest
  <2>2. SubSeq(content, at, Len(content)) \in Seq(Symbols)
    BY <1>1, PartIsText
  <2>3. out' \in Seq(Symbols) /\ at' \in Nat \ {0}
    BY <1>1, <2>1, <2>2, ConcatProperties
  <2> QED
    BY <2>1, <2>3 DEF SubTyped
<1> QED
  BY <1>2, <1>3, <1>4 DEF SubNext

\* The invariant holds at the beginning.
LEMMA InitInv == Init => Inv
<1> SUFFICES ASSUME Init PROVE Inv
  OBVIOUS
<1>1. /\ script = <<>> /\ i = 1 /\ from = 1 /\ lineStart = TRUE /\ delimiter = <<Semicolon>> /\ stmts = <<>>
  BY DEF Init, SplitInit
<1>2. <<>> \in Seq(Symbols) /\ Len(<<>>) = 0 /\ <<>> \in Seq(Nat \X Nat) /\ DOMAIN <<>> = {}
  BY EmptySeq
<1>3. <<Semicolon>> \in Seq(Symbols)
  <2>1. Semicolon \in Symbols
    BY Zenon DEF Semicolon, Symbols
  <2> QED
    BY <2>1
<1>4. Typed /\ DefaultKept
  BY <1>1, <1>2, <1>3 DEF Typed, DefaultKept
<1>5. InSequence /\ NoTextLost
  BY <1>1, <1>2 DEF InSequence, NoTextLost
<1>6. SubTyped
  <2>1. PICK m \in Migrations : content = m.content /\ settings = m.settings
    BY DEF Init, SubInit
  <2>2. at = 1 /\ out = <<>>
    BY DEF Init, SubInit
  <2> QED
    BY <1>2, <2>1, <2>2, MigrationsAssumption DEF SubTyped
<1> QED
  BY <1>1, <1>4, <1>5, <1>6 DEF Inv, SplitInv, Unmoved

\* Every step of Prepare keeps the invariant.
LEMMA NextInv == Inv /\ [Next]_vars => Inv'
<1> SUFFICES ASSUME Inv, [Next]_vars PROVE Inv'
  OBVIOUS
<1>1. CASE Substitution
  <2>1. SubTyped'
    BY <1>1, SubStep DEF Inv, Substitution
  <2>2. SplitInv' /\ Unmoved'
    BY <1>1 DEF Inv, Substitution, splitVars, SplitInv, Typed, DefaultKept, InSequence, NoTextLost, Unmoved
  <2> QED
    BY <2>1, <2>2 DEF Inv
<1>2. CASE CallSplit
  <2>1. /\ i = 1 /\ from = 1 /\ delimiter = <<Semicolon>> /\ stmts = <<>>
        /\ out \in Seq(Symbols) /\ SubTyped /\ Typed
    BY <1>2 DEF CallSplit, Inv, Unmoved, SubTyped, SplitInv
  <2>2. /\ script' = out /\ pc' = "scan"
        /\ i' = 1 /\ from' = 1 /\ delimiter' = <<Semicolon>> /\ stmts' = <<>>
        /\ UNCHANGED subVars
    BY <1>2, <2>1 DEF CallSplit
  <2>3. Typed' /\ DefaultKept'
    BY <2>1, <2>2 DEF Typed, DefaultKept
  <2>4. InSequence' /\ NoTextLost'
    <3>1. Len(out) \in Nat /\ DOMAIN <<>> = {}
      BY <2>1, LenProperties
    <3> QED
      BY <2>2, <3>1 DEF InSequence, NoTextLost
  <2>5. SubTyped' /\ Unmoved'
    BY <2>1, <2>2 DEF SubTyped, subVars, Unmoved
  <2> QED
    BY <2>3, <2>4, <2>5 DEF Inv, SplitInv
<1>3. CASE Splitting
  <2>1. SplitInv' /\ SubTyped'
    BY <1>3, SplitStep DEF Inv, Splitting, subVars, SubTyped
  <2>2. pc' # "waiting"
    BY <1>3, SplitRuns DEF Splitting
  <2> QED
    BY <2>1, <2>2 DEF Inv, Unmoved
<1>4. CASE UNCHANGED vars
  BY <1>4 DEF Inv, vars, subVars, splitVars, SubTyped, SplitInv, Typed, DefaultKept, InSequence, NoTextLost,
     Unmoved
<1> QED
  BY <1>1, <1>2, <1>3, <1>4 DEF Next

\* For every migration and all settings: statements come in the order of the
\* script, do not overlap, are not empty and have no blanks around them.
THEOREM StatementsInOrder == Spec => []InSequence
<1>1. Inv => InSequence
  BY DEF Inv, SplitInv
<1> QED
  BY <1>1, InitInv, NextInv, PTL DEF Spec

\* For every migration and all settings: nothing of a script without delimiter
\* lines gets lost on its way to the database.
THEOREM NothingGetsLost == Spec => []NoTextLost
<1>1. Inv => NoTextLost
  BY DEF Inv, SplitInv
<1> QED
  BY <1>1, InitInv, NextInv, PTL DEF Spec

-----------------------------------------------------------------------------
(* The reader.                                                             *)

\* What the modes of a reader hold.
ModeRecords ==
  [in : {"code", "line", "block", "quote", "dollar"}, by : Seq(Symbols), escapes : BOOLEAN,
   depth : Int, skip : Nat, delimiter : Seq(Symbols), cut : BOOLEAN, begun : BOOLEAN,
   line : BOOLEAN]

\* A delimiter and a tag have a symbol at least.
Mode == {m \in ModeRecords : m.delimiter # <<>> /\ (m.in = "dollar" => m.by # <<>>)}

\* A text that is not empty has a first symbol.
LEMMA NotEmpty ==
  ASSUME NEW text \in Seq(Symbols), text # <<>>
  PROVE  Len(text) \in Nat \ {0} /\ Len(text) - 1 \in Nat
<1>1. Len(text) \in Nat /\ Len(text) # 0
  BY LenProperties, EmptySeq
<1> QED
  BY <1>1

\* A delimiter line names a delimiter that does not begin with a blank.
LEMMA DirectiveDelimiter ==
  ASSUME NEW s \in Seq(Symbols), NEW k \in 1..Len(s), Directive(s, k).found
  PROVE  /\ Directive(s, k).next \in (k + 1)..(Len(s) + 1)
         /\ Directive(s, k).delimiter \in Seq(Symbols)
         /\ Directive(s, k).delimiter # <<>> /\ Directive(s, k).delimiter[1] \notin Blanks
<1> DEFINE word  == SkipAll(s, k, {" "})
           token == SkipAll(s, word + 1, {" "})
           end   == Find(s, token, Blanks)
           eol   == Find(s, end, {"nl"})
           d     == SubSeq(s, token, end - 1)
<1>1. /\ word <= Len(s) /\ end > token
      /\ Directive(s, k).delimiter = d
      /\ Directive(s, k).next = Min({eol + 1, Len(s) + 1})
  BY DEF Directive
<1> HIDE DEF word, token, end, eol
<1>n. Len(s) \in Nat
  BY LenProperties
<1>2. word \in k..(Len(s) + 1)
  <2>1. k \in 1..(Len(s) + 1)
    BY <1>n
  <2> QED
    BY <2>1, SearchRange DEF word
<1>3. token \in (word + 1)..(Len(s) + 1)
  <2>1. word + 1 \in 1..(Len(s) + 1)
    BY <1>1, <1>2, <1>n
  <2> QED
    BY <2>1, SearchRange DEF token
<1>4. end \in token..(Len(s) + 1) /\ \A n \in token..(end - 1) : s[n] \notin Blanks
  <2> DEFINE Hits == {j \in token..Len(s) : s[j] \in Blanks} \cup {Len(s) + 1}
  <2>1. token \in 1..(Len(s) + 1)
    BY <1>2, <1>3
  <2>2. Hits \in SUBSET Nat /\ Hits # {} /\ end = Min(Hits)
    BY <1>n, <2>1 DEF Find, end
  <2>3. \A n \in token..Len(s) : s[n] \in Blanks => n \in Hits
    OBVIOUS
  <2>4. Hits \subseteq token..(Len(s) + 1)
    BY <1>n, <2>1
  <2> HIDE DEF Hits
  <2>5. end \in Hits /\ \A n \in Hits : end <= n
    BY <2>2, MinOfNats
  <2> QED
    BY <1>n, <2>1, <2>3, <2>4, <2>5
<1>5. eol \in end..(Len(s) + 1)
  <2>1. end \in 1..(Len(s) + 1)
    BY <1>2, <1>3, <1>4
  <2> QED
    BY <2>1, SearchRange DEF eol
<1>6. Min({eol + 1, Len(s) + 1}) \in (k + 1)..(Len(s) + 1)
  <2> DEFINE T == {eol + 1, Len(s) + 1}
  <2>1. T \in SUBSET Nat /\ T # {} /\ \A t \in T : k + 1 <= t
    BY <1>2, <1>3, <1>4, <1>5
  <2>2. Len(s) + 1 \in T
    OBVIOUS
  <2> HIDE DEF T
  <2>3. Min(T) \in T /\ Min(T) <= Len(s) + 1
    BY <2>1, <2>2, MinOfNats
  <2> QED
    BY <2>1, <2>3 DEF T
<1>7. d \in Seq(Symbols) /\ d # <<>> /\ d[1] \notin Blanks
  <2>1. /\ \A n \in token..(end - 1) : n \in 1..Len(s)
        /\ token \in Int /\ end - 1 \in Int /\ token <= end - 1
        /\ 1 \in 1..(end - 1 - token + 1) /\ token + 1 - 1 = token /\ token \in token..(end - 1)
    BY <1>1, <1>2, <1>3, <1>4
  <2>2. /\ d \in Seq(Symbols) /\ Len(d) = end - 1 - token + 1 /\ d[1] = s[token]
    BY <2>1, SubSeqProperties
  <2> HIDE DEF d
  <2>3. Len(d) > 0
    BY <2>1, <2>2
  <2>4. d # <<>>
    BY <2>3, EmptySeq
  <2> QED
    BY <1>4, <2>1, <2>2, <2>4
<1> QED
  BY <1>1, <1>6, <1>7

\* The mode of a comment.
LEMMA CommentType ==
  ASSUME NEW m \in Mode, NEW in \in {"line", "block"}, NEW d \in Int, NEW n \in Nat,
         NEW b \in BOOLEAN
  PROVE  [m EXCEPT !.in = in, !.depth = d, !.skip = n, !.begun = b] \in Mode
BY DEF Mode, ModeRecords

\* From code a mode follows.
LEMMA FromCodeType ==
  ASSUME NEW s \in Seq(Symbols), NEW m \in Mode, NEW k \in 1..Len(s)
  PROVE  FromCode(s, m, k) \in Mode
<1> DEFINE here == [m EXCEPT !.cut = FALSE, !.line = FALSE]
<1>1. m \in ModeRecords /\ m.delimiter # <<>> /\ s[k] \in Symbols
  BY LenProperties DEF Mode
<1>2. here \in Mode /\ here.delimiter = m.delimiter
  BY DEF Mode, ModeRecords
<1>3. ASSUME Directive(s, k).found
      PROVE  [Cut(m, Directive(s, k).next - k, Directive(s, k).delimiter) EXCEPT !.line = TRUE] \in Mode
  <2> DEFINE d == Directive(s, k).delimiter
             n == Directive(s, k).next - k
  <2> DEFINE j == n - 1
  <2>1. d \in Seq(Symbols) /\ d # <<>> /\ j \in Nat
    BY <1>3, DirectiveDelimiter
  <2>2. Cut(m, n, d) = [m EXCEPT !.cut = TRUE, !.begun = FALSE, !.skip = j, !.delimiter = d]
    BY DEF Cut
  <2> HIDE DEF d, n, j
  <2>3. Cut(m, n, d) \in Mode
    BY <2>1, <2>2 DEF Mode, ModeRecords
  <2>4. [Cut(m, n, d) EXCEPT !.line = TRUE] \in Mode
    BY <2>3 DEF Mode, ModeRecords
  <2> QED
    BY <2>4 DEF d, n
<1>4. Comment(here, "line", 1) \in Mode /\ Comment(here, "block", 2) \in Mode
  <2> HIDE DEF here
  <2> DEFINE b == here.begun \/ "commentsBegin" \in Server
  <2>0. 1 - 1 = 0 /\ 2 - 1 = 1
    OBVIOUS
  <2>n. /\ 0 \in Nat /\ 1 \in Nat /\ 1 \in Int
        /\ "line" \in {"line", "block"} /\ "block" \in {"line", "block"}
    OBVIOUS
  <2>1. /\ Comment(here, "line", 1) = [here EXCEPT !.in = "line", !.depth = 1, !.skip = 0, !.begun = b]
        /\ Comment(here, "block", 2) = [here EXCEPT !.in = "block", !.depth = 1, !.skip = 1, !.begun = b]
    BY <2>0, Zenon DEF Comment
  <2>2. b \in BOOLEAN
    BY Zenon
  <2> HIDE DEF b
  <2>3. [here EXCEPT !.in = "line", !.depth = 1, !.skip = 0, !.begun = b] \in Mode
    BY <1>2, <2>2, <2>n, CommentType, Zenon
  <2>4. [here EXCEPT !.in = "block", !.depth = 1, !.skip = 1, !.begun = b] \in Mode
    BY <1>2, <2>2, <2>n, CommentType, Zenon
  <2> QED
    BY <2>1, <2>3, <2>4
<1>5. InQuote(s, here, k) \in Mode
  <2> HIDE DEF here
  <2> DEFINE b == \/ s[k] = "'" /\ "eStrings" \in Server /\ AfterE(s, k)
                  \/ s[k] # "bq" /\ "backslashEscapes" \in Server
             q == <<s[k]>>
  <2>1. InQuote(s, here, k) = [here EXCEPT !.in = "quote", !.by = q, !.begun = TRUE, !.escapes = b]
    BY Zenon DEF InQuote
  <2>2. b \in BOOLEAN
    BY Zenon
  <2>3. q \in Seq(Symbols)
    BY <1>1
  <2> HIDE DEF b, q
  <2> QED
    BY <1>2, <2>1, <2>2, <2>3 DEF Mode, ModeRecords
<1>6. Cut(here, Len(m.delimiter), m.delimiter) \in Mode
  <2>1. Len(m.delimiter) - 1 \in Nat /\ m.delimiter \in Seq(Symbols)
    BY <1>1, NotEmpty DEF ModeRecords
  <2> HIDE DEF here
  <2> QED
    BY <1>1, <1>2, <2>1 DEF Cut, Mode, ModeRecords
<1>7. ASSUME OpensDollar(s, m, k)
      PROVE  [here EXCEPT !.in = "dollar", !.by = DollarTag(s, k), !.begun = TRUE,
                          !.skip = Len(DollarTag(s, k)) - 1] \in Mode
  <2> DEFINE tag == DollarTag(s, k)
  <2>1. tag \in Seq(Symbols) /\ tag # <<>>
    BY <1>7, TagIsText DEF OpensDollar
  <2> HIDE DEF tag, here
  <2> DEFINE j == Len(tag) - 1
  <2>2. j \in Nat
    BY <2>1, NotEmpty
  <2> HIDE DEF j
  <2>3. [here EXCEPT !.in = "dollar", !.by = tag, !.begun = TRUE, !.skip = j] \in Mode
    BY <1>2, <2>1, <2>2 DEF Mode, ModeRecords
  <2> QED
    BY <2>3 DEF tag, j
<1>8. [here EXCEPT !.begun = @ \/ s[k] \notin Blanks, !.line = (s[k] = "nl")] \in Mode
  <2> HIDE DEF here
  <2> DEFINE b == here.begun \/ s[k] \notin Blanks
             l == (s[k] = "nl")
  <2>1. b \in BOOLEAN /\ l \in BOOLEAN
    BY Zenon
  <2> HIDE DEF b, l
  <2>2. [here EXCEPT !.begun = b, !.line = l] \in Mode
    BY <1>2, <2>1 DEF Mode, ModeRecords
  <2> QED
    BY <2>2, Zenon DEF b, l
<1> HIDE DEF here
<1> QED
  BY <1>3, <1>4, <1>5, <1>6, <1>7, <1>8 DEF FromCode, here

\* The mode back in code.
LEMMA BackType ==
  ASSUME NEW m \in Mode, NEW n \in Nat \ {0}
  PROVE  Back(m, n) \in Mode
<1> DEFINE j == n - 1
<1>1. j \in Nat /\ Back(m, n) = [m EXCEPT !.in = "code", !.skip = j]
  BY DEF Back
<1> HIDE DEF j
<1> QED
  BY <1>1 DEF Mode, ModeRecords

\* After each symbol a mode follows.
LEMMA AfterType ==
  ASSUME NEW s \in Seq(Symbols), NEW m \in Mode, NEW k \in 1..Len(s)
  PROVE  After(s, m, k) \in Mode
<1>1. /\ m \in ModeRecords /\ m.skip \in Nat /\ m.by \in Seq(Symbols)
      /\ m.in \in {"code", "line", "block", "quote", "dollar"}
  BY DEF Mode, ModeRecords
<1>2. CASE m.skip > 0
  <2> DEFINE j == m.skip - 1
  <2>1. After(s, m, k) = [m EXCEPT !.skip = j]
    BY <1>1, <1>2 DEF After
  <2>2. j \in Nat
    BY <1>1, <1>2
  <2> HIDE DEF j
  <2> QED
    BY <1>1, <2>1, <2>2 DEF Mode, ModeRecords
<1>3. CASE m.skip = 0 /\ m.in = "code"
  <2>1. After(s, m, k) = FromCode(s, m, k)
    BY <1>3 DEF After
  <2> QED
    BY <2>1, FromCodeType
<1>4. CASE m.skip = 0 /\ m.in = "line"
  <2> DEFINE b == Back(m, 1)
  <2>1. After(s, m, k) = IF s[k] = "nl" THEN [b EXCEPT !.line = TRUE] ELSE m
    BY <1>4 DEF After
  <2>2. b \in Mode
    BY BackType
  <2> HIDE DEF b
  <2>3. [b EXCEPT !.line = TRUE] \in Mode
    BY <2>2 DEF Mode, ModeRecords
  <2> QED
    BY <2>1, <2>3
<1>5. CASE m.skip = 0 /\ m.in = "block"
  <2> DEFINE b == Back(m, 2)
             u == m.depth - 1
             v == m.depth + 1
  <2>1. After(s, m, k) \in {b, [m EXCEPT !.depth = u, !.skip = 1],
                            [m EXCEPT !.depth = v, !.skip = 1], m}
    BY <1>5 DEF After
  <2>2. u \in Int /\ v \in Int
    BY DEF Mode, ModeRecords
  <2>n. b \in Mode
    BY BackType
  <2> HIDE DEF b, u, v
  <2>3. [m EXCEPT !.depth = u, !.skip = 1] \in Mode /\ [m EXCEPT !.depth = v, !.skip = 1] \in Mode
    BY <2>2 DEF Mode, ModeRecords
  <2> QED
    BY <2>1, <2>n, <2>3
<1>6. CASE m.skip = 0 /\ m.in = "quote"
  <2> DEFINE b == Back(m, 1)
  <2>1. After(s, m, k) \in {[m EXCEPT !.skip = 1], b, m}
    BY <1>6 DEF After
  <2>2. b \in Mode
    BY BackType
  <2>3. [m EXCEPT !.skip = 1] \in Mode
    BY DEF Mode, ModeRecords
  <2> HIDE DEF b
  <2> QED
    BY <2>1, <2>2, <2>3
<1>7. CASE m.skip = 0 /\ m.in = "dollar"
  <2>1. Len(m.by) \in Nat \ {0}
    BY <1>1, <1>7, NotEmpty DEF Mode
  <2>2. After(s, m, k) = IF Matches(s, m.by, k) THEN Back(m, Len(m.by)) ELSE m
    BY <1>7 DEF After
  <2> QED
    BY <2>1, <2>2, BackType
<1> QED
  BY <1>1, <1>2, <1>3, <1>4, <1>5, <1>6, <1>7

\* The reader of a text is in one mode after the other.
LEMMA ModesDef ==
  ASSUME NEW s \in Seq(Symbols)
  PROVE  /\ Modes(s) \in [0..Len(s) -> Mode]
         /\ Modes(s)[0] = Beginning
         /\ \A n \in 1..Len(s) : Modes(s)[n] = After(s, Modes(s)[n - 1], n)
<1> DEFINE N == Len(s)
           Body(g) == [n \in 0..N |-> IF n = 0 THEN Beginning ELSE After(s, g[n - 1], n)]
           step == [p \in Nat \X Mode |-> IF p[1] \in 1..N THEN After(s, p[2], p[1]) ELSE p[2]]
<1>1. step \in [Nat \X Mode -> Mode]
  <2>1. ASSUME NEW n \in Nat, NEW m \in Mode, n \in 1..N
        PROVE  After(s, m, n) \in Mode
    BY <2>1, AfterType
  <2> QED
    BY <2>1
<1>2. Beginning \in Mode /\ N \in Nat
  <2>1. <<>> \in Seq(Symbols)
    BY EmptySeq
  <2>2. <<Semicolon>> \in Seq(Symbols)
    <3>1. Semicolon \in Symbols
      BY Zenon DEF Semicolon, Symbols
    <3> QED
      BY <3>1
  <2>3. <<Semicolon>> # <<>>
    OBVIOUS
  <2>4. Beginning \in Mode
    <3> DEFINE d == <<Semicolon>>
               m == [in |-> "code", by |-> <<>>, escapes |-> FALSE, depth |-> 0, skip |-> 0,
                     delimiter |-> d, cut |-> FALSE, begun |-> FALSE, line |-> TRUE]
    <3>1. d \in Seq(Symbols) /\ d # <<>> /\ m = Beginning
      BY <2>2, <2>3, Zenon DEF Beginning
    <3> HIDE DEF d
    <3>2. m \in ModeRecords
      BY <2>1, <3>1, SMT DEF ModeRecords
    <3>3. m.delimiter = d /\ m.in = "code"
      OBVIOUS
    <3> HIDE DEF m
    <3> QED
      BY <3>1, <3>2, <3>3 DEF Mode
  <2> QED
    BY <2>4, LenProperties
<1>3. Recursions(Mode, Beginning, step, N) # {}
  <2> HIDE DEF step, N
  <2> QED
    BY <1>1, <1>2, NatRec
<1>4. PICK g \in [0..N -> Mode] :
        g[0] = Beginning /\ \A k \in 1..N : g[k] = step[<<k, g[k - 1]>>]
  <2> HIDE DEF step, N
  <2> QED
    BY <1>3 DEF Recursions
<1>5. g = Body(g)
  <2>1. ASSUME NEW n \in 0..N PROVE g[n] = Body(g)[n]
    <3>1. CASE n = 0
      BY <3>1, <1>4
    <3>2. CASE n \in 1..N
      <4>1. n - 1 \in 0..N /\ n \in Nat
        BY <3>2
      <4>2. g[n - 1] \in Mode
        BY <4>1
      <4>3. <<n, g[n - 1]>> \in Nat \X Mode
        BY <4>1, <4>2
      <4>4. step[<<n, g[n - 1]>>] = After(s, g[n - 1], n)
        BY <3>2, <4>3
      <4> QED
        BY <1>4, <3>2, <4>4
    <3> QED
      BY <3>1, <3>2
  <2> QED
    BY <2>1
<1>6. Modes(s) = CHOOSE g1 : g1 = Body(g1)
  BY DEF Modes
<1> DEFINE R == Modes(s)
<1>7. R = Body(R)
  <2> HIDE DEF Body
  <2> QED
    BY <1>5, <1>6
<1> HIDE DEF R
<1>8. R[0] = Beginning /\ \A n \in 1..N : R[n] = After(s, R[n - 1], n)
  BY <1>2, <1>7
<1> DEFINE T == {n \in Nat : n \in 0..N => R[n] \in Mode}
<1>9. T = Nat
  <2>1. 0 \in T
    BY <1>2, <1>8
  <2>2. ASSUME NEW n \in T PROVE n + 1 \in T
    <3>1. SUFFICES ASSUME n + 1 \in 0..N PROVE R[n + 1] \in Mode
      OBVIOUS
    <3>2. n \in 0..N /\ n + 1 \in 1..N /\ (n + 1) - 1 = n
      BY <1>2, <3>1
    <3>3. R[n] \in Mode
      BY <3>2
    <3>4. After(s, R[n], n + 1) \in Mode
      BY <3>2, <3>3, AfterType
    <3> QED
      BY <1>8, <3>2, <3>4
  <2>3. T \in SUBSET Nat
    OBVIOUS
  <2> HIDE DEF T
  <2> QED
    BY <2>1, <2>2, <2>3, NatInd
<1>10. \A n \in 0..N : R[n] \in Mode
  <2>1. \A n \in 0..N : n \in T
    BY <1>2, <1>9
  <2> QED
    BY <2>1
<1>11. R = [n \in 0..N |-> R[n]]
  BY <1>7
<1> QED
  BY <1>8, <1>10, <1>11 DEF R

\* A text matches where its symbols are.
LEMMA MatchesSymbols ==
  ASSUME NEW s \in Seq(Symbols), NEW text \in Seq(Symbols), NEW k \in Nat \ {0}
  PROVE  Matches(s, text, k) <=> /\ k + Len(text) - 1 <= Len(s)
                                 /\ \A j \in 1..Len(text) : s[k + j - 1] = text[j]
<1> DEFINE n == Len(text)
           l == Len(s)
           e == k + n - 1
           part == SubSeq(s, k, e)
<1>1. n \in Nat /\ l \in Nat /\ e \in Int /\ k \in Int
  BY LenProperties
<1>2. SUFFICES ASSUME e <= l PROVE part = text <=> \A j \in 1..n : s[k + j - 1] = text[j]
  BY DEF Matches
<1>3. part \in Seq(Symbols) /\ Len(part) = n /\ \A j \in 1..n : part[j] = s[k + j - 1]
  <2>1. \A j \in k..e : s[j] \in Symbols
    BY <1>1, <1>2
  <2>2. e - k + 1 = n /\ (k <= e <=> n > 0)
    BY <1>1
  <2> HIDE DEF e, n, l
  <2>3. part \in Seq(Symbols) /\ Len(part) = (IF k <= e THEN e - k + 1 ELSE 0)
        /\ \A j \in 1..(e - k + 1) : part[j] = s[k + j - 1]
    BY <1>1, <2>1, SubSeqProperties
  <2> HIDE DEF part
  <2> QED
    BY <1>1, <2>2, <2>3
<1> HIDE DEF part
<1>4. ASSUME \A j \in 1..n : s[k + j - 1] = text[j] PROVE part = text
  BY <1>3, <1>4, SeqEqual
<1> QED
  BY <1>3, <1>4

\* A text of one symbol.
LEMMA OneMatches ==
  ASSUME NEW s \in Seq(Symbols), NEW k \in 1..Len(s), NEW x \in Symbols
  PROVE  Matches(s, <<x>>, k) <=> s[k] = x
<1> DEFINE text == <<x>>
           l == Len(s)
<1>1. text \in Seq(Symbols) /\ Len(text) = 1 /\ text[1] = x
  OBVIOUS
<1>2. k \in Nat \ {0} /\ k <= l /\ l \in Nat
  BY LenProperties
<1> HIDE DEF text
<1>3. Matches(s, text, k) <=> k + 1 - 1 <= l /\ \A j \in 1..1 : s[k + j - 1] = text[j]
  <2> DEFINE n == Len(text)
  <2>1. Matches(s, text, k) <=> k + n - 1 <= l /\ \A j \in 1..n : s[k + j - 1] = text[j]
    BY <1>1, <1>2, MatchesSymbols
  <2>2. n = 1
    BY <1>1
  <2> HIDE DEF n, l
  <2> QED
    BY <2>1, <2>2, Zenon
<1> HIDE DEF l
<1>4. k + 1 - 1 = k /\ \A j \in 1..1 : j = 1
  BY <1>2
<1>5. Matches(s, text, k) <=> s[k] = x
  BY <1>1, <1>2, <1>3, <1>4
<1> QED
  BY <1>5 DEF text

\* A text of two symbols.
LEMMA TwoMatch ==
  ASSUME NEW s \in Seq(Symbols), NEW k \in 1..Len(s), NEW x \in Symbols, NEW y \in Symbols
  PROVE  Matches(s, <<x, y>>, k) <=> k + 1 <= Len(s) /\ s[k] = x /\ s[k + 1] = y
<1> DEFINE text == <<x, y>>
           l == Len(s)
<1>1. text \in Seq(Symbols) /\ Len(text) = 2 /\ text[1] = x /\ text[2] = y
  OBVIOUS
<1>2. k \in Nat \ {0} /\ k <= l /\ l \in Nat
  BY LenProperties
<1> HIDE DEF text
<1>3. Matches(s, text, k) <=> k + 2 - 1 <= l /\ \A j \in 1..2 : s[k + j - 1] = text[j]
  <2> DEFINE n == Len(text)
  <2>1. Matches(s, text, k) <=> k + n - 1 <= l /\ \A j \in 1..n : s[k + j - 1] = text[j]
    BY <1>1, <1>2, MatchesSymbols
  <2>2. n = 2
    BY <1>1
  <2> HIDE DEF n, l
  <2> QED
    BY <2>1, <2>2, Zenon
<1> HIDE DEF l
<1>4. k + 2 - 1 = k + 1 /\ k + 1 - 1 = k /\ 1 \in 1..2 /\ 2 \in 1..2 /\ \A j \in 1..2 : j = 1 \/ j = 2
  BY <1>2
<1>5. (\A j \in 1..2 : s[k + j - 1] = text[j]) <=> s[k + 1 - 1] = text[1] /\ s[k + 2 - 1] = text[2]
  BY <1>4
<1>6. Matches(s, text, k) <=> k + 1 <= l /\ s[k] = x /\ s[k + 1] = y
  BY <1>1, <1>2, <1>3, <1>4, <1>5
<1> QED
  BY <1>6 DEF text, l

\* A mode without symbols to come.
Rested(r) == [r EXCEPT !.skip = 0]

\* Symbols of a token that has begun are skipped.
LEMMA SkipsOver ==
  ASSUME NEW s \in Seq(Symbols), NEW a \in 0..Len(s), NEW n \in Nat, a + n <= Len(s),
         Modes(s)[a].skip = n
  PROVE  /\ Modes(s)[a + n] = Rested(Modes(s)[a])
         /\ \A k \in a..(a + n) : Modes(s)[k].cut = Modes(s)[a].cut
<1> DEFINE M == Modes(s)
           m == M[a]
           L == Len(s)
           Left(j) == [m EXCEPT !.skip = n - j]
           T == {j \in Nat : j <= n => M[a + j] = Left(j)}
<1>1. L \in Nat /\ a \in Nat /\ a <= L /\ a + n <= L
  BY LenProperties
<1>2. M \in [0..L -> Mode] /\ \A k \in 1..L : M[k] = After(s, M[k - 1], k)
  BY ModesDef
<1> HIDE DEF M
<1>3. m \in Mode /\ m.skip = n
  BY <1>1, <1>2 DEF M
<1> HIDE DEF m
<1>4. 0 \in T
  <2>1. n - 0 = n /\ a + 0 = a
    BY <1>1
  <2>2. [m EXCEPT !.skip = n] = m
    BY <1>3 DEF Mode, ModeRecords
  <2>3. M[a] = Left(0)
    BY <2>1, <2>2 DEF m
  <2> QED
    BY <2>1, <2>3
<1>5. ASSUME NEW j \in T PROVE j + 1 \in T
  <2>0. j + 1 \in Nat
    OBVIOUS
  <2>1. SUFFICES ASSUME j + 1 <= n PROVE M[a + (j + 1)] = Left(j + 1)
    BY <2>0, Zenon
  <2> DEFINE x == n - j
             y == x - 1
             k == a + (j + 1)
  <2>2. x \in Nat /\ x > 0 /\ y = n - (j + 1) /\ k \in 1..L /\ k - 1 = a + j /\ j <= n
    BY <1>1, <2>0, <2>1, SMTT(30)
  <2>3. M[a + j] = [m EXCEPT !.skip = x]
    BY <2>0, <2>2
  <2>4. M[k] = After(s, M[a + j], k)
    BY <1>2, <2>2
  <2>5. After(s, M[a + j], k) = [m EXCEPT !.skip = y]
    <3> DEFINE w == M[a + j]
    <3> HIDE DEF x, y, k
    <3>1. w.skip = x /\ w = [m EXCEPT !.skip = x]
      BY <1>3, <2>3 DEF Mode, ModeRecords
    <3> HIDE DEF w
    <3>2. After(s, w, k) = [w EXCEPT !.skip = w.skip - 1]
      BY <2>2, <3>1 DEF After
    <3>3. w.skip - 1 = y
      BY <3>1 DEF y
    <3>4. [w EXCEPT !.skip = y] = [m EXCEPT !.skip = y]
      BY <1>3, <3>1 DEF Mode, ModeRecords
    <3> QED
      BY <3>2, <3>3, <3>4 DEF w
  <2> QED
    BY <2>2, <2>4, <2>5
<1>6. T = Nat
  <2>1. T \in SUBSET Nat
    OBVIOUS
  <2> HIDE DEF T
  <2> QED
    BY <1>4, <1>5, <2>1, NatInd
<1>7. \A j \in 0..n : M[a + j] = Left(j)
  <2>1. \A j \in 0..n : j \in T /\ j <= n
    BY <1>6
  <2> QED
    BY <2>1
<1>8. M[a + n] = [m EXCEPT !.skip = 0]
  <2>1. n \in 0..n /\ n - n = 0
    OBVIOUS
  <2> QED
    BY <1>7, <2>1
<1>9. ASSUME NEW k \in a..(a + n) PROVE M[k].cut = m.cut
  <2>1. k - a \in 0..n /\ a + (k - a) = k
    BY <1>1
  <2> DEFINE x == n - (k - a)
  <2>2. M[k] = [m EXCEPT !.skip = x]
    BY <1>7, <2>1
  <2> HIDE DEF x
  <2> QED
    BY <1>3, <2>2 DEF Mode, ModeRecords
<1> QED
  BY <1>8, <1>9 DEF M, m, Rested

\* A mode that no symbol changes lasts.
LEMMA StaysIn ==
  ASSUME NEW s \in Seq(Symbols), NEW a \in 0..Len(s), NEW b \in a..Len(s),
         \A k \in (a + 1)..b : After(s, Modes(s)[a], k) = Modes(s)[a]
  PROVE  \A k \in a..b : Modes(s)[k] = Modes(s)[a]
<1> DEFINE M == Modes(s)
           L == Len(s)
           T == {j \in Nat : j <= b - a => M[a + j] = M[a]}
<1>1. L \in Nat /\ a \in Nat /\ b \in Nat /\ a <= b /\ b <= L
  BY LenProperties
<1>2. \A k \in 1..L : M[k] = After(s, M[k - 1], k)
  BY ModesDef
<1> HIDE DEF M, L
<1>3. 0 \in T
  BY <1>1
<1>4. ASSUME NEW j \in T PROVE j + 1 \in T
  <2>0. j + 1 \in Nat
    OBVIOUS
  <2>1. SUFFICES ASSUME j + 1 <= b - a PROVE M[a + (j + 1)] = M[a]
    BY <2>0, Zenon
  <2> DEFINE k == a + (j + 1)
  <2>2. k \in 1..L /\ k \in (a + 1)..b /\ k - 1 = a + j /\ j <= b - a
    BY <1>1, <2>0, <2>1
  <2>3. M[a + j] = M[a]
    BY <2>2
  <2> HIDE DEF k
  <2>4. M[k] = After(s, M[a], k)
    BY <1>2, <2>2, <2>3
  <2>5. After(s, M[a], k) = M[a]
    BY <2>2 DEF M
  <2> QED
    BY <2>4, <2>5 DEF k
<1>5. T = Nat
  <2>1. T \in SUBSET Nat
    OBVIOUS
  <2> HIDE DEF T
  <2> QED
    BY <1>3, <1>4, <2>1, NatInd
<1>6. ASSUME NEW k \in a..b PROVE M[k] = M[a]
  <2>1. k - a \in Nat /\ k - a <= b - a /\ a + (k - a) = k
    BY <1>1
  <2>2. k - a \in T
    <3> HIDE DEF T
    <3> QED
      BY <1>5, <2>1
  <2> QED
    BY <2>1, <2>2
<1> QED
  BY <1>6 DEF M

\* Behind is the end of the first match, or of the script when there is none.
LEMMA BehindFirst ==
  ASSUME script \in Seq(Symbols), NEW text \in Seq(Symbols), NEW k \in Nat \ {0}
  PROVE  \/ /\ Behind(text, k) = Len(script) + 1
            /\ \A x \in k..Len(script) : ~ Matches(script, text, x)
         \/ \E j \in k..Len(script) :
              /\ Behind(text, k) = j + Len(text) /\ j + Len(text) <= Len(script) + 1
              /\ Matches(script, text, j)
              /\ \A x \in k..(j - 1) : ~ Matches(script, text, x)
<1> DEFINE l == Len(script)
           n == Len(text)
           hits == {x \in k..l : Matches(script, text, x)}
           T == {j + n : j \in hits} \cup {l + 1}
<1>1. l \in Nat /\ n \in Nat
  BY LenProperties
<1>2. Behind(text, k) = Min(T)
  BY DEF Behind
<1>3. \A x \in hits : x \in k..l /\ x + n <= l + 1 /\ Matches(script, text, x)
  BY <1>1 DEF Matches
<1>4. \A x \in k..l : Matches(script, text, x) => x \in hits
  OBVIOUS
<1> HIDE DEF hits, l, n
<1>5. T \in SUBSET Nat /\ T # {} /\ l + 1 \in T
  BY <1>1, <1>3
<1>6. Min(T) \in T /\ \A t \in T : Min(T) <= t
  BY <1>5, MinOfNats
<1>7. CASE hits = {}
  BY <1>2, <1>4, <1>6, <1>7 DEF l
<1>8. CASE hits # {}
  <2>1. \E j \in hits : Min(T) = j + n
    <3>1. PICK h \in hits : TRUE
      BY <1>8
    <3>2. h + n \in T /\ h + n <= l + 1 /\ h + n \in Nat
      BY <1>1, <1>3
    <3>3. Min(T) <= h + n
      BY <1>6, <3>2
    <3>4. CASE Min(T) = l + 1
      <4>1. h + n = l + 1
        BY <1>1, <3>2, <3>3, <3>4
      <4> QED
        BY <3>4, <4>1
    <3>5. CASE Min(T) # l + 1
      BY <1>6, <3>5
    <3> QED
      BY <3>4, <3>5
  <2>2. PICK j \in hits : Min(T) = j + n
    BY <2>1
  <2>3. \A x \in k..(j - 1) : x \notin hits
    <3>1. SUFFICES ASSUME NEW x \in k..(j - 1), x \in hits PROVE FALSE
      OBVIOUS
    <3>2. x + n \in T
      BY <3>1
    <3>3. j + n <= x + n
      BY <1>6, <2>2, <3>2
    <3>4. j \in Nat /\ x \in Nat /\ x < j
      BY <1>1, <1>3, <2>2
    <3> QED
      BY <1>1, <3>3, <3>4
  <2>4. j \in k..l /\ j + n <= l + 1 /\ Matches(script, text, j)
    BY <1>3
  <2>5. \A x \in k..(j - 1) : x \in k..l
    BY <1>1, <2>4
  <2>6. \A x \in k..(j - 1) : ~ Matches(script, text, x)
    BY <1>4, <2>3, <2>5
  <2> QED
    BY <1>2, <2>2, <2>4, <2>6 DEF l, n
<1> QED
  BY <1>7, <1>8

\* The mode of the reader behind each symbol of the script.
Reader == Modes(script)

\* What opens at o ends before e, is cut as its first symbol is, and leaves the reader
\* in code.
LeavesAt(o, e) ==
  /\ e \in (o + 1)..(Len(script) + 1)
  /\ \A k \in o..(e - 1) : Reader[k].cut = Reader[o].cut
  /\ e <= Len(script) => Reader[e - 1] = [Rested(Reader[o]) EXCEPT !.in = "code"]

\* A comment or body that opens at o with n symbols ends with the first text behind
\* them, where Split looks for its end too.
LEMMA Enclosed ==
  ASSUME script \in Seq(Symbols), NEW text \in Seq(Symbols), text # <<>>,
         NEW o \in 1..Len(script), NEW n \in Nat \ {0}, o + n - 1 <= Len(script),
         Reader[o].skip = n - 1,
         \A k \in 1..Len(script) :
           After(script, Rested(Reader[o]), k) =
             IF Matches(script, text, k) THEN Back(Rested(Reader[o]), Len(text)) ELSE Rested(Reader[o])
  PROVE  LeavesAt(o, Behind(text, o + n))
<1> DEFINE L == Len(script)
           a == o + n - 1
           e == Behind(text, o + n)
           t == Len(text)
           m == Rested(Reader[o])
<1>0. \A k \in 1..Len(script) :
        After(script, m, k) = IF Matches(script, text, k) THEN Back(m, Len(text)) ELSE m
  OBVIOUS
<1>1. L \in Nat /\ o \in Nat \ {0} /\ o <= a /\ a \in Nat /\ a <= L /\ a + 1 = o + n
  BY LenProperties
<1>2. t \in Nat \ {0}
  BY NotEmpty
<1>3. Reader \in [0..L -> Mode] /\ \A k \in 1..L : Reader[k] = After(script, Reader[k - 1], k)
  BY ModesDef DEF Reader
<1>4. Reader[o] \in Mode /\ m \in Mode /\ m.skip = 0 /\ m.cut = Reader[o].cut
  <2>1. Reader[o] \in Mode
    BY <1>1, <1>3
  <2> QED
    BY <2>1 DEF Mode, ModeRecords, Rested
<1> HIDE DEF m
<1>5. Reader[a] = m /\ \A k \in o..a : Reader[k].cut = Reader[o].cut
  <2> DEFINE j == n - 1
  <2>1. j \in Nat /\ o + j = a /\ o \in 0..Len(script) /\ Reader[o].skip = j /\ o + j <= Len(script)
    BY <1>1
  <2> HIDE DEF j, a
  <2>2. Reader[o + j] = Rested(Reader[o]) /\ \A k \in o..(o + j) : Reader[k].cut = Reader[o].cut
    BY <2>1, SkipsOver DEF Reader
  <2> QED
    BY <2>1, <2>2 DEF m
<1>6. ASSUME NEW b \in a..L, \A k \in (a + 1)..b : ~ Matches(script, text, k)
      PROVE  Reader[b] = m /\ \A k \in o..b : Reader[k].cut = Reader[o].cut
  <2>1. \A k \in (a + 1)..b : k \in 1..L
    BY <1>1
  <2>2. \A k \in (a + 1)..b : After(script, Reader[a], k) = Reader[a]
    BY <1>0, <1>5, <1>6, <2>1
  <2>3. a \in 0..Len(script) /\ b \in a..Len(script)
    BY <1>1
  <2> HIDE DEF a, L
  <2>4. \A k \in a..b : Reader[k] = Reader[a]
    BY <2>2, <2>3, StaysIn DEF Reader
  <2>5. \A k \in o..b : k \in o..a \/ k \in a..b
    BY <1>1
  <2>6. b \in a..b
    BY <1>1, <1>6
  <2> QED
    BY <1>4, <1>5, <2>4, <2>5, <2>6
<1>7. CASE /\ e = L + 1
           /\ \A x \in (o + n)..L : ~ Matches(script, text, x)
  <2>1. L \in a..L /\ \A k \in (a + 1)..L : ~ Matches(script, text, k)
    BY <1>1, <1>7
  <2> HIDE DEF a, L, e
  <2>2. \A k \in o..L : Reader[k].cut = Reader[o].cut
    BY <1>6, <2>1
  <2>3. e \in (o + 1)..(L + 1) /\ ~ (e <= L) /\ e - 1 = L
    BY <1>1, <1>7
  <2> QED
    BY <2>2, <2>3 DEF e, L, LeavesAt
<1>8. ASSUME NEW j \in (o + n)..L, e = j + t, j + t <= L + 1, Matches(script, text, j),
             \A x \in (o + n)..(j - 1) : ~ Matches(script, text, x)
      PROVE  /\ e \in (o + 1)..(L + 1)
             /\ \A k \in o..(e - 1) : Reader[k].cut = Reader[o].cut
             /\ Reader[e - 1] = [m EXCEPT !.in = "code"]
  <2>1. j \in 1..L /\ j - 1 \in a..L /\ j \in 0..L
    BY <1>1
  <2>2. \A k \in (a + 1)..(j - 1) : ~ Matches(script, text, k)
    BY <1>1, <1>8
  <2>3. Reader[j - 1] = m /\ \A k \in o..(j - 1) : Reader[k].cut = Reader[o].cut
    BY <1>6, <2>1, <2>2
  <2>4. Reader[j] = Back(m, t)
    BY <1>0, <1>3, <1>8, <2>1, <2>3
  <2> DEFINE u == t - 1
  <2>5. u \in Nat /\ j + u = e - 1 /\ j + u <= L /\ e \in (o + 1)..(L + 1)
    BY <1>1, <1>2, <1>8, <2>1, SMTT(30)
  <2>6. Reader[j] = [m EXCEPT !.in = "code", !.skip = u]
    BY <2>4 DEF Back
  <2> HIDE DEF u, L, e, t, a
  <2>7. /\ Reader[j].skip = u /\ Reader[j].cut = m.cut
        /\ [Reader[j] EXCEPT !.skip = 0] = [m EXCEPT !.in = "code"]
    BY <1>4, <2>6 DEF Mode, ModeRecords
  <2>8. Reader[j + u] = Rested(Reader[j]) /\ \A k \in j..(j + u) : Reader[k].cut = Reader[j].cut
    <3>1. /\ script \in Seq(Symbols) /\ j \in 0..Len(script) /\ u \in Nat
          /\ j + u <= Len(script) /\ Modes(script)[j].skip = u
      BY <2>1, <2>5, <2>7 DEF Reader, L
    <3> QED
      BY <3>1, SkipsOver DEF Reader
  <2>9. \A k \in o..(e - 1) : k \in o..(j - 1) \/ k \in j..(j + u)
    BY <1>1, <2>1, <2>5
  <2> QED
    BY <1>4, <2>3, <2>5, <2>7, <2>8, <2>9 DEF Rested
<1> HIDE DEF L, a, e, t
<1>9. \/ e = L + 1 /\ \A x \in (o + n)..L : ~ Matches(script, text, x)
      \/ \E j \in (o + n)..L : /\ e = j + t /\ j + t <= L + 1
                               /\ Matches(script, text, j)
                               /\ \A x \in (o + n)..(j - 1) : ~ Matches(script, text, x)
  <2>1. o + n \in Nat \ {0}
    BY <1>1
  <2> QED
    BY <2>1, BehindFirst DEF e, L, t
<1> QED
  BY <1>7, <1>8, <1>9 DEF e, L, m, LeavesAt

\* The reader is at a delimiter, or before or behind the script.
CutAt(s, k) ==
  \/ k = 0 \/ k = Len(s) + 1
  \/ k \in 1..Len(s) /\ Modes(s)[k].cut

\* Neighbouring cuts up to e, and what lies between them.
Pairs(s, e) ==
  {p \in (0..e) \X (0..e) :
     /\ p[1] < p[2] /\ CutAt(s, p[1]) /\ CutAt(s, p[2])
     /\ \A k \in (p[1] + 1)..(p[2] - 1) : ~ CutAt(s, k)}

Between(s, e) == UNION {Trimmed(s, p[1] + 1, p[2] - 1) : p \in Pairs(s, e)}

\* Where there is no text there is no statement.
LEMMA NoneBetween ==
  ASSUME NEW s, NEW a \in Int
  PROVE  Trimmed(s, a, a - 1) = {}
<1>1. a..(a - 1) = {}
  OBVIOUS
<1>2. {k \in a..(a - 1) : s[k] \notin Blanks} = {}
  BY <1>1
<1> QED
  BY <1>2, Zenon DEF Trimmed

\* When a delimiter from k to e follows the text from f on, there is one more
\* statement: that text.
LEMMA OneMore ==
  ASSUME NEW s, Len(s) \in Nat, NEW f \in Nat \ {0}, NEW k \in Nat, NEW e \in Nat, f <= k, k <= e,
         CutAt(s, f - 1), \A j \in f..(k - 1) : ~ CutAt(s, j), \A j \in k..e : CutAt(s, j)
  PROVE  Between(s, e) = Between(s, f - 1) \cup Trimmed(s, f, k - 1)
<1>1. ASSUME NEW p \in Pairs(s, e)
      PROVE  p \in Pairs(s, f - 1) \/ p = <<f - 1, k>> \/ p[2] = p[1] + 1
  <2>1. /\ p[1] \in Nat /\ p[2] \in Nat /\ p[1] < p[2] /\ p[2] <= e /\ p = <<p[1], p[2]>>
        /\ CutAt(s, p[1]) /\ CutAt(s, p[2])
        /\ \A j \in (p[1] + 1)..(p[2] - 1) : ~ CutAt(s, j)
    BY DEF Pairs
  <2>2. CASE p[2] <= f - 1
    <3>1. p[1] \in 0..(f - 1) /\ p[2] \in 0..(f - 1)
      BY <2>1, <2>2
    <3>2. p \in (0..(f - 1)) \X (0..(f - 1))
      BY <2>1, <3>1
    <3> QED
      BY <2>1, <3>2 DEF Pairs
  <2>3. CASE p[2] >= f
    <3>1. p[2] \in k..e
      <4>1. p[2] \notin f..(k - 1)
        BY <2>1
      <4> QED
        BY <2>1, <2>3, <4>1
    <3>2. CASE p[2] = k
      <4>1. p[1] \notin f..(k - 1)
        BY <2>1
      <4>2. p[1] <= f - 1
        BY <2>1, <3>2, <4>1
      <4>3. ~ (f - 1 \in (p[1] + 1)..(p[2] - 1))
        BY <2>1
      <4>4. p[1] = f - 1
        BY <2>1, <3>2, <4>2, <4>3
      <4> QED
        BY <2>1, <3>2, <4>4
    <3>3. CASE p[2] # k
      <4>1. p[2] - 1 \in k..e
        BY <2>1, <3>1, <3>3
      <4>2. ~ (p[2] - 1 \in (p[1] + 1)..(p[2] - 1))
        BY <2>1, <4>1
      <4> QED
        BY <2>1, <4>2
    <3> QED
      BY <3>2, <3>3
  <2> QED
    BY <2>1, <2>2, <2>3
<1>2. <<f - 1, k>> \in Pairs(s, e)
  <2>1. CutAt(s, k) /\ f - 1 \in 0..e /\ k \in 0..e /\ f - 1 < k /\ (f - 1) + 1 = f
    BY DEF CutAt
  <2>2. \A j \in ((f - 1) + 1)..(k - 1) : ~ CutAt(s, j)
    BY <2>1
  <2> QED
    BY <2>1, <2>2 DEF Pairs
<1>3. Pairs(s, f - 1) \subseteq Pairs(s, e)
  BY DEF Pairs
<1>4. ASSUME NEW p \in Pairs(s, e), p[2] = p[1] + 1 PROVE Trimmed(s, p[1] + 1, p[2] - 1) = {}
  <2>1. p[1] + 1 \in Int
    BY DEF Pairs
  <2>2. p[2] - 1 = (p[1] + 1) - 1
    BY <1>4, <2>1
  <2> QED
    BY <2>1, <2>2, NoneBetween
<1>5. (f - 1) + 1 = f
  OBVIOUS
<1>6. ASSUME NEW p \in Pairs(s, e), NEW t \in Trimmed(s, p[1] + 1, p[2] - 1)
      PROVE  t \in Between(s, f - 1) \cup Trimmed(s, f, k - 1)
  <2>1. CASE p \in Pairs(s, f - 1)
    BY <1>6, <2>1 DEF Between
  <2>2. CASE p = <<f - 1, k>>
    BY <1>5, <1>6, <2>2
  <2>3. CASE p[2] = p[1] + 1
    BY <1>4, <1>6, <2>3
  <2> QED
    BY <1>1, <2>1, <2>2, <2>3
<1>7. Between(s, f - 1) \subseteq Between(s, e)
  BY <1>3 DEF Between
<1>8. Trimmed(s, f, k - 1) \subseteq Between(s, e)
  <2> DEFINE p == <<f - 1, k>>
  <2>1. p[1] + 1 = f /\ p[2] - 1 = k - 1
    BY <1>5
  <2>2. Trimmed(s, p[1] + 1, p[2] - 1) = Trimmed(s, f, k - 1)
    BY <2>1
  <2> HIDE DEF p
  <2> QED
    BY <1>2, <2>2 DEF Between, p
<1>9. Between(s, e) \subseteq Between(s, f - 1) \cup Trimmed(s, f, k - 1)
  BY <1>6 DEF Between
<1> QED
  BY <1>7, <1>8, <1>9

\* At the end of a script all statements are found.
LEMMA AllFound ==
  ASSUME NEW s, Len(s) \in Nat
  PROVE  Between(s, Len(s) + 1) = StatementsOf(s)
<1> DEFINE L == Len(s)
           cuts == {k \in DOMAIN s : Modes(s)[k].cut} \cup {0, L + 1}
           next(c) == Min({d \in cuts : d > c})
<1>1. StatementsOf(s) = UNION {Trimmed(s, c + 1, next(c) - 1) : c \in cuts \ {L + 1}}
  BY DEF StatementsOf
<1>2. \A k : k \in cuts <=> CutAt(s, k)
  BY DEF CutAt
<1>3. cuts \subseteq 0..(L + 1) /\ L + 1 \in cuts
  OBVIOUS
<1> HIDE DEF cuts
<1>4. ASSUME NEW c \in cuts, c # L + 1
      PROVE  /\ next(c) \in cuts /\ c < next(c)
             /\ \A d \in cuts : c < d => next(c) <= d
  <2> DEFINE T == {d \in cuts : d > c}
  <2>0. L + 1 \in Nat /\ \A d \in cuts : d \in Nat
    BY <1>3
  <2>1. T \in SUBSET Nat
    BY <2>0
  <2>2. L + 1 \in T
    BY <1>3, <1>4
  <2>3. \A d \in T : d \in cuts /\ d > c
    OBVIOUS
  <2>4. \A d \in cuts : c < d => d \in T
    BY <1>3
  <2> HIDE DEF T
  <2>5. Min(T) \in T /\ \A d \in T : Min(T) <= d
    BY <2>1, <2>2, MinOfNats
  <2>6. next(c) = Min(T)
    BY DEF T
  <2> HIDE DEF next
  <2> QED
    BY <1>3, <2>3, <2>4, <2>5, <2>6
<1> HIDE DEF next
<1>5. ASSUME NEW c \in cuts, c # L + 1 PROVE <<c, next(c)>> \in Pairs(s, L + 1)
  <2>1. c \in 0..(L + 1) /\ next(c) \in 0..(L + 1) /\ c < next(c)
    BY <1>3, <1>4, <1>5
  <2>2. CutAt(s, c) /\ CutAt(s, next(c))
    BY <1>2, <1>4, <1>5
  <2>3. \A k \in (c + 1)..(next(c) - 1) : ~ CutAt(s, k)
    <3>1. SUFFICES ASSUME NEW k \in (c + 1)..(next(c) - 1), CutAt(s, k) PROVE FALSE
      OBVIOUS
    <3>2. k \in cuts /\ c < k /\ ~ (next(c) <= k)
      BY <1>2, <2>1, <3>1
    <3> QED
      BY <1>4, <1>5, <3>2
  <2> QED
    BY <2>1, <2>2, <2>3 DEF Pairs
<1>6. ASSUME NEW p \in Pairs(s, L + 1) PROVE p[1] \in cuts /\ p[1] # L + 1 /\ p[2] = next(p[1])
  <2>1. /\ p[1] \in 0..(L + 1) /\ p[2] \in 0..(L + 1) /\ p[1] < p[2]
        /\ CutAt(s, p[1]) /\ CutAt(s, p[2])
        /\ \A k \in (p[1] + 1)..(p[2] - 1) : ~ CutAt(s, k)
    BY DEF Pairs
  <2>2. p[1] \in cuts /\ p[2] \in cuts /\ p[1] # L + 1
    BY <1>2, <2>1
  <2>3. next(p[1]) \in cuts /\ p[1] < next(p[1]) /\ next(p[1]) <= p[2]
    BY <1>4, <2>1, <2>2
  <2>4. CutAt(s, next(p[1])) /\ next(p[1]) \in 0..(L + 1)
    BY <1>2, <1>3, <2>3
  <2>5. ~ (next(p[1]) \in (p[1] + 1)..(p[2] - 1))
    BY <2>1, <2>4
  <2>6. next(p[1]) = p[2]
    BY <2>1, <2>3, <2>4, <2>5
  <2> QED
    BY <2>2, <2>6
<1>7. Between(s, L + 1) \subseteq StatementsOf(s)
  BY <1>1, <1>6 DEF Between
<1>8. StatementsOf(s) \subseteq Between(s, L + 1)
  <2>1. SUFFICES ASSUME NEW c \in cuts \ {L + 1}, NEW t \in Trimmed(s, c + 1, next(c) - 1)
                 PROVE  t \in Between(s, L + 1)
    BY <1>1
  <2> DEFINE p == <<c, next(c)>>
  <2>2. p \in Pairs(s, L + 1) /\ p[1] = c /\ p[2] = next(c)
    BY <1>5
  <2> HIDE DEF p
  <2> QED
    BY <2>1, <2>2 DEF Between
<1> QED
  BY <1>7, <1>8

-----------------------------------------------------------------------------
(* Split follows the reader.                                               *)

\* A reader that follows the rules internal/sql is written for: those of PostgreSQL,
\* without a comment in a comment and without dollars in names.
Agrees ==
  /\ {"dollarQuotes", "eStrings", "commentsBegin"} \subseteq Server
  /\ Server \cap {"nestedComments", "dollarsInNames", "backslashEscapes", "hashComments"} = {}

\* A backquote is a quote for the reader too, or there is none.
QuotesAgree(s) == "backquotes" \in Server \/ \A k \in DOMAIN s : s[k] # "bq"

\* What a mode is inside of, the symbols to come of its token, and its delimiter.
Reads(r, in, n, d) == r \in Mode /\ r.in = in /\ r.skip = n /\ r.delimiter = d

\* A mode in the middle of a statement.
Within(r) == ~ r.cut /\ r.begun /\ ~ r.line

\* What that says of each rule.
LEMMA AgreesMeans ==
  ASSUME Agrees
  PROVE  /\ "dollarQuotes" \in Server /\ "eStrings" \in Server /\ "commentsBegin" \in Server
         /\ "nestedComments" \notin Server /\ "dollarsInNames" \notin Server
         /\ "backslashEscapes" \notin Server /\ "hashComments" \notin Server
BY DEF Agrees

\* Both take the same symbols for quotes.
LEMMA SameQuotes ==
  ASSUME NEW s \in Seq(Symbols), QuotesAgree(s), NEW k \in 1..Len(s)
  PROVE  IsQuote(s[k]) <=> s[k] \in Quotes
<1>1. k \in DOMAIN s
  BY LenProperties
<1>2. "backquotes" \in Server \/ s[k] # "bq"
  BY <1>1 DEF QuotesAgree
<1> QED
  BY <1>2, Zenon DEF IsQuote, Quotes

\* What tokens begin with are symbols.
LEMMA TokenSymbols == {"-", "/", "*", "$", "'", "dq", "bq", "nl"} \subseteq Symbols
BY Zenon DEF Symbols

\* The mode after a delimiter line, and below after each other token met in code.
LEMMA AtDirectiveLine ==
  ASSUME NEW s \in Seq(Symbols), NEW k \in 1..Len(s), NEW m \in Mode, m.in = "code", m.skip = 0,
         m.line, ~ m.begun, Directive(s, k).found
  PROVE  LET r == After(s, m, k)
         IN  /\ Reads(r, "code", Directive(s, k).next - k - 1, Directive(s, k).delimiter)
             /\ r.cut /\ ~ r.begun /\ r.line
<1> DEFINE d == Directive(s, k).delimiter
           n == Directive(s, k).next - k
           j == n - 1
           r == After(s, m, k)
<1>1. r = [[m EXCEPT !.cut = TRUE, !.begun = FALSE, !.skip = j, !.delimiter = d]
             EXCEPT !.line = TRUE]
  BY DEF After, FromCode, Cut
<1>2. m \in ModeRecords
  BY DEF Mode
<1>3. r \in Mode
  BY AfterType
<1> HIDE DEF r, d, j
<1>4. r.in = "code" /\ r.skip = j /\ r.delimiter = d /\ r.cut /\ ~ r.begun /\ r.line
  BY <1>1, <1>2 DEF ModeRecords
<1> QED
  BY <1>3, <1>4 DEF Reads, r, d, j

\* Another token than a delimiter line.
NoLine(s, m, k) == ~ (m.line /\ ~ m.begun /\ Directive(s, k).found)

\* A line comment.
LEMMA AtLineComment ==
  ASSUME Agrees, NEW s \in Seq(Symbols), NEW k \in 1..Len(s), NEW m \in Mode, m.in = "code",
         m.skip = 0, NoLine(s, m, k), Matches(s, <<"-", "-">>, k)
  PROVE  LET r == After(s, m, k) IN Reads(r, "line", 0, m.delimiter) /\ Within(r)
<1> DEFINE r == After(s, m, k)
           here == [m EXCEPT !.cut = FALSE, !.line = FALSE]
<1>1. r = Comment(here, "line", 1)
  BY DEF After, FromCode, NoLine
<1>2. m \in ModeRecords /\ "commentsBegin" \in Server
  BY AgreesMeans DEF Mode
<1>3. r \in Mode
  BY AfterType
<1>4. 1 - 1 = 0
  OBVIOUS
<1>5. r = [here EXCEPT !.in = "line", !.depth = 1, !.skip = 0, !.begun = here.begun \/ TRUE]
  BY <1>1, <1>2, <1>4, Zenon DEF Comment
<1> HIDE DEF r
<1>6. r.in = "line" /\ r.skip = 0 /\ r.delimiter = m.delimiter /\ ~ r.cut /\ r.begun /\ ~ r.line
  BY <1>5, <1>2 DEF ModeRecords
<1> QED
  BY <1>3, <1>6 DEF Reads, Within, r

\* A block comment.
LEMMA AtBlockComment ==
  ASSUME Agrees, NEW s \in Seq(Symbols), NEW k \in 1..Len(s), NEW m \in Mode, m.in = "code",
         m.skip = 0, NoLine(s, m, k), Matches(s, <<"/", "*">>, k)
  PROVE  LET r == After(s, m, k)
         IN  Reads(r, "block", 1, m.delimiter) /\ Within(r) /\ r.depth = 1
<1> DEFINE r == After(s, m, k)
           here == [m EXCEPT !.cut = FALSE, !.line = FALSE]
<1>0. s[k] = "/" /\ ~ Matches(s, <<"-", "-">>, k)
  <2>1. "-" \in Symbols /\ "/" \in Symbols /\ "*" \in Symbols
    BY TokenSymbols
  <2>2. Matches(s, <<"/", "*">>, k) => s[k] = "/"
    BY <2>1, TwoMatch, Zenon
  <2>3. Matches(s, <<"-", "-">>, k) => s[k] = "-"
    BY <2>1, TwoMatch, Zenon
  <2> QED
    BY <2>2, <2>3
<1>1. r = Comment(here, "block", 2)
  BY <1>0, AgreesMeans DEF After, FromCode, NoLine
<1>2. m \in ModeRecords /\ "commentsBegin" \in Server
  BY AgreesMeans DEF Mode
<1>3. r \in Mode
  BY AfterType
<1>4. 2 - 1 = 1
  OBVIOUS
<1>5. r = [here EXCEPT !.in = "block", !.depth = 1, !.skip = 1, !.begun = here.begun \/ TRUE]
  BY <1>1, <1>2, <1>4, Zenon DEF Comment
<1> HIDE DEF r
<1>6. /\ r.in = "block" /\ r.skip = 1 /\ r.delimiter = m.delimiter
      /\ ~ r.cut /\ r.begun /\ ~ r.line /\ r.depth = 1
  BY <1>5, <1>2 DEF ModeRecords
<1> QED
  BY <1>3, <1>6 DEF Reads, Within, r

\* Neither a delimiter line nor a comment nor a quote.
NoText(s, m, k) ==
  /\ NoLine(s, m, k) /\ s[k] \notin Quotes
  /\ ~ Matches(s, <<"-", "-">>, k) /\ ~ Matches(s, <<"/", "*">>, k)

\* A quote.
LEMMA AtQuote ==
  ASSUME Agrees, NEW s \in Seq(Symbols), QuotesAgree(s), NEW k \in 1..Len(s), NEW m \in Mode,
         m.in = "code", m.skip = 0, NoLine(s, m, k), s[k] \in Quotes
  PROVE  LET r == After(s, m, k)
         IN  /\ Reads(r, "quote", 0, m.delimiter) /\ Within(r) /\ r.by = <<s[k]>>
             /\ r.escapes <=> s[k] = "'" /\ AfterE(s, k)
<1> DEFINE r == After(s, m, k)
           here == [m EXCEPT !.cut = FALSE, !.line = FALSE]
           q == <<s[k]>>
           b == \/ s[k] = "'" /\ "eStrings" \in Server /\ AfterE(s, k)
                \/ s[k] # "bq" /\ "backslashEscapes" \in Server
<1>0. IsQuote(s[k]) /\ s[k] # "-" /\ s[k] # "/" /\ s[k] # "#"
  <2>1. s[k] # "-" /\ s[k] # "/" /\ s[k] # "#"
    BY Zenon DEF Quotes
  <2> QED
    BY <2>1, SameQuotes
<1>n. ~ Matches(s, <<"-", "-">>, k) /\ ~ Matches(s, <<"/", "*">>, k)
  <2>1. "-" \in Symbols /\ "/" \in Symbols /\ "*" \in Symbols
    BY TokenSymbols
  <2>2. Matches(s, <<"/", "*">>, k) => s[k] = "/"
    BY <2>1, TwoMatch, Zenon
  <2>3. Matches(s, <<"-", "-">>, k) => s[k] = "-"
    BY <2>1, TwoMatch, Zenon
  <2> QED
    BY <1>0, <2>2, <2>3
<1>1. r = InQuote(s, here, k)
  BY <1>0, <1>n DEF After, FromCode, NoLine
<1>2. m \in ModeRecords
  BY DEF Mode
<1>3. r \in Mode
  BY AfterType
<1>4. r = [here EXCEPT !.in = "quote", !.by = q, !.begun = TRUE, !.escapes = b]
  BY <1>1, Zenon DEF InQuote
<1>5. b <=> s[k] = "'" /\ AfterE(s, k)
  BY AgreesMeans, Zenon
<1> HIDE DEF r, b, q
<1>6. /\ r.in = "quote" /\ r.skip = 0 /\ r.delimiter = m.delimiter /\ ~ r.cut /\ r.begun /\ ~ r.line
      /\ r.by = q /\ r.escapes = b
  BY <1>4, <1>2 DEF ModeRecords
<1>7. r.escapes <=> s[k] = "'" /\ AfterE(s, k)
  BY <1>5, <1>6, Zenon
<1> QED
  BY <1>3, <1>6, <1>7 DEF Reads, Within, r, q

\* The delimiter.
LEMMA AtDelimiter ==
  ASSUME Agrees, NEW s \in Seq(Symbols), QuotesAgree(s), NEW k \in 1..Len(s), NEW m \in Mode,
         m.in = "code", m.skip = 0, NoText(s, m, k), Matches(s, m.delimiter, k)
  PROVE  LET r == After(s, m, k)
         IN  Reads(r, "code", Len(m.delimiter) - 1, m.delimiter) /\ r.cut /\ ~ r.begun /\ ~ r.line
<1> DEFINE r == After(s, m, k)
           here == [m EXCEPT !.cut = FALSE, !.line = FALSE]
           d == m.delimiter
           j == Len(d) - 1
<1>0. ~ IsQuote(s[k]) /\ "hashComments" \notin Server
  BY SameQuotes, AgreesMeans DEF NoText
<1>1. r = Cut(here, Len(d), d)
  BY <1>0 DEF After, FromCode, NoText, NoLine
<1>2. m \in ModeRecords
  BY DEF Mode
<1>3. r \in Mode
  BY AfterType
<1>4. r = [here EXCEPT !.cut = TRUE, !.begun = FALSE, !.skip = j, !.delimiter = d]
  BY <1>1 DEF Cut
<1> HIDE DEF r, j, d
<1>5. r.in = "code" /\ r.skip = j /\ r.delimiter = d /\ r.cut /\ ~ r.begun /\ ~ r.line
  BY <1>4, <1>2 DEF ModeRecords
<1> QED
  BY <1>3, <1>5 DEF Reads, r, j, d

\* A dollar-quoted body.
LEMMA AtDollar ==
  ASSUME Agrees, NEW s \in Seq(Symbols), QuotesAgree(s), NEW k \in 1..Len(s), NEW m \in Mode,
         m.in = "code", m.skip = 0, NoLine(s, m, k), m.delimiter = <<Semicolon>>,
         s[k] = "$", DollarTag(s, k) # <<>>
  PROVE  LET r == After(s, m, k)
         IN  /\ Reads(r, "dollar", Len(DollarTag(s, k)) - 1, m.delimiter) /\ Within(r)
             /\ r.by = DollarTag(s, k)
<1> DEFINE r == After(s, m, k)
           here == [m EXCEPT !.cut = FALSE, !.line = FALSE]
           tag == DollarTag(s, k)
           j == Len(tag) - 1
<1>0. s[k] \notin Quotes
  BY Zenon DEF Quotes
<1>n. /\ ~ Matches(s, <<"-", "-">>, k) /\ ~ Matches(s, <<"/", "*">>, k)
      /\ ~ IsQuote(s[k])
  <2>1. "-" \in Symbols /\ "/" \in Symbols /\ "*" \in Symbols
    BY TokenSymbols
  <2>2. Matches(s, <<"/", "*">>, k) <=> k + 1 <= Len(s) /\ s[k] = "/" /\ s[k + 1] = "*"
    BY <2>1, TwoMatch, ZenonT(60)
  <2>3. Matches(s, <<"-", "-">>, k) <=> k + 1 <= Len(s) /\ s[k] = "-" /\ s[k + 1] = "-"
    BY <2>1, TwoMatch, ZenonT(60)
  <2> QED
    BY <1>0, <2>2, <2>3, SameQuotes
<1>m. ~ Matches(s, m.delimiter, k)
  <2>1. Semicolon \in Symbols /\ Semicolon # "$"
    BY Zenon DEF Semicolon, Symbols
  <2> QED
    BY <2>1, OneMatches
<1>o. OpensDollar(s, m, k) /\ "hashComments" \notin Server
  BY AgreesMeans DEF OpensDollar
<1>1. r = [here EXCEPT !.in = "dollar", !.by = tag, !.begun = TRUE, !.skip = j]
  BY <1>n, <1>m, <1>o DEF After, FromCode, NoLine
<1>2. m \in ModeRecords
  BY DEF Mode
<1>3. r \in Mode
  BY AfterType
<1> HIDE DEF r, j, tag
<1>4. /\ r.in = "dollar" /\ r.skip = j /\ r.delimiter = m.delimiter /\ ~ r.cut /\ r.begun /\ ~ r.line
      /\ r.by = tag
  BY <1>1, <1>2 DEF ModeRecords
<1> QED
  BY <1>3, <1>4 DEF Reads, Within, r, j, tag

\* Any other symbol.
LEMMA AtPlain ==
  ASSUME Agrees, NEW s \in Seq(Symbols), QuotesAgree(s), NEW k \in 1..Len(s), NEW m \in Mode,
         m.in = "code", m.skip = 0, NoText(s, m, k), ~ Matches(s, m.delimiter, k),
         ~ (m.delimiter = <<Semicolon>> /\ s[k] = "$" /\ DollarTag(s, k) # <<>>)
  PROVE  LET r == After(s, m, k)
         IN  /\ Reads(r, "code", 0, m.delimiter) /\ ~ r.cut
             /\ r.begun <=> m.begun \/ s[k] \notin Blanks
             /\ r.line <=> s[k] = "nl"
<1> DEFINE r == After(s, m, k)
           here == [m EXCEPT !.cut = FALSE, !.line = FALSE]
           b == here.begun \/ s[k] \notin Blanks
           l == (s[k] = "nl")
<1>0. ~ IsQuote(s[k]) /\ "hashComments" \notin Server /\ ~ OpensDollar(s, m, k)
  BY SameQuotes, AgreesMeans DEF NoText, OpensDollar
<1>1. r = [here EXCEPT !.begun = b, !.line = l]
  BY <1>0 DEF After, FromCode, NoText, NoLine
<1>2. m \in ModeRecords /\ here.begun = m.begun
  BY DEF Mode, ModeRecords
<1>3. r \in Mode
  BY AfterType
<1>n. b <=> m.begun \/ s[k] \notin Blanks
  BY <1>2, Zenon
<1> HIDE DEF r, b, l
<1>4. /\ r.in = "code" /\ r.skip = 0 /\ r.delimiter = m.delimiter
      /\ ~ r.cut /\ r.begun = b /\ r.line = l
  BY <1>1, <1>2 DEF ModeRecords
<1>5. /\ r.begun <=> m.begun \/ s[k] \notin Blanks
      /\ r.line <=> s[k] = "nl"
  BY <1>4, <1>n, Zenon DEF l
<1> QED
  BY <1>3, <1>4, <1>5 DEF Reads, r

-----------------------------------------------------------------------------
(* The invariant: Split is where the reader is.                            *)

\* Something from f up to p that is not blank.
Solid(s, f, p) == \E k \in f..(p - 1) : s[k] \notin Blanks

\* The reader is in code before p: in the statement that begins at f, with delimiter d.
CodeAt(s, p, f, d, l) ==
  LET m == Modes(s)[p - 1]
  IN  /\ Reads(m, "code", 0, d)
      /\ m.line <=> l
      /\ m.begun <=> Solid(s, f, p)

\* The reader is at the end of a line comment.
LineEndAt(s, p, f, d, l) ==
  LET m == Modes(s)[p - 1]
  IN  /\ Reads(m, "line", 0, d) /\ Within(m)
      /\ ~ l /\ s[p] = "nl" /\ Solid(s, f, p)

\* The reader is in the quote q.
QuoteAt(s, p, d, q) ==
  LET m == Modes(s)[p - 1]
  IN  /\ Reads(m, "quote", 0, d) /\ Within(m)
      /\ m.by = <<q.by>>
      /\ m.escapes <=> q.escapes

\* The text from f up to p follows a delimiter and holds none.
Uncut(s, f, p) == CutAt(s, f - 1) /\ \A k \in f..(p - 1) : ~ CutAt(s, k)

Follows ==
  /\ delimiter # <<>> /\ delimiter[1] \notin Blanks
  /\ pc = "scan" /\ i <= Len(script) =>
       CodeAt(script, i, from, delimiter, lineStart) \/ LineEndAt(script, i, from, delimiter, lineStart)
  /\ pc = "quoted" =>
       /\ quote.by \in Quotes /\ Solid(script, from, i)
       /\ i <= Len(script) => QuoteAt(script, i, delimiter, quote)
  /\ pc \in {"scan", "quoted"} =>
       Uncut(script, from, i) /\ {stmts[k] : k \in DOMAIN stmts} = Between(script, from - 1)
  /\ CutsLikeServer

\* A step within a statement keeps its text uncut.
LEMMA UncutOn ==
  ASSUME NEW s \in Seq(Symbols), NEW f \in Nat \ {0}, NEW p \in Nat, NEW q \in Nat,
         f <= p, q <= Len(s) + 1, Uncut(s, f, p), \A k \in p..(q - 1) : ~ Modes(s)[k].cut
  PROVE  Uncut(s, f, q)
<1>1. Len(s) \in Nat
  BY LenProperties
<1>2. ASSUME NEW k \in f..(q - 1) PROVE ~ CutAt(s, k)
  <2>1. CASE k \in f..(p - 1)
    BY <2>1 DEF Uncut
  <2>2. CASE k \in p..(q - 1)
    BY <1>1, <2>2 DEF CutAt
  <2> QED
    BY <2>1, <2>2
<1> QED
  BY <1>2 DEF Uncut

\* What is not blank stays when text is added.
LEMMA SolidOn ==
  ASSUME NEW s, NEW f \in Nat, NEW p \in Nat, NEW q \in Nat, f <= p, p <= q,
         Solid(s, f, p) \/ (p < q /\ s[p] \notin Blanks)
  PROVE  Solid(s, f, q)
BY DEF Solid

\* One symbol more.
LEMMA SolidOne ==
  ASSUME NEW s, NEW f \in Nat, NEW p \in Nat, f <= p
  PROVE  Solid(s, f, p + 1) <=> Solid(s, f, p) \/ s[p] \notin Blanks
<1>1. (p + 1) - 1 = p /\ \A k \in f..p : k \in f..(p - 1) \/ k = p
  OBVIOUS
<1>2. p \in f..p /\ \A k \in f..(p - 1) : k \in f..p
  OBVIOUS
<1> QED
  BY <1>1, <1>2 DEF Solid

\* There is nothing in no text.
LEMMA NoSolid ==
  ASSUME NEW s, NEW f \in Nat
  PROVE  ~ Solid(s, f, f)
BY DEF Solid

\* What the variables hold, and the mode before and behind the position of Split.
LEMMA Here ==
  ASSUME SplitInv, i <= Len(script)
  PROVE  /\ script \in Seq(Symbols) /\ Len(script) \in Nat
         /\ from \in Nat \ {0} /\ i \in Nat \ {0} /\ from <= i
         /\ i \in 1..Len(script) /\ i - 1 \in 0..Len(script) /\ (i + 1) - 1 = i
         /\ delimiter \in Seq(Symbols) /\ stmts \in Seq(Nat \X Nat)
         /\ Modes(script)[i - 1] \in Mode
         /\ Modes(script)[i] = After(script, Modes(script)[i - 1], i)
<1>1. /\ script \in Seq(Symbols) /\ Len(script) \in Nat
      /\ from \in Nat \ {0} /\ i \in Nat \ {0} /\ from <= i
      /\ delimiter \in Seq(Symbols) /\ stmts \in Seq(Nat \X Nat)
  BY LenProperties DEF SplitInv, Typed, InSequence
<1>2. i \in 1..Len(script) /\ i - 1 \in 0..Len(script) /\ (i + 1) - 1 = i
  BY <1>1
<1> QED
  BY <1>1, <1>2, ModesDef

\* A step that Split ends in code.
LEMMA ScanOn ==
  ASSUME script' = script, pc' = "scan", delimiter' # <<>>, delimiter'[1] \notin Blanks,
         i' <= Len(script) => \/ CodeAt(script, i', from', delimiter', lineStart')
                              \/ LineEndAt(script, i', from', delimiter', lineStart'),
         Uncut(script, from', i'),
         {stmts'[k] : k \in DOMAIN stmts'} = Between(script, from' - 1)
  PROVE  Follows'
BY DEF Follows, CutsLikeServer

\* Text that Split copies up to position e, where a statement has begun.
LEMMA TextCopied ==
  ASSUME SplitInv, Follows, pc = "scan", NEW e, CopyTo(e), i <= Len(script),
         e \in (i + 1)..(Len(script) + 1), script[i] \notin Blanks,
         \A k \in i..(e - 1) : ~ Modes(script)[k].cut,
         e <= Len(script) =>
           LET m == Modes(script)[e - 1]
           IN  \/ Reads(m, "code", 0, delimiter) /\ m.begun /\ ~ m.line
               \/ Reads(m, "line", 0, delimiter) /\ Within(m) /\ script[e] = "nl"
  PROVE  Follows'
<1>1. /\ script \in Seq(Symbols) /\ Len(script) \in Nat /\ from \in Nat \ {0}
      /\ i \in Nat \ {0} /\ from <= i
  BY Here
<1>2. /\ script' = script /\ pc' = "scan" /\ i' = e /\ from' = from /\ delimiter' = delimiter
      /\ stmts' = stmts /\ ~ lineStart'
  BY DEF CopyTo
<1>3. e \in Nat /\ i < e /\ e <= Len(script) + 1 /\ from <= e
  BY <1>1
<1>4. Solid(script, from, e)
  BY <1>1, <1>3, SolidOn
<1>5. /\ Uncut(script, from, i) /\ {stmts[k] : k \in DOMAIN stmts} = Between(script, from - 1)
      /\ delimiter # <<>> /\ delimiter[1] \notin Blanks
  BY DEF Follows
<1>6. Uncut(script, from, e)
  BY <1>1, <1>3, <1>5, UncutOn
<1>7. e <= Len(script) => \/ CodeAt(script, e, from, delimiter, lineStart')
                          \/ LineEndAt(script, e, from, delimiter, lineStart')
  BY <1>2, <1>4 DEF CodeAt, LineEndAt
<1> QED
  BY <1>2, <1>5, <1>6, <1>7, ScanOn

-----------------------------------------------------------------------------
(* Text that is copied.                                                    *)

\* Where Split finds a token that is none of the end of a line, the reader is in code.
LEMMA InCodeHere ==
  ASSUME SplitInv, Follows, More, script[i] # "nl"
  PROVE  /\ CodeAt(script, i, from, delimiter, lineStart)
         /\ ~ AtDirective => NoLine(script, Modes(script)[i - 1], i)
<1>1. CodeAt(script, i, from, delimiter, lineStart)
  BY DEF Follows, More, LineEndAt
<1>2. CurIsBlank <=> ~ Solid(script, from, i)
  BY DEF CurIsBlank, Solid
<1> QED
  BY <1>1, <1>2 DEF AtDirective, NoLine, CodeAt

\* A line comment is copied up to the end of the line.
LEMMA FollowsLineComment ==
  ASSUME Agrees, SplitInv, Follows, LineComment
  PROVE  Follows'
<1> DEFINE M == Modes(script)
           e == Find(script, i, {"nl"})
           hits == {j \in i..Len(script) : script[j] \in {"nl"}} \cup {Len(script) + 1}
<1>1. More /\ ~ AtDirective /\ Matches(script, <<"-", "-">>, i) /\ CopyTo(e)
  BY DEF LineComment, At
<1>2. /\ script \in Seq(Symbols) /\ Len(script) \in Nat /\ i \in Nat \ {0} /\ i \in 1..Len(script)
      /\ i <= Len(script) /\ pc = "scan"
      /\ M[i - 1] \in Mode /\ M[i] = After(script, M[i - 1], i)
  BY <1>1, Here DEF More
<1>3. script[i] = "-"
  BY <1>1, <1>2, TokenSymbols, TwoMatch
<1>4. script[i] # "nl" /\ script[i] \notin Blanks
  BY <1>3, Zenon DEF Blanks
<1>5. Reads(M[i - 1], "code", 0, delimiter) /\ NoLine(script, M[i - 1], i)
  BY <1>1, <1>4, InCodeHere DEF CodeAt
<1>6. Reads(M[i], "line", 0, delimiter) /\ Within(M[i])
  BY <1>1, <1>2, <1>5, AtLineComment DEF Reads
<1>7. /\ e \in (i + 1)..(Len(script) + 1)
      /\ \A k \in i..(e - 1) : script[k] # "nl"
      /\ e <= Len(script) => script[e] = "nl"
  <2>1. hits \in SUBSET Nat /\ hits # {} /\ e = Min(hits)
    BY <1>2 DEF Find
  <2>2. \A j \in i..Len(script) : script[j] = "nl" => j \in hits
    OBVIOUS
  <2>3. \A j \in hits : (j \in i..Len(script) /\ script[j] = "nl") \/ j = Len(script) + 1
    OBVIOUS
  <2> HIDE DEF hits, e
  <2>4. e \in hits /\ \A n \in hits : e <= n
    BY <2>1, MinOfNats
  <2>5. e # i
    BY <1>2, <1>4, <2>3, <2>4
  <2>6. e \in (i + 1)..(Len(script) + 1)
    BY <1>2, <2>3, <2>4, <2>5
  <2>7. ASSUME NEW k \in i..(e - 1) PROVE script[k] # "nl"
    <3>1. k \in i..Len(script) /\ ~ (e <= k)
      BY <1>2, <2>6
    <3> QED
      BY <2>2, <2>4, <3>1
  <2>8. e <= Len(script) => script[e] = "nl"
    BY <1>2, <2>3, <2>4
  <2> QED
    BY <2>6, <2>7, <2>8
<1> HIDE DEF e
<1>8. \A k \in i..(e - 1) : M[k] = M[i]
  <2>1. i \in 0..Len(script) /\ e - 1 \in i..Len(script)
    BY <1>2, <1>7
  <2>2. ASSUME NEW k \in (i + 1)..(e - 1) PROVE After(script, M[i], k) = M[i]
    <3>1. script[k] # "nl"
      BY <1>2, <1>7
    <3> QED
      BY <1>6, <3>1 DEF After, Reads
  <2> HIDE DEF M
  <2>3. \A k \in (i + 1)..(e - 1) : After(script, Modes(script)[i], k) = Modes(script)[i]
    BY <2>2 DEF M
  <2> QED
    BY <1>2, <2>1, <2>3, StaysIn DEF M
<1>9. \A k \in i..(e - 1) : ~ M[k].cut
  BY <1>6, <1>8 DEF Within
<1>10. M[e - 1] = M[i]
  <2>1. e - 1 \in i..(e - 1)
    BY <1>2, <1>7
  <2> QED
    BY <1>8, <2>1
<1> QED
  BY <1>1, <1>2, <1>4, <1>6, <1>7, <1>9, <1>10, TextCopied

\* A comment or body is copied up to where the reader leaves it.
LEMMA FollowsEnclosed ==
  ASSUME SplitInv, Follows, More, NEW text \in Seq(Symbols), text # <<>>,
         NEW n \in Nat \ {0}, i + n - 1 <= Len(script),
         CopyTo(Behind(text, i + n)), script[i] \notin Blanks,
         Reader[i].skip = n - 1, Within(Reader[i]), Reader[i].delimiter = delimiter,
         \A k \in 1..Len(script) :
           After(script, Rested(Reader[i]), k) =
             IF Matches(script, text, k) THEN Back(Rested(Reader[i]), Len(text)) ELSE Rested(Reader[i])
  PROVE  Follows'
<1> DEFINE e == Behind(text, i + n)
<1>1. /\ script \in Seq(Symbols) /\ Len(script) \in Nat /\ i \in Nat \ {0} /\ i \in 1..Len(script)
      /\ i <= Len(script) /\ pc = "scan" /\ Modes(script)[i - 1] \in Mode
      /\ Modes(script)[i] = After(script, Modes(script)[i - 1], i)
  BY Here DEF More
<1>2. Reader[i] \in Mode
  BY <1>1, AfterType DEF Reader
<1>3. /\ e \in (i + 1)..(Len(script) + 1)
      /\ \A k \in i..(e - 1) : Reader[k].cut = Reader[i].cut
      /\ e <= Len(script) => Reader[e - 1] = [Rested(Reader[i]) EXCEPT !.in = "code"]
  <2>1. LeavesAt(i, e)
    BY <1>1, Enclosed
  <2> HIDE DEF e
  <2> QED
    BY <2>1 DEF LeavesAt
<1> HIDE DEF e
<1>5. \A k \in i..(e - 1) : ~ Reader[k].cut
  BY <1>3 DEF Within
<1>6. ASSUME e <= Len(script)
      PROVE  Reads(Reader[e - 1], "code", 0, delimiter) /\ Reader[e - 1].begun /\ ~ Reader[e - 1].line
  <2>1. ASSUME NEW u \in Mode, NEW r, r = [[u EXCEPT !.skip = 0] EXCEPT !.in = "code"]
        PROVE  /\ r \in Mode /\ r.in = "code" /\ r.skip = 0 /\ r.delimiter = u.delimiter
               /\ r.begun = u.begun /\ r.line = u.line
    BY <2>1 DEF Mode, ModeRecords
  <2>2. Reader[e - 1] = [[Reader[i] EXCEPT !.skip = 0] EXCEPT !.in = "code"]
    BY <1>3, <1>6, Zenon DEF Rested
  <2>3. /\ Reader[e - 1] \in Mode /\ Reader[e - 1].in = "code" /\ Reader[e - 1].skip = 0
        /\ Reader[e - 1].delimiter = Reader[i].delimiter
        /\ Reader[e - 1].begun = Reader[i].begun /\ Reader[e - 1].line = Reader[i].line
    BY <1>2, <2>1, <2>2, Zenon
  <2> QED
    BY <2>3 DEF Reads, Within
<1> QED
  BY <1>1, <1>3, <1>5, <1>6, TextCopied DEF Reader, e

\* A block comment is copied up to its end.
LEMMA FollowsBlockComment ==
  ASSUME Agrees, SplitInv, Follows, BlockComment
  PROVE  Follows'
<1> DEFINE M == Modes(script)
           text == <<"*", "/">>
<1>1. More /\ ~ AtDirective /\ Matches(script, <<"/", "*">>, i) /\ CopyTo(Behind(text, i + 2))
  BY DEF BlockComment, At
<1>2. /\ script \in Seq(Symbols) /\ Len(script) \in Nat /\ i \in Nat \ {0} /\ i \in 1..Len(script)
      /\ i <= Len(script) /\ pc = "scan"
      /\ M[i - 1] \in Mode /\ M[i] = After(script, M[i - 1], i)
  BY <1>1, Here DEF More
<1>3. script[i] = "/" /\ i + 1 <= Len(script)
  BY <1>1, <1>2, TokenSymbols, TwoMatch
<1>4. script[i] # "nl" /\ script[i] \notin Blanks
  BY <1>3, Zenon DEF Blanks
<1>5. Reads(M[i - 1], "code", 0, delimiter) /\ NoLine(script, M[i - 1], i)
  BY <1>1, <1>4, InCodeHere DEF CodeAt
<1>6. Reads(M[i], "block", 1, delimiter) /\ Within(M[i]) /\ M[i].depth = 1
  BY <1>1, <1>2, <1>5, AtBlockComment DEF Reads
<1> DEFINE m == Rested(M[i])
<1>7. m.in = "block" /\ m.skip = 0 /\ m.depth = 1
  BY <1>6 DEF Reads, Mode, ModeRecords, Rested
<1>8. text \in Seq(Symbols) /\ text # <<>> /\ Len(text) = 2
  <2>1. "*" \in Symbols /\ "/" \in Symbols
    BY TokenSymbols
  <2> QED
    BY <2>1
<1> HIDE DEF m
<1>9. ASSUME NEW k \in 1..Len(script)
      PROVE  After(script, m, k) = IF Matches(script, text, k) THEN Back(m, Len(text)) ELSE m
  <2>1. "nestedComments" \notin Server
    BY AgreesMeans
  <2>2. After(script, m, k) = IF Matches(script, <<"*", "/">>, k) THEN Back(m, 2) ELSE m
    BY <1>7, <2>1 DEF After
  <2> QED
    BY <1>8, <2>2
<1> HIDE DEF text
<1>10. i + 2 - 1 <= Len(script) /\ M[i].skip = 2 - 1 /\ 2 \in Nat \ {0} /\ M[i].delimiter = delimiter
  BY <1>2, <1>3, <1>6 DEF Reads
<1> QED
  BY <1>1, <1>4, <1>6, <1>8, <1>9, <1>10, FollowsEnclosed DEF m, Reader

\* A dollar-quoted body is copied up to its end.
LEMMA FollowsDollarBody ==
  ASSUME Agrees, SplitInv, QuotesAgree(script), Follows, DollarBody
  PROVE  Follows'
<1> DEFINE M == Modes(script)
           tag == DollarTag(script, i)
           n == Len(tag)
<1>1. /\ More /\ ~ AtDirective /\ Matches(script, <<"$">>, i) /\ CopyTo(Behind(tag, i + n))
      /\ delimiter = <<Semicolon>> /\ tag # <<>>
  BY DEF DollarBody, InDollar, At
<1>2. /\ script \in Seq(Symbols) /\ Len(script) \in Nat /\ i \in Nat \ {0} /\ i \in 1..Len(script)
      /\ i <= Len(script) /\ pc = "scan"
      /\ M[i - 1] \in Mode /\ M[i] = After(script, M[i - 1], i)
  BY <1>1, Here DEF More
<1>3. script[i] = "$"
  BY <1>1, <1>2, TokenSymbols, OneMatches
<1>4. script[i] # "nl" /\ script[i] \notin Blanks
  BY <1>3, Zenon DEF Blanks
<1>5. Reads(M[i - 1], "code", 0, delimiter) /\ NoLine(script, M[i - 1], i)
  BY <1>1, <1>4, InCodeHere DEF CodeAt
<1>6. Reads(M[i], "dollar", n - 1, delimiter) /\ Within(M[i]) /\ M[i].by = tag
  BY <1>1, <1>2, <1>3, <1>5, AtDollar, SMTT(30) DEF Reads
<1> DEFINE m == Rested(M[i])
<1>7. m.in = "dollar" /\ m.skip = 0 /\ m.by = tag
  BY <1>6 DEF Reads, Mode, ModeRecords, Rested
<1>8. tag \in Seq(Symbols) /\ n \in Nat \ {0}
  BY <1>1, <1>2, TagIsText, NotEmpty
<1>n. i + n - 1 <= Len(script)
  <2> DEFINE end == SkipAll(script, i + 1, TagSymbols)
  <2>1. end <= Len(script) /\ tag = SubSeq(script, i, end)
    BY <1>1 DEF DollarTag
  <2>2. i + 1 \in 1..(Len(script) + 1) /\ (i + 1) \in Nat
    BY <1>2
  <2>3. end \in (i + 1)..(Len(script) + 1)
    BY <1>2, <2>2, SearchRange
  <2> HIDE DEF end, tag
  <2>4. /\ i \in Int /\ end \in Int /\ i <= end /\ \A k \in i..end : script[k] \in Symbols
    BY <1>2, <2>1, <2>3
  <2>5. n = end - i + 1
    BY <2>1, <2>4, SubSeqProperties
  <2> HIDE DEF n
  <2> QED
    BY <1>2, <2>1, <2>3, <2>5
<1> HIDE DEF m, tag
<1>9. ASSUME NEW k \in 1..Len(script)
      PROVE  After(script, m, k) = IF Matches(script, tag, k) THEN Back(m, Len(tag)) ELSE m
  BY <1>7 DEF After
<1>10. M[i].skip = n - 1 /\ M[i].delimiter = delimiter
  BY <1>6 DEF Reads
<1> HIDE DEF n
<1>11. CopyTo(Behind(tag, i + n))
  BY <1>1
<1> QED
  BY <1>1, <1>4, <1>6, <1>8, <1>n, <1>9, <1>10, <1>11, FollowsEnclosed DEF m, Reader

-----------------------------------------------------------------------------
(* Delimiters.                                                             *)

\* flush adds what lies between the delimiters.
LEMMA FlushAdds ==
  ASSUME script \in Seq(Symbols), from \in Nat \ {0}, i \in Nat, stmts \in Seq(Nat \X Nat)
  PROVE  {(stmts \o Flush)[k] : k \in DOMAIN (stmts \o Flush)}
           = {stmts[k] : k \in DOMAIN stmts} \cup Trimmed(script, from, i - 1)
<1> DEFINE solid == {k \in from..(i - 1) : script[k] \notin Blanks}
           p == <<Min(solid), Max(solid)>>
<1>1. CASE solid = {}
  <2>1. Flush = <<>> /\ Trimmed(script, from, i - 1) = {}
    BY <1>1 DEF Flush, Trimmed
  <2>2. stmts \o <<>> = stmts
    BY ConcatEmptySeq
  <2> QED
    BY <2>1, <2>2
<1>2. CASE solid # {}
  <2>1. Flush = <<p>> /\ Trimmed(script, from, i - 1) = {p}
    BY <1>2 DEF Flush, Trimmed
  <2>2. p \in Nat \X Nat
    <3>1. \E a \in from..(i - 1), b \in from..(i - 1) : Flush = <<<<a, b>>>>
      <4>1. ~ (\A k \in from..(i - 1) : script[k] \in Blanks)
        BY <1>2
      <4> QED
        BY <4>1, FlushCovers
    <3>2. PICK a \in from..(i - 1), b \in from..(i - 1) : Flush = <<<<a, b>>>>
      BY <3>1
    <3> HIDE DEF p
    <3>3. p = <<a, b>>
      BY <2>1, <3>2
    <3> QED
      BY <3>3
  <2> HIDE DEF p
  <2> DEFINE n == Len(stmts)
             t == stmts \o <<p>>
  <2>3. n \in Nat /\ DOMAIN stmts = 1..n
    BY LenProperties
  <2>4. /\ Len(t) = n + 1 /\ DOMAIN t = 1..(n + 1)
        /\ \A k \in 1..n : t[k] = stmts[k]
        /\ t[n + 1] = p
    <3>1. <<p>> \in Seq(Nat \X Nat) /\ Len(<<p>>) = 1 /\ <<p>>[1] = p
      BY <2>2
    <3>2. /\ t \in Seq(Nat \X Nat) /\ Len(t) = n + 1
          /\ \A k \in 1..(n + 1) : t[k] = IF k <= n THEN stmts[k] ELSE <<p>>[k - n]
      BY <3>1, ConcatProperties
    <3> HIDE DEF t, n
    <3>3. DOMAIN t = 1..(n + 1)
      BY <3>2, LenProperties
    <3>4. \A k \in 1..n : t[k] = stmts[k]
      BY <2>3, <3>2
    <3>5. t[n + 1] = <<p>>[1]
      BY <2>3, <3>2
    <3> QED
      BY <3>1, <3>2, <3>3, <3>4, <3>5
  <2> HIDE DEF t, n
  <2>5. {t[k] : k \in DOMAIN t} = {stmts[k] : k \in DOMAIN stmts} \cup {p}
    <3>1. \A k \in 1..(n + 1) : k \in 1..n \/ k = n + 1
      BY <2>3
    <3>2. (\A k \in 1..n : k \in 1..(n + 1)) /\ n + 1 \in 1..(n + 1)
      BY <2>3
    <3> QED
      BY <2>3, <2>4, <3>1, <3>2
  <2> QED
    BY <2>1, <2>5 DEF t
<1> QED
  BY <1>1, <1>2

\* A mode without symbols to come is the same otherwise.
LEMMA RestedMode ==
  ASSUME NEW m \in Mode
  PROVE  LET r == Rested(m)
         IN  /\ r \in Mode /\ r.in = m.in /\ r.skip = 0 /\ r.delimiter = m.delimiter
             /\ r.begun = m.begun /\ r.line = m.line
BY DEF Mode, ModeRecords, Rested

\* A delimiter or delimiter line of n symbols ends a statement for both.
LEMMA CutOn ==
  ASSUME SplitInv, Follows, pc = "scan", i <= Len(script),
         NEW n \in Nat \ {0}, i + n - 1 <= Len(script),
         NEW d, d # <<>>, d[1] \notin Blanks,
         Reads(Modes(script)[i], "code", n - 1, d),
         Modes(script)[i].cut, ~ Modes(script)[i].begun,
         script' = script, pc' = "scan", i' = i + n, from' = i', delimiter' = d,
         lineStart' <=> Modes(script)[i].line,
         {stmts'[k] : k \in DOMAIN stmts'}
           = {stmts[k] : k \in DOMAIN stmts} \cup Trimmed(script, from, i - 1)
  PROVE  Follows'
<1> DEFINE M == Modes(script)
           u == n - 1
           e == i + n
<1>1. /\ script \in Seq(Symbols) /\ Len(script) \in Nat /\ from \in Nat \ {0} /\ from <= i
      /\ i \in Nat \ {0} /\ i \in 1..Len(script) /\ i \in 0..Len(script)
  BY Here
<1>2. /\ u \in Nat /\ i + u = e - 1 /\ i + u <= Len(script) /\ e \in Nat \ {0} /\ i + u \in Nat
      /\ i <= i + u
  BY <1>1
<1>3. /\ M[i].in = "code" /\ M[i].skip = u /\ M[i].delimiter = d /\ M[i] \in Mode
  BY DEF Reads
<1> HIDE DEF u, e, M
<1>4. /\ M[i + u] = Rested(M[i])
      /\ \A k \in i..(i + u) : M[k].cut = M[i].cut
  <2>1. /\ script \in Seq(Symbols) /\ i \in 0..Len(script) /\ u \in Nat
        /\ i + u <= Len(script) /\ Modes(script)[i].skip = u
    BY <1>1, <1>2, <1>3 DEF M
  <2> HIDE DEF M
  <2>2. Modes(script)[i + u] = Rested(Modes(script)[i])
    BY <2>1, SkipsOver
  <2>3. \A k \in i..(i + u) : Modes(script)[k].cut = Modes(script)[i].cut
    BY <2>1, SkipsOver, Zenon
  <2> QED
    BY <2>2, <2>3 DEF M
<1>5. /\ M[i + u] \in Mode /\ M[i + u].in = "code" /\ M[i + u].skip = 0 /\ M[i + u].delimiter = d
      /\ M[i + u].begun = M[i].begun /\ M[i + u].line = M[i].line
  BY <1>3, <1>4, RestedMode
<1>6. CodeAt(script, e, e, d, lineStart')
  <2>1. ~ Solid(script, e, e)
    BY <1>2, NoSolid
  <2>2. Reads(M[e - 1], "code", 0, d)
    BY <1>2, <1>5 DEF Reads
  <2>3. (M[e - 1].line <=> lineStart') /\ ~ M[e - 1].begun
    BY <1>2, <1>5 DEF M
  <2> QED
    BY <2>1, <2>2, <2>3 DEF CodeAt, M
<1>7. \A j \in i..(i + u) : CutAt(script, j)
  <2>1. \A j \in i..(i + u) : j \in 1..Len(script)
    BY <1>1, <1>2
  <2>2. M[i].cut
    BY DEF M
  <2> QED
    BY <1>4, <2>1, <2>2 DEF CutAt, M
<1>8. /\ CutAt(script, from - 1) /\ \A j \in from..(i - 1) : ~ CutAt(script, j)
      /\ {stmts[k] : k \in DOMAIN stmts} = Between(script, from - 1)
  BY DEF Follows, Uncut
<1>9. Between(script, i + u) = Between(script, from - 1) \cup Trimmed(script, from, i - 1)
  BY <1>1, <1>2, <1>7, <1>8, OneMore, ZenonT(60)
<1>10. Uncut(script, e, e)
  <2>1. i + u \in i..(i + u)
    BY <1>1, <1>2
  <2>2. CutAt(script, e - 1)
    BY <1>2, <1>7, <2>1
  <2>3. e..(e - 1) = {}
    BY <1>2
  <2> QED
    BY <2>2, <2>3 DEF Uncut
<1>11. i' = e /\ from' = e
  BY DEF e
<1>12. {stmts'[k] : k \in DOMAIN stmts'} = Between(script, e - 1)
  BY <1>2, <1>8, <1>9
<1> QED
  BY <1>6, <1>10, <1>11, <1>12, ScanOn

\* A delimiter line ends a statement that is blank.
LEMMA FollowsReadDirective ==
  ASSUME SplitInv, Follows, ReadDirective
  PROVE  Follows'
<1> DEFINE d == Directive(script, i).delimiter
           n == Directive(script, i).next - i
<1>1. /\ More /\ lineStart /\ Directive(script, i).found /\ CurIsBlank
      /\ script' = script /\ pc' = pc /\ stmts' = stmts /\ from' = i' /\ lineStart'
      /\ i' = Directive(script, i).next /\ delimiter' = d
  BY DEF ReadDirective, AtDirective
<1>2. /\ script \in Seq(Symbols) /\ Len(script) \in Nat /\ i \in Nat \ {0} /\ i \in 1..Len(script)
      /\ i <= Len(script) /\ pc = "scan"
      /\ Modes(script)[i - 1] \in Mode
      /\ Modes(script)[i] = After(script, Modes(script)[i - 1], i)
  BY <1>1, Here DEF More
<1>3. /\ Directive(script, i).next \in (i + 1)..(Len(script) + 1)
      /\ d # <<>> /\ d[1] \notin Blanks
  BY <1>1, <1>2, DirectiveDelimiter
<1>4. n \in Nat \ {0} /\ i + n = Directive(script, i).next /\ i + n - 1 <= Len(script)
  BY <1>2, <1>3
<1>5. CodeAt(script, i, from, delimiter, lineStart)
  BY <1>1, <1>2 DEF Follows, LineEndAt
<1>6. ~ Solid(script, from, i)
  BY <1>1 DEF CurIsBlank, Solid
<1>7. /\ Reads(Modes(script)[i - 1], "code", 0, delimiter)
      /\ Modes(script)[i - 1].line /\ ~ Modes(script)[i - 1].begun
  BY <1>1, <1>5, <1>6 DEF CodeAt
<1>8. /\ Reads(Modes(script)[i], "code", n - 1, d)
      /\ Modes(script)[i].cut /\ ~ Modes(script)[i].begun /\ Modes(script)[i].line
  BY <1>1, <1>2, <1>7, AtDirectiveLine DEF Reads
<1>9. Trimmed(script, from, i - 1) = {}
  <2>1. {k \in from..(i - 1) : script[k] \notin Blanks} = {}
    BY <1>6 DEF Solid
  <2> QED
    BY <2>1, Zenon DEF Trimmed
<1> HIDE DEF d, n
<1>10. i' = i + n /\ pc' = "scan" /\ (lineStart' <=> Modes(script)[i].line)
  BY <1>1, <1>2, <1>4, <1>8
<1>11. {stmts'[k] : k \in DOMAIN stmts'}
         = {stmts[k] : k \in DOMAIN stmts} \cup Trimmed(script, from, i - 1)
  BY <1>1, <1>9
<1> QED
  BY <1>1, <1>2, <1>3, <1>4, <1>8, <1>10, <1>11, CutOn

\* What is not in a text is neither a comment nor a quote.
LEMMA NotInText ==
  ASSUME SplitInv, More, ~ AtDirective, ~ InText
  PROVE  /\ script[i] \notin Quotes
         /\ ~ Matches(script, <<"-", "-">>, i) /\ ~ Matches(script, <<"/", "*">>, i)
<1>1. script \in Seq(Symbols) /\ i \in 1..Len(script)
  BY Here DEF More
<1>2. Quotes \subseteq Symbols
  BY Zenon DEF Quotes, Symbols
<1>3. ASSUME script[i] \in Quotes PROVE FALSE
  <2>1. Matches(script, <<script[i]>>, i)
    BY <1>1, <1>2, <1>3, OneMatches
  <2> QED
    BY <1>3, <2>1 DEF InText, At
<1> QED
  BY <1>3 DEF InText, InComment, At

\* A delimiter ends a statement.
LEMMA FollowsBoundary ==
  ASSUME Agrees, SplitInv, QuotesAgree(script), Follows, Boundary
  PROVE  Follows'
<1> DEFINE n == Len(delimiter)
<1>1. /\ More /\ ~ AtDirective /\ Matches(script, delimiter, i) /\ ~ InText
      /\ script' = script /\ pc' = pc /\ stmts' = stmts \o Flush /\ from' = i' /\ ~ lineStart'
      /\ i' = i + n /\ delimiter' = delimiter
  BY DEF Boundary, At
<1>2. /\ script \in Seq(Symbols) /\ Len(script) \in Nat /\ i \in Nat \ {0} /\ i \in 1..Len(script)
      /\ i <= Len(script) /\ pc = "scan" /\ from \in Nat \ {0} /\ stmts \in Seq(Nat \X Nat)
      /\ delimiter \in Seq(Symbols)
      /\ Modes(script)[i - 1] \in Mode
      /\ Modes(script)[i] = After(script, Modes(script)[i - 1], i)
  BY <1>1, Here DEF More
<1>3. delimiter # <<>> /\ delimiter[1] \notin Blanks
  BY DEF Follows
<1>4. n \in Nat \ {0}
  BY <1>2, <1>3, NotEmpty
<1>5. i + n - 1 <= Len(script) /\ script[i] = delimiter[1]
  <2>1. /\ i + n - 1 <= Len(script)
        /\ \A j \in 1..n : script[i + j - 1] = delimiter[j]
    BY <1>1, <1>2, MatchesSymbols
  <2>2. 1 \in 1..n /\ i + 1 - 1 = i
    BY <1>2, <1>4
  <2> HIDE DEF n
  <2> QED
    BY <2>1, <2>2
<1>6. script[i] # "nl"
  <2>1. "nl" \in Blanks
    BY Zenon DEF Blanks
  <2> QED
    BY <1>3, <1>5, <2>1
<1>7. Reads(Modes(script)[i - 1], "code", 0, delimiter) /\ NoText(script, Modes(script)[i - 1], i)
  BY <1>1, <1>6, InCodeHere, NotInText DEF CodeAt, NoText
<1>8. /\ Reads(Modes(script)[i], "code", n - 1, delimiter)
      /\ Modes(script)[i].cut /\ ~ Modes(script)[i].begun /\ ~ Modes(script)[i].line
  BY <1>1, <1>2, <1>7, AtDelimiter, SMTT(60) DEF Reads
<1>9. {stmts'[k] : k \in DOMAIN stmts'}
        = {stmts[k] : k \in DOMAIN stmts} \cup Trimmed(script, from, i - 1)
  <2>1. i \in Nat
    BY <1>2
  <2> QED
    BY <1>1, <1>2, <2>1, FlushAdds
<1> HIDE DEF n
<1>10. pc' = "scan" /\ (lineStart' <=> Modes(script)[i].line)
  BY <1>1, <1>2, <1>8
<1> QED
  BY <1>1, <1>2, <1>3, <1>4, <1>5, <1>8, <1>9, <1>10, CutOn

-----------------------------------------------------------------------------
(* Quotes, other symbols and the end.                                      *)

\* A step within consumeQuoted.
LEMMA QuotedOn ==
  ASSUME script' = script, pc' = "quoted", delimiter' = delimiter, from' = from, stmts' = stmts,
         delimiter # <<>>, delimiter[1] \notin Blanks,
         quote'.by \in Quotes, Solid(script, from, i'),
         i' <= Len(script) => QuoteAt(script, i', delimiter, quote'),
         Uncut(script, from, i'),
         {stmts[k] : k \in DOMAIN stmts} = Between(script, from - 1)
  PROVE  Follows'
BY DEF Follows, CutsLikeServer

\* A quote opens for both.
LEMMA FollowsOpen ==
  ASSUME Agrees, SplitInv, QuotesAgree(script), Follows, Open
  PROVE  Follows'
<1> DEFINE r == Modes(script)[i]
<1>1. /\ More /\ ~ AtDirective
      /\ \E q \in Quotes : Matches(script, <<q>>, i)
      /\ quote' = [by |-> script[i], escapes |-> script[i] = "'" /\ AfterE(script, i)]
      /\ i' = i + 1 /\ pc' = "quoted"
      /\ UNCHANGED <<script, from, delimiter, lineStart, stmts>>
  BY DEF Open, At
<1>2. /\ script \in Seq(Symbols) /\ Len(script) \in Nat /\ i \in Nat \ {0} /\ i \in 1..Len(script)
      /\ i <= Len(script) /\ pc = "scan" /\ from \in Nat \ {0} /\ from <= i /\ (i + 1) - 1 = i
      /\ Modes(script)[i - 1] \in Mode
      /\ Modes(script)[i] = After(script, Modes(script)[i - 1], i)
  BY <1>1, Here DEF More
<1>3. script[i] \in Quotes
  <2>1. Quotes \subseteq Symbols
    BY Zenon DEF Quotes, Symbols
  <2> QED
    BY <1>1, <1>2, <2>1, OneMatches
<1>4. script[i] # "nl" /\ script[i] \notin Blanks
  BY <1>3, Zenon DEF Blanks, Quotes
<1>5. Reads(Modes(script)[i - 1], "code", 0, delimiter) /\ NoLine(script, Modes(script)[i - 1], i)
  BY <1>1, <1>4, InCodeHere DEF CodeAt
<1>6. /\ Reads(r, "quote", 0, delimiter) /\ Within(r) /\ r.by = <<script[i]>>
      /\ r.escapes <=> script[i] = "'" /\ AfterE(script, i)
  BY <1>1, <1>2, <1>3, <1>5, AtQuote DEF Reads
<1>7. /\ delimiter # <<>> /\ delimiter[1] \notin Blanks /\ Uncut(script, from, i)
      /\ {stmts[k] : k \in DOMAIN stmts} = Between(script, from - 1)
  BY <1>2 DEF Follows
<1>8. quote'.by = script[i] /\ (quote'.escapes <=> script[i] = "'" /\ AfterE(script, i))
  BY <1>1
<1>9. QuoteAt(script, i + 1, delimiter, quote')
  BY <1>2, <1>6, <1>8 DEF QuoteAt
<1>10. Solid(script, from, i + 1)
  BY <1>2, <1>4, SolidOne
<1>11. Uncut(script, from, i + 1)
  <2>1. \A k \in i..((i + 1) - 1) : ~ Modes(script)[k].cut
    BY <1>2, <1>6 DEF Within
  <2>2. i \in Nat /\ i + 1 \in Nat /\ i + 1 <= Len(script) + 1
    BY <1>2
  <2> QED
    BY <1>2, <1>7, <2>1, <2>2, UncutOn
<1> QED
  BY <1>1, <1>3, <1>7, <1>8, <1>9, <1>10, <1>11, QuotedOn

\* A doubled quote is two.
LEMMA Doubled ==
  ASSUME NEW q
  PROVE  <<q>> \o <<q>> = <<q, q>>
<1> DEFINE t == <<q>> \o <<q>>
           u == <<q, q>>
           S == {q}
<1>1. /\ <<q>> \in Seq(S) /\ Len(<<q>>) = 1 /\ <<q>>[1] = q
      /\ u \in Seq(S) /\ Len(u) = 2 /\ u[1] = q /\ u[2] = q
  OBVIOUS
<1>2. /\ t \in Seq(S) /\ Len(t) = 1 + 1
      /\ \A k \in 1..(1 + 1) : t[k] = IF k <= 1 THEN <<q>>[k] ELSE <<q>>[k - 1]
  BY <1>1, ConcatProperties
<1> HIDE DEF t, u, S
<1>3. \A k \in 1..2 : t[k] = u[k]
  <2>1. \A k \in 1..2 : k = 1 \/ k = 2
    OBVIOUS
  <2>2. t[1] = q /\ t[2] = q
    BY <1>1, <1>2
  <2> QED
    BY <1>1, <2>1, <2>2
<1>4. t = u
  BY <1>1, <1>2, <1>3, SeqEqual
<1> QED
  BY <1>4 DEF t, u

\* What the reader does in a quote.
LEMMA InTheQuote ==
  ASSUME NEW s \in Seq(Symbols), NEW k \in 1..Len(s), NEW m \in Mode, m.in = "quote", m.skip = 0,
         NEW q, m.by = <<q>>
  PROVE  After(s, m, k) = IF (m.escapes /\ s[k] = "\\") \/ Matches(s, <<q, q>>, k)
                          THEN [m EXCEPT !.skip = 1]
                          ELSE IF s[k] = q THEN Back(m, 1) ELSE m
<1>1. After(s, m, k) = IF (m.escapes /\ s[k] = "\\") \/ Matches(s, m.by \o m.by, k)
                       THEN [m EXCEPT !.skip = 1]
                       ELSE IF <<s[k]>> = m.by THEN Back(m, 1) ELSE m
  BY DEF After
<1>2. m.by \o m.by = <<q, q>>
  BY Doubled
<1>3. <<s[k]>> = m.by <=> s[k] = q
  OBVIOUS
<1> QED
  BY <1>1, <1>2, <1>3

\* What consumeQuoted passes over stays in the quote for both.
LEMMA FollowsConsume ==
  ASSUME SplitInv, Follows, Consume
  PROVE  Follows'
<1> DEFINE M == Modes(script)
           m == Modes(script)[i - 1]
           q == quote.by
           escaped == quote.escapes /\ script[i] = "\\" /\ i < Len(script)
           doubled == Matches(script, <<q, q>>, i)
<1>1. /\ pc = "quoted" /\ pc' = pc /\ i <= Len(script)
      /\ UNCHANGED <<script, from, delimiter, lineStart, quote, stmts>>
      /\ \/ (escaped \/ doubled) /\ i' = i + 2
         \/ ~ escaped /\ script[i] # q /\ i' = i + 1
  BY DEF Consume
<1>2. /\ script \in Seq(Symbols) /\ Len(script) \in Nat /\ i \in Nat \ {0} /\ i \in 1..Len(script)
      /\ from \in Nat \ {0} /\ from <= i /\ (i + 1) - 1 = i
      /\ m \in Mode /\ M[i] = After(script, m, i)
  BY <1>1, Here
<1>3. /\ QuoteAt(script, i, delimiter, quote) /\ q \in Quotes /\ Solid(script, from, i)
      /\ delimiter # <<>> /\ delimiter[1] \notin Blanks /\ Uncut(script, from, i)
      /\ {stmts[k] : k \in DOMAIN stmts} = Between(script, from - 1)
  BY <1>1 DEF Follows
<1>4. /\ m.in = "quote" /\ m.skip = 0 /\ m.by = <<q>> /\ (m.escapes <=> quote.escapes)
      /\ Reads(m, "quote", 0, delimiter) /\ Within(m)
  BY <1>3 DEF QuoteAt, Reads
<1> HIDE DEF q, m
<1>5. After(script, m, i) = IF (m.escapes /\ script[i] = "\\") \/ doubled
                            THEN [m EXCEPT !.skip = 1]
                            ELSE IF script[i] = q THEN Back(m, 1) ELSE m
  BY <1>2, <1>4, InTheQuote
<1>6. q \in Symbols /\ q # "\\"
  BY <1>3, Zenon DEF Quotes, Symbols
<1>7. doubled => i < Len(script) /\ script[i] = q
  BY <1>2, <1>6, TwoMatch
<1> HIDE DEF doubled
<1>n. M[i].cut = FALSE
  <2>1. ~ m.cut /\ m \in ModeRecords /\ M[i] \in {[m EXCEPT !.skip = 1], Back(m, 1), m}
    BY <1>2, <1>4, <1>5 DEF Within, Mode
  <2> DEFINE j == 1 - 1
  <2>2. Back(m, 1) = [m EXCEPT !.in = "code", !.skip = j]
    BY DEF Back
  <2> HIDE DEF j
  <2> QED
    BY <2>1, <2>2 DEF ModeRecords
<1>8. CASE (escaped \/ doubled) /\ i' = i + 2
  <2>1. i < Len(script) /\ i + 1 \in 1..Len(script) /\ (i + 2) - 1 = i + 1 /\ (i + 1) - 1 = i
    BY <1>2, <1>7, <1>8
  <2>2. M[i] = [m EXCEPT !.skip = 1]
    BY <1>2, <1>4, <1>5, <1>8
  <2>3. M[i + 1] = After(script, M[i], i + 1) /\ M[i] \in Mode
    <3>1. i \in 0..Len(script)
      BY <1>2
    <3> QED
      BY <1>2, <2>1, <3>1, ModesDef
  <2>4. M[i + 1] = m
    <3> DEFINE w == M[i]
               j == 1 - 1
    <3>1. w.skip = 1 /\ w = [m EXCEPT !.skip = 1]
      BY <1>2, <2>2 DEF Mode, ModeRecords
    <3> HIDE DEF w
    <3>2. After(script, w, i + 1) = [w EXCEPT !.skip = w.skip - 1]
      BY <3>1 DEF After
    <3>3. w.skip - 1 = 0
      BY <3>1
    <3>4. [w EXCEPT !.skip = 0] = m
      BY <1>2, <1>4, <3>1 DEF Mode, ModeRecords
    <3> QED
      BY <2>3, <3>2, <3>3, <3>4 DEF w
  <2>5. QuoteAt(script, i + 2, delimiter, quote)
    BY <1>3, <2>1, <2>4 DEF QuoteAt, m
  <2>6. Solid(script, from, i + 2)
    <3>1. i \in Nat /\ i + 2 \in Nat /\ i <= i + 2 /\ from \in Nat
      BY <1>2
    <3> QED
      BY <1>2, <1>3, <3>1, SolidOn
  <2>7. Uncut(script, from, i + 2)
    <3>1. \A k \in i..((i + 2) - 1) : k = i \/ k = i + 1
      BY <1>2
    <3>2. \A k \in i..((i + 2) - 1) : ~ M[k].cut
      BY <1>4, <1>n, <2>4, <3>1 DEF Within
    <3>3. i \in Nat /\ i + 2 \in Nat /\ i + 2 <= Len(script) + 1
      BY <1>2, <2>1
    <3> QED
      BY <1>2, <1>3, <3>2, <3>3, UncutOn
  <2> QED
    BY <1>1, <1>3, <1>8, <2>5, <2>6, <2>7, QuotedOn DEF q
<1>9. CASE ~ escaped /\ script[i] # q /\ i' = i + 1
  <2>1. Solid(script, from, i + 1)
    BY <1>2, <1>3, SolidOne
  <2>2. Uncut(script, from, i + 1)
    <3>1. \A k \in i..((i + 1) - 1) : ~ M[k].cut
      BY <1>2, <1>n
    <3>2. i \in Nat /\ i + 1 \in Nat /\ i + 1 <= Len(script) + 1
      BY <1>2
    <3> QED
      BY <1>2, <1>3, <3>1, <3>2, UncutOn
  <2>3. i + 1 <= Len(script) => QuoteAt(script, i + 1, delimiter, quote)
    <3>1. SUFFICES ASSUME i + 1 <= Len(script) PROVE QuoteAt(script, i + 1, delimiter, quote)
      OBVIOUS
    <3>2. i < Len(script)
      BY <1>2, <3>1
    <3>3. ~ (m.escapes /\ script[i] = "\\") /\ ~ doubled
      BY <1>4, <1>7, <1>9, <3>2
    <3>4. M[i] = m
      BY <1>2, <1>5, <1>9, <3>3
    <3> QED
      BY <1>2, <1>3, <3>4 DEF QuoteAt, m
  <2> QED
    BY <1>1, <1>3, <1>9, <2>1, <2>2, <2>3, QuotedOn DEF q
<1> QED
  BY <1>1, <1>8, <1>9

\* A quote closes for both.
LEMMA FollowsClose ==
  ASSUME SplitInv, Follows, Close
  PROVE  Follows'
<1> DEFINE M == Modes(script)
           m == Modes(script)[i - 1]
           q == quote.by
<1>1. /\ pc = "quoted" /\ pc' = "scan" /\ ~ lineStart'
      /\ UNCHANGED <<script, from, delimiter, stmts>>
      /\ \/ i <= Len(script) /\ script[i] = q /\ ~ Matches(script, <<q, q>>, i) /\ i' = i + 1
         \/ i > Len(script) /\ i' = i
  BY DEF Close
<1>2. /\ q \in Quotes /\ Solid(script, from, i)
      /\ delimiter # <<>> /\ delimiter[1] \notin Blanks /\ Uncut(script, from, i)
      /\ {stmts[k] : k \in DOMAIN stmts} = Between(script, from - 1)
  BY <1>1 DEF Follows
<1>3. CASE i > Len(script) /\ i' = i
  <2>1. ~ (i' <= Len(script))
    <3>1. i \in Nat /\ Len(script) \in Nat
      BY LenProperties DEF SplitInv, Typed
    <3> QED
      BY <1>3, <3>1
  <2> QED
    BY <1>1, <1>2, <1>3, <2>1, ScanOn
<1>4. CASE i <= Len(script) /\ script[i] = q /\ ~ Matches(script, <<q, q>>, i) /\ i' = i + 1
  <2>1. /\ script \in Seq(Symbols) /\ Len(script) \in Nat /\ i \in Nat \ {0} /\ i \in 1..Len(script)
        /\ from \in Nat \ {0} /\ from <= i /\ (i + 1) - 1 = i
        /\ m \in Mode /\ M[i] = After(script, m, i)
    BY <1>4, Here
  <2>2. QuoteAt(script, i, delimiter, quote)
    BY <1>1, <1>4 DEF Follows
  <2>3. /\ m.in = "quote" /\ m.skip = 0 /\ m.by = <<q>> /\ m.delimiter = delimiter
        /\ Within(m)
    BY <2>2 DEF QuoteAt, Reads
  <2> HIDE DEF q, m
  <2>4. q # "\\"
    BY <1>2, Zenon DEF Quotes
  <2>5. M[i] = Back(m, 1)
    BY <1>4, <2>1, <2>3, <2>4, InTheQuote
  <2>6. Reads(M[i], "code", 0, delimiter) /\ Within(M[i])
    <3> DEFINE j == 1 - 1
    <3>1. Back(m, 1) = [m EXCEPT !.in = "code", !.skip = j] /\ j = 0
      BY DEF Back
    <3>2. Back(m, 1) \in Mode
      BY <2>1, BackType
    <3> HIDE DEF j, M
    <3>3. M[i].in = "code" /\ M[i].skip = 0 /\ M[i].delimiter = m.delimiter
          /\ M[i].cut = m.cut /\ M[i].begun = m.begun /\ M[i].line = m.line
      BY <2>1, <2>5, <3>1, ZenonT(60) DEF Mode, ModeRecords
    <3> QED
      BY <2>3, <2>5, <3>2, <3>3 DEF Reads, Within
  <2>7. Solid(script, from, i + 1)
    BY <1>2, <2>1, SolidOne
  <2>8. CodeAt(script, i + 1, from, delimiter, lineStart')
    BY <1>1, <2>1, <2>6, <2>7 DEF CodeAt, Within
  <2>9. Uncut(script, from, i + 1)
    <3>1. \A k \in i..((i + 1) - 1) : ~ M[k].cut
      BY <2>1, <2>6 DEF Within
    <3>2. i \in Nat /\ i + 1 \in Nat /\ i + 1 <= Len(script) + 1
      BY <2>1
    <3> QED
      BY <1>2, <2>1, <3>1, <3>2, UncutOn
  <2> QED
    BY <1>1, <1>2, <1>4, <2>8, <2>9, ScanOn
<1> QED
  BY <1>1, <1>3, <1>4

\* Any other symbol is code, or ends a line comment.
LEMMA FollowsPlain ==
  ASSUME Agrees, SplitInv, QuotesAgree(script), Follows, Plain
  PROVE  Follows'
<1> DEFINE M == Modes(script)
           m == Modes(script)[i - 1]
<1>1. /\ More /\ ~ AtDirective /\ ~ InText /\ ~ Matches(script, delimiter, i)
      /\ i' = i + 1 /\ (lineStart' <=> script[i] = "nl") /\ pc' = pc
      /\ UNCHANGED <<script, from, delimiter, quote, stmts>>
  BY DEF Plain, At
<1>2. /\ script \in Seq(Symbols) /\ Len(script) \in Nat /\ i \in Nat \ {0} /\ i \in 1..Len(script)
      /\ i <= Len(script) /\ pc = "scan" /\ from \in Nat \ {0} /\ from <= i /\ (i + 1) - 1 = i
      /\ m \in Mode /\ M[i] = After(script, m, i)
  BY <1>1, Here DEF More
<1>3. ~ (delimiter = <<Semicolon>> /\ script[i] = "$" /\ DollarTag(script, i) # <<>>)
  <2>1. SUFFICES ASSUME delimiter = <<Semicolon>>, script[i] = "$", DollarTag(script, i) # <<>>
                 PROVE  FALSE
    OBVIOUS
  <2>2. Matches(script, <<"$">>, i)
    BY <1>2, <2>1, TokenSymbols, OneMatches
  <2>3. ~ InDollar
    BY DEF Plain
  <2> QED
    BY <1>1, <2>1, <2>2, <2>3 DEF InDollar, At
<1>4. /\ delimiter # <<>> /\ delimiter[1] \notin Blanks /\ Uncut(script, from, i)
      /\ {stmts[k] : k \in DOMAIN stmts} = Between(script, from - 1)
  BY <1>2 DEF Follows
<1>5. CASE CodeAt(script, i, from, delimiter, lineStart)
  <2>1. CurIsBlank <=> ~ Solid(script, from, i)
    BY DEF CurIsBlank, Solid
  <2>2. Reads(m, "code", 0, delimiter) /\ NoText(script, m, i)
    BY <1>1, <1>5, <2>1, NotInText DEF AtDirective, CodeAt, NoText, NoLine
  <2>3. /\ Reads(M[i], "code", 0, delimiter) /\ ~ M[i].cut
        /\ M[i].begun <=> m.begun \/ script[i] \notin Blanks
        /\ M[i].line <=> script[i] = "nl"
    <3>1. m.in = "code" /\ m.skip = 0 /\ m.delimiter = delimiter
      BY <2>2 DEF Reads
    <3> DEFINE r == After(script, m, i)
    <3> HIDE DEF m
    <3>2. /\ Reads(r, "code", 0, m.delimiter) /\ ~ r.cut
          /\ r.begun <=> m.begun \/ script[i] \notin Blanks
          /\ r.line <=> script[i] = "nl"
      BY <1>1, <1>2, <1>3, <2>2, <3>1, AtPlain
    <3> HIDE DEF r, M
    <3>3. M[i] = r
      BY <1>2 DEF r
    <3> QED
      BY <3>1, <3>2, <3>3
  <2>4. Solid(script, from, i + 1) <=> Solid(script, from, i) \/ script[i] \notin Blanks
    BY <1>2, SolidOne
  <2>5. m.begun <=> Solid(script, from, i)
    BY <1>5 DEF CodeAt
  <2>6. CodeAt(script, i + 1, from, delimiter, lineStart')
    BY <1>1, <1>2, <2>3, <2>4, <2>5 DEF CodeAt
  <2>7. Uncut(script, from, i + 1)
    <3>1. \A k \in i..((i + 1) - 1) : ~ M[k].cut
      BY <1>2, <2>3
    <3>2. i \in Nat /\ i + 1 \in Nat /\ i + 1 <= Len(script) + 1
      BY <1>2
    <3> QED
      BY <1>2, <1>4, <3>1, <3>2, UncutOn
  <2> QED
    BY <1>1, <1>2, <1>4, <2>6, <2>7, ScanOn
<1>6. CASE LineEndAt(script, i, from, delimiter, lineStart)
  <2>1. /\ m.in = "line" /\ m.skip = 0 /\ m.delimiter = delimiter /\ Within(m)
        /\ script[i] = "nl" /\ Solid(script, from, i)
    BY <1>6 DEF LineEndAt, Reads
  <2> HIDE DEF m
  <2> DEFINE j == 1 - 1
             b == Back(m, 1)
  <2>2. M[i] = [b EXCEPT !.line = TRUE]
    BY <1>2, <2>1 DEF After
  <2>3. b = [m EXCEPT !.in = "code", !.skip = j] /\ j = 0
    BY DEF Back
  <2>4. M[i] \in Mode
    BY <1>2, AfterType
  <2> HIDE DEF j, b, M
  <2>5. /\ M[i].in = "code" /\ M[i].skip = 0 /\ M[i].delimiter = m.delimiter
        /\ M[i].cut = m.cut /\ M[i].begun = m.begun /\ M[i].line = TRUE
    BY <1>2, <2>2, <2>3 DEF Mode, ModeRecords
  <2>6. Reads(M[i], "code", 0, delimiter) /\ ~ M[i].cut /\ M[i].begun /\ M[i].line
    BY <2>1, <2>4, <2>5 DEF Reads, Within
  <2>7. Solid(script, from, i + 1)
    BY <1>2, <2>1, SolidOne
  <2>8. CodeAt(script, i + 1, from, delimiter, lineStart')
    BY <1>1, <1>2, <2>1, <2>6, <2>7 DEF CodeAt, M
  <2>9. Uncut(script, from, i + 1)
    <3>1. \A k \in i..((i + 1) - 1) : ~ Modes(script)[k].cut
      BY <1>2, <2>6 DEF M
    <3>2. i \in Nat /\ i + 1 \in Nat /\ i + 1 <= Len(script) + 1
      BY <1>2
    <3> QED
      BY <1>2, <1>4, <3>1, <3>2, UncutOn
  <2> QED
    BY <1>1, <1>2, <1>4, <2>8, <2>9, ScanOn
<1> QED
  BY <1>2, <1>5, <1>6 DEF Follows

\* At the end the statements are those between all delimiters.
LEMMA FollowsFinish ==
  ASSUME SplitInv, Follows, Finish
  PROVE  Follows'
<1> DEFINE e == Len(script) + 1
<1>1. /\ pc = "scan" /\ i > Len(script) /\ pc' = "done" /\ stmts' = stmts \o Flush
      /\ script' = script /\ delimiter' = delimiter
  BY DEF Finish
<1>2. /\ script \in Seq(Symbols) /\ Len(script) \in Nat /\ from \in Nat \ {0} /\ i \in Nat
      /\ from <= i /\ i = e /\ stmts \in Seq(Nat \X Nat)
  BY <1>1, LenProperties DEF SplitInv, Typed, InSequence
<1>3. /\ delimiter # <<>> /\ delimiter[1] \notin Blanks /\ Uncut(script, from, i)
      /\ {stmts[k] : k \in DOMAIN stmts} = Between(script, from - 1)
  BY <1>1 DEF Follows
<1>4. {stmts'[k] : k \in DOMAIN stmts'}
        = {stmts[k] : k \in DOMAIN stmts} \cup Trimmed(script, from, i - 1)
  BY <1>1, <1>2, FlushAdds
<1>5. Between(script, e) = Between(script, from - 1) \cup Trimmed(script, from, e - 1)
  <2>1. /\ CutAt(script, from - 1) /\ \A j \in from..(e - 1) : ~ CutAt(script, j)
    BY <1>2, <1>3 DEF Uncut
  <2>2. \A j \in e..e : CutAt(script, j)
    BY <1>2 DEF CutAt
  <2>3. e \in Nat /\ from <= e
    BY <1>2
  <2> HIDE DEF e
  <2> QED
    BY <1>2, <2>1, <2>2, <2>3, OneMore
<1>6. Between(script, e) = StatementsOf(script)
  BY <1>2, AllFound
<1>7. {stmts'[k] : k \in DOMAIN stmts'} = StatementsOf(script)
  BY <1>2, <1>3, <1>4, <1>5, <1>6
<1> QED
  BY <1>1, <1>3, <1>7 DEF Follows, CutsLikeServer

\* Split stays where the reader is.
FollowInv == Inv /\ (QuotesAgree(script) => Follows)

\* Each step of Split keeps it where the reader is.
LEMMA FollowStep ==
  ASSUME Agrees, SplitInv, QuotesAgree(script), Follows, SplitNext
  PROVE  Follows'
BY FollowsReadDirective, FollowsLineComment, FollowsBlockComment, FollowsOpen, FollowsConsume,
   FollowsClose, FollowsBoundary, FollowsDollarBody, FollowsPlain, FollowsFinish
   DEF SplitNext

\* It is there at the beginning.
LEMMA FollowInit == Init => Follows
<1> SUFFICES ASSUME Init PROVE Follows
  OBVIOUS
<1>1. pc = "waiting" /\ delimiter = <<Semicolon>>
  BY DEF Init, SplitInit
<1>2. <<Semicolon>> # <<>> /\ <<Semicolon>>[1] = Semicolon
  OBVIOUS
<1>3. Semicolon \notin Blanks
  BY Zenon DEF Semicolon, Blanks
<1> QED
  BY <1>1, <1>2, <1>3 DEF Follows, CutsLikeServer

\* A call of Split begins at the beginning.
LEMMA FollowCall ==
  ASSUME Inv, CallSplit
  PROVE  Follows'
<1>1. /\ script' = out /\ pc' = "scan" /\ i' = 1 /\ from' = 1
      /\ delimiter' = <<Semicolon>> /\ stmts' = <<>> /\ lineStart' = TRUE
      /\ out \in Seq(Symbols)
  BY DEF CallSplit, Inv, Unmoved, SubTyped
<1>2. <<Semicolon>> # <<>> /\ <<Semicolon>>[1] \notin Blanks
  <2>1. <<Semicolon>> # <<>> /\ <<Semicolon>>[1] = Semicolon
    OBVIOUS
  <2>2. Semicolon \notin Blanks
    BY Zenon DEF Semicolon, Blanks
  <2> QED
    BY <2>1, <2>2
<1>3. CodeAt(out, 1, 1, <<Semicolon>>, TRUE)
  <2>1. Modes(out)[0] = Beginning /\ Beginning \in Mode /\ 1 - 1 = 0
    <3>1. Modes(out) \in [0..Len(out) -> Mode] /\ Modes(out)[0] = Beginning
      BY <1>1, ModesDef
    <3>2. 0 \in 0..Len(out)
      BY <1>1, LenProperties
    <3> QED
      BY <3>1, <3>2
  <2>2. /\ Beginning.in = "code" /\ Beginning.skip = 0 /\ Beginning.delimiter = <<Semicolon>>
        /\ Beginning.line /\ ~ Beginning.begun
    BY DEF Beginning
  <2>3. ~ Solid(out, 1, 1)
    BY NoSolid
  <2> QED
    BY <2>1, <2>2, <2>3 DEF CodeAt, Reads
<1>4. Uncut(out, 1, 1)
  BY DEF Uncut, CutAt
<1>5. Between(out, 0) = {}
  <2>1. Pairs(out, 0) = {}
    BY DEF Pairs
  <2> QED
    BY <2>1 DEF Between
<1>6. {stmts'[k] : k \in DOMAIN stmts'} = {}
  <2>1. DOMAIN <<>> = {}
    OBVIOUS
  <2> QED
    BY <1>1, <2>1
<1> QED
  <2> DEFINE d == <<Semicolon>>
  <2>1. /\ delimiter' = d /\ d # <<>> /\ d[1] \notin Blanks
        /\ CodeAt(out, 1, 1, d, TRUE)
    BY <1>1, <1>2, <1>3
  <2> HIDE DEF d
  <2>2. CodeAt(script', i', from', delimiter', lineStart')
    BY <1>1, <2>1
  <2>3. Uncut(script', from', i')
    BY <1>1, <1>4
  <2>4. {stmts'[k] : k \in DOMAIN stmts'} = Between(script', from' - 1)
    <3>1. 1 - 1 = 0
      OBVIOUS
    <3> QED
      BY <1>1, <1>5, <1>6, <3>1, Zenon
  <2>5. delimiter' # <<>> /\ delimiter'[1] \notin Blanks
    BY <2>1
  <2>6. pc' = "scan"
    BY <1>1
  <2> HIDE <1>1, <2>1
  <2> QED
    BY <2>2, <2>3, <2>4, <2>5, <2>6 DEF Follows, CutsLikeServer

\* Every step of Prepare keeps the invariant.
LEMMA FollowNext ==
  ASSUME Agrees, FollowInv, [Next]_vars
  PROVE  FollowInv'
<1>1. Inv'
  BY NextInv DEF FollowInv
<1>2. ASSUME QuotesAgree(script') PROVE Follows'
  <2>1. CASE Substitution
    <3>1. QuotesAgree(script) /\ UNCHANGED splitVars
      BY <1>2, <2>1 DEF Substitution, splitVars
    <3> QED
      BY <3>1 DEF FollowInv, splitVars, Follows, CutsLikeServer
  <2>2. CASE CallSplit
    BY <2>2, FollowCall DEF FollowInv
  <2>3. CASE Splitting
    <3>1. SplitNext /\ script' = script
      BY <2>3 DEF Splitting, SplitNext, ReadDirective, LineComment, BlockComment, DollarBody, Open,
         Consume, Close, Boundary, Plain, Finish, CopyTo
    <3> QED
      BY <1>2, <3>1, FollowStep DEF FollowInv, Inv
  <2>4. CASE UNCHANGED vars
    <3>1. QuotesAgree(script) /\ UNCHANGED splitVars
      BY <1>2, <2>4 DEF vars, splitVars
    <3> QED
      BY <3>1 DEF FollowInv, splitVars, Follows, CutsLikeServer
  <2> QED
    BY <2>1, <2>2, <2>3, <2>4 DEF Next
<1> QED
  BY <1>1, <1>2 DEF FollowInv

\* For every migration, all settings and every reader by PostgreSQL's rules: a script
\* without a backquote the reader does not know is cut where its reader ends a
\* statement and nowhere else.
THEOREM CutWhereItEnds ==
  ASSUME Agrees
  PROVE  Spec => [](QuotesAgree(script) => CutsLikeServer)
<1>1. Init => FollowInv
  BY InitInv, FollowInit DEF FollowInv
<1>2. FollowInv /\ [Next]_vars => FollowInv'
  BY FollowNext
<1>3. FollowInv => (QuotesAgree(script) => CutsLikeServer)
  BY DEF FollowInv, Follows
<1> QED
  BY <1>1, <1>2, <1>3, PTL DEF Spec

=============================================================================
