-------------------------- MODULE SubstituteProofs --------------------------
(***************************************************************************)
(* Proofs about Substitute, and about what it means for Split: for every   *)
(* migration each placeholder is replaced once, and where placeholders     *)
(* stand apart, words for them move no boundary of a statement.            *)
(*                                                                         *)
(* For the second, the migration and its result are read side by side.     *)
(* What a placeholder is made of and the word it gives are inert: the      *)
(* reader of either text is in the same mode before and behind them, so    *)
(* both texts are cut at the same places, and what lies between two cuts   *)
(* of the result is what lies between them in the migration, replaced.     *)
(***************************************************************************)
EXTENDS SplitProofs

-----------------------------------------------------------------------------
(* Substitute: every placeholder is replaced once.                         *)

\* What Rests reads at a position: the closing suffixes of a placeholder that begins
\* there, its name, the position behind it and its value.
Ends(s, k) == Occurrences(s, settings.suffix, k + Len(settings.prefix))
NameAt(s, k) == SubSeq(s, k + Len(settings.prefix), Min(Ends(s, k)) - 1)
NextAt(s, k) == Min(Ends(s, k)) + Len(settings.suffix)
ValueOf(n) == IF n \in DOMAIN settings.placeholders THEN settings.placeholders[n] ELSE <<"?">>

\* A placeholder begins at a position.
BeginsAt(s, k) == Matches(s, settings.prefix, k) /\ Ends(s, k) # {}

\* The rest from k on, when g has the rests behind it.
RestAt(s, g, k) ==
  IF k > Len(s) THEN <<>>
  ELSE IF BeginsAt(s, k) THEN ValueOf(NameAt(s, k)) \o g[NextAt(s, k)]
  ELSE <<s[k]>> \o g[k + 1]

\* What replaced texts are made of.
Signs == Symbols \cup {"?"}

Positions(s) == 1..(Len(s) + 1)

\* A placeholder ends behind its beginning and within the text.
LEMMA NextRange ==
  ASSUME SubTyped, settings.prefix # <<>>, NEW s \in Seq(Symbols), NEW k \in Positions(s), BeginsAt(s, k)
  PROVE  k \in 1..Len(s) /\ NextAt(s, k) \in (k + 1)..(Len(s) + 1)
<1>1. /\ s \in Seq(Symbols) /\ Len(s) \in Nat
      /\ settings.prefix \in Seq(Symbols) /\ settings.suffix \in Seq(Symbols)
  BY LenProperties DEF SubTyped
<1> DEFINE p == Len(settings.prefix)
           q == Len(settings.suffix)
           l == Len(s)
           end == Min(Ends(s, k))
<1>2. p \in Nat \ {0} /\ q \in Nat
  BY <1>1, LenProperties, EmptySeq
<1>3. k + p - 1 <= l /\ Ends(s, k) # {}
  BY DEF BeginsAt, Matches
<1>4. Ends(s, k) \subseteq (k + p)..(l + 1) /\ \A j \in Ends(s, k) : j + q - 1 <= l
  BY DEF Ends, Occurrences, Matches
<1>5. k \in Nat \ {0} /\ l \in Nat
  BY <1>1 DEF Positions
<1>6. Ends(s, k) \in SUBSET Nat
  BY <1>2, <1>4, <1>5
<1>7. end \in Ends(s, k)
  BY <1>3, <1>6, MinOfNats
<1>8. NextAt(s, k) = end + q
  BY DEF NextAt
<1> HIDE DEF p, q, l, end
<1>9. k <= l /\ end + q \in (k + 1)..(l + 1)
  BY <1>2, <1>3, <1>4, <1>5, <1>6, <1>7
<1> QED
  BY <1>5, <1>8, <1>9 DEF l

\* A value is a text, or marks that there is none.
LEMMA ValueType ==
  ASSUME SubTyped, NEW n
  PROVE  ValueOf(n) \in Seq(Signs)
<1>1. \A x \in Seq(Symbols) : x \in Seq(Signs)
  BY DEF Signs
<1>2. <<"?">> \in Seq(Signs)
  BY DEF Signs
<1> QED
  BY <1>1, <1>2 DEF ValueOf, SubTyped

\* A rest is made of the rests behind it, and of signs like them.
LEMMA RestAtBehind ==
  ASSUME SubTyped, settings.prefix # <<>>, NEW s \in Seq(Symbols), NEW k \in Positions(s), NEW g, NEW h,
         \A j \in (k + 1)..(Len(s) + 1) : g[j] = h[j] /\ g[j] \in Seq(Signs)
  PROVE  RestAt(s, g, k) = RestAt(s, h, k) /\ RestAt(s, g, k) \in Seq(Signs)
<1>1. s \in Seq(Symbols) /\ Len(s) \in Nat /\ k \in Nat \ {0} /\ k <= Len(s) + 1
  BY LenProperties DEF SubTyped, Positions
<1>2. CASE k > Len(s)
  BY <1>2, EmptySeq DEF RestAt
<1>3. CASE k <= Len(s) /\ BeginsAt(s, k)
  <2>1. g[NextAt(s, k)] = h[NextAt(s, k)] /\ g[NextAt(s, k)] \in Seq(Signs)
    BY <1>3, NextRange
  <2>2. ValueOf(NameAt(s, k)) \o g[NextAt(s, k)] \in Seq(Signs)
    BY <2>1, ValueType, ConcatProperties
  <2>3. ~ (k > Len(s))
    BY <1>1, <1>3
  <2> QED
    BY <1>3, <2>1, <2>2, <2>3 DEF RestAt
<1>4. CASE k <= Len(s) /\ ~ BeginsAt(s, k)
  <2>1. k + 1 \in (k + 1)..(Len(s) + 1)
    BY <1>1, <1>4
  <2>2. g[k + 1] = h[k + 1] /\ g[k + 1] \in Seq(Signs)
    BY <2>1
  <2>3. s[k] \in Signs
    BY <1>1, <1>4 DEF Signs
  <2>4. <<s[k]>> \in Seq(Signs)
    BY <2>3
  <2>5. <<s[k]>> \o g[k + 1] \in Seq(Signs)
    BY <2>2, <2>4, ConcatProperties
  <2>6. ~ (k > Len(s))
    BY <1>1, <1>4
  <2> QED
    BY <1>4, <2>2, <2>5, <2>6 DEF RestAt
<1> QED
  BY <1>1, <1>2, <1>3, <1>4

\* The rests are defined by the recursion, from the last one down to the first.
LEMMA RestsDef ==
  ASSUME SubTyped, settings.prefix # <<>>, NEW s \in Seq(Symbols)
  PROVE  /\ Rests(s) \in [Positions(s) -> Seq(Signs)]
         /\ \A k \in Positions(s) : Rests(s)[k] = RestAt(s, Rests(s), k)
<1> DEFINE L == Len(s)
           Body(g) == [k \in 1..(Len(s) + 1) |-> RestAt(s, g, k)]
           Solves(g, n) == \A k \in (L + 1 - n)..(L + 1) : g[k] = RestAt(s, g, k)
           T == {n \in Nat : n <= L => \E g \in [Positions(s) -> Seq(Signs)] : Solves(g, n)}
<1>1. Rests(s) = CHOOSE g : g = Body(g)
  BY DEF Rests, RestAt, BeginsAt, Ends, NameAt, NextAt, ValueOf
<1>2. L \in Nat /\ Positions(s) = 1..(L + 1)
  BY LenProperties DEF SubTyped, Positions
<1> HIDE DEF L
<1>3. 0 \in T
  <2> DEFINE g == [k \in Positions(s) |-> <<>>]
  <2>1. g \in [Positions(s) -> Seq(Signs)]
    BY EmptySeq
  <2>2. L + 1 \in Positions(s) /\ \A k \in (L + 1 - 0)..(L + 1) : k = L + 1
    BY <1>2
  <2>3. g[L + 1] = <<>>
    BY <2>2
  <2>4. RestAt(s, g, L + 1) = <<>>
    BY <1>2 DEF RestAt, L
  <2> HIDE DEF g
  <2>5. Solves(g, 0)
    BY <2>2, <2>3, <2>4
  <2> QED
    BY <2>1, <2>5
<1> HIDE DEF Solves
<1>4. ASSUME NEW n \in T, n + 1 <= L PROVE \E g \in [Positions(s) -> Seq(Signs)] : Solves(g, n + 1)
  <2>1. PICK g \in [Positions(s) -> Seq(Signs)] : Solves(g, n)
    BY <1>2, <1>4
  <2> USE DEF Solves
  <2> DEFINE k0 == L + 1 - (n + 1)
             h == [g EXCEPT ![k0] = RestAt(s, g, k0)]
  <2>2. k0 \in Positions(s) /\ n \in Nat
    BY <1>2, <1>4
  <2>3. \A j \in (k0 + 1)..(L + 1) : j \in Positions(s) /\ j # k0
    BY <1>2, <2>2
  <2>4. RestAt(s, g, k0) \in Seq(Signs)
    BY <2>2, <2>3, RestAtBehind DEF L
  <2>5. h \in [Positions(s) -> Seq(Signs)] /\ h[k0] = RestAt(s, g, k0)
    BY <2>2, <2>4
  <2>6. \A j \in Positions(s) : j # k0 => h[j] = g[j]
    OBVIOUS
  <2> HIDE DEF h
  <2>7. ASSUME NEW k \in k0..(L + 1) PROVE h[k] = RestAt(s, h, k)
    <3>1. k \in Positions(s) /\ \A j \in (k + 1)..(L + 1) : j \in (k0 + 1)..(L + 1)
      BY <1>2, <2>2
    <3>2. \A j \in (k + 1)..(Len(s) + 1) : g[j] = h[j] /\ g[j] \in Seq(Signs)
      BY <2>3, <2>6, <3>1 DEF L
    <3>3. RestAt(s, g, k) = RestAt(s, h, k)
      BY <3>1, <3>2, RestAtBehind
    <3>4. CASE k = k0
      BY <2>5, <3>3, <3>4
    <3>5. CASE k # k0
      <4>1. k \in (L + 1 - n)..(L + 1)
        BY <1>2, <2>2, <3>5
      <4>2. g[k] = RestAt(s, g, k)
        BY <2>1, <4>1
      <4> QED
        BY <2>6, <3>1, <3>3, <3>5, <4>2
    <3> QED
      BY <3>4, <3>5
  <2> QED
    BY <2>5, <2>7
<1>5. T = Nat
  <2>1. \A n \in T : n + 1 \in T
    BY <1>4
  <2>2. T \in SUBSET Nat
    OBVIOUS
  <2> HIDE DEF T
  <2> QED
    BY <1>3, <2>1, <2>2, NatInd
<1>6. PICK g \in [Positions(s) -> Seq(Signs)] : Solves(g, L)
  <2>1. L \in T
    <3> HIDE DEF T
    <3> QED
      BY <1>2, <1>5
  <2>2. L <= L
    BY <1>2
  <2> QED
    BY <2>1, <2>2
<1>7. g = Body(g)
  <2>1. \A k \in Positions(s) : k \in (L + 1 - L)..(L + 1)
    BY <1>2
  <2>2. \A k \in Positions(s) : g[k] = RestAt(s, g, k)
    BY <1>6, <2>1 DEF Solves
  <2>3. Body(g) = [k \in Positions(s) |-> RestAt(s, g, k)]
    BY DEF Positions
  <2>4. g = [k \in Positions(s) |-> g[k]]
    OBVIOUS
  <2>5. [k \in Positions(s) |-> g[k]] = [k \in Positions(s) |-> RestAt(s, g, k)]
    BY <2>2
  <2> HIDE DEF Body
  <2> QED
    BY <2>3, <2>4, <2>5
<1> DEFINE R == Rests(s)
<1>8. R = Body(R)
  <2> HIDE DEF Body
  <2> QED
    BY <1>1, <1>7
<1>9. R = [k \in Positions(s) |-> RestAt(s, R, k)]
  BY <1>8 DEF Positions
<1> HIDE DEF R
<1>10. \A k \in Positions(s) : R[k] = RestAt(s, R, k)
  BY <1>9
<1> DEFINE U == {n \in Nat : n <= L => \A k \in (L + 1 - n)..(L + 1) : R[k] \in Seq(Signs)}
<1>11. 0 \in U
  <2>1. L + 1 \in Positions(s) /\ \A k \in (L + 1 - 0)..(L + 1) : k = L + 1
    BY <1>2
  <2>2. RestAt(s, R, L + 1) = <<>>
    BY <1>2 DEF RestAt, L
  <2>3. R[L + 1] \in Seq(Signs)
    BY <1>10, <2>1, <2>2, EmptySeq
  <2> QED
    BY <2>1, <2>3
<1>12. ASSUME NEW n \in U PROVE n + 1 \in U
  <2>1. SUFFICES ASSUME n + 1 <= L, NEW k \in (L + 1 - (n + 1))..(L + 1) PROVE R[k] \in Seq(Signs)
    OBVIOUS
  <2>2. \A j \in (L + 1 - n)..(L + 1) : R[j] \in Seq(Signs)
    BY <1>2, <2>1
  <2>3. k \in Positions(s) /\ \A j \in (k + 1)..(L + 1) : j \in (L + 1 - n)..(L + 1)
    BY <1>2, <2>1
  <2>4. RestAt(s, R, k) \in Seq(Signs)
    BY <2>2, <2>3, RestAtBehind DEF L
  <2> QED
    BY <1>10, <2>3, <2>4
<1>13. U = Nat
  <2>1. U \in SUBSET Nat
    OBVIOUS
  <2> HIDE DEF U
  <2> QED
    BY <1>11, <1>12, <2>1, NatInd
<1>14. \A k \in Positions(s) : R[k] \in Seq(Signs)
  <2>1. \A k \in (L + 1 - L)..(L + 1) : R[k] \in Seq(Signs)
    <3>1. L \in U
      <4> HIDE DEF U
      <4> QED
        BY <1>2, <1>13
    <3>2. L <= L
      BY <1>2
    <3> QED
      BY <3>1, <3>2
  <2>2. \A k \in Positions(s) : k \in (L + 1 - L)..(L + 1)
    BY <1>2
  <2> QED
    BY <2>1, <2>2
<1>15. R \in [Positions(s) -> Seq(Signs)]
  BY <1>9, <1>10, <1>14
<1> QED
  BY <1>10, <1>15 DEF R

\* The empty rest is behind the end.
LEMMA RestAtEnd ==
  ASSUME SubTyped, settings.prefix # <<>>, NEW s \in Seq(Symbols)
  PROVE  Rests(s)[Len(s) + 1] = <<>>
<1> DEFINE l == Len(s)
<1>1. l \in Nat
  BY LenProperties DEF SubTyped
<1>2. l + 1 \in Positions(s) /\ l + 1 > l
  BY <1>1 DEF Positions
<1>3. Rests(s)[l + 1] = RestAt(s, Rests(s), l + 1)
  BY <1>2, RestsDef
<1> QED
  BY <1>2, <1>3 DEF RestAt

\* A sequence of one element.
LEMMA OneSign ==
  ASSUME NEW S, NEW s \in Seq(S), NEW x, Len(s) = 1, s[1] = x
  PROVE  s = <<x>>
<1>1. x \in S
  BY LenProperties
<1>2. <<x>> \in Seq(S) /\ Len(<<x>>) = 1 /\ <<x>>[1] = x
  BY <1>1
<1>3. Len(s) = Len(<<x>>) /\ \A k \in 1..Len(s) : s[k] = <<x>>[k]
  BY <1>2
<1> QED
  BY <1>2, <1>3, SeqEqual

\* Concatenation associates.
LEMMA Reassociated ==
  ASSUME NEW c \in Seq(Signs), NEW u \in Seq(Signs), NEW v \in Seq(Signs)
  PROVE  c \o (u \o v) = (c \o u) \o v
BY ConcatAssociative, SMTT(30)

\* Where no placeholder begins the text is copied.
LEMMA CopyOn ==
  ASSUME SubTyped, settings.prefix # <<>>, NEW s \in Seq(Symbols),
         NEW a \in Positions(s), NEW b \in a..(Len(s) + 1),
         \A k \in a..(b - 1) : ~ BeginsAt(s, k)
  PROVE  /\ SubSeq(s, a, b - 1) \in Seq(Signs)
         /\ Rests(s)[a] = SubSeq(s, a, b - 1) \o Rests(s)[b]
<1> DEFINE L == Len(s)
           R == Rests(s)
           Part(k) == SubSeq(s, k, b - 1)
           T == {n \in Nat : n <= b - a => R[b - n] = Part(b - n) \o R[b]}
<1>1. /\ s \in Seq(Symbols) /\ L \in Nat /\ a \in Nat \ {0} /\ b \in Nat \ {0}
      /\ a <= b /\ b <= L + 1 /\ Positions(s) = 1..(L + 1)
  BY LenProperties DEF SubTyped, Positions
<1>2. R \in [Positions(s) -> Seq(Signs)] /\ \A k \in Positions(s) : R[k] = RestAt(s, R, k)
  BY RestsDef
<1>3. ASSUME NEW k \in 1..b PROVE Part(k) \in Seq(Signs)
  <2>1. \A n \in k..(b - 1) : s[n] \in Signs
    BY <1>1 DEF Signs
  <2>2. k \in Int /\ b - 1 \in Int
    BY <1>1
  <2> QED
    BY <2>1, <2>2, SubSeqProperties
<1>n. /\ \A k \in 1..Len(s) : s[k] \in Signs
      /\ \A k \in a..(b - 1) : RestAt(s, R, k) = <<s[k]>> \o R[k + 1]
  <2>1. \A k \in a..(b - 1) : ~ (k > L)
    BY <1>1
  <2> QED
    BY <1>1, <2>1 DEF RestAt, Signs
<1> HIDE DEF R, Part
<1>4. 0 \in T
  <2>1. Part(b) = <<>>
    <3> USE DEF Part
    <3>1. \A n \in b..(b - 1) : s[n] \in Signs
      BY <1>1
    <3>2. b \in Int /\ b - 1 \in Int /\ ~ (b <= b - 1)
      BY <1>1
    <3>3. Len(Part(b)) = 0 /\ Part(b) \in Seq(Signs)
      BY <3>1, <3>2, SubSeqProperties
    <3> QED
      BY <3>3, EmptySeq
  <2>2. R[b] \in Seq(Signs)
    BY <1>1, <1>2
  <2>3. b - 0 = b
    BY <1>1
  <2>4. R[b] = <<>> \o R[b]
    BY <2>2, ConcatEmptySeq
  <2> QED
    BY <2>1, <2>3, <2>4
<1>5. ASSUME NEW n \in T PROVE n + 1 \in T
  <2>0. n + 1 \in Nat
    OBVIOUS
  <2>1. SUFFICES ASSUME n + 1 <= b - a PROVE R[b - (n + 1)] = Part(b - (n + 1)) \o R[b]
    BY <2>0, Zenon
  <2>2. PICK k \in Nat : k = b - (n + 1)
    BY <1>1, <2>1
  <2>3. k \in a..(b - 1) /\ k + 1 = b - n /\ n <= b - a /\ k \in Positions(s) /\ k \in 1..L
    BY <1>1, <2>1, <2>2
  <2>4. R[k + 1] = Part(k + 1) \o R[b]
    BY <2>3
  <2>5. R[k] = <<s[k]>> \o (Part(k + 1) \o R[b])
    BY <1>2, <1>n, <2>3, <2>4
  <2>6. /\ <<s[k]>> \in Seq(Signs) /\ Part(k + 1) \in Seq(Signs) /\ R[b] \in Seq(Signs)
    <3>1. k + 1 \in 1..b /\ b \in Positions(s)
      BY <1>1, <2>3
    <3>2. s[k] \in Signs
      BY <1>n, <2>3
    <3> QED
      BY <1>2, <1>3, <3>1, <3>2
  <2>7. R[k] = (<<s[k]>> \o Part(k + 1)) \o R[b]
    <3> DEFINE c == <<s[k]>>
               u == Part(k + 1)
               v == R[b]
    <3>1. c \in Seq(Signs) /\ u \in Seq(Signs) /\ v \in Seq(Signs)
      BY <2>6
    <3>2. R[k] = c \o (u \o v)
      BY <2>5
    <3> HIDE DEF c, u, v
    <3>3. c \o (u \o v) = (c \o u) \o v
      BY <3>1, Reassociated
    <3>4. R[k] = (c \o u) \o v
      BY <3>2, <3>3
    <3> QED
      BY <3>4 DEF c, u, v
  <2>8. <<s[k]>> \o Part(k + 1) = Part(k)
    <3>1. /\ k \in 1..(Len(s) + 1) /\ k \in (k - 1)..Len(s)
          /\ b - 1 \in k..Len(s)
      BY <1>1, <2>3
    <3> USE DEF Part
    <3>2. SubSeq(s, k, k) \o SubSeq(s, k + 1, b - 1) = SubSeq(s, k, b - 1)
      BY <1>1, <3>1, ConcatAdjacentSubSeq
    <3>3. SubSeq(s, k, k) = <<s[k]>>
      <4>1. \A j \in k..k : s[j] \in Signs
        BY <1>n, <2>3
      <4>2. k \in Int /\ k <= k /\ k - k + 1 = 1 /\ k + 1 - 1 = k
        BY <2>3
      <4>3. /\ SubSeq(s, k, k) \in Seq(Signs) /\ Len(SubSeq(s, k, k)) = 1
            /\ SubSeq(s, k, k)[1] = s[k]
        BY <4>1, <4>2, SubSeqProperties
      <4>4. s[k] \in Signs
        BY <1>n, <2>3
      <4> QED
        BY <4>3, <4>4, OneSign
    <3> QED
      BY <3>2, <3>3
  <2> QED
    BY <2>2, <2>7, <2>8
<1>6. T = Nat
  <2>1. T \in SUBSET Nat
    OBVIOUS
  <2> HIDE DEF T
  <2> QED
    BY <1>4, <1>5, <2>1, NatInd
<1>7. R[a] = Part(a) \o R[b]
  <2>1. b - a \in T
    <3> HIDE DEF T
    <3> QED
      BY <1>1, <1>6
  <2>2. b - (b - a) = a /\ b - a <= b - a
    BY <1>1
  <2> QED
    BY <2>1, <2>2
<1>8. Part(a) \in Seq(Signs)
  BY <1>1, <1>3
<1> QED
  BY <1>7, <1>8 DEF R, Part

\* The first placeholder from `at` on is where Substitute finds it.
LEMMA FirstPlaceholder ==
  ASSUME SubTyped, settings.prefix # <<>>, at \in Positions(content), HasPlaceholder(content, at)
  PROVE  /\ Found.start \in at..Len(content) /\ BeginsAt(content, Found.start)
         /\ \A k \in at..(Found.start - 1) : ~ BeginsAt(content, k)
         /\ Found.name = NameAt(content, Found.start) /\ Found.next = NextAt(content, Found.start)
<1> DEFINE Starts == Occurrences(content, settings.prefix, at)
           start  == Min(Starts)
<1>1. Found.start = start /\ Found.name = NameAt(content, start) /\ Found.next = NextAt(content, start)
  BY DEF Found, Placeholder, NameAt, NextAt, Ends
<1>2. /\ Starts \subseteq at..(Len(content) + 1)
      /\ \A k \in at..(Len(content) + 1) : BeginsAt(content, k) => k \in Starts
      /\ \A k \in Starts : Matches(content, settings.prefix, k)
  BY DEF Occurrences, BeginsAt
<1>3. Starts # {} /\ Ends(content, start) # {}
  BY DEF HasPlaceholder, Ends
<1>4. at \in Nat \ {0} /\ at <= Len(content) + 1 /\ Len(content) \in Nat
  BY LenProperties DEF SubTyped, Positions
<1>5. Starts \in SUBSET Nat
  BY <1>2, <1>4
<1> HIDE DEF Starts
<1>6. start \in Starts /\ \A k \in Starts : start <= k
  BY <1>3, <1>5, MinOfNats
<1> HIDE DEF start
<1>7. BeginsAt(content, start) /\ start \in Positions(content) /\ at <= start
  <2>1. BeginsAt(content, start)
    BY <1>2, <1>3, <1>6 DEF BeginsAt
  <2>2. start \in at..(Len(content) + 1)
    BY <1>2, <1>6
  <2> QED
    BY <1>4, <2>1, <2>2 DEF Positions
<1>8. start \in 1..Len(content)
  BY <1>7, NextRange DEF SubTyped
<1>9. \A k \in at..(start - 1) : ~ BeginsAt(content, k)
  <2>1. \A k \in at..(start - 1) : k \in at..(Len(content) + 1) /\ ~ (start <= k)
    BY <1>4, <1>8
  <2> QED
    BY <1>2, <1>6, <2>1
<1>10. start \in at..Len(content)
  BY <1>4, <1>7, <1>8
<1> QED
  BY <1>1, <1>7, <1>9, <1>10

\* Where Substitute finds no placeholder, none begins.
LEMMA NoPlaceholder ==
  ASSUME SubTyped, settings.prefix # <<>>, at \in Positions(content), ~ HasPlaceholder(content, at),
         NEW k \in at..Len(content)
  PROVE  ~ BeginsAt(content, k)
<1> DEFINE Starts == Occurrences(content, settings.prefix, at)
           start  == Min(Starts)
<1>1. SUFFICES ASSUME BeginsAt(content, k) PROVE FALSE
  OBVIOUS
<1>2. at \in Nat \ {0} /\ Len(content) \in Nat /\ Len(settings.prefix) \in Nat
  BY LenProperties DEF SubTyped, Positions
<1>3. Starts \subseteq at..(Len(content) + 1) /\ k \in Starts
  BY <1>1, <1>2 DEF Occurrences, BeginsAt
<1>4. Ends(content, start) = {}
  BY <1>3 DEF HasPlaceholder, Ends
<1>5. Starts \in SUBSET Nat
  BY <1>2, <1>3
<1> HIDE DEF Starts
<1>6. start \in Nat /\ start <= k
  BY <1>3, <1>5, MinOfNats
<1> HIDE DEF start
<1>7. PICK j \in Ends(content, k) : TRUE
  BY <1>1 DEF BeginsAt
<1>8. j \in Ends(content, start)
  BY <1>2, <1>6, <1>7 DEF Ends, Occurrences
<1> QED
  BY <1>4, <1>8

\* Placeholders are replaced at all.
Substitutes == settings.replacement /\ settings.prefix # <<>>

\* What was built so far, followed by what the rest reads as, is what the content
\* reads as.
ReplacedSoFar ==
  /\ at \in Positions(content)
  /\ (phase = "replacing" /\ Substitutes) => out \o Rests(content)[at] = Rests(content)[1]
  /\ (phase = "replacing" /\ ~ Substitutes) => at = 1 /\ out = <<>>
  /\ EachReplacedOnce

\* A sign occurs in a text.
Occurs(x, s) == \E k \in DOMAIN s : s[k] = x

\* What occurs in a text occurs in what it is a part of.
LEMMA OccursInWhole ==
  ASSUME NEW S, NEW u \in Seq(S), NEW v \in Seq(S), NEW x
  PROVE  /\ u \o v \in Seq(S)
         /\ Occurs(x, u) => Occurs(x, u \o v)
         /\ Occurs(x, v) => Occurs(x, u \o v)
<1> DEFINE z == u \o v
           m == Len(u)
           n == Len(v)
<1>1. /\ z \in Seq(S) /\ Len(z) = m + n
      /\ \A k \in 1..(m + n) : z[k] = IF k <= m THEN u[k] ELSE v[k - m]
  BY ConcatProperties
<1>2. m \in Nat /\ n \in Nat /\ DOMAIN u = 1..m /\ DOMAIN v = 1..n
  BY LenProperties
<1> HIDE DEF z
<1>3. DOMAIN z = 1..(m + n)
  BY <1>1, LenProperties
<1> HIDE DEF m, n
<1>4. ASSUME NEW k \in 1..m PROVE k \in 1..(m + n) /\ z[k] = u[k]
  BY <1>1, <1>2
<1>5. ASSUME NEW k \in 1..n PROVE m + k \in 1..(m + n) /\ z[m + k] = v[k]
  <2>1. m + k \in 1..(m + n) /\ ~ (m + k <= m) /\ (m + k) - m = k
    BY <1>2
  <2> QED
    BY <1>1, <2>1
<1>6. Occurs(x, u) => Occurs(x, z)
  BY <1>2, <1>3, <1>4 DEF Occurs
<1>7. Occurs(x, v) => Occurs(x, z)
  BY <1>2, <1>3, <1>5 DEF Occurs
<1> QED
  BY <1>1, <1>6, <1>7 DEF z

\* A placeholder without a value marks the text.
LEMMA MarkIsSeen ==
  ASSUME NEW u \in Seq(Signs), NEW p \in Seq(Signs), NEW v \in Seq(Signs)
  PROVE  Occurs("?", u \o (p \o (<<"?">> \o v)))
<1>1. <<"?">> \in Seq(Signs) /\ Occurs("?", <<"?">>)
  <2>1. <<"?">> \in Seq(Signs) /\ DOMAIN <<"?">> = {1} /\ <<"?">>[1] = "?"
    BY DEF Signs
  <2> QED
    BY <2>1 DEF Occurs
<1> DEFINE w == <<"?">> \o v
           x == p \o w
<1>2. w \in Seq(Signs) /\ Occurs("?", w)
  BY <1>1, OccursInWhole
<1> HIDE DEF w
<1>3. x \in Seq(Signs) /\ Occurs("?", x)
  BY <1>2, OccursInWhole
<1> HIDE DEF x
<1>4. Occurs("?", u \o x)
  BY <1>3, OccursInWhole
<1> QED
  BY <1>4 DEF x, w

\* Each step of Substitute keeps it.
LEMMA ReplacedStep ==
  ASSUME SubTyped, ReplacedSoFar, SubNext
  PROVE  ReplacedSoFar'
<1> DEFINE L == Len(content)
           R == Rests(content)
<1>1. /\ phase = "replacing" /\ UNCHANGED <<content, settings>>
      /\ content \in Seq(Symbols) /\ out \in Seq(Signs) /\ L \in Nat /\ Positions(content) = 1..(L + 1)
  <2>1. \A x \in Seq(Symbols) : x \in Seq(Signs)
    BY DEF Signs
  <2>2. phase = "replacing" /\ UNCHANGED <<content, settings>>
    BY DEF SubNext, Replace, Unknown, CopyRest, Replacing
  <2>3. content \in Seq(Symbols) /\ out \in Seq(Symbols)
    BY DEF SubTyped
  <2> QED
    BY <2>1, <2>2, <2>3, LenProperties DEF Positions
<1>2. R' = R
  <2>1. content' = content /\ settings' = settings
    BY <1>1
  <2> QED
    BY <2>1 DEF Rests, Matches, Occurrences, Min
<1>4. Replaced(content)' = IF Substitutes THEN R[1] ELSE content
  <2>1. content' = content /\ settings' = settings
    BY <1>1
  <2>2. Replaced(content)' = IF Substitutes' THEN R'[1] ELSE content'
    BY Zenon DEF Replaced, Substitutes
  <2>3. Substitutes' <=> Substitutes
    BY <2>1 DEF Substitutes
  <2> QED
    BY <1>2, <2>1, <2>2, <2>3
<1>5. /\ at \in Positions(content)
      /\ Substitutes => out \o R[at] = R[1]
      /\ ~ Substitutes => at = 1 /\ out = <<>>
  BY <1>1 DEF ReplacedSoFar
<1>6. Positions(content)' = Positions(content) /\ (Substitutes' <=> Substitutes)
  BY <1>1 DEF Positions, Substitutes
<1>7. ASSUME Substitutes
      PROVE  R \in [Positions(content) -> Seq(Signs)] /\ settings.prefix # <<>>
  BY <1>1, <1>7, RestsDef DEF Substitutes
<1>8. ASSUME Substitutes, HasPlaceholder(content, at)
      PROVE  /\ Found.next \in Positions(content)
             /\ SubSeq(content, at, Found.start - 1) \in Seq(Signs)
             /\ ValueOf(Found.name) \in Seq(Signs)
             /\ R[at] = SubSeq(content, at, Found.start - 1) \o (ValueOf(Found.name) \o R[Found.next])
  <2>1. settings.prefix # <<>>
    BY <1>7, <1>8
  <2>2. /\ Found.start \in at..L /\ BeginsAt(content, Found.start)
        /\ \A k \in at..(Found.start - 1) : ~ BeginsAt(content, k)
        /\ Found.name = NameAt(content, Found.start) /\ Found.next = NextAt(content, Found.start)
    BY <1>5, <1>8, <2>1, FirstPlaceholder
  <2>3. Found.start \in Positions(content) /\ Found.start \in at..(L + 1) /\ ~ (Found.start > L)
    BY <1>1, <1>5, <2>2
  <2>4. /\ SubSeq(content, at, Found.start - 1) \in Seq(Signs)
        /\ R[at] = SubSeq(content, at, Found.start - 1) \o R[Found.start]
    BY <1>1, <1>5, <2>1, <2>2, <2>3, CopyOn
  <2>5. R[Found.start] = ValueOf(Found.name) \o R[Found.next]
    <3>1. R[Found.start] = RestAt(content, R, Found.start)
      BY <1>1, <2>1, <2>3, RestsDef
    <3> HIDE DEF R
    <3> QED
      BY <2>2, <2>3, <3>1 DEF RestAt
  <2>6. Found.next \in Positions(content)
    <3>1. NextAt(content, Found.start) \in (Found.start + 1)..(Len(content) + 1)
      BY <1>1, <2>1, <2>2, <2>3, NextRange
    <3> QED
      BY <1>1, <2>2, <2>3, <3>1
  <2>7. ValueOf(Found.name) \in Seq(Signs)
    BY ValueType
  <2> QED
    BY <2>4, <2>5, <2>6, <2>7
<1> HIDE DEF R
<1>9. CASE Replace
  <2> DEFINE P == SubSeq(content, at, Found.start - 1)
             V == settings.placeholders[Found.name]
             X == R[Found.next]
  <2>1. /\ HasPlaceholder(content, at) /\ Substitutes /\ Found.name \in DOMAIN settings.placeholders
        /\ out' = (out \o P) \o V /\ at' = Found.next /\ phase' = "replacing"
    BY <1>9 DEF Replace, Replacing, Substitutes
  <2>2. V = ValueOf(Found.name)
    BY <2>1 DEF ValueOf
  <2>3. /\ at' \in Positions(content) /\ P \in Seq(Signs) /\ V \in Seq(Signs) /\ X \in Seq(Signs)
        /\ R[at] = P \o (V \o X) /\ X = R[at']
    BY <1>7, <1>8, <2>1, <2>2
  <2>4. out \o (P \o (V \o X)) = R[1]
    BY <1>5, <2>1, <2>3
  <2>5. out' \o X = R[1]
    <3> HIDE DEF P, V, X
    <3>1. out \in Seq(Signs) /\ P \in Seq(Signs) /\ V \in Seq(Signs) /\ X \in Seq(Signs)
      BY <1>1, <2>3
    <3> DEFINE A == out \o P
               B == V \o X
    <3>2. A \in Seq(Signs) /\ B \in Seq(Signs)
      BY <3>1, ConcatProperties
    <3>3. out \o (P \o B) = A \o B
      <4> HIDE DEF A, B
      <4>1. out \in Seq(Signs) /\ P \in Seq(Signs) /\ B \in Seq(Signs)
        BY <3>1, <3>2
      <4>2. out \o (P \o B) = (out \o P) \o B
        BY <4>1, ConcatAssociative, SMTT(30)
      <4> QED
        BY <4>2 DEF A
    <3>4. A \o (V \o X) = (A \o V) \o X
      <4> HIDE DEF A, B
      <4>1. A \in Seq(Signs) /\ V \in Seq(Signs) /\ X \in Seq(Signs)
        BY <3>1, <3>2
      <4> QED
        BY <4>1, ConcatAssociative, SMTT(30)
    <3> QED
      BY <2>1, <2>4, <3>3, <3>4
  <2>6. EachReplacedOnce'
    BY <2>1 DEF EachReplacedOnce
  <2> HIDE DEF P, V, X
  <2> QED
    BY <1>2, <1>6, <2>1, <2>3, <2>5, <2>6 DEF ReplacedSoFar, R
<1>10. CASE Unknown
  <2> DEFINE P == SubSeq(content, at, Found.start - 1)
             X == R[Found.next]
  <2>1. /\ HasPlaceholder(content, at) /\ Substitutes /\ Found.name \notin DOMAIN settings.placeholders
        /\ out' = out /\ at' = at /\ phase' = "failed"
    BY <1>10 DEF Unknown, Replacing, Substitutes
  <2>2. ValueOf(Found.name) = <<"?">>
    BY <2>1 DEF ValueOf
  <2>3. P \in Seq(Signs) /\ X \in Seq(Signs) /\ R[at] = P \o (<<"?">> \o X)
    BY <1>7, <1>8, <2>1, <2>2
  <2>4. R[1] = out \o (P \o (<<"?">> \o X))
    BY <1>5, <2>1, <2>3
  <2> HIDE DEF P, X
  <2>5. Occurs("?", R[1])
    <3>1. Occurs("?", out \o (P \o (<<"?">> \o X)))
      BY <1>1, <2>3, MarkIsSeen
    <3> QED
      BY <2>4, <3>1
  <2>6. Replaced(content)' = R[1]
    BY <1>4, <2>1
  <2>7. EachReplacedOnce'
    <3>1. \E k \in DOMAIN Replaced(content)' : Replaced(content)'[k] = "?"
      BY <2>5, <2>6 DEF Occurs
    <3> QED
      BY <2>1, <3>1 DEF EachReplacedOnce
  <2> QED
    BY <1>5, <1>6, <2>1, <2>7 DEF ReplacedSoFar, R
<1>11. CASE CopyRest
  <2>1. /\ Replacing => ~ HasPlaceholder(content, at)
        /\ out' = out \o SubSeq(content, at, L) /\ at' = L + 1 /\ phase' = "done"
    BY <1>11 DEF CopyRest
  <2>2. ASSUME Substitutes PROVE out' = Replaced(content)'
    <3>1. settings.prefix # <<>> /\ ~ HasPlaceholder(content, at)
      BY <1>1, <2>1, <2>2 DEF Replacing, Substitutes
    <3>2. \A k \in at..L : ~ BeginsAt(content, k)
      BY <1>5, <3>1, NoPlaceholder
    <3>3. L + 1 \in at..(Len(content) + 1) /\ (L + 1) - 1 = L
      BY <1>1, <1>5
    <3>4. /\ SubSeq(content, at, L) \in Seq(Signs)
          /\ R[at] = SubSeq(content, at, L) \o R[L + 1]
      BY <1>1, <1>5, <3>1, <3>2, <3>3, CopyOn DEF R
    <3>5. R[L + 1] = <<>>
      BY <1>1, <3>1, RestAtEnd DEF R
    <3>6. R[at] = SubSeq(content, at, L)
      BY <3>4, <3>5, ConcatEmptySeq
    <3> QED
      BY <1>4, <1>5, <2>1, <2>2, <3>6
  <2>3. ASSUME ~ Substitutes PROVE out' = Replaced(content)'
    <3>1. out' = <<>> \o SubSeq(content, 1, L)
      BY <1>5, <2>1, <2>3
    <3>2. SubSeq(content, 1, L) = content
      BY <1>1
    <3>3. out' = content
      BY <1>1, <3>1, <3>2, ConcatEmptySeq
    <3> QED
      BY <1>4, <2>3, <3>3
  <2>4. out' = Replaced(content)'
    BY <1>4, <2>2, <2>3
  <2>5. EachReplacedOnce'
    BY <2>1, <2>4 DEF EachReplacedOnce
  <2>6. at' \in Positions(content)'
    BY <1>1, <1>6, <2>1
  <2> QED
    BY <2>1, <2>5, <2>6 DEF ReplacedSoFar, R
<1> QED
  BY <1>9, <1>10, <1>11 DEF SubNext

\* At the beginning nothing is built.
LEMMA ReplacedInit == Init => ReplacedSoFar
<1> SUFFICES ASSUME Init PROVE ReplacedSoFar
  OBVIOUS
<1>1. SubTyped /\ at = 1 /\ out = <<>> /\ phase = "replacing"
  BY InitInv DEF Inv, Init, SubInit
<1>2. at \in Positions(content)
  BY <1>1, LenProperties DEF Positions, SubTyped
<1>3. ASSUME Substitutes PROVE out \o Rests(content)[at] = Rests(content)[1]
  <2>1. 1 \in Positions(content) /\ Rests(content) \in [Positions(content) -> Seq(Signs)]
    BY <1>1, <1>2, <1>3, RestsDef DEF Substitutes, SubTyped
  <2>2. Rests(content)[1] \in Seq(Signs)
    BY <2>1
  <2> QED
    BY <1>1, <2>2, ConcatEmptySeq
<1> QED
  BY <1>1, <1>2, <1>3 DEF ReplacedSoFar, EachReplacedOnce

\* For every migration and all settings: each placeholder is replaced once, none
\* within a value, and the migration fails exactly when one has no value.
THEOREM ReplacedOnce == Spec => []EachReplacedOnce
<1>1. Init => Inv /\ ReplacedSoFar
  BY InitInv, ReplacedInit
<1>2. Inv /\ ReplacedSoFar /\ [Next]_vars => ReplacedSoFar'
  <2> SUFFICES ASSUME Inv, ReplacedSoFar, [Next]_vars PROVE ReplacedSoFar'
    OBVIOUS
  <2>1. CASE Substitution
    BY <2>1, ReplacedStep DEF Substitution, Inv
  <2>2. CASE UNCHANGED subVars
    <3>1. content' = content /\ settings' = settings /\ at' = at /\ out' = out /\ phase' = phase
      BY <2>2 DEF subVars
    <3>2. Rests(content)' = Rests(content)
      BY <3>1 DEF Rests, Matches, Occurrences, Min
    <3>3. Replaced(content)' = Replaced(content)
      BY <3>1, <3>2 DEF Replaced
    <3>4. EachReplacedOnce'
      BY <3>1, <3>3 DEF ReplacedSoFar, EachReplacedOnce
    <3> QED
      BY <3>1, <3>2, <3>4 DEF ReplacedSoFar, Positions, Substitutes
  <2> QED
    BY <2>1, <2>2 DEF Next, CallSplit, Splitting, vars
<1>3. ReplacedSoFar => EachReplacedOnce
  BY DEF ReplacedSoFar
<1> QED
  BY <1>1, <1>2, <1>3, NextInv, PTL DEF Spec

-----------------------------------------------------------------------------
(* Words for placeholders move no boundary.                                *)

\* Symbols that are part of no token, and those a placeholder is made of.
Marks == {"@", "{", "}"}
Inert == TagSymbols \cup Marks \cup {"$"}

\* s and t read alike up to words for parts of s: to[n] symbols of t are made of the
\* first n of s, those in `kept` are copied, and the others are inert and give words.
Aligned(s, t, to, kept) ==
  /\ s \in Seq(Symbols) /\ t \in Seq(Symbols)
  /\ kept \in SUBSET (1..Len(s))
  /\ to \in [0..Len(s) -> 0..Len(t)] /\ to[0] = 0 /\ to[Len(s)] = Len(t)
  /\ \A n \in kept : to[n] = to[n - 1] + 1 /\ t[to[n]] = s[n]
  /\ \A n \in (1..Len(s)) \ kept :
       /\ s[n] \in Inert /\ (s[n] = "$" => n < Len(s) /\ s[n + 1] \in Marks)
       /\ to[n - 1] <= to[n] /\ 0 < to[n] /\ t[to[n]] = "a"
       /\ \A j \in (to[n - 1] + 1)..to[n] : t[j] = "a"
       /\ to[n] = to[n - 1] => n > 1 /\ n - 1 \notin kept
  /\ \A n \in 2..Len(s) :
       /\ n - 1 \in kept /\ n \notin kept => s[n - 1] \notin TagSymbols \cup {"$"}
       /\ n - 1 \notin kept /\ n \in kept => s[n] \notin TagSymbols /\ s[n - 1] \in Marks
  /\ \A n \in 1..Len(s) : s[n] # "DELIMITER"

\* What that says, part by part.
LEMMA AlignedMeans ==
  ASSUME NEW s, NEW t, NEW to, NEW kept, Aligned(s, t, to, kept)
  PROVE  /\ s \in Seq(Symbols) /\ t \in Seq(Symbols) /\ Len(s) \in Nat /\ Len(t) \in Nat
         /\ \A n \in 0..Len(s) : to[n] \in 0..Len(t)
         /\ to[0] = 0 /\ to[Len(s)] = Len(t)
         /\ \A n \in kept : /\ n \in 1..Len(s) /\ n - 1 \in 0..Len(s)
                            /\ to[n] = to[n - 1] + 1 /\ t[to[n]] = s[n] /\ to[n] \in 1..Len(t)
<1>1. /\ s \in Seq(Symbols) /\ t \in Seq(Symbols) /\ to \in [0..Len(s) -> 0..Len(t)]
      /\ to[0] = 0 /\ to[Len(s)] = Len(t) /\ kept \in SUBSET (1..Len(s))
      /\ \A n \in kept : to[n] = to[n - 1] + 1 /\ t[to[n]] = s[n]
  BY Zenon DEF Aligned
<1>2. Len(s) \in Nat /\ Len(t) \in Nat
  BY <1>1, LenProperties
<1>3. \A n \in 0..Len(s) : to[n] \in 0..Len(t)
  BY <1>1
<1>4. ASSUME NEW n \in kept
      PROVE  n \in 1..Len(s) /\ n - 1 \in 0..Len(s) /\ n \in 0..Len(s)
  BY <1>1, <1>2
<1>5. ASSUME NEW n \in kept PROVE to[n] \in 1..Len(t)
  BY <1>1, <1>2, <1>3, <1>4
<1> QED
  BY <1>1, <1>2, <1>3, <1>4, <1>5

\* What n symbols give grows with n.
LEMMA AlignedGrows ==
  ASSUME NEW s, NEW t, NEW to, NEW kept, Aligned(s, t, to, kept)
  PROVE  /\ \A n \in 1..Len(s) : to[n - 1] <= to[n]
         /\ \A m \in 0..Len(s), n \in 0..Len(s) : m <= n => to[m] <= to[n]
<1>1. /\ Len(s) \in Nat /\ Len(t) \in Nat /\ \A n \in 0..Len(s) : to[n] \in Nat
  BY AlignedMeans
<1>2. \A n \in 1..Len(s) : to[n - 1] <= to[n]
  <2> TAKE n \in 1..Len(s)
  <2>1. n - 1 \in 0..Len(s)
    BY <1>1
  <2>2. CASE n \in kept
    BY <1>1, <2>1, <2>2, AlignedMeans
  <2>3. CASE n \notin kept
    BY <2>3 DEF Aligned
  <2> QED
    BY <2>2, <2>3
<1> DEFINE T == {d \in Nat : \A m \in 0..Len(s) : m + d <= Len(s) => to[m] <= to[m + d]}
<1>3. 0 \in T
  BY <1>1
<1>4. ASSUME NEW d \in T PROVE d + 1 \in T
  <2>1. SUFFICES ASSUME NEW m \in 0..Len(s), m + (d + 1) <= Len(s) PROVE to[m] <= to[m + (d + 1)]
    OBVIOUS
  <2>2. m + d <= Len(s) /\ m + d \in 0..Len(s) /\ m + (d + 1) \in 1..Len(s)
        /\ (m + (d + 1)) - 1 = m + d /\ m + (d + 1) \in 0..Len(s)
    BY <1>1, <2>1
  <2>3. to[m] <= to[m + d] /\ to[m + d] <= to[m + (d + 1)]
    BY <1>2, <2>1, <2>2
  <2> QED
    BY <1>1, <2>1, <2>2, <2>3
<1>5. T = Nat
  <2> HIDE DEF T
  <2>1. T \in SUBSET Nat
    BY DEF T
  <2> QED
    BY <1>3, <1>4, <2>1, NatInd
<1>6. ASSUME NEW m \in 0..Len(s), NEW n \in 0..Len(s), m <= n PROVE to[m] <= to[n]
  <2>1. n - m \in T
    <3> HIDE DEF T
    <3> QED
      BY <1>1, <1>5, <1>6
  <2>2. m + (n - m) = n
    BY <1>1
  <2> QED
    BY <1>1, <2>1, <2>2
<1> QED
  BY <1>2, <1>6

\* Each symbol of t is given by one of s.
LEMMA AlignedCovers ==
  ASSUME NEW s, NEW t, NEW to, NEW kept, Aligned(s, t, to, kept), NEW l \in 1..Len(t)
  PROVE  \E n \in 1..Len(s) : to[n - 1] < l /\ l <= to[n] /\ (n \in kept => l = to[n])
<1> DEFINE T == {n \in 0..Len(s) : l <= to[n]}
<1>1. /\ Len(s) \in Nat /\ Len(t) \in Nat /\ \A n \in 0..Len(s) : to[n] \in Nat
      /\ to[0] = 0 /\ to[Len(s)] = Len(t) /\ \A n \in kept : to[n] = to[n - 1] + 1
  BY AlignedMeans
<1>2. T \in SUBSET Nat /\ Len(s) \in T
  BY <1>1
<1>3. \A n \in T : n \in 0..Len(s) /\ l <= to[n]
  OBVIOUS
<1>4. \A n \in 0..Len(s) : n \notin T => to[n] < l
  BY <1>1
<1> HIDE DEF T
<1>5. PICK n \in T : \A m \in T : n <= m
  BY <1>2, MinOfNats
<1>6. n \in 1..Len(s) /\ n - 1 \in 0..Len(s) /\ n - 1 \notin T
  BY <1>1, <1>3, <1>5
<1>7. to[n - 1] < l /\ l <= to[n]
  BY <1>3, <1>4, <1>5, <1>6
<1> QED
  BY <1>1, <1>6, <1>7

\* Behind a copied symbol something follows in t where it does in s.
LEMMA AlignedStrict ==
  ASSUME NEW s, NEW t, NEW to, NEW kept, Aligned(s, t, to, kept), NEW n \in 0..Len(s),
         n = 0 \/ n \in kept, n < Len(s)
  PROVE  /\ n + 1 \in 1..Len(s) /\ to[n] < to[n + 1] /\ to[n] + 1 \in 1..Len(t)
         /\ n + 1 \notin kept => t[to[n] + 1] = "a"
         /\ n + 1 \in kept => to[n + 1] = to[n] + 1
<1>1. /\ Len(s) \in Nat /\ Len(t) \in Nat /\ \A j \in 0..Len(s) : to[j] \in 0..Len(t)
      /\ \A j \in kept : to[j] = to[j - 1] + 1
  BY AlignedMeans
<1>2. n + 1 \in 1..Len(s) /\ n + 1 \in 0..Len(s) /\ (n + 1) - 1 = n
  BY <1>1
<1>3. CASE n + 1 \in kept
  <2>1. to[n + 1] = to[n] + 1
    BY <1>1, <1>2, <1>3
  <2> QED
    BY <1>1, <1>2, <1>3, <2>1
<1>4. CASE n + 1 \notin kept
  <2>1. /\ to[n] <= to[n + 1] /\ \A j \in (to[n] + 1)..to[n + 1] : t[j] = "a"
        /\ to[n + 1] = to[n] => n + 1 > 1 /\ n \notin kept
    BY <1>2, <1>4 DEF Aligned
  <2>2. to[n] # to[n + 1]
    BY <1>1, <2>1
  <2>3. to[n] < to[n + 1] /\ to[n] + 1 \in (to[n] + 1)..to[n + 1]
    BY <1>1, <1>2, <2>1, <2>2
  <2> QED
    BY <1>1, <1>2, <1>4, <2>1, <2>3
<1> QED
  BY <1>3, <1>4

\* The symbols behind a copied one are the same in both, but for inert ones.
LEMMA AlignedAhead ==
  ASSUME NEW s, NEW t, NEW to, NEW kept, Aligned(s, t, to, kept), NEW n \in kept,
         NEW y, y \notin Inert
  PROVE  /\ n + 1 <= Len(s) /\ s[n + 1] = y <=> to[n] + 1 <= Len(t) /\ t[to[n] + 1] = y
         /\ n + 1 <= Len(s) /\ s[n + 1] = y => n + 1 \in kept
<1>1. /\ Len(s) \in Nat /\ Len(t) \in Nat /\ n \in 1..Len(s) /\ n \in 0..Len(s)
      /\ to[Len(s)] = Len(t) /\ \A j \in kept : t[to[j]] = s[j]
  BY AlignedMeans
<1>2. y # "a"
  BY DEF Inert, TagSymbols
<1>3. CASE n = Len(s)
  BY <1>1, <1>3
<1>4. CASE n < Len(s) /\ n + 1 \in kept
  <2>1. to[n + 1] = to[n] + 1 /\ to[n] + 1 \in 1..Len(t)
    BY <1>1, <1>4, AlignedStrict
  <2> QED
    BY <1>1, <1>4, <2>1
<1>5. CASE n < Len(s) /\ n + 1 \notin kept
  <2>1. n + 1 \in 1..Len(s) /\ t[to[n] + 1] = "a"
    BY <1>1, <1>5, AlignedStrict
  <2>2. s[n + 1] \in Inert
    BY <1>5, <2>1 DEF Aligned
  <2> QED
    BY <1>2, <2>1, <2>2
<1> QED
  BY <1>1, <1>3, <1>4, <1>5

\* An E before a copied quote begins the literal in both or in neither.
LEMMA AlignedE ==
  ASSUME NEW s, NEW t, NEW to, NEW kept, Aligned(s, t, to, kept), NEW n \in kept
  PROVE  AfterE(s, n) <=> AfterE(t, to[n])
<1>1. /\ Len(s) \in Nat /\ Len(t) \in Nat /\ n \in 1..Len(s) /\ to[0] = 0
      /\ \A j \in 0..Len(s) : to[j] \in 0..Len(t)
      /\ \A j \in kept : j \in 1..Len(s) /\ to[j] = to[j - 1] + 1 /\ t[to[j]] = s[j]
  BY AlignedMeans
<1>2. CASE n = 1
  <2>1. to[n] = 1
    BY <1>1, <1>2
  <2> QED
    BY <1>2, <2>1 DEF AfterE
<1>3. CASE n > 1 /\ n - 1 \notin kept
  <2>1. n \in 2..Len(s) /\ n - 1 \in 1..Len(s)
    BY <1>1, <1>3
  <2>2. s[n - 1] \in Marks /\ t[to[n - 1]] = "a"
    BY <1>3, <2>1 DEF Aligned
  <2>3. s[n - 1] # "E" /\ t[to[n] - 1] # "E"
    <3>1. to[n] - 1 = to[n - 1]
      BY <1>1, <2>1
    <3> QED
      BY <2>2, <3>1 DEF Marks
  <2> QED
    BY <2>3 DEF AfterE
<1>4. CASE n > 1 /\ n - 1 \in kept
  <2> DEFINE p == n - 1
             q == n - 2
  <2>1. /\ p \in kept /\ p \in 1..Len(s) /\ p - 1 = q /\ q \in 0..Len(s)
        /\ to[n] - 1 = to[p] /\ to[n] - 2 = to[q] /\ t[to[p]] = s[p] /\ to[n] \in Nat /\ to[n] > 1
        /\ (n = 2 <=> q = 0)
    <3>1. p \in 1..Len(s) /\ p - 1 = q /\ q \in 0..Len(s) /\ (n = 2 <=> q = 0)
      BY <1>1, <1>4
    <3> HIDE DEF p, q
    <3>2. to[p] = to[q] + 1 /\ t[to[p]] = s[p] /\ p \in kept
      BY <1>1, <1>4, <3>1 DEF p
    <3>3. to[n] = to[p] + 1
      BY <1>1 DEF p
    <3>4. to[q] \in Nat /\ n \in Nat /\ n > 1
      BY <1>1, <1>4, <3>1
    <3> QED
      BY <3>1, <3>2, <3>3, <3>4, SMTT(30)
  <2>2. CASE q = 0
    <3>1. to[n] = 2
      BY <1>1, <2>1, <2>2
    <3> HIDE DEF p, q
    <3> QED
      BY <1>4, <2>1, <2>2, <3>1 DEF AfterE
  <2>3. CASE q \in kept
    <3> HIDE DEF p, q
    <3>1. q \in 1..Len(s) /\ q - 1 \in 0..Len(s) /\ to[q] = to[q - 1] + 1 /\ t[to[q]] = s[q]
      BY <2>3, AlignedMeans
    <3>2. to[q - 1] \in Nat /\ to[n] \in Nat /\ n \in Nat
      <4>1. n \in 0..Len(s)
        BY <1>1
      <4> QED
        BY <1>1, <3>1, <4>1
    <3>3. q # 0 /\ to[q] # 0
      BY <3>1, <3>2
    <3>4. n # 2 /\ to[n] # 2
      BY <2>1, <3>2, <3>3
    <3>5. t[to[n] - 2] = s[n - 2] /\ t[to[n] - 1] = s[n - 1]
      BY <2>1, <3>1 DEF p, q
    <3> QED
      BY <1>4, <2>1, <3>4, <3>5 DEF AfterE
  <2>4. CASE q # 0 /\ q \notin kept
    <3>1. p \in 2..Len(s)
      BY <1>1, <2>1, <2>4
    <3>2. s[p] \notin TagSymbols
      BY <2>1, <2>4, <3>1 DEF Aligned
    <3>3. s[p] # "E" /\ t[to[n] - 1] # "E"
      BY <2>1, <3>2 DEF TagSymbols
    <3> QED
      BY <3>3 DEF AfterE
  <2> QED
    BY <2>2, <2>3, <2>4
<1> QED
  BY <1>1, <1>2, <1>3, <1>4

\* Where the letters behind position k end.
LEMMA LettersEnd ==
  ASSUME NEW s \in Seq(Symbols), NEW k \in 1..Len(s), NEW e
  PROVE  e = SkipAll(s, k + 1, TagSymbols) <=>
           /\ e \in (k + 1)..(Len(s) + 1)
           /\ \A j \in (k + 1)..(e - 1) : s[j] \in TagSymbols
           /\ e <= Len(s) => s[e] \notin TagSymbols
<1> DEFINE T == {j \in (k + 1)..Len(s) : s[j] \notin TagSymbols} \cup {Len(s) + 1}
           m == SkipAll(s, k + 1, TagSymbols)
<1>1. Len(s) \in Nat /\ k \in Nat /\ k <= Len(s)
  BY LenProperties
<1>2. T \in SUBSET Nat /\ T # {} /\ m = Min(T)
  BY <1>1 DEF SkipAll
<1>3. \A j : j \in T <=> j \in (k + 1)..(Len(s) + 1) /\ (j <= Len(s) => s[j] \notin TagSymbols)
  BY <1>1
<1> HIDE DEF T, m
<1>4. m \in T /\ \A j \in T : m <= j
  BY <1>2, MinOfNats
<1>5. m \in (k + 1)..(Len(s) + 1) /\ (m <= Len(s) => s[m] \notin TagSymbols)
  BY <1>3, <1>4
<1>6. \A j \in (k + 1)..(m - 1) : s[j] \in TagSymbols
  <2> SUFFICES ASSUME NEW j \in (k + 1)..(m - 1), s[j] \notin TagSymbols PROVE FALSE
    OBVIOUS
  <2>1. j \in (k + 1)..(Len(s) + 1) /\ ~ (m <= j)
    BY <1>1, <1>5
  <2> QED
    BY <1>3, <1>4, <2>1
<1>7. ASSUME e \in (k + 1)..(Len(s) + 1), \A j \in (k + 1)..(e - 1) : s[j] \in TagSymbols,
             e <= Len(s) => s[e] \notin TagSymbols
      PROVE  e = m
  <2>1. e \in T /\ m <= e
    BY <1>3, <1>4, <1>7
  <2>2. ~ (m < e)
    <3> SUFFICES ASSUME m < e PROVE FALSE
      OBVIOUS
    <3>1. m \in (k + 1)..(e - 1) /\ m <= Len(s)
      BY <1>1, <1>5, <1>7
    <3> QED
      BY <1>5, <1>7, <3>1
  <2> QED
    BY <1>1, <1>5, <1>7, <2>1, <2>2
<1> QED
  BY <1>5, <1>6, <1>7 DEF m

\* A tag: letters between dollar signs.
IsTag(by) ==
  /\ by \in Seq(Symbols) /\ Len(by) >= 2 /\ by[1] = "$" /\ by[Len(by)] = "$"
  /\ \A j \in 2..(Len(by) - 1) : by[j] \in TagSymbols

\* What a dollar sign opens is a tag.
LEMMA OpenedTag ==
  ASSUME NEW s \in Seq(Symbols), NEW k \in 1..Len(s), s[k] = "$", DollarTag(s, k) # <<>>
  PROVE  LET e == SkipAll(s, k + 1, TagSymbols)
         IN  /\ IsTag(DollarTag(s, k)) /\ e \in (k + 1)..Len(s) /\ s[e] = "$"
             /\ DollarTag(s, k) = SubSeq(s, k, e) /\ Len(DollarTag(s, k)) = e - k + 1
<1> DEFINE e == SkipAll(s, k + 1, TagSymbols)
           d == SubSeq(s, k, e)
<1>1. DollarTag(s, k) = d /\ e <= Len(s) /\ s[e] = "$"
  BY DEF DollarTag
<1>2. e \in (k + 1)..(Len(s) + 1) /\ \A j \in (k + 1)..(e - 1) : s[j] \in TagSymbols
  <2> DEFINE f == SkipAll(s, k + 1, TagSymbols)
  <2>1. e = f
    OBVIOUS
  <2> QED
    BY <2>1, LettersEnd
<1> HIDE DEF e
<1>3. Len(s) \in Nat /\ k \in Nat /\ e \in (k + 1)..Len(s)
  BY <1>1, <1>2, LenProperties
<1>4. d \in Seq(Symbols) /\ Len(d) = e - k + 1 /\ \A j \in 1..(e - k + 1) : d[j] = s[k + j - 1]
  <2>1. \A n \in k..e : s[n] \in Symbols
    BY <1>3
  <2>2. k \in Int /\ e \in Int /\ k <= e
    BY <1>3
  <2> QED
    BY <2>1, <2>2, SubSeqProperties, SMTT(30)
<1> HIDE DEF d
<1>5. d[1] = "$" /\ d[Len(d)] = "$"
  <2>1. 1 \in 1..(e - k + 1) /\ k + 1 - 1 = k /\ e - k + 1 \in 1..(e - k + 1)
        /\ k + (e - k + 1) - 1 = e
    BY <1>3
  <2>2. d[1] = s[k] /\ d[e - k + 1] = s[e]
    BY <1>4, <2>1
  <2> QED
    BY <1>1, <1>4, <2>2
<1>6. ASSUME NEW j \in 2..(Len(d) - 1) PROVE d[j] \in TagSymbols
  <2>1. j \in 1..(e - k + 1) /\ k + j - 1 \in (k + 1)..(e - 1)
    BY <1>3, <1>4
  <2> QED
    BY <1>2, <1>4, <2>1
<1>7. Len(d) >= 2
  BY <1>3, <1>4
<1>8. IsTag(d)
  BY <1>4, <1>5, <1>6, <1>7 DEF IsTag
<1> QED
  BY <1>1, <1>3, <1>4, <1>8 DEF e

\* A tag is met where a dollar sign would open it.
LEMMA TagMeans ==
  ASSUME NEW s \in Seq(Symbols), NEW k \in 1..Len(s), NEW by, IsTag(by)
  PROVE  Matches(s, by, k) <=> s[k] = "$" /\ DollarTag(s, k) = by
<1> DEFINE b == Len(by)
           f == k + b - 1
<1>1. /\ by \in Seq(Symbols) /\ b \in Nat /\ b >= 2 /\ by[1] = "$" /\ by[b] = "$"
      /\ \A j \in 2..(b - 1) : by[j] \in TagSymbols
      /\ Len(s) \in Nat /\ k \in Nat \ {0} /\ k <= Len(s)
  BY LenProperties DEF IsTag
<1>2. ASSUME Matches(s, by, k) PROVE s[k] = "$" /\ DollarTag(s, k) = by
  <2>1. f <= Len(s) /\ \A j \in 1..b : s[k + j - 1] = by[j]
    BY <1>1, <1>2, MatchesSymbols
  <2>2. SubSeq(s, k, f) = by
    BY <1>2 DEF Matches
  <2> HIDE DEF b
  <2>3. s[k] = "$" /\ s[f] = "$"
    <3>1. 1 \in 1..b /\ k + 1 - 1 = k /\ b \in 1..b
      BY <1>1
    <3>2. s[k + 1 - 1] = by[1] /\ s[k + b - 1] = by[b]
      BY <2>1, <3>1
    <3> QED
      BY <1>1, <3>1, <3>2
  <2>4. ASSUME NEW n \in (k + 1)..(f - 1) PROVE s[n] \in TagSymbols
    <3>1. n - k + 1 \in 1..b /\ n - k + 1 \in 2..(b - 1) /\ k + (n - k + 1) - 1 = n
      BY <1>1
    <3>2. s[k + (n - k + 1) - 1] = by[n - k + 1]
      BY <2>1, <3>1
    <3> QED
      BY <1>1, <3>1, <3>2
  <2>5. f \in (k + 1)..(Len(s) + 1)
    BY <1>1, <2>1
  <2>6. "$" \notin TagSymbols
    BY DEF TagSymbols
  <2>7. f = SkipAll(s, k + 1, TagSymbols)
    <3> HIDE DEF f
    <3> QED
      BY <2>3, <2>4, <2>5, <2>6, LettersEnd
  <2> HIDE DEF f
  <2> QED
    BY <2>1, <2>2, <2>3, <2>7 DEF DollarTag
<1>3. ASSUME s[k] = "$", DollarTag(s, k) = by PROVE Matches(s, by, k)
  <2> DEFINE e == SkipAll(s, k + 1, TagSymbols)
  <2>1. by # <<>>
    BY <1>1, EmptySeq
  <2>2. e \in (k + 1)..Len(s) /\ by = SubSeq(s, k, e) /\ b = e - k + 1
    BY <1>3, <2>1, OpenedTag
  <2>3. f = e /\ f <= Len(s)
    BY <1>1, <2>2, SMTT(30)
  <2> HIDE DEF e
  <2> QED
    BY <2>2, <2>3 DEF Matches
<1> QED
  BY <1>2, <1>3

\* Behind a copied dollar sign the letters are copied, and what ends them.
LEMMA AlignedLetters ==
  ASSUME NEW s, NEW t, NEW to, NEW kept, Aligned(s, t, to, kept), NEW n \in kept, s[n] = "$"
  PROVE  LET c == SkipAll(s, n + 1, TagSymbols) - n
         IN  /\ \A x \in 0..c : n + x <= Len(s) => n + x \in kept /\ to[n + x] = to[n] + x
             /\ to[n] + c = SkipAll(t, to[n] + 1, TagSymbols)
             /\ n + c <= Len(s) <=> to[n] + c <= Len(t)
<1> DEFINE e == SkipAll(s, n + 1, TagSymbols)
           c == e - n
           T == {x \in Nat : (x <= c /\ n + x <= Len(s)) => n + x \in kept /\ to[n + x] = to[n] + x}
<1>1. /\ s \in Seq(Symbols) /\ t \in Seq(Symbols) /\ Len(s) \in Nat /\ Len(t) \in Nat
      /\ \A j \in 0..Len(s) : to[j] \in 0..Len(t)
      /\ n \in 1..Len(s) /\ to[n] \in 1..Len(t) /\ to[Len(s)] = Len(t)
      /\ \A j \in kept : j \in 1..Len(s) /\ to[j] = to[j - 1] + 1 /\ t[to[j]] = s[j]
                          /\ to[j] \in 1..Len(t)
  BY AlignedMeans
<1>2. /\ e \in (n + 1)..(Len(s) + 1) /\ \A j \in (n + 1)..(e - 1) : s[j] \in TagSymbols
      /\ e <= Len(s) => s[e] \notin TagSymbols
  <2> DEFINE f == SkipAll(s, n + 1, TagSymbols)
  <2>1. e = f
    OBVIOUS
  <2> QED
    BY <1>1, <2>1, LettersEnd
<1> HIDE DEF e
<1>3. c \in Nat /\ c >= 1 /\ n + c = e
  BY <1>1, <1>2
<1> HIDE DEF c
<1>n. n \in Nat /\ n >= 1 /\ to[n] \in Nat /\ e \in Nat
  BY <1>1, <1>2
<1>4. 0 \in T
  BY <1>1
<1>5. ASSUME NEW x \in T PROVE x + 1 \in T
  <2>1. SUFFICES ASSUME x + 1 <= c, n + (x + 1) <= Len(s)
                 PROVE  n + (x + 1) \in kept /\ to[n + (x + 1)] = to[n] + (x + 1)
    OBVIOUS
  <2> DEFINE p == n + x
             q == n + (x + 1)
  <2>2. /\ x \in Nat /\ x <= c /\ p <= Len(s) /\ p \in kept /\ to[p] = to[n] + x
    BY <1>1, <1>3, <2>1
  <2>3. q \in 2..Len(s) /\ q - 1 = p /\ p \in n..(e - 1)
    BY <1>1, <1>3, <2>1, <2>2
  <2>4. s[p] \in TagSymbols \cup {"$"}
    BY <1>1, <1>2, <2>3, SMTT(30)
  <2> HIDE DEF p, q
  <2>5. q \in kept
    BY <2>2, <2>3, <2>4 DEF Aligned
  <2>6. to[q] = to[n] + (x + 1)
    <3>1. to[q] = to[p] + 1
      BY <1>1, <2>3, <2>5
    <3>2. to[n] \in Nat /\ x \in Nat
      BY <1>1
    <3> QED
      BY <2>2, <3>1, <3>2
  <2> QED
    BY <2>5, <2>6 DEF q
<1>6. T = Nat
  <2>1. T \in SUBSET Nat
    OBVIOUS
  <2> HIDE DEF T
  <2> QED
    BY <1>4, <1>5, <2>1, NatInd
<1>7. ASSUME NEW x \in 0..c, n + x <= Len(s) PROVE n + x \in kept /\ to[n + x] = to[n] + x
  <2>1. x \in T /\ x <= c
    <3> HIDE DEF T
    <3> QED
      BY <1>3, <1>6
  <2> QED
    BY <1>7, <2>1
<1>8. ASSUME NEW x \in 0..c, n + x <= Len(s)
      PROVE  t[to[n] + x] = s[n + x] /\ to[n] + x \in 1..Len(t)
  <2>1. n + x \in kept /\ to[n + x] = to[n] + x
    BY <1>7, <1>8
  <2> QED
    BY <1>1, <2>1
<1> DEFINE f == to[n] + c
<1>9. f <= Len(t) + 1 /\ (e <= Len(s) <=> f <= Len(t))
  <2>1. CASE e <= Len(s)
    <3>1. c \in 0..c /\ n + c <= Len(s)
      BY <1>3, <2>1
    <3>2. f \in 1..Len(t)
      BY <1>8, <3>1
    <3> QED
      BY <1>1, <2>1, <3>2
  <2>2. CASE ~ (e <= Len(s))
    <3>1. e = Len(s) + 1 /\ c - 1 \in 0..c /\ n + (c - 1) = Len(s) /\ n + (c - 1) <= Len(s)
      BY <1>1, <1>2, <1>3, <2>2
    <3>2. to[Len(s)] = to[n] + (c - 1)
      BY <1>7, <3>1
    <3>3. f = Len(t) + 1
      BY <1>1, <1>3, <3>2
    <3> QED
      BY <1>1, <2>2, <3>3
  <2> QED
    BY <2>1, <2>2
<1>10. ASSUME NEW j \in (to[n] + 1)..(f - 1) PROVE t[j] \in TagSymbols
  <2> DEFINE x == j - to[n]
  <2>1. x \in 0..c /\ n + x \in (n + 1)..(e - 1) /\ to[n] + x = j
    BY <1>3, <1>n
  <2>3. n + x <= Len(s)
    BY <1>1, <1>2, <2>1, SMTT(30)
  <2> HIDE DEF x
  <2>2. t[j] = s[n + x]
    BY <1>8, <2>1, <2>3
  <2> QED
    BY <1>2, <2>1, <2>2
<1>11. f <= Len(t) => t[f] \notin TagSymbols
  <2>1. SUFFICES ASSUME f <= Len(t) PROVE t[f] \notin TagSymbols
    OBVIOUS
  <2>2. c \in 0..c /\ n + c <= Len(s)
    BY <1>3, <1>9, <2>1
  <2>3. t[f] = s[e]
    BY <1>3, <1>8, <2>2
  <2> QED
    BY <1>2, <1>3, <2>2, <2>3
<1>12. f = SkipAll(t, to[n] + 1, TagSymbols)
  <2>1. f \in (to[n] + 1)..(Len(t) + 1)
    BY <1>1, <1>3, <1>9
  <2> HIDE DEF f
  <2> QED
    BY <1>1, <1>10, <1>11, <2>1, LettersEnd, ZenonT(30)
<1> QED
  BY <1>3, <1>7, <1>9, <1>12 DEF c, e

\* A copied dollar sign opens the same tag in both.
LEMMA AlignedTag ==
  ASSUME NEW s, NEW t, NEW to, NEW kept, Aligned(s, t, to, kept), NEW n \in kept, s[n] = "$"
  PROVE  /\ DollarTag(s, n) = DollarTag(t, to[n])
         /\ DollarTag(s, n) # <<>> =>
              \A j \in n..(n + Len(DollarTag(s, n)) - 1) : j \in kept
<1> DEFINE e == SkipAll(s, n + 1, TagSymbols)
           c == e - n
           f == to[n] + c
<1>1. /\ s \in Seq(Symbols) /\ t \in Seq(Symbols) /\ Len(s) \in Nat /\ Len(t) \in Nat
      /\ n \in 1..Len(s) /\ to[n] \in 1..Len(t) /\ \A j \in kept : t[to[j]] = s[j]
  BY AlignedMeans
<1>2. /\ \A x \in 0..c : n + x <= Len(s) => n + x \in kept /\ to[n + x] = to[n] + x
      /\ f = SkipAll(t, to[n] + 1, TagSymbols)
      /\ n + c <= Len(s) <=> f <= Len(t)
  BY AlignedLetters
<1>3. e \in (n + 1)..(Len(s) + 1)
  <2>1. e = SkipAll(s, n + 1, TagSymbols)
    OBVIOUS
  <2> QED
    BY <1>1, <2>1, LettersEnd
<1>4. /\ DollarTag(s, n) = IF e <= Len(s) /\ s[e] = "$" THEN SubSeq(s, n, e) ELSE <<>>
      /\ DollarTag(t, to[n]) = IF f <= Len(t) /\ t[f] = "$" THEN SubSeq(t, to[n], f) ELSE <<>>
  BY <1>2 DEF DollarTag
<1>5. c \in Nat /\ n + c = e
  BY <1>1, <1>3
<1> HIDE DEF e, c
<1>6. ASSUME e <= Len(s) PROVE t[f] = s[e] /\ SubSeq(t, to[n], f) = SubSeq(s, n, e)
  <2>1. \A x \in 0..c : n + x \in kept /\ to[n + x] = to[n] + x
    <3>1. \A x \in 0..c : n + x <= Len(s)
      BY <1>1, <1>5, <1>6
    <3> QED
      BY <1>2, <3>1
  <2>2. \A x \in 0..c : t[to[n] + x] = s[n + x]
    BY <1>1, <2>1
  <2> DEFINE u == SubSeq(s, n, e)
             v == SubSeq(t, to[n], f)
  <2>3. u \in Seq(Symbols) /\ Len(u) = c + 1 /\ \A j \in 1..(c + 1) : u[j] = s[n + j - 1]
    <3>1. \A j \in n..e : s[j] \in Symbols
      <4>1. \A j \in n..e : j \in 1..Len(s)
        BY <1>1, <1>3, <1>6
      <4> QED
        BY <1>1, <4>1
    <3>2. n \in Int /\ e \in Int /\ n <= e /\ e - n + 1 = c + 1
      BY <1>1, <1>3, <1>5
    <3> QED
      BY <3>1, <3>2, SubSeqProperties
  <2>4. v \in Seq(Symbols) /\ Len(v) = c + 1 /\ \A j \in 1..(c + 1) : v[j] = t[to[n] + j - 1]
    <3>1. to[n] \in Int /\ f \in Int /\ to[n] <= f /\ f - to[n] + 1 = c + 1
      BY <1>1, <1>5
    <3>2. f <= Len(t)
      BY <1>2, <1>5, <1>6
    <3>3. \A j \in to[n]..f : t[j] \in Symbols
      BY <1>1, <3>1, <3>2
    <3> HIDE DEF f
    <3> QED
      BY <3>1, <3>3, SubSeqProperties
  <2> HIDE DEF u, v
  <2>5. \A j \in 1..(c + 1) : u[j] = v[j]
    <3> TAKE j \in 1..(c + 1)
    <3>1. j - 1 \in 0..c /\ n + (j - 1) = n + j - 1 /\ to[n] + (j - 1) = to[n] + j - 1
      BY <1>1, <1>5
    <3> QED
      BY <2>2, <2>3, <2>4, <3>1
  <2>6. u = v
    BY <2>3, <2>4, <2>5, SeqEqual
  <2>7. t[f] = s[e]
    <3>1. c \in 0..c
      BY <1>5
    <3> QED
      BY <1>5, <2>2, <3>1
  <2> QED
    BY <2>6, <2>7 DEF u, v
<1>7. DollarTag(s, n) = DollarTag(t, to[n])
  <2>1. e <= Len(s) <=> f <= Len(t)
    BY <1>2, <1>5
  <2> HIDE DEF f
  <2>2. CASE e <= Len(s)
    <3>1. t[f] = s[e] /\ SubSeq(t, to[n], f) = SubSeq(s, n, e)
      BY <1>6, <2>2
    <3> QED
      BY <1>4, <2>1, <2>2, <3>1
  <2>3. CASE ~ (e <= Len(s))
    BY <1>4, <2>1, <2>3
  <2> QED
    BY <2>2, <2>3
<1>8. ASSUME DollarTag(s, n) # <<>>, NEW j \in n..(n + Len(DollarTag(s, n)) - 1) PROVE j \in kept
  <2>1. Len(DollarTag(s, n)) = e - n + 1 /\ e \in (n + 1)..Len(s)
    BY <1>1, <1>8, OpenedTag DEF e
  <2> DEFINE x == j - n
  <2>2. x \in 0..c /\ n + x = j /\ n + x <= Len(s)
    BY <1>1, <1>5, <1>8, <2>1
  <2> HIDE DEF x
  <2>3. n + x \in kept
    BY <1>2, <2>2
  <2> QED
    BY <2>2, <2>3
<1> QED
  BY <1>7, <1>8

\* The modes a script without delimiter lines is read in.
Steady(m) ==
  /\ m \in Mode /\ m.delimiter = <<Semicolon>> /\ (m.cut => m.in = "code")
  /\ m.in = "quote" => m.skip <= 1 /\ \E q \in Quotes : m.by = <<q>>
  /\ m.in = "dollar" => IsTag(m.by)

NoWord(s) == \A k \in DOMAIN s : s[k] # "DELIMITER"

\* The mode inside of a word or a placeholder that was reached in mode m.
Inside(m) == IF m.in = "code" THEN [m EXCEPT !.cut = FALSE, !.line = FALSE, !.begun = TRUE]
             ELSE [m EXCEPT !.skip = 0]

\* Inside of a word nothing changes.
LEMMA InsideStays ==
  ASSUME NEW m, Steady(m), m.skip = 0 \/ m.in = "quote"
  PROVE  /\ Steady(Inside(m)) /\ Inside(m).skip = 0 /\ ~ Inside(m).cut
         /\ Inside(Inside(m)) = Inside(m)
<1>1. m \in ModeRecords /\ m.delimiter # <<>> /\ (m.in = "dollar" => m.by # <<>>)
  BY DEF Steady, Mode
<1>2. CASE m.in = "code"
  <2> DEFINE r == [m EXCEPT !.cut = FALSE, !.line = FALSE, !.begun = TRUE]
  <2>1. Inside(m) = r /\ m.skip = 0
    BY <1>2, <1>1 DEF Inside
  <2>2. /\ r \in ModeRecords /\ r.delimiter = m.delimiter /\ r.in = "code" /\ r.skip = 0 /\ ~ r.cut
        /\ [r EXCEPT !.cut = FALSE, !.line = FALSE, !.begun = TRUE] = r
    BY <1>1, <1>2, <2>1 DEF ModeRecords
  <2> HIDE DEF r
  <2>3. Inside(r) = r
    BY <2>2 DEF Inside
  <2>4. Steady(r)
    BY <1>1, <2>2 DEF Steady, Mode
  <2> QED
    BY <2>1, <2>2, <2>3, <2>4
<1>3. CASE m.in # "code"
  <2> DEFINE r == [m EXCEPT !.skip = 0]
  <2>1. Inside(m) = r
    BY <1>3 DEF Inside
  <2>2. /\ r \in ModeRecords /\ r.delimiter = m.delimiter /\ r.in = m.in /\ r.by = m.by
        /\ r.skip = 0 /\ r.cut = m.cut /\ [r EXCEPT !.skip = 0] = r
    BY <1>1 DEF ModeRecords
  <2> HIDE DEF r
  <2>3. Inside(r) = r
    BY <1>3, <2>2 DEF Inside
  <2>4. Steady(r) /\ ~ r.cut
    BY <1>1, <1>3, <2>2 DEF Steady, Mode
  <2> QED
    BY <2>1, <2>2, <2>3, <2>4
<1> QED
  BY <1>2, <1>3

\* After an inert symbol that begins no tag the reader is inside of a word.
LEMMA AtInert ==
  ASSUME Agrees, NEW s \in Seq(Symbols), NoWord(s), NEW k \in 1..Len(s), s[k] \in Inert,
         s[k] = "$" => k < Len(s) /\ s[k + 1] \in Marks,
         NEW m, Steady(m), m.skip = 0 \/ m.in = "quote"
  PROVE  After(s, m, k) = Inside(m)
<1>1. /\ m \in Mode /\ m \in ModeRecords /\ m.delimiter = <<Semicolon>> /\ m.skip \in Nat
      /\ m.in \in {"code", "line", "block", "quote", "dollar"} /\ Len(s) \in Nat
  BY LenProperties DEF Steady, Mode, ModeRecords
<1>2. /\ s[k] \notin {"-", "/", "*", "#", "'", "dq", "bq", "nl", "\\", Semicolon, "cr", " "}
      /\ s[k] \notin Quotes /\ s[k] \notin Blanks /\ ~ IsQuote(s[k])
  BY DEF Inert, TagSymbols, Marks, Semicolon, Quotes, Blanks, IsQuote
<1>3. \A x \in {"-", "/", "*"}, y \in {"-", "/", "*"} : ~ Matches(s, <<x, y>>, k)
  <2> TAKE x \in {"-", "/", "*"}, y \in {"-", "/", "*"}
  <2>1. x \in Symbols /\ y \in Symbols
    BY TokenSymbols
  <2> QED
    BY <1>2, <2>1, TwoMatch
<1>4. ~ Directive(s, k).found
  <2>1. k \in 1..(Len(s) + 1)
    BY <1>1
  <2> QED
    BY <2>1, DirectiveRange DEF NoWord
<1>5. ~ Matches(s, m.delimiter, k)
  <2>1. Semicolon \in Symbols
    BY DEF Semicolon, Symbols
  <2>2. s[k] # Semicolon
    BY <1>2
  <2>3. Matches(s, <<Semicolon>>, k) <=> s[k] = Semicolon
    BY <2>1, OneMatches
  <2> QED
    BY <1>1, <2>2, <2>3
<1>6. s[k] = "$" => DollarTag(s, k) = <<>>
  <2> SUFFICES ASSUME s[k] = "$", DollarTag(s, k) # <<>> PROVE FALSE
    OBVIOUS
  <2> DEFINE e == SkipAll(s, k + 1, TagSymbols)
  <2>1. e \in (k + 1)..Len(s) /\ s[e] = "$"
    BY OpenedTag
  <2>2. s[k + 1] \notin TagSymbols /\ s[k + 1] # "$"
    BY DEF Marks, TagSymbols
  <2>3. \A j \in (k + 1)..(e - 1) : s[j] \in TagSymbols
    <3>1. e = SkipAll(s, k + 1, TagSymbols)
      OBVIOUS
    <3> QED
      BY <3>1, LettersEnd
  <2> HIDE DEF e
  <2>4. e = k + 1
    BY <1>1, <2>1, <2>2, <2>3
  <2> QED
    BY <2>1, <2>2, <2>4
<1>7. CASE m.in = "code"
  <2> DEFINE here == [m EXCEPT !.cut = FALSE, !.line = FALSE]
             r == [here EXCEPT !.begun = here.begun \/ s[k] \notin Blanks, !.line = (s[k] = "nl")]
  <2>1. m.skip = 0 /\ ~ OpensDollar(s, m, k) /\ "hashComments" \notin Server
    BY <1>6, <1>7, AgreesMeans DEF OpensDollar
  <2>2. After(s, m, k) = r
    <3>1. After(s, m, k) = FromCode(s, m, k)
      BY <1>7, <2>1 DEF After
    <3> QED
      BY <1>2, <1>3, <1>4, <1>5, <2>1, <3>1 DEF FromCode
  <2>3. (here.begun \/ s[k] \notin Blanks) = TRUE /\ (s[k] = "nl") = FALSE
    BY <1>2
  <2>4. r = [here EXCEPT !.begun = TRUE, !.line = FALSE]
    BY <2>3, Zenon
  <2>5. [here EXCEPT !.begun = TRUE, !.line = FALSE]
          = [m EXCEPT !.cut = FALSE, !.line = FALSE, !.begun = TRUE]
    BY <1>1 DEF ModeRecords
  <2> QED
    BY <1>7, <2>2, <2>4, <2>5 DEF Inside
<1>8. CASE m.in = "quote"
  <2>1. Inside(m) = [m EXCEPT !.skip = 0]
    BY <1>8 DEF Inside
  <2>2. PICK q \in Quotes : m.by = <<q>>
    BY <1>8 DEF Steady
  <2>3. CASE m.skip > 0
    <3>1. m.skip - 1 = 0
      BY <1>1, <1>8, <2>3 DEF Steady
    <3> QED
      BY <2>1, <2>3, <3>1 DEF After
  <2>4. CASE m.skip = 0
    <3>1. q \in Symbols /\ s[k] # q
      BY <1>2, TokenSymbols DEF Quotes
    <3>2. ~ Matches(s, <<q, q>>, k)
      BY <3>1, TwoMatch
    <3>3. s[k] # "\\"
      BY <1>2
    <3>4. After(s, m, k) = m
      <4>1. After(s, m, k) = IF (m.escapes /\ s[k] = "\\") \/ Matches(s, <<q, q>>, k)
                             THEN [m EXCEPT !.skip = 1]
                             ELSE IF s[k] = q THEN Back(m, 1) ELSE m
        BY <1>1, <1>8, <2>2, <2>4, InTheQuote
      <4> QED
        BY <3>1, <3>2, <3>3, <4>1
    <3>5. [m EXCEPT !.skip = 0] = m
      BY <1>1, <2>4 DEF ModeRecords
    <3> QED
      BY <2>1, <3>4, <3>5
  <2> QED
    BY <1>1, <2>3, <2>4
<1>9. CASE m.in \in {"line", "block", "dollar"}
  <2>1. m.skip = 0 /\ Inside(m) = m
    <3>1. m.skip = 0 /\ Inside(m) = [m EXCEPT !.skip = 0]
      BY <1>9 DEF Inside
    <3>2. [m EXCEPT !.skip = 0] = m
      BY <1>1, <3>1 DEF ModeRecords
    <3> QED
      BY <3>1, <3>2
  <2>2. CASE m.in = "line"
    <3>1. After(s, m, k) = IF s[k] = "nl" THEN [Back(m, 1) EXCEPT !.line = TRUE] ELSE m
      BY <2>1, <2>2 DEF After
    <3> QED
      BY <1>2, <2>1, <3>1
  <2>3. CASE m.in = "block"
    <3>1. ~ Matches(s, <<"*", "/">>, k) /\ ~ Matches(s, <<"/", "*">>, k)
      BY <1>3
    <3> QED
      BY <2>1, <2>3, <3>1 DEF After
  <2>4. CASE m.in = "dollar"
    <3>1. IsTag(m.by) /\ m.by # <<>>
      BY <2>4 DEF Steady, Mode
    <3>2. ~ Matches(s, m.by, k)
      BY <1>6, <3>1, TagMeans
    <3> QED
      BY <2>1, <2>4, <3>2 DEF After
  <2> QED
    BY <1>9, <2>2, <2>3, <2>4
<1> QED
  BY <1>1, <1>7, <1>8, <1>9

\* Two texts that look alike ahead are read on alike.
LEMMA SameAfter ==
  ASSUME Agrees, NEW s \in Seq(Symbols), NEW t \in Seq(Symbols), NoWord(s), NoWord(t),
         NEW k \in 1..Len(s), NEW l \in 1..Len(t), s[k] = t[l],
         \A x \in Symbols, y \in Symbols \ Inert : Matches(s, <<x, y>>, k) <=> Matches(t, <<x, y>>, l),
         AfterE(s, k) <=> AfterE(t, l),
         s[k] = "$" => DollarTag(s, k) = DollarTag(t, l),
         NEW m, Steady(m)
  PROVE  After(s, m, k) = After(t, m, l)
<1>1. /\ m \in Mode /\ m.delimiter = <<Semicolon>> /\ m.skip \in Nat
      /\ m.in \in {"code", "line", "block", "quote", "dollar"}
  BY DEF Steady, Mode, ModeRecords
<1>2. ~ Directive(s, k).found /\ ~ Directive(t, l).found
  <2>1. k \in 1..(Len(s) + 1) /\ l \in 1..(Len(t) + 1)
    BY LenProperties
  <2> QED
    BY <2>1, DirectiveRange DEF NoWord
<1>3. /\ Matches(s, <<"-", "-">>, k) <=> Matches(t, <<"-", "-">>, l)
      /\ Matches(s, <<"/", "*">>, k) <=> Matches(t, <<"/", "*">>, l)
      /\ Matches(s, <<"*", "/">>, k) <=> Matches(t, <<"*", "/">>, l)
      /\ \A q \in Quotes : Matches(s, <<q, q>>, k) <=> Matches(t, <<q, q>>, l)
  <2>1. {"-", "*", "/", "'", "dq", "bq"} \subseteq Symbols \ Inert
    BY DEF Symbols, Inert, TagSymbols, Marks
  <2>2. \A q \in Quotes : q \in Symbols \ Inert
    BY <2>1 DEF Quotes
  <2> QED
    BY <2>1, <2>2
<1>4. Matches(s, m.delimiter, k) <=> Matches(t, m.delimiter, l)
  <2>1. Semicolon \in Symbols
    BY DEF Semicolon, Symbols
  <2>2. Matches(s, <<Semicolon>>, k) <=> s[k] = Semicolon
    BY <2>1, OneMatches
  <2>3. Matches(t, <<Semicolon>>, l) <=> t[l] = Semicolon
    BY <2>1, OneMatches
  <2> QED
    BY <1>1, <2>2, <2>3
<1>5. OpensDollar(s, m, k) <=> OpensDollar(t, m, l)
  BY AgreesMeans DEF OpensDollar
<1>6. CASE m.skip > 0
  BY <1>6 DEF After
<1>7. CASE m.skip = 0 /\ m.in = "code"
  <2>1. After(s, m, k) = FromCode(s, m, k) /\ After(t, m, l) = FromCode(t, m, l)
    BY <1>7 DEF After
  <2>2. \A h : InQuote(s, h, k) = InQuote(t, h, l)
    BY DEF InQuote
  <2>3. OpensDollar(s, m, k) => DollarTag(s, k) = DollarTag(t, l)
    BY DEF OpensDollar
  <2>4. FromCode(s, m, k) = FromCode(t, m, l)
    BY <1>2, <1>3, <1>4, <1>5, <2>2, <2>3 DEF FromCode
  <2> QED
    BY <2>1, <2>4
<1>8. CASE m.skip = 0 /\ m.in = "line"
  BY <1>8 DEF After
<1>9. CASE m.skip = 0 /\ m.in = "block"
  <2>1. /\ Matches(s, <<"*", "/">>, k) <=> Matches(t, <<"*", "/">>, l)
        /\ Matches(s, <<"/", "*">>, k) <=> Matches(t, <<"/", "*">>, l)
    BY <1>3
  <2> QED
    BY <1>9, <2>1 DEF After
<1>10. CASE m.skip = 0 /\ m.in = "quote"
  <2>1. PICK q \in Quotes : m.by = <<q>>
    BY <1>10 DEF Steady
  <2>2. /\ After(s, m, k) = IF (m.escapes /\ s[k] = "\\") \/ Matches(s, <<q, q>>, k)
                            THEN [m EXCEPT !.skip = 1]
                            ELSE IF s[k] = q THEN Back(m, 1) ELSE m
        /\ After(t, m, l) = IF (m.escapes /\ t[l] = "\\") \/ Matches(t, <<q, q>>, l)
                            THEN [m EXCEPT !.skip = 1]
                            ELSE IF t[l] = q THEN Back(m, 1) ELSE m
    BY <1>1, <1>10, <2>1, InTheQuote
  <2>3. Matches(s, <<q, q>>, k) <=> Matches(t, <<q, q>>, l)
    BY <1>3
  <2> QED
    BY <2>2, <2>3
<1>11. CASE m.skip = 0 /\ m.in = "dollar"
  <2>1. IsTag(m.by)
    BY <1>11 DEF Steady
  <2>2. Matches(s, m.by, k) <=> Matches(t, m.by, l)
    BY <2>1, TagMeans
  <2> QED
    BY <1>11, <2>2 DEF After
<1> QED
  BY <1>1, <1>6, <1>7, <1>8, <1>9, <1>10, <1>11

\* Symbols that a token which has begun still takes: the second one of a comment's
\* beginning or end, those of a tag, or what was left.
StillToCome(s, m, k, r) ==
  (r.skip > 0 /\ r.in # "quote") =>
    \/ m.skip > 0 /\ m.in = r.in /\ r.skip = m.skip - 1
    \/ r.skip = 1 /\ k + 1 <= Len(s) /\ s[k + 1] \in {"*", "/"}
    \/ s[k] = "$" /\ DollarTag(s, k) # <<>> /\ r.skip = Len(DollarTag(s, k)) - 1

\* A text without delimiter lines is read in steady modes.
LEMMA StepMode ==
  ASSUME Agrees, NEW s \in Seq(Symbols), QuotesAgree(s), NoWord(s), NEW k \in 1..Len(s),
         NEW m, Steady(m)
  PROVE  Steady(After(s, m, k)) /\ StillToCome(s, m, k, After(s, m, k))
<1> DEFINE r == After(s, m, k)
<1>1. /\ m \in Mode /\ m \in ModeRecords /\ m.delimiter = <<Semicolon>> /\ m.skip \in Nat
      /\ m.in \in {"code", "line", "block", "quote", "dollar"} /\ r \in Mode
      /\ (m.cut => m.in = "code")
  BY AfterType DEF Steady, Mode, ModeRecords
<1>2. ~ Directive(s, k).found /\ NoLine(s, m, k)
  <2>1. k \in 1..(Len(s) + 1)
    BY LenProperties
  <2> QED
    BY <2>1, DirectiveRange DEF NoWord, NoLine
<1>3. /\ Matches(s, <<"/", "*">>, k) => k + 1 <= Len(s) /\ s[k + 1] \in {"*", "/"}
      /\ Matches(s, <<"*", "/">>, k) => k + 1 <= Len(s) /\ s[k + 1] \in {"*", "/"}
  <2>1. "/" \in Symbols /\ "*" \in Symbols
    BY TokenSymbols
  <2>2. Matches(s, <<"/", "*">>, k) => k + 1 <= Len(s) /\ s[k + 1] = "*"
    BY <2>1, TwoMatch
  <2>3. Matches(s, <<"*", "/">>, k) => k + 1 <= Len(s) /\ s[k + 1] = "/"
    BY <2>1, TwoMatch
  <2> QED
    BY <2>2, <2>3
<1>4. CASE m.skip > 0
  <2> DEFINE j == m.skip - 1
  <2>1. r = [m EXCEPT !.skip = j]
    BY <1>4 DEF After
  <2> HIDE DEF r, j
  <2>2. r.skip = j /\ r.in = m.in /\ r.by = m.by /\ r.cut = m.cut /\ r.delimiter = m.delimiter
    BY <1>1, <2>1 DEF ModeRecords
  <2>3. j <= m.skip
    BY <1>1 DEF j
  <2> QED
    BY <1>1, <1>4, <2>2, <2>3 DEF Steady, StillToCome, r, j
<1>5. CASE m.skip = 0 /\ m.in = "code"
  <2> HIDE DEF r
  <2>1. CASE Matches(s, <<"-", "-">>, k)
    <3>1. Reads(r, "line", 0, m.delimiter) /\ Within(r)
      BY <1>1, <1>2, <1>5, <2>1, AtLineComment DEF r
    <3> QED
      BY <1>1, <3>1 DEF Reads, Within, Steady, StillToCome, r
  <2>2. CASE Matches(s, <<"/", "*">>, k)
    <3>1. Reads(r, "block", 1, m.delimiter) /\ Within(r)
      BY <1>1, <1>2, <1>5, <2>2, AtBlockComment DEF r
    <3> QED
      BY <1>1, <1>3, <2>2, <3>1 DEF Reads, Within, Steady, StillToCome, r
  <2>3. CASE s[k] \in Quotes
    <3>1. Reads(r, "quote", 0, m.delimiter) /\ Within(r) /\ r.by = <<s[k]>>
      BY <1>1, <1>2, <1>5, <2>3, AtQuote DEF r
    <3> QED
      BY <1>1, <2>3, <3>1 DEF Reads, Within, Steady, StillToCome, r
  <2>4. CASE NoText(s, m, k) /\ Matches(s, m.delimiter, k)
    <3>1. Reads(r, "code", Len(m.delimiter) - 1, m.delimiter)
      BY <1>1, <1>5, <2>4, AtDelimiter DEF r
    <3>2. Len(m.delimiter) - 1 = 0
      BY <1>1
    <3> QED
      BY <1>1, <3>1, <3>2 DEF Reads, Steady, StillToCome, r
  <2>5. CASE s[k] = "$" /\ DollarTag(s, k) # <<>>
    <3>1. /\ Reads(r, "dollar", Len(DollarTag(s, k)) - 1, m.delimiter) /\ Within(r)
          /\ r.by = DollarTag(s, k)
      BY <1>1, <1>2, <1>5, <2>5, AtDollar DEF r
    <3>2. IsTag(DollarTag(s, k))
      BY <2>5, OpenedTag
    <3> QED
      BY <1>1, <2>5, <3>1, <3>2 DEF Reads, Within, Steady, StillToCome, r
  <2>6. CASE /\ NoText(s, m, k) /\ ~ Matches(s, m.delimiter, k)
             /\ ~ (s[k] = "$" /\ DollarTag(s, k) # <<>>)
    <3>1. Reads(r, "code", 0, m.delimiter)
      BY <1>1, <1>5, <2>6, AtPlain DEF r
    <3> QED
      BY <1>1, <3>1 DEF Reads, Steady, StillToCome, r
  <2> QED
    BY <1>2, <2>1, <2>2, <2>3, <2>4, <2>5, <2>6 DEF NoText
<1>6. CASE m.skip = 0 /\ m.in = "line"
  <2> DEFINE b == [m EXCEPT !.in = "code", !.skip = 0, !.line = TRUE]
  <2>1. [Back(m, 1) EXCEPT !.line = TRUE] = b
    <3>1. 1 - 1 = 0
      OBVIOUS
    <3> QED
      BY <1>1, <3>1 DEF Back, ModeRecords
  <2>2. r = IF s[k] = "nl" THEN b ELSE m
    BY <1>6, <2>1 DEF After
  <2>3. b.in = "code" /\ b.skip = 0 /\ b.delimiter = m.delimiter
    BY <1>1 DEF ModeRecords
  <2> HIDE DEF b, r
  <2> QED
    BY <1>1, <1>6, <2>2, <2>3 DEF Steady, StillToCome, r
<1>7. CASE m.skip = 0 /\ m.in = "block"
  <2> DEFINE b == [m EXCEPT !.in = "code", !.skip = 1]
             u == [m EXCEPT !.depth = m.depth - 1, !.skip = 1]
  <2>1. Back(m, 2) = b
    <3>1. 2 - 1 = 1
      OBVIOUS
    <3> QED
      BY <3>1 DEF Back
  <2>2. r = IF Matches(s, <<"*", "/">>, k) THEN IF m.depth = 1 THEN b ELSE u ELSE m
    BY <1>7, <2>1, AgreesMeans DEF After
  <2>3. /\ b.in = "code" /\ b.skip = 1 /\ b.delimiter = m.delimiter
        /\ u.in = "block" /\ u.skip = 1 /\ u.delimiter = m.delimiter /\ u.cut = m.cut
    BY <1>1, <1>7 DEF ModeRecords
  <2> HIDE DEF b, u, r
  <2> QED
    BY <1>1, <1>3, <1>7, <2>2, <2>3 DEF Steady, StillToCome, r
<1>8. CASE m.skip = 0 /\ m.in = "quote"
  <2> DEFINE b == [m EXCEPT !.in = "code", !.skip = 0]
             u == [m EXCEPT !.skip = 1]
  <2>1. PICK q \in Quotes : m.by = <<q>>
    BY <1>8 DEF Steady
  <2>2. Back(m, 1) = b
    <3>1. 1 - 1 = 0
      OBVIOUS
    <3> QED
      BY <3>1 DEF Back
  <2>3. r \in {b, u, m}
    <3>1. r = IF (m.escapes /\ s[k] = "\\") \/ Matches(s, <<q, q>>, k) THEN u
              ELSE IF s[k] = q THEN Back(m, 1) ELSE m
      BY <1>1, <1>8, <2>1, InTheQuote
    <3> HIDE DEF b, u, r
    <3> QED
      BY <2>2, <3>1
  <2>4. /\ b.in = "code" /\ b.skip = 0 /\ b.delimiter = m.delimiter
        /\ u.in = "quote" /\ u.skip = 1 /\ u.delimiter = m.delimiter /\ u.cut = m.cut /\ u.by = m.by
    BY <1>1, <1>8 DEF ModeRecords
  <2> HIDE DEF b, u, r
  <2> QED
    <3>1. CASE r = b
      BY <1>1, <2>4, <3>1 DEF Steady, StillToCome, r
    <3>2. CASE r = u
      <4>1. 1 <= 1 /\ r.by = <<q>> /\ r.skip = 1 /\ r.in = "quote" /\ ~ r.cut
        BY <1>1, <1>8, <2>1, <2>4, <3>2
      <4> QED
        BY <1>1, <2>1, <2>4, <3>2, <4>1 DEF Steady, StillToCome, r
    <3>3. CASE r = m
      BY <1>8, <3>3 DEF StillToCome, r
    <3> QED
      BY <2>3, <3>1, <3>2, <3>3
<1>9. CASE m.skip = 0 /\ m.in = "dollar"
  <2> DEFINE j == Len(m.by) - 1
             b == [m EXCEPT !.in = "code", !.skip = j]
  <2>1. IsTag(m.by) /\ m.by # <<>>
    BY <1>1, <1>9 DEF Steady, Mode
  <2>2. r = IF Matches(s, m.by, k) THEN b ELSE m
    BY <1>9 DEF After, Back
  <2>3. b.in = "code" /\ b.skip = j /\ b.delimiter = m.delimiter
    BY <1>1 DEF ModeRecords
  <2>4. Matches(s, m.by, k) => s[k] = "$" /\ DollarTag(s, k) = m.by
    BY <2>1, TagMeans
  <2> HIDE DEF b, r
  <2> QED
    BY <1>1, <1>9, <2>1, <2>2, <2>3, <2>4 DEF Steady, StillToCome, r
<1> QED
  BY <1>1, <1>4, <1>5, <1>6, <1>7, <1>8, <1>9

\* What holds of s holds of t: no delimiter lines; what t says of backquotes, s does.
LEMMA AlignedSymbols ==
  ASSUME NEW s, NEW t, NEW to, NEW kept, Aligned(s, t, to, kept)
  PROVE  NoWord(s) /\ NoWord(t) /\ (QuotesAgree(t) => QuotesAgree(s))
<1>1. /\ s \in Seq(Symbols) /\ t \in Seq(Symbols) /\ Len(s) \in Nat /\ Len(t) \in Nat
      /\ \A n \in kept : n \in 1..Len(s) /\ t[to[n]] = s[n] /\ to[n] \in 1..Len(t)
  BY AlignedMeans
<1>2. DOMAIN s = 1..Len(s) /\ DOMAIN t = 1..Len(t)
  BY <1>1, LenProperties
<1>3. NoWord(s)
  BY <1>2 DEF NoWord, Aligned
<1>4. ASSUME NEW l \in 1..Len(t) PROVE t[l] # "DELIMITER"
  <2>1. PICK n \in 1..Len(s) : to[n - 1] < l /\ l <= to[n] /\ (n \in kept => l = to[n])
    BY AlignedCovers
  <2>2. CASE n \in kept
    BY <1>1, <1>2, <1>3, <2>1, <2>2 DEF NoWord
  <2>3. CASE n \notin kept
    <3>1. \A j \in (to[n - 1] + 1)..to[n] : t[j] = "a"
      BY <2>3 DEF Aligned
    <3>2. to[n - 1] \in Nat /\ to[n] \in Nat
      <4>1. n - 1 \in 0..Len(s) /\ n \in 0..Len(s)
        BY <1>1
      <4> QED
        BY <4>1, AlignedMeans
    <3>3. l \in (to[n - 1] + 1)..to[n]
      BY <1>1, <2>1, <3>2
    <3> QED
      BY <3>1, <3>3
  <2> QED
    BY <2>2, <2>3
<1>5. ASSUME QuotesAgree(t), NEW k \in 1..Len(s), s[k] = "bq" PROVE "backquotes" \in Server
  <2>1. k \in kept
    BY <1>5 DEF Aligned, Inert, Marks, TagSymbols
  <2>2. to[k] \in DOMAIN t /\ t[to[k]] = "bq"
    BY <1>1, <1>2, <1>5, <2>1
  <2> QED
    BY <1>5, <2>2 DEF QuotesAgree
<1> QED
  BY <1>2, <1>3, <1>4, <1>5 DEF NoWord, QuotesAgree

\* A word is read in one mode.
LEMMA WithinWord ==
  ASSUME Agrees, NEW t \in Seq(Symbols), NoWord(t), NEW a \in 0..Len(t), NEW b \in a..Len(t),
         \A j \in (a + 1)..b : t[j] = "a",
         Steady(Modes(t)[a]), Modes(t)[a].skip = 0 \/ Modes(t)[a].in = "quote",
         NEW j \in (a + 1)..b
  PROVE  Modes(t)[j] = Inside(Modes(t)[a])
<1> DEFINE M == Modes(t)
           m == M[a]
           T == {d \in Nat : a + 1 + d <= b => M[a + 1 + d] = Inside(m)}
<1>1. Len(t) \in Nat /\ a \in Nat /\ b \in Nat /\ b <= Len(t) /\ j \in Nat
  BY LenProperties
<1>2. \A n \in 1..Len(t) : M[n] = After(t, M[n - 1], n)
  BY ModesDef
<1>3. "a" \in Inert /\ "a" # "$"
  BY DEF Inert, TagSymbols
<1> HIDE DEF M
<1>4. ASSUME NEW n \in (a + 1)..b, NEW r, Steady(r), r.skip = 0 \/ r.in = "quote", M[n - 1] = r
      PROVE  M[n] = Inside(r)
  <2>1. n \in 1..Len(t) /\ t[n] = "a"
    BY <1>1
  <2>2. After(t, r, n) = Inside(r)
    BY <1>3, <1>4, <2>1, AtInert
  <2> QED
    BY <1>2, <1>4, <2>1, <2>2
<1>5. Steady(m) /\ (m.skip = 0 \/ m.in = "quote")
  BY DEF M
<1> HIDE DEF m
<1>6. /\ Steady(Inside(m)) /\ Inside(m).skip = 0 /\ Inside(Inside(m)) = Inside(m)
  BY <1>5, InsideStays
<1>7. 0 \in T
  <2>1. SUFFICES ASSUME a + 1 + 0 <= b PROVE M[a + 1 + 0] = Inside(m)
    OBVIOUS
  <2>2. a + 1 \in (a + 1)..b /\ (a + 1) - 1 = a /\ a + 1 + 0 = a + 1
    BY <1>1, <2>1
  <2>3. M[(a + 1) - 1] = m
    BY <2>2 DEF m
  <2>4. M[a + 1] = Inside(m)
    BY <1>4, <1>5, <2>2, <2>3
  <2> QED
    BY <2>2, <2>4
<1>8. ASSUME NEW d \in T PROVE d + 1 \in T
  <2>1. SUFFICES ASSUME a + 1 + (d + 1) <= b PROVE M[a + 1 + (d + 1)] = Inside(m)
    OBVIOUS
  <2> DEFINE n == a + 1 + (d + 1)
  <2>2. n \in (a + 1)..b /\ n - 1 = a + 1 + d /\ a + 1 + d <= b
    BY <1>1, <2>1
  <2>3. M[n - 1] = Inside(m)
    BY <2>2
  <2> HIDE DEF n
  <2>4. M[n] = Inside(Inside(m))
    BY <1>4, <1>6, <2>2, <2>3
  <2> QED
    BY <1>6, <2>4 DEF n
<1>9. T = Nat
  <2>1. T \in SUBSET Nat
    OBVIOUS
  <2> HIDE DEF T
  <2> QED
    BY <1>7, <1>8, <2>1, NatInd
<1>10. j - a - 1 \in T /\ a + 1 + (j - a - 1) = j /\ j <= b
  <2> HIDE DEF T
  <2> QED
    BY <1>1, <1>9
<1> QED
  BY <1>10 DEF m, M

\* A copied symbol takes both readers on alike.
LEMMA KeptSame ==
  ASSUME Agrees, NEW s, NEW t, NEW to, NEW kept, Aligned(s, t, to, kept), NEW n \in kept,
         NEW m, Steady(m)
  PROVE  After(s, m, n) = After(t, m, to[n])
<1>1. /\ s \in Seq(Symbols) /\ t \in Seq(Symbols) /\ Len(s) \in Nat /\ Len(t) \in Nat
      /\ n \in 1..Len(s) /\ t[to[n]] = s[n] /\ to[n] \in 1..Len(t)
  BY AlignedMeans
<1>2. NoWord(s) /\ NoWord(t)
  BY AlignedSymbols
<1>3. ASSUME NEW x \in Symbols, NEW y \in Symbols \ Inert
      PROVE  Matches(s, <<x, y>>, n) <=> Matches(t, <<x, y>>, to[n])
  <2>1. Matches(s, <<x, y>>, n) <=> n + 1 <= Len(s) /\ s[n] = x /\ s[n + 1] = y
    BY <1>1, TwoMatch
  <2>2. Matches(t, <<x, y>>, to[n]) <=> to[n] + 1 <= Len(t) /\ t[to[n]] = x /\ t[to[n] + 1] = y
    BY <1>1, TwoMatch
  <2>3. n + 1 <= Len(s) /\ s[n + 1] = y <=> to[n] + 1 <= Len(t) /\ t[to[n] + 1] = y
    BY AlignedAhead
  <2> QED
    BY <1>1, <2>1, <2>2, <2>3
<1>4. AfterE(s, n) <=> AfterE(t, to[n])
  BY AlignedE
<1>5. s[n] = "$" => DollarTag(s, n) = DollarTag(t, to[n])
  BY AlignedTag
<1> QED
  BY <1>1, <1>2, <1>3, <1>4, <1>5, SameAfter

\* The symbols a token still takes are copied when it began at a copied one.
LEMMA KeptToCome ==
  ASSUME Agrees, NEW s, NEW t, NEW to, NEW kept, Aligned(s, t, to, kept), NEW n \in kept,
         NEW m, Steady(m), NEW r, Steady(r), StillToCome(s, m, n, r),
         m.skip > 0 /\ m.in # "quote" => \A j \in n..(n - 1 + m.skip) : j \in kept,
         r.skip > 0, r.in # "quote", NEW j \in (n + 1)..(n + r.skip)
  PROVE  j \in kept
<1>1. n \in Nat /\ m.skip \in Nat /\ r.skip \in Nat /\ Len(s) \in Nat
  <2>1. n \in 1..Len(s) /\ Len(s) \in Nat
    BY AlignedMeans
  <2> QED
    BY <2>1 DEF Steady, Mode, ModeRecords
<1>2. CASE m.skip > 0 /\ m.in = r.in /\ r.skip = m.skip - 1
  <2>1. j \in n..(n - 1 + m.skip)
    BY <1>1, <1>2
  <2> QED
    BY <1>2, <2>1
<1>3. CASE r.skip = 1 /\ n + 1 <= Len(s) /\ s[n + 1] \in {"*", "/"}
  <2>1. j = n + 1
    BY <1>1, <1>3
  <2>2. "*" \notin Inert /\ "/" \notin Inert
    BY DEF Inert, Marks, TagSymbols
  <2>3. n + 1 \in kept
    BY <1>3, <2>2, AlignedAhead
  <2> QED
    BY <2>1, <2>3
<1>4. CASE s[n] = "$" /\ DollarTag(s, n) # <<>> /\ r.skip = Len(DollarTag(s, n)) - 1
  <2>1. \A z \in n..(n + Len(DollarTag(s, n)) - 1) : z \in kept
    BY <1>4, AlignedTag
  <2>2. n + r.skip = n + Len(DollarTag(s, n)) - 1
    <3>1. Len(DollarTag(s, n)) \in Int
      <4>1. s \in Seq(Symbols) /\ n \in 1..Len(s)
        BY AlignedMeans
      <4>2. DollarTag(s, n) \in Seq(Symbols)
        BY <4>1, TagIsText
      <4> QED
        BY <4>2, LenProperties
    <3> QED
      BY <1>1, <1>4, <3>1
  <2>3. j \in n..(n + Len(DollarTag(s, n)) - 1)
    BY <1>1, <2>2
  <2> QED
    BY <2>1, <2>3
<1> QED
  BY <1>2, <1>3, <1>4 DEF StillToCome

\* Both texts are read in one mode where n symbols of s have been read.
Lockstep(s, t, to, kept, n) ==
  LET m == Modes(s)[n]
  IN  /\ Modes(t)[to[n]] = m /\ Steady(m)
      /\ n > 0 /\ n \notin kept =>
           /\ m.skip = 0 /\ ~ m.cut /\ Inside(m) = m
           /\ \A j \in (to[n - 1] + 1)..to[n] : ~ Modes(t)[j].cut
      /\ m.skip > 0 /\ m.in # "quote" => \A j \in (n + 1)..(n + m.skip) : j \in kept

\* They are at the beginning, and each symbol of s keeps them there.
LEMMA LockstepInit ==
  ASSUME NEW s, NEW t, NEW to, NEW kept, Aligned(s, t, to, kept)
  PROVE  Lockstep(s, t, to, kept, 0)
<1>1. s \in Seq(Symbols) /\ t \in Seq(Symbols) /\ to[0] = 0
  BY AlignedMeans
<1>2. Modes(s)[0] = Beginning /\ Modes(t)[to[0]] = Beginning /\ Modes(s)[0] \in Mode
  <2>1. 0 \in 0..Len(s)
    BY <1>1, LenProperties
  <2> QED
    BY <1>1, <2>1, ModesDef
<1>3. /\ Beginning.delimiter = <<Semicolon>> /\ ~ Beginning.cut /\ Beginning.in = "code"
      /\ Beginning.skip = 0
  BY DEF Beginning
<1> QED
  BY <1>2, <1>3 DEF Lockstep, Steady

LEMMA LockstepOn ==
  ASSUME Agrees, NEW s, NEW t, NEW to, NEW kept, Aligned(s, t, to, kept), QuotesAgree(s),
         NEW n \in 1..Len(s), Lockstep(s, t, to, kept, n - 1)
  PROVE  Lockstep(s, t, to, kept, n)
<1> DEFINE m == Modes(s)[n - 1]
           r == Modes(s)[n]
           a == to[n - 1]
           b == to[n]
<1>1. /\ s \in Seq(Symbols) /\ t \in Seq(Symbols) /\ Len(s) \in Nat /\ Len(t) \in Nat
      /\ n - 1 \in 0..Len(s) /\ n \in 0..Len(s) /\ n \in Nat /\ n > 0
  BY AlignedMeans, LenProperties
<1>2. a \in 0..Len(t) /\ b \in 0..Len(t) /\ a <= b
  BY <1>1, AlignedMeans, AlignedGrows
<1>3. NoWord(s) /\ NoWord(t)
  BY AlignedSymbols
<1>4. r = After(s, m, n) /\ \A j \in 1..Len(t) : Modes(t)[j] = After(t, Modes(t)[j - 1], j)
  BY <1>1, ModesDef
<1>5. Modes(t)[a] = m /\ Steady(m)
  BY DEF Lockstep
<1>6. m.skip > 0 /\ m.in # "quote" => \A j \in n..(n - 1 + m.skip) : j \in kept
  BY <1>1 DEF Lockstep
<1>s. m.skip \in Nat
  BY <1>5 DEF Steady, Mode, ModeRecords
<1>7. CASE n \in kept
  <2>1. b = a + 1 /\ b \in 1..Len(t) /\ b - 1 = a
    BY <1>1, <1>2, <1>7, AlignedMeans
  <2> HIDE DEF m, r, a
  <2>2. Modes(t)[b] = After(t, m, b)
    BY <1>4, <1>5, <2>1
  <2>3. Modes(t)[b] = r
    BY <1>4, <1>5, <1>7, <2>2, KeptSame
  <2>4. Steady(r) /\ StillToCome(s, m, n, r)
    BY <1>1, <1>3, <1>4, <1>5, StepMode
  <2>5. ASSUME r.skip > 0, r.in # "quote", NEW j \in (n + 1)..(n + r.skip) PROVE j \in kept
    BY <1>5, <1>6, <1>7, <2>4, <2>5, KeptToCome
  <2> HIDE DEF b
  <2> QED
    BY <1>7, <2>3, <2>4, <2>5 DEF Lockstep, r, b
<1>8. CASE n \notin kept
  <2>1. /\ s[n] \in Inert /\ (s[n] = "$" => n < Len(s) /\ s[n + 1] \in Marks)
        /\ \A j \in (a + 1)..b : t[j] = "a"
        /\ b = a => n > 1 /\ n - 1 \notin kept
    BY <1>8 DEF Aligned
  <2>2. m.skip = 0 \/ m.in = "quote"
    <3> SUFFICES ASSUME m.skip > 0, m.in # "quote" PROVE FALSE
      BY <1>s
    <3>1. n \in n..(n - 1 + m.skip)
      BY <1>1, <1>s
    <3> HIDE DEF m
    <3> QED
      BY <1>6, <1>8, <3>1
  <2>3. r = Inside(m)
    <3> HIDE DEF m, r
    <3> QED
      BY <1>1, <1>3, <1>4, <1>5, <2>1, <2>2, AtInert
  <2>4. Steady(r) /\ r.skip = 0 /\ ~ r.cut /\ Inside(r) = r
    <3> HIDE DEF m, r
    <3> QED
      BY <1>5, <2>2, <2>3, InsideStays
  <2>5. ASSUME NEW j \in (a + 1)..b PROVE Modes(t)[j] = r
    <3>1. b \in a..Len(t)
      BY <1>2
    <3>2. Modes(t)[j] = Inside(Modes(t)[a])
      <4> HIDE DEF a, b
      <4> QED
        BY <1>1, <1>2, <1>3, <1>5, <2>1, <2>2, <2>5, <3>1, WithinWord
    <3> QED
      BY <1>5, <2>3, <3>2
  <2>6. Modes(t)[b] = r
    <3>1. CASE b = a
      <4>1. n - 1 > 0 /\ n - 1 \notin kept
        BY <1>1, <2>1, <3>1
      <4>2. Inside(m) = m
        BY <4>1 DEF Lockstep
      <4> QED
        BY <1>5, <2>3, <3>1, <4>2
    <3>2. CASE b # a
      <4>1. b \in (a + 1)..b
        BY <1>2, <3>2
      <4> HIDE DEF a, b, r
      <4> QED
        BY <2>5, <4>1
    <3> QED
      BY <3>1, <3>2
  <2> HIDE DEF m
  <2> QED
    BY <1>8, <2>4, <2>5, <2>6 DEF Lockstep
<1> QED
  BY <1>7, <1>8

\* Two texts that read alike are read in the same modes.
LEMMA ModesSame ==
  ASSUME Agrees, NEW s, NEW t, NEW to, NEW kept, Aligned(s, t, to, kept), QuotesAgree(t),
         NEW n \in 0..Len(s)
  PROVE  Lockstep(s, t, to, kept, n)
<1> DEFINE T == {k \in Nat : k <= Len(s) => Lockstep(s, t, to, kept, k)}
<1>1. Len(s) \in Nat /\ QuotesAgree(s)
  BY AlignedMeans, AlignedSymbols
<1>2. 0 \in T
  BY LockstepInit
<1>3. ASSUME NEW k \in T PROVE k + 1 \in T
  <2>1. SUFFICES ASSUME k + 1 <= Len(s) PROVE Lockstep(s, t, to, kept, k + 1)
    OBVIOUS
  <2>2. k + 1 \in 1..Len(s) /\ (k + 1) - 1 = k /\ k <= Len(s)
    BY <1>1, <2>1
  <2>3. Lockstep(s, t, to, kept, (k + 1) - 1)
    BY <2>2
  <2> QED
    BY <1>1, <2>2, <2>3, LockstepOn
<1>4. T = Nat
  <2>1. T \in SUBSET Nat
    OBVIOUS
  <2> HIDE DEF T
  <2> QED
    BY <1>2, <1>3, <2>1, NatInd
<1>5. n \in T /\ n <= Len(s)
  <2> HIDE DEF T
  <2> QED
    BY <1>1, <1>4
<1> QED
  BY <1>5

\* A statement ends in both at the same copied symbols.
LEMMA CutsSame ==
  ASSUME Agrees, NEW s, NEW t, NEW to, NEW kept, Aligned(s, t, to, kept), QuotesAgree(t)
  PROVE  /\ \A n \in 1..Len(s) : Modes(s)[n].cut =>
              n \in kept /\ to[n] \in 1..Len(t) /\ Modes(t)[to[n]].cut
         /\ \A l \in 1..Len(t) : Modes(t)[l].cut =>
              \E n \in kept : n \in 1..Len(s) /\ l = to[n] /\ Modes(s)[n].cut
<1>1. /\ Len(s) \in Nat /\ Len(t) \in Nat /\ \A n \in 0..Len(s) : to[n] \in 0..Len(t)
      /\ \A n \in kept : n \in 1..Len(s) /\ to[n] \in 1..Len(t)
  BY AlignedMeans
<1>2. ASSUME NEW n \in 1..Len(s), Modes(s)[n].cut
      PROVE  n \in kept /\ to[n] \in 1..Len(t) /\ Modes(t)[to[n]].cut
  <2>1. n \in 0..Len(s) /\ n > 0
    BY <1>1
  <2>2. Lockstep(s, t, to, kept, n)
    BY <2>1, ModesSame
  <2> QED
    BY <1>1, <1>2, <2>1, <2>2 DEF Lockstep
<1>3. ASSUME NEW l \in 1..Len(t), Modes(t)[l].cut
      PROVE  \E n \in kept : n \in 1..Len(s) /\ l = to[n] /\ Modes(s)[n].cut
  <2>1. PICK n \in 1..Len(s) : to[n - 1] < l /\ l <= to[n] /\ (n \in kept => l = to[n])
    BY AlignedCovers
  <2>2. n \in 0..Len(s) /\ n - 1 \in 0..Len(s) /\ n > 0
    BY <1>1
  <2>3. Lockstep(s, t, to, kept, n)
    BY <2>2, ModesSame
  <2>4. n \in kept
    <3> SUFFICES ASSUME n \notin kept PROVE FALSE
      OBVIOUS
    <3>1. l \in (to[n - 1] + 1)..to[n]
      BY <1>1, <2>1, <2>2
    <3> QED
      BY <1>3, <2>2, <2>3, <3>1 DEF Lockstep
  <2> QED
    BY <1>3, <2>1, <2>3, <2>4 DEF Lockstep
<1> QED
  BY <1>2, <1>3

\* The trimmed part begins at the first symbol that is not blank and ends at the last.
Trims(s, a, b, x, y) ==
  /\ x \in a..b /\ y \in a..b /\ x <= y /\ s[x] \notin Blanks /\ s[y] \notin Blanks
  /\ \A k \in a..b : s[k] \notin Blanks => x <= k /\ k <= y

LEMMA TrimmedMeans ==
  ASSUME NEW s, NEW a \in Nat, NEW b \in Int
  PROVE  /\ \A p : p \in Trimmed(s, a, b) <=> \E x, y \in a..b : p = <<x, y>> /\ Trims(s, a, b, x, y)
         /\ \A p, q \in Trimmed(s, a, b) : p = q
         /\ Trimmed(s, a, b) = {} <=> \A k \in a..b : s[k] \in Blanks
<1> DEFINE solid == {k \in a..b : s[k] \notin Blanks}
<1>1. Trimmed(s, a, b) = IF solid = {} THEN {} ELSE {<<Min(solid), Max(solid)>>}
  BY DEF Trimmed
<1>2. solid \in SUBSET Nat /\ IsFiniteSet(solid) /\ \A k : k \in solid <=> k \in a..b /\ s[k] \notin Blanks
  <2>1. solid \subseteq a..b /\ IsFiniteSet(a..b)
    BY FS_Interval
  <2> QED
    BY <2>1, FS_Subset
<1> HIDE DEF solid
<1>3. CASE solid = {}
  <2>1. Trimmed(s, a, b) = {}
    BY <1>1, <1>3
  <2>2. \A x : ~ (x \in a..b /\ s[x] \notin Blanks)
    BY <1>2, <1>3
  <2> QED
    BY <2>1, <2>2 DEF Trims
<1>4. CASE solid # {}
  <2> DEFINE m == Min(solid)
             M == Max(solid)
  <2>1. /\ m \in solid /\ M \in solid /\ \A k \in solid : m <= k /\ k <= M
    BY <1>2, <1>4, MinOfNats, MaxOfNats
  <2>2. Trimmed(s, a, b) = {<<m, M>>}
    BY <1>1, <1>4
  <2> HIDE DEF m, M
  <2>3. Trims(s, a, b, m, M) /\ m \in a..b /\ M \in a..b
    BY <1>2, <2>1 DEF Trims
  <2>4. ASSUME NEW x \in a..b, NEW y \in a..b, Trims(s, a, b, x, y) PROVE x = m /\ y = M
    <3>1. x \in solid /\ y \in solid /\ x <= m /\ M <= y
      BY <1>2, <2>1, <2>4 DEF Trims
    <3>2. m <= x /\ y <= M
      BY <2>1, <3>1
    <3> QED
      BY <2>3, <3>1, <3>2
  <2>5. ~ \A k \in a..b : s[k] \in Blanks
    BY <1>2, <2>1
  <2> QED
    BY <2>2, <2>3, <2>4, <2>5
<1> QED
  BY <1>3, <1>4

\* Where symbol n of s is found in t; the end is at the end.
FoundAt(s, t, to, n) == IF n = Len(s) + 1 THEN Len(t) + 1 ELSE to[n]

\* Cuts are found at cuts, in order, and every cut of t is one of s.
LEMMA CutsMap ==
  ASSUME Agrees, NEW s, NEW t, NEW to, NEW kept, Aligned(s, t, to, kept), QuotesAgree(t)
  PROVE  /\ \A n \in 0..(Len(s) + 1) : CutAt(s, n) =>
              /\ CutAt(t, FoundAt(s, t, to, n)) /\ FoundAt(s, t, to, n) \in 0..(Len(t) + 1)
              /\ n = 0 \/ n = Len(s) + 1 \/ n \in kept
         /\ \A l \in 0..(Len(t) + 1) : CutAt(t, l) =>
              \E n \in 0..(Len(s) + 1) : CutAt(s, n) /\ l = FoundAt(s, t, to, n)
         /\ \A m, n \in 0..(Len(s) + 1) : CutAt(s, n) /\ m < n => FoundAt(s, t, to, m) < FoundAt(s, t, to, n)
<1>1. /\ Len(s) \in Nat /\ Len(t) \in Nat /\ to[0] = 0 /\ to[Len(s)] = Len(t)
      /\ \A n \in 0..Len(s) : to[n] \in 0..Len(t)
      /\ \A n \in kept : n \in 1..Len(s) /\ to[n] = to[n - 1] + 1 /\ n - 1 \in 0..Len(s)
  BY AlignedMeans
<1>2. ASSUME NEW n \in 0..(Len(s) + 1), CutAt(s, n)
      PROVE  /\ CutAt(t, FoundAt(s, t, to, n)) /\ FoundAt(s, t, to, n) \in 0..(Len(t) + 1)
             /\ n = 0 \/ n = Len(s) + 1 \/ n \in kept
  <2>1. CASE n = 0
    BY <1>1, <2>1 DEF CutAt, FoundAt
  <2>2. CASE n = Len(s) + 1
    BY <1>1, <2>2 DEF CutAt, FoundAt
  <2>3. CASE n # 0 /\ n # Len(s) + 1
    <3>1. n \in 1..Len(s) /\ Modes(s)[n].cut
      BY <1>1, <1>2, <2>3 DEF CutAt
    <3>2. n \in kept /\ to[n] \in 1..Len(t) /\ Modes(t)[to[n]].cut
      BY <3>1, CutsSame
    <3> QED
      BY <1>1, <2>3, <3>2 DEF CutAt, FoundAt
  <2> QED
    BY <2>1, <2>2, <2>3
<1>3. ASSUME NEW l \in 0..(Len(t) + 1), CutAt(t, l)
      PROVE  \E n \in 0..(Len(s) + 1) : CutAt(s, n) /\ l = FoundAt(s, t, to, n)
  <2>1. CASE l = 0
    <3>1. 0 \in 0..(Len(s) + 1) /\ CutAt(s, 0) /\ FoundAt(s, t, to, 0) = 0
      BY <1>1 DEF CutAt, FoundAt
    <3> QED
      BY <2>1, <3>1
  <2>2. CASE l = Len(t) + 1
    <3>1. Len(s) + 1 \in 0..(Len(s) + 1) /\ CutAt(s, Len(s) + 1) /\ FoundAt(s, t, to, Len(s) + 1) = l
      BY <1>1, <2>2 DEF CutAt, FoundAt
    <3> QED
      BY <3>1
  <2>3. CASE l # 0 /\ l # Len(t) + 1
    <3>1. l \in 1..Len(t) /\ Modes(t)[l].cut
      BY <1>1, <1>3, <2>3 DEF CutAt
    <3>2. PICK n \in kept : n \in 1..Len(s) /\ l = to[n] /\ Modes(s)[n].cut
      BY <3>1, CutsSame
    <3>3. n \in 0..(Len(s) + 1) /\ n # Len(s) + 1
      BY <1>1, <3>2
    <3> QED
      BY <3>2, <3>3 DEF CutAt, FoundAt
  <2> QED
    BY <2>1, <2>2, <2>3
<1>4. ASSUME NEW m \in 0..(Len(s) + 1), NEW n \in 0..(Len(s) + 1), CutAt(s, n), m < n
      PROVE  FoundAt(s, t, to, m) < FoundAt(s, t, to, n)
  <2>1. m \in 0..Len(s) /\ m # Len(s) + 1
    BY <1>1, <1>4
  <2>2. CASE n = Len(s) + 1
    BY <1>1, <2>1, <2>2 DEF FoundAt
  <2>3. CASE n # Len(s) + 1
    <3>1. n \in kept
      BY <1>2, <1>4, <2>1, <2>3
    <3>2. m <= n - 1 /\ n - 1 \in 0..Len(s)
      BY <1>1, <1>4, <2>1, <3>1
    <3>3. to[m] <= to[n - 1] /\ to[n] = to[n - 1] + 1
      BY <1>1, <2>1, <3>1, <3>2, AlignedGrows
    <3>4. to[m] < to[n]
      BY <1>1, <2>1, <3>2, <3>3
    <3> QED
      BY <2>1, <2>3, <3>4 DEF FoundAt
  <2> QED
    BY <2>2, <2>3
<1> QED
  BY <1>2, <1>3, <1>4

\* A symbol and what it gives are blank alike.
LEMMA BlankAlike ==
  ASSUME NEW s, NEW t, NEW to, NEW kept, Aligned(s, t, to, kept), NEW n \in 1..Len(s), NEW l \in Nat,
         to[n - 1] < l, l <= to[n]
  PROVE  (s[n] \in Blanks <=> t[l] \in Blanks) /\ (s[n] \in Blanks => n \in kept)
<1>1. /\ \A j \in 0..Len(s) : to[j] \in Nat
      /\ \A j \in kept : to[j] = to[j - 1] + 1 /\ t[to[j]] = s[j] /\ Len(s) \in Nat
  BY AlignedMeans
<1>2. to[n - 1] \in Nat /\ to[n] \in Nat
  <2>1. n - 1 \in 0..Len(s) /\ n \in 0..Len(s)
    BY AlignedMeans
  <2> QED
    BY <1>1, <2>1
<1>3. CASE n \in kept
  <2>1. l = to[n]
    BY <1>1, <1>2, <1>3
  <2> QED
    BY <1>1, <1>3, <2>1
<1>4. CASE n \notin kept
  <2>1. s[n] \in Inert /\ \A j \in (to[n - 1] + 1)..to[n] : t[j] = "a"
    BY <1>4 DEF Aligned
  <2>2. t[l] = "a"
    BY <1>2, <2>1
  <2> QED
    BY <2>1, <2>2 DEF Inert, Marks, TagSymbols, Blanks
<1> QED
  BY <1>3, <1>4

\* Neighbouring cuts of s.
Neighbours(s, c, d) ==
  /\ c \in 0..(Len(s) + 1) /\ d \in 0..(Len(s) + 1) /\ c < d /\ CutAt(s, c) /\ CutAt(s, d)
  /\ \A k \in (c + 1)..(d - 1) : ~ CutAt(s, k)

LEMMA StatementsMeans ==
  ASSUME NEW s, Len(s) \in Nat, NEW p
  PROVE  p \in StatementsOf(s) <=>
           \E c, d \in 0..(Len(s) + 1) : Neighbours(s, c, d) /\ p \in Trimmed(s, c + 1, d - 1)
<1> DEFINE e == Len(s) + 1
<1>1. p \in StatementsOf(s) <=> \E q \in Pairs(s, e) : p \in Trimmed(s, q[1] + 1, q[2] - 1)
  BY AllFound DEF Between
<1>2. ASSUME NEW q \in Pairs(s, e) PROVE q[1] \in 0..e /\ q[2] \in 0..e /\ Neighbours(s, q[1], q[2])
  BY DEF Pairs, Neighbours
<1>3. ASSUME NEW c \in 0..e, NEW d \in 0..e, Neighbours(s, c, d) PROVE <<c, d>> \in Pairs(s, e)
  BY <1>3 DEF Pairs, Neighbours
<1> HIDE DEF e
<1>4. ASSUME NEW c \in 0..e, NEW d \in 0..e, Neighbours(s, c, d), p \in Trimmed(s, c + 1, d - 1)
      PROVE  \E q \in Pairs(s, e) : p \in Trimmed(s, q[1] + 1, q[2] - 1)
  <2> DEFINE q == <<c, d>>
  <2>1. q \in Pairs(s, e) /\ q[1] = c /\ q[2] = d
    BY <1>3, <1>4
  <2> HIDE DEF q
  <2> QED
    BY <1>4, <2>1
<1> QED
  BY <1>1, <1>2, <1>4 DEF e

\* Between neighbouring cuts lies what is given by the symbols between them.
LEMMA BetweenCuts ==
  ASSUME Agrees, NEW s, NEW t, NEW to, NEW kept, Aligned(s, t, to, kept), QuotesAgree(t),
         NEW c, NEW d, Neighbours(s, c, d)
  PROVE  /\ Neighbours(t, FoundAt(s, t, to, c), FoundAt(s, t, to, d))
         /\ \A n \in 1..Len(s), l \in Nat : to[n - 1] < l /\ l <= to[n] =>
              (n \in (c + 1)..(d - 1) <=>
                 l \in (FoundAt(s, t, to, c) + 1)..(FoundAt(s, t, to, d) - 1))
<1> DEFINE F(n) == FoundAt(s, t, to, n)
<1>1. /\ Len(s) \in Nat /\ Len(t) \in Nat /\ to[0] = 0 /\ to[Len(s)] = Len(t)
      /\ \A n \in 0..Len(s) : to[n] \in Nat
      /\ \A n \in kept : n \in 1..Len(s) /\ to[n] = to[n - 1] + 1
  BY AlignedMeans
<1>2. /\ c \in 0..(Len(s) + 1) /\ d \in 0..(Len(s) + 1) /\ c < d /\ CutAt(s, c) /\ CutAt(s, d)
      /\ \A k \in (c + 1)..(d - 1) : ~ CutAt(s, k)
  BY DEF Neighbours
<1>3. /\ \A m, n \in 0..(Len(s) + 1) : CutAt(s, n) /\ m < n => F(m) < F(n)
      /\ \A n \in 0..(Len(s) + 1) : CutAt(s, n) =>
           CutAt(t, F(n)) /\ F(n) \in 0..(Len(t) + 1) /\ (n = 0 \/ n = Len(s) + 1 \/ n \in kept)
      /\ \A l \in 0..(Len(t) + 1) : CutAt(t, l) => \E n \in 0..(Len(s) + 1) : CutAt(s, n) /\ l = F(n)
  BY CutsMap
<1>4. \A n \in 0..Len(s) : F(n) = to[n] /\ n \in 0..(Len(s) + 1)
  BY <1>1 DEF FoundAt
<1>5. F(Len(s) + 1) = Len(t) + 1
  BY DEF FoundAt
<1> HIDE DEF F
<1>6. ASSUME NEW l \in (F(c) + 1)..(F(d) - 1) PROVE ~ CutAt(t, l)
  <2>1. SUFFICES ASSUME CutAt(t, l) PROVE FALSE
    OBVIOUS
  <2>2. F(c) \in 0..(Len(t) + 1) /\ F(d) \in 0..(Len(t) + 1)
    BY <1>2, <1>3
  <2>3. l \in 0..(Len(t) + 1)
    BY <1>1, <2>2
  <2>4. PICK n \in 0..(Len(s) + 1) : CutAt(s, n) /\ l = F(n)
    BY <1>3, <2>1, <2>3
  <2>5. ~ (n < c) /\ n # c
    <3>1. n < c => F(n) < F(c)
      BY <1>2, <1>3, <2>4
    <3> QED
      BY <2>2, <2>3, <2>4, <3>1
  <2>6. ~ (d < n) /\ n # d
    <3>1. d < n => F(d) < F(n)
      BY <1>2, <1>3, <2>4
    <3> QED
      BY <2>2, <2>3, <2>4, <3>1
  <2>7. n \in (c + 1)..(d - 1)
    BY <1>1, <1>2, <2>4, <2>5, <2>6
  <2> QED
    BY <1>2, <2>4, <2>7
<1>7. Neighbours(t, F(c), F(d))
  BY <1>2, <1>3, <1>6 DEF Neighbours
<1>8. ASSUME NEW n \in 1..Len(s), NEW l \in Nat, to[n - 1] < l, l <= to[n]
      PROVE  n \in (c + 1)..(d - 1) <=> l \in (F(c) + 1)..(F(d) - 1)
  <2>1. /\ n - 1 \in 0..Len(s) /\ n \in 0..Len(s) /\ n \in 0..(Len(s) + 1)
        /\ n - 1 \in 0..(Len(s) + 1) /\ n - 1 < n
        /\ F(c) \in Nat /\ F(d) \in Nat /\ c \in 0..Len(s) /\ F(c) = to[c]
    BY <1>1, <1>2, <1>3, <1>4
  <2>2. \A x \in 0..Len(s), y \in 0..Len(s) : x <= y => to[x] <= to[y]
    BY AlignedGrows
  <2>3. n > c => l > F(c)
    <3>1. SUFFICES ASSUME n > c PROVE l > F(c)
      OBVIOUS
    <3>2. c <= n - 1
      BY <2>1, <3>1
    <3>3. to[c] <= to[n - 1]
      BY <2>1, <2>2, <3>2
    <3> QED
      BY <1>1, <1>8, <2>1, <3>3, SMTT(30)
  <2>4. n <= c => l <= F(c)
    <3>1. SUFFICES ASSUME n <= c PROVE l <= F(c)
      OBVIOUS
    <3>2. to[n] <= to[c]
      BY <2>1, <2>2, <3>1
    <3> QED
      BY <1>1, <1>8, <2>1, <3>2
  <2>5. n < d => l < F(d)
    <3>1. SUFFICES ASSUME n < d PROVE l < F(d)
      OBVIOUS
    <3>2. F(n) < F(d)
      BY <1>2, <1>3, <2>1, <3>1
    <3> QED
      BY <1>1, <1>4, <1>8, <2>1, <3>2
  <2>6. n >= d => l >= F(d)
    <3>1. SUFFICES ASSUME n >= d PROVE l >= F(d)
      OBVIOUS
    <3>2. d \in 1..Len(s) /\ d \in kept /\ d \in 0..Len(s) /\ F(d) = to[d]
      <4>1. d \in 1..Len(s) /\ d # Len(s) + 1 /\ d # 0 /\ d \in 0..Len(s)
        BY <1>1, <1>2, <2>1, <3>1
      <4> QED
        BY <1>2, <1>3, <1>4, <4>1
    <3>3. CASE n = d
      <4>1. to[n] = to[n - 1] + 1
        BY <1>1, <3>2, <3>3
      <4> QED
        BY <1>1, <1>8, <2>1, <3>2, <3>3, <4>1, SMTT(30)
    <3>4. CASE n # d
      <4>1. d <= n - 1
        BY <2>1, <3>1, <3>2, <3>4
      <4>2. to[d] <= to[n - 1]
        BY <2>1, <2>2, <3>2, <4>1
      <4> QED
        BY <1>1, <1>8, <2>1, <3>2, <4>2, SMTT(30)
    <3> QED
      BY <3>3, <3>4
  <2> QED
    BY <1>2, <2>1, <2>3, <2>4, <2>5, <2>6
<1> QED
  BY <1>7, <1>8 DEF F

\* A statement of s gives the one of t between the cuts that its cuts give.
LEMMA StatementGiven ==
  ASSUME Agrees, NEW s, NEW t, NEW to, NEW kept, Aligned(s, t, to, kept), QuotesAgree(t),
         NEW c, NEW d, Neighbours(s, c, d), NEW x, NEW y, Trims(s, c + 1, d - 1, x, y)
  PROVE  /\ x \in 1..Len(s) /\ y \in 1..Len(s) /\ x <= y
         /\ x = 1 \/ x - 1 \in kept
         /\ y = Len(s) \/ y + 1 \in kept
         /\ Trims(t, FoundAt(s, t, to, c) + 1, FoundAt(s, t, to, d) - 1, to[x - 1] + 1, to[y])
<1> DEFINE f == FoundAt(s, t, to, c)
           g == FoundAt(s, t, to, d)
           v == to[x - 1] + 1
           w == to[y]
<1>1. /\ Len(s) \in Nat /\ Len(t) \in Nat /\ to[0] = 0 /\ to[Len(s)] = Len(t)
      /\ \A n \in 0..Len(s) : to[n] \in 0..Len(t)
      /\ \A n \in kept : n \in 1..Len(s) /\ to[n] = to[n - 1] + 1 /\ t[to[n]] = s[n]
  BY AlignedMeans
<1>2. /\ c \in 0..(Len(s) + 1) /\ d \in 0..(Len(s) + 1) /\ c < d /\ CutAt(s, c) /\ CutAt(s, d)
  BY DEF Neighbours
<1>3. \A n \in 0..(Len(s) + 1) : CutAt(s, n) => n = 0 \/ n = Len(s) + 1 \/ n \in kept
  BY CutsMap
<1>4. /\ f \in 0..(Len(t) + 1) /\ g \in 0..(Len(t) + 1) /\ f < g
  BY BetweenCuts DEF Neighbours
<1>5. \A n \in 1..Len(s), l \in Nat : to[n - 1] < l /\ l <= to[n] =>
        (n \in (c + 1)..(d - 1) <=> l \in (f + 1)..(g - 1))
  BY BetweenCuts
<1>6. /\ x \in (c + 1)..(d - 1) /\ y \in (c + 1)..(d - 1) /\ x <= y
      /\ s[x] \notin Blanks /\ s[y] \notin Blanks
      /\ \A k \in (c + 1)..(d - 1) : s[k] \notin Blanks => x <= k /\ k <= y
  BY DEF Trims
<1>7. /\ x \in 1..Len(s) /\ y \in 1..Len(s) /\ x - 1 \in 0..Len(s) /\ y \in 0..Len(s)
      /\ x \in 0..Len(s) /\ y - 1 \in 0..Len(s)
  BY <1>1, <1>2, <1>6
<1>8. \A m \in 0..Len(s), n \in 0..Len(s) : m <= n => to[m] <= to[n]
  BY AlignedGrows
<1>b. \A n \in 1..Len(s) : s[n] \in Blanks => n \in kept
  <2> TAKE n \in 1..Len(s)
  <2>1. n \notin kept => s[n] \in Inert
    BY DEF Aligned
  <2> QED
    BY <2>1 DEF Inert, Marks, TagSymbols, Blanks
<1> HIDE DEF f, g
<1>9. x = 1 \/ x - 1 \in kept
  <2>1. SUFFICES ASSUME x # 1 PROVE x - 1 \in kept
    OBVIOUS
  <2>2. CASE x - 1 = c
    BY <1>2, <1>3, <1>7, <2>1, <2>2
  <2>3. CASE x - 1 # c
    <3>1. x - 1 \in (c + 1)..(d - 1) /\ x - 1 \in 1..Len(s) /\ ~ (x <= x - 1)
      BY <1>2, <1>6, <1>7, <2>1, <2>3
    <3> QED
      BY <1>6, <1>b, <3>1
  <2> QED
    BY <2>2, <2>3
<1>10. y = Len(s) \/ y + 1 \in kept
  <2>1. SUFFICES ASSUME y # Len(s) PROVE y + 1 \in kept
    OBVIOUS
  <2>2. CASE y + 1 = d
    BY <1>1, <1>2, <1>3, <1>7, <2>1, <2>2
  <2>3. CASE y + 1 # d
    <3>1. y + 1 \in (c + 1)..(d - 1) /\ y + 1 \in 1..Len(s) /\ ~ (y + 1 <= y)
      BY <1>1, <1>2, <1>6, <1>7, <2>1, <2>3
    <3> QED
      BY <1>6, <1>b, <3>1
  <2> QED
    BY <2>2, <2>3
<1>11. to[x - 1] < to[x] /\ to[x - 1] \in Nat /\ to[x] \in Nat /\ w \in Nat
  <2>1. to[x - 1] \in Nat /\ to[x] \in Nat /\ w \in Nat /\ to[x - 1] <= to[x]
    BY <1>1, <1>7, <1>8
  <2>2. to[x - 1] # to[x]
    <3>1. CASE x \in kept
      BY <1>1, <2>1, <3>1
    <3>2. CASE x \notin kept
      <4>1. to[x] = to[x - 1] => x > 1 /\ x - 1 \notin kept
        BY <1>7, <3>2 DEF Aligned
      <4> QED
        BY <1>7, <1>9, <4>1
    <3> QED
      BY <3>1, <3>2
  <2> QED
    BY <2>1, <2>2
<1>12. v \in (f + 1)..(g - 1) /\ t[v] \notin Blanks
  <2>1. v \in Nat /\ to[x - 1] < v /\ v <= to[x]
    BY <1>11
  <2> HIDE DEF v
  <2> QED
    BY <1>5, <1>6, <1>7, <2>1, BlankAlike
<1>13. v <= w
  BY <1>7, <1>8, <1>6, <1>11
<1>14. t[w] \notin Blanks
  <2>1. CASE y \in kept
    BY <1>1, <1>6, <2>1
  <2>2. CASE y \notin kept
    <3>1. t[w] = "a"
      BY <1>7, <2>2 DEF Aligned
    <3> QED
      BY <3>1 DEF Blanks
  <2> QED
    BY <2>1, <2>2
<1>15. w \in (f + 1)..(g - 1)
  <2>1. w \in 1..Len(t)
    BY <1>1, <1>7, <1>11, <1>13
  <2>2. PICK n \in 1..Len(s) : to[n - 1] < w /\ w <= to[n]
    BY <2>1, AlignedCovers
  <2>3. n - 1 \in 0..Len(s) /\ n \in 0..Len(s)
    BY <1>1
  <2>4. x <= n
    <3>1. ~ (n <= x - 1)
      <4>1. n <= x - 1 => to[n] <= to[x - 1]
        BY <1>7, <1>8, <2>3
      <4> QED
        BY <1>1, <1>11, <1>13, <2>2, <2>3, <4>1
    <3> QED
      BY <1>7, <3>1
  <2>5. n <= y
    <3>1. ~ (y <= n - 1)
      <4>1. y <= n - 1 => to[y] <= to[n - 1]
        BY <1>7, <1>8, <2>3
      <4> QED
        BY <1>1, <1>7, <2>2, <2>3, <4>1
    <3> QED
      BY <1>7, <3>1
  <2>6. n \in (c + 1)..(d - 1)
    BY <1>2, <1>6, <2>4, <2>5
  <2> QED
    BY <1>5, <1>11, <2>2, <2>6
<1>16. ASSUME NEW l \in (f + 1)..(g - 1), t[l] \notin Blanks PROVE v <= l /\ l <= w
  <2>1. l \in 1..Len(t) /\ l \in Nat
    BY <1>1, <1>4
  <2>2. PICK n \in 1..Len(s) : to[n - 1] < l /\ l <= to[n]
    BY <2>1, AlignedCovers
  <2>3. n \in (c + 1)..(d - 1) /\ s[n] \notin Blanks
    BY <1>5, <1>16, <2>1, <2>2, BlankAlike
  <2>4. x <= n /\ n <= y /\ n - 1 \in 0..Len(s) /\ n \in 0..Len(s) /\ x - 1 <= n - 1
    BY <1>1, <1>6, <1>7, <2>3
  <2>5. to[x - 1] <= to[n - 1] /\ to[n] <= to[y] /\ to[n - 1] \in Nat /\ to[n] \in Nat
    BY <1>1, <1>7, <1>8, <2>4
  <2> QED
    BY <1>11, <2>1, <2>2, <2>5
<1>17. Trims(t, f + 1, g - 1, v, w)
  <2> HIDE DEF v, w
  <2> QED
    BY <1>12, <1>13, <1>14, <1>15, <1>16 DEF Trims
<1> QED
  BY <1>6, <1>7, <1>9, <1>10, <1>17 DEF f, g

\* The statements of t are what those of s give.
LEMMA StatementsSame ==
  ASSUME Agrees, NEW s, NEW t, NEW to, NEW kept, Aligned(s, t, to, kept), QuotesAgree(t)
  PROVE  /\ StatementsOf(t) = {<<to[p[1] - 1] + 1, to[p[2]]>> : p \in StatementsOf(s)}
         /\ \A p \in StatementsOf(s) :
              /\ p[1] \in 1..Len(s) /\ p[2] \in 1..Len(s) /\ p[1] <= p[2]
              /\ p[1] = 1 \/ p[1] - 1 \in kept
              /\ p[2] = Len(s) \/ p[2] + 1 \in kept
<1> DEFINE G(p) == <<to[p[1] - 1] + 1, to[p[2]]>>
<1>1. Len(s) \in Nat /\ Len(t) \in Nat
  BY AlignedMeans
<1>2. ASSUME NEW c, NEW d, Neighbours(s, c, d)
      PROVE  c + 1 \in Nat /\ d - 1 \in Int
  BY <1>1, <1>2 DEF Neighbours
<1>3. ASSUME NEW c, NEW d, Neighbours(t, c, d)
      PROVE  c + 1 \in Nat /\ d - 1 \in Int
  BY <1>1, <1>3 DEF Neighbours
<1>4. ASSUME NEW c, NEW d, Neighbours(s, c, d), NEW p \in Trimmed(s, c + 1, d - 1)
      PROVE  /\ p[1] \in 1..Len(s) /\ p[2] \in 1..Len(s) /\ p[1] <= p[2]
             /\ p[1] = 1 \/ p[1] - 1 \in kept
             /\ p[2] = Len(s) \/ p[2] + 1 \in kept
             /\ G(p) \in Trimmed(t, FoundAt(s, t, to, c) + 1, FoundAt(s, t, to, d) - 1)
  <2>1. PICK x, y \in (c + 1)..(d - 1) : p = <<x, y>> /\ Trims(s, c + 1, d - 1, x, y)
    BY <1>2, <1>4, TrimmedMeans
  <2> DEFINE f == FoundAt(s, t, to, c) + 1
             g == FoundAt(s, t, to, d) - 1
  <2>2. /\ x \in 1..Len(s) /\ y \in 1..Len(s) /\ x <= y
        /\ x = 1 \/ x - 1 \in kept
        /\ y = Len(s) \/ y + 1 \in kept
        /\ Trims(t, f, g, to[x - 1] + 1, to[y])
    BY <1>4, <2>1, StatementGiven
  <2>3. f \in Nat /\ g \in Int
    BY <1>3, <1>4, BetweenCuts
  <2>4. G(p) = <<to[x - 1] + 1, to[y]>> /\ p[1] = x /\ p[2] = y
    BY <2>1
  <2> HIDE DEF f, g
  <2>5. to[x - 1] + 1 \in f..g /\ to[y] \in f..g
    BY <2>2 DEF Trims
  <2>6. <<to[x - 1] + 1, to[y]>> \in Trimmed(t, f, g)
    <3> DEFINE v == to[x - 1] + 1
               w == to[y]
    <3>1. v \in f..g /\ w \in f..g /\ Trims(t, f, g, v, w)
      BY <2>2, <2>5
    <3> HIDE DEF v, w
    <3>2. \A r : r \in Trimmed(t, f, g) <=> \E a, b \in f..g : r = <<a, b>> /\ Trims(t, f, g, a, b)
      BY <2>3, TrimmedMeans
    <3>3. <<v, w>> \in Trimmed(t, f, g)
      BY <3>1, <3>2, Zenon
    <3> QED
      BY <3>3 DEF v, w
  <2>7. /\ p[1] \in 1..Len(s) /\ p[2] \in 1..Len(s) /\ p[1] <= p[2]
        /\ p[1] = 1 \/ p[1] - 1 \in kept
        /\ p[2] = Len(s) \/ p[2] + 1 \in kept
    BY <2>2, <2>4
  <2> HIDE DEF G
  <2>8. G(p) \in Trimmed(t, f, g)
    BY <2>4, <2>6
  <2> QED
    BY <2>7, <2>8, Zenon DEF f, g
<1>5. ASSUME NEW p \in StatementsOf(s)
      PROVE  /\ p[1] \in 1..Len(s) /\ p[2] \in 1..Len(s) /\ p[1] <= p[2]
             /\ p[1] = 1 \/ p[1] - 1 \in kept
             /\ p[2] = Len(s) \/ p[2] + 1 \in kept
             /\ G(p) \in StatementsOf(t)
  <2>1. PICK c, d \in 0..(Len(s) + 1) : Neighbours(s, c, d) /\ p \in Trimmed(s, c + 1, d - 1)
    BY <1>1, <1>5, StatementsMeans
  <2> DEFINE f == FoundAt(s, t, to, c)
             g == FoundAt(s, t, to, d)
  <2>2. Neighbours(t, f, g) /\ G(p) \in Trimmed(t, f + 1, g - 1)
    BY <1>4, <2>1, BetweenCuts
  <2>3. f \in 0..(Len(t) + 1) /\ g \in 0..(Len(t) + 1)
    BY <2>2 DEF Neighbours
  <2> HIDE DEF f, g, G
  <2>4. G(p) \in StatementsOf(t)
    BY <1>1, <2>2, <2>3, StatementsMeans
  <2> QED
    BY <1>4, <2>1, <2>4
<1>6. ASSUME NEW q \in StatementsOf(t) PROVE \E p \in StatementsOf(s) : q = G(p)
  <2>1. PICK h, z \in 0..(Len(t) + 1) : Neighbours(t, h, z) /\ q \in Trimmed(t, h + 1, z - 1)
    BY <1>1, <1>6, StatementsMeans
  <2>2. /\ h < z /\ CutAt(t, h) /\ CutAt(t, z) /\ \A k \in (h + 1)..(z - 1) : ~ CutAt(t, k)
    BY <2>1 DEF Neighbours
  <2> DEFINE F(n) == FoundAt(s, t, to, n)
  <2>3. PICK c \in 0..(Len(s) + 1) : CutAt(s, c) /\ h = F(c)
    BY <2>2, CutsMap
  <2>4. PICK d \in 0..(Len(s) + 1) : CutAt(s, d) /\ z = F(d)
    BY <2>2, CutsMap
  <2>5. /\ \A m, n \in 0..(Len(s) + 1) : CutAt(s, n) /\ m < n => F(m) < F(n)
        /\ \A n \in 0..(Len(s) + 1) : CutAt(s, n) => CutAt(t, F(n)) /\ F(n) \in 0..(Len(t) + 1)
    BY CutsMap
  <2> HIDE DEF F
  <2>6. c < d
    <3>1. ~ (d < c) /\ d # c
      <4>1. d < c => F(d) < F(c)
        BY <2>3, <2>5
      <4> QED
        BY <2>2, <2>3, <2>4, <4>1
    <3> QED
      BY <1>1, <3>1
  <2>7. ASSUME NEW k \in (c + 1)..(d - 1), CutAt(s, k) PROVE FALSE
    <3>1. k \in 0..(Len(s) + 1) /\ c < k /\ k < d
      BY <1>1
    <3>2. F(c) < F(k) /\ F(k) < F(d) /\ CutAt(t, F(k)) /\ F(k) \in Nat
      BY <2>4, <2>5, <2>7, <3>1
    <3>3. F(k) \in (h + 1)..(z - 1)
      BY <2>3, <2>4, <3>2
    <3> QED
      BY <2>2, <3>2, <3>3
  <2>8. Neighbours(s, c, d)
    BY <2>3, <2>4, <2>6, <2>7 DEF Neighbours
  <2>9. Trimmed(s, c + 1, d - 1) # {}
    <3>1. PICK v, w \in (h + 1)..(z - 1) : Trims(t, h + 1, z - 1, v, w)
      BY <1>3, <2>1, TrimmedMeans
    <3>2. v \in 1..Len(t) /\ t[v] \notin Blanks /\ v \in Nat
      BY <1>1, <2>1, <3>1 DEF Trims
    <3>3. PICK n \in 1..Len(s) : to[n - 1] < v /\ v <= to[n]
      BY <3>2, AlignedCovers
    <3>4. n \in (c + 1)..(d - 1)
      BY <2>3, <2>4, <2>8, <3>2, <3>3, BetweenCuts DEF F
    <3>5. s[n] \notin Blanks
      BY <3>2, <3>3, BlankAlike
    <3> QED
      BY <1>2, <2>8, <3>4, <3>5, TrimmedMeans
  <2>10. PICK p \in Trimmed(s, c + 1, d - 1) : TRUE
    BY <2>9
  <2>11. G(p) \in Trimmed(t, h + 1, z - 1)
    BY <1>4, <2>3, <2>4, <2>8 DEF F
  <2>12. q = G(p)
    <3> HIDE DEF G
    <3> QED
      BY <1>3, <2>1, <2>11, TrimmedMeans
  <2>13. p \in StatementsOf(s)
    BY <1>1, <2>8, StatementsMeans
  <2> QED
    BY <2>12, <2>13
<1>7. StatementsOf(t) = {G(p) : p \in StatementsOf(s)}
  <2> HIDE DEF G
  <2> QED
    BY <1>5, <1>6
<1>8. \A p \in StatementsOf(s) :
        /\ p[1] \in 1..Len(s) /\ p[2] \in 1..Len(s) /\ p[1] <= p[2]
        /\ p[1] = 1 \/ p[1] - 1 \in kept
        /\ p[2] = Len(s) \/ p[2] + 1 \in kept
  <2> HIDE DEF G
  <2> QED
    BY <1>5, Zenon
<1> QED
  BY <1>7, <1>8, Zenon

-----------------------------------------------------------------------------
(* A text and the text with its placeholders replaced.                     *)

\* left[n] symbols behind the n-th one belong to the placeholder it is part of.
LeftOf(s, left) ==
  /\ left \in [0..Len(s) -> Nat] /\ left[0] = 0
  /\ \A n \in 1..Len(s) :
       left[n] = IF left[n - 1] > 0 THEN left[n - 1] - 1
                 ELSE IF BeginsAt(s, n) THEN NextAt(s, n) - n - 1 ELSE 0

LEMMA LeftExists ==
  ASSUME SubTyped, settings.prefix # <<>>, NEW s \in Seq(Symbols)
  PROVE  \E left : LeftOf(s, left)
<1> DEFINE step == [p \in Nat \X Nat |->
                      IF p[2] > 0 THEN p[2] - 1
                      ELSE IF p[1] \in 1..Len(s) /\ BeginsAt(s, p[1])
                           THEN NextAt(s, p[1]) - p[1] - 1 ELSE 0]
<1>1. Len(s) \in Nat /\ 0 \in Nat
  BY LenProperties
<1>2. ASSUME NEW k \in 1..Len(s), BeginsAt(s, k) PROVE NextAt(s, k) - k - 1 \in Nat
  <2>1. k \in Positions(s) /\ k \in Nat
    BY <1>1 DEF Positions
  <2>2. NextAt(s, k) \in (k + 1)..(Len(s) + 1)
    BY <1>2, <2>1, NextRange
  <2> QED
    BY <1>1, <2>1, <2>2
<1>3. step \in [Nat \X Nat -> Nat]
  <2>1. ASSUME NEW p \in Nat \X Nat
        PROVE  (IF p[2] > 0 THEN p[2] - 1
                ELSE IF p[1] \in 1..Len(s) /\ BeginsAt(s, p[1])
                     THEN NextAt(s, p[1]) - p[1] - 1 ELSE 0) \in Nat
    <3>1. p[2] \in Nat
      OBVIOUS
    <3> QED
      BY <1>2, <3>1
  <2> QED
    BY <2>1
<1>4. \A n \in 1..Len(s), j \in Nat :
        step[<<n, j>>] = IF j > 0 THEN j - 1
                         ELSE IF BeginsAt(s, n) THEN NextAt(s, n) - n - 1 ELSE 0
  OBVIOUS
<1> HIDE DEF step
<1>5. PICK g \in Recursions(Nat, 0, step, Len(s)) : TRUE
  BY <1>1, <1>3, NatRec, ZenonT(30)
<1>6. g \in [0..Len(s) -> Nat] /\ g[0] = 0 /\ \A k \in 1..Len(s) : g[k] = step[<<k, g[k - 1]>>]
  BY <1>5 DEF Recursions
<1>7. ASSUME NEW n \in 1..Len(s)
      PROVE  g[n] = IF g[n - 1] > 0 THEN g[n - 1] - 1
                    ELSE IF BeginsAt(s, n) THEN NextAt(s, n) - n - 1 ELSE 0
  <2>1. n - 1 \in 0..Len(s)
    BY <1>1
  <2>2. g[n - 1] \in Nat
    BY <1>6, <2>1
  <2> QED
    BY <1>4, <1>6, <2>2
<1> QED
  BY <1>6, <1>7 DEF LeftOf

\* The symbols of s that are copied, and how much of the result n symbols give.
Copied(s, left) == {n \in 1..Len(s) : left[n - 1] = 0 /\ ~ BeginsAt(s, n)}
Given(s, left) == [n \in 0..Len(s) |-> Len(Rests(s)[1]) - Len(Rests(s)[n + 1 + left[n]])]

\* What a step over one symbol does: a placeholder goes on, begins, or there is none.
LEMMA LeftStep ==
  ASSUME SubTyped, settings.prefix # <<>>, NEW s \in Seq(Symbols), NEW left, LeftOf(s, left),
         NEW n \in 1..Len(s)
  PROVE  /\ Len(s) \in Nat /\ n - 1 \in 0..Len(s) /\ n \in 0..Len(s) /\ left[n - 1] \in Nat
         /\ left[n] \in Nat /\ (n \in Copied(s, left) <=> left[n - 1] = 0 /\ ~ BeginsAt(s, n))
         /\ \/ left[n - 1] > 0 /\ left[n] = left[n - 1] - 1 /\ n - 1 >= 1
            \/ /\ left[n - 1] = 0 /\ BeginsAt(s, n) /\ left[n] = NextAt(s, n) - n - 1
               /\ NextAt(s, n) \in (n + 1)..(Len(s) + 1)
            \/ left[n - 1] = 0 /\ ~ BeginsAt(s, n) /\ left[n] = 0
<1>1. /\ Len(s) \in Nat /\ n - 1 \in 0..Len(s) /\ n \in 0..Len(s) /\ n \in Positions(s)
  BY LenProperties DEF Positions
<1>2. /\ left[n - 1] \in Nat /\ left[n] \in Nat /\ left[0] = 0
      /\ left[n] = IF left[n - 1] > 0 THEN left[n - 1] - 1
                   ELSE IF BeginsAt(s, n) THEN NextAt(s, n) - n - 1 ELSE 0
  BY <1>1 DEF LeftOf
<1>3. BeginsAt(s, n) => NextAt(s, n) \in (n + 1)..(Len(s) + 1)
  BY <1>1, NextRange
<1>4. left[n - 1] > 0 => n - 1 >= 1
  BY <1>1, <1>2
<1> QED
  BY <1>1, <1>2, <1>3, <1>4 DEF Copied

\* A placeholder ends within the text.
LEMMA LeftBound ==
  ASSUME SubTyped, settings.prefix # <<>>, NEW s \in Seq(Symbols), NEW left, LeftOf(s, left),
         NEW n \in 0..Len(s)
  PROVE  left[n] \in Nat /\ n + 1 + left[n] \in 1..(Len(s) + 1)
<1> DEFINE T == {k \in Nat : k <= Len(s) => left[k] \in Nat /\ k + 1 + left[k] <= Len(s) + 1}
<1>1. Len(s) \in Nat /\ left[0] = 0
  BY LenProperties DEF LeftOf
<1>2. 0 \in T
  BY <1>1
<1>3. ASSUME NEW k \in T PROVE k + 1 \in T
  <2>1. SUFFICES ASSUME k + 1 <= Len(s)
                 PROVE  left[k + 1] \in Nat /\ (k + 1) + 1 + left[k + 1] <= Len(s) + 1
    OBVIOUS
  <2> DEFINE j == k + 1
  <2>2. j \in 1..Len(s) /\ j - 1 = k /\ left[k] \in Nat /\ k + 1 + left[k] <= Len(s) + 1
    BY <1>1, <2>1
  <2> HIDE DEF j
  <2>3. /\ left[j] \in Nat
        /\ \/ left[k] > 0 /\ left[j] = left[k] - 1
           \/ left[j] = NextAt(s, j) - j - 1 /\ NextAt(s, j) \in (j + 1)..(Len(s) + 1)
           \/ left[j] = 0
    BY <2>2, LeftStep
  <2>4. j + 1 + left[j] <= Len(s) + 1
    BY <1>1, <2>2, <2>3
  <2> QED
    BY <2>3, <2>4 DEF j
<1>4. T = Nat
  <2>1. T \in SUBSET Nat
    OBVIOUS
  <2> HIDE DEF T
  <2> QED
    BY <1>2, <1>3, <2>1, NatInd
<1>5. n \in T /\ n <= Len(s) /\ n \in Nat
  <2> HIDE DEF T
  <2> QED
    BY <1>1, <1>4
<1>6. left[n] \in Nat /\ n + 1 + left[n] <= Len(s) + 1
  BY <1>5
<1> QED
  BY <1>1, <1>5, <1>6

\* Inside of a placeholder that begins at b.
LEMMA LeftInside ==
  ASSUME SubTyped, settings.prefix # <<>>, NEW s \in Seq(Symbols), NEW left, LeftOf(s, left),
         NEW b \in 1..Len(s), left[b - 1] = 0, BeginsAt(s, b), NEW n \in b..(NextAt(s, b) - 1)
  PROVE  n \in 1..Len(s) /\ left[n] = NextAt(s, b) - 1 - n
<1> DEFINE e == NextAt(s, b)
           T == {d \in Nat : b + d <= e - 1 => left[b + d] = e - 1 - (b + d)}
<1>1. /\ Len(s) \in Nat /\ b \in Nat /\ b >= 1 /\ e \in (b + 1)..(Len(s) + 1)
      /\ left[b] = e - b - 1
  <2>1. Len(s) \in Nat /\ b \in Nat /\ b >= 1
    BY LenProperties
  <2>2. left[b] = e - b - 1 /\ e \in (b + 1)..(Len(s) + 1)
    BY LeftStep
  <2> QED
    BY <2>1, <2>2
<1> HIDE DEF e
<1>2. 0 \in T
  BY <1>1
<1>3. ASSUME NEW d \in T PROVE d + 1 \in T
  <2>1. SUFFICES ASSUME b + (d + 1) <= e - 1 PROVE left[b + (d + 1)] = e - 1 - (b + (d + 1))
    OBVIOUS
  <2> DEFINE j == b + (d + 1)
  <2>2. /\ j \in 1..Len(s) /\ j - 1 = b + d /\ b + d <= e - 1
    BY <1>1, <2>1
  <2>3. left[j - 1] = e - 1 - (b + d) /\ left[j - 1] > 0
    BY <1>1, <2>1, <2>2
  <2> HIDE DEF j
  <2>4. left[j] = left[j - 1] - 1
    BY <2>2, <2>3 DEF LeftOf
  <2> QED
    BY <1>1, <2>2, <2>3, <2>4 DEF j
<1>4. T = Nat
  <2>1. T \in SUBSET Nat
    OBVIOUS
  <2> HIDE DEF T
  <2> QED
    BY <1>2, <1>3, <2>1, NatInd
<1>5. n - b \in T /\ b + (n - b) = n /\ n <= e - 1 /\ n \in 1..Len(s)
  <2>1. n \in b..(e - 1)
    BY DEF e
  <2> HIDE DEF T
  <2> QED
    BY <1>1, <1>4, <2>1
<1> QED
  BY <1>5 DEF e

\* A symbol that is not copied belongs to a placeholder.
LEMMA BegunBefore ==
  ASSUME SubTyped, settings.prefix # <<>>, NEW s \in Seq(Symbols), NEW left, LeftOf(s, left),
         NEW n \in (1..Len(s)) \ Copied(s, left)
  PROVE  \E b \in 1..Len(s) : /\ b <= n /\ left[b - 1] = 0 /\ BeginsAt(s, b) /\ n < NextAt(s, b)
                              /\ left[n] = NextAt(s, b) - 1 - n
<1> DEFINE Begun(k, b) == /\ b <= k /\ left[b - 1] = 0 /\ BeginsAt(s, b) /\ k < NextAt(s, b)
                          /\ left[k] = NextAt(s, b) - 1 - k
           T == {k \in Nat : k \in (1..Len(s)) \ Copied(s, left) => \E b \in 1..Len(s) : Begun(k, b)}
<1>1. Len(s) \in Nat
  BY LenProperties
<1>2. 0 \in T
  OBVIOUS
<1>3. ASSUME NEW k \in T PROVE k + 1 \in T
  <2> DEFINE j == k + 1
  <2>1. SUFFICES ASSUME j \in (1..Len(s)) \ Copied(s, left) PROVE \E b \in 1..Len(s) : Begun(j, b)
    OBVIOUS
  <2>2. j - 1 = k /\ k \in Nat
    OBVIOUS
  <2> HIDE DEF j
  <2>3. CASE left[k] = 0
    <3>1. BeginsAt(s, j) /\ NextAt(s, j) \in (j + 1)..(Len(s) + 1) /\ left[j] = NextAt(s, j) - j - 1
      BY <2>1, <2>2, <2>3, LeftStep
    <3>2. Begun(j, j)
      BY <1>1, <2>1, <2>2, <2>3, <3>1
    <3> HIDE DEF Begun
    <3> QED
      BY <2>1, <3>2
  <2>4. CASE left[k] # 0
    <3>1. k >= 1 /\ left[k] > 0 /\ left[j] = left[k] - 1
      BY <2>1, <2>2, <2>4, LeftStep
    <3>2. k \in 1..Len(s)
      BY <1>1, <2>1, <2>2, <3>1
    <3>3. k \notin Copied(s, left)
      BY <2>4, <3>2, LeftStep
    <3>4. PICK b \in 1..Len(s) : Begun(k, b)
      BY <3>2, <3>3
    <3>5. BeginsAt(s, b) /\ left[b - 1] = 0 /\ NextAt(s, b) \in Nat
      BY <3>4, LeftStep
    <3>6. Begun(j, b)
      <4> DEFINE e == NextAt(s, b)
      <4>1. b <= k /\ left[k] = e - 1 - k /\ e \in Nat /\ b \in Nat
        BY <1>1, <3>4, <3>5
      <4>j. j = k + 1 /\ k \in Nat
        BY <2>2 DEF j
      <4> HIDE DEF e
      <4>2. b <= j /\ j < e /\ left[j] = e - 1 - j
        BY <3>1, <4>1, <4>j
      <4> QED
        BY <3>5, <4>2 DEF e
    <3> HIDE DEF Begun
    <3> QED
      BY <3>6
  <2> QED
    BY <2>3, <2>4
<1>4. T = Nat
  <2>1. T \in SUBSET Nat
    OBVIOUS
  <2> HIDE DEF T
  <2> QED
    BY <1>2, <1>3, <2>1, NatInd
<1>5. n \in T
  <2> HIDE DEF T
  <2> QED
    BY <1>1, <1>4
<1> QED
  BY <1>5

\* What a symbol gives: itself, the value of the placeholder it begins, or nothing.
Gives(s, left, n) ==
  IF left[n - 1] > 0 THEN <<>>
  ELSE IF BeginsAt(s, n) THEN ValueOf(NameAt(s, n)) ELSE <<s[n]>>

LEMMA GivesRest ==
  ASSUME SubTyped, settings.prefix # <<>>, NEW s \in Seq(Symbols), NEW left, LeftOf(s, left),
         NEW n \in 1..Len(s)
  PROVE  /\ Gives(s, left, n) \in Seq(Signs)
         /\ Rests(s)[n + left[n - 1]] \in Seq(Signs) /\ Rests(s)[n + 1 + left[n]] \in Seq(Signs)
         /\ Rests(s)[n + left[n - 1]] = Gives(s, left, n) \o Rests(s)[n + 1 + left[n]]
<1> DEFINE R == Rests(s)
<1>1. /\ Len(s) \in Nat /\ n \in Nat /\ n - 1 \in 0..Len(s) /\ n \in 0..Len(s)
      /\ left[n - 1] \in Nat /\ left[n] \in Nat
  BY LeftStep, LenProperties
<1>2. (n - 1) + 1 + left[n - 1] \in 1..(Len(s) + 1) /\ n + 1 + left[n] \in 1..(Len(s) + 1)
  BY <1>1, LeftBound
<1>3. n + left[n - 1] \in Positions(s) /\ n + 1 + left[n] \in Positions(s)
  BY <1>1, <1>2 DEF Positions
<1>4. R \in [Positions(s) -> Seq(Signs)] /\ \A k \in Positions(s) : R[k] = RestAt(s, R, k)
  BY RestsDef
<1> HIDE DEF R
<1>5. R[n + left[n - 1]] \in Seq(Signs) /\ R[n + 1 + left[n]] \in Seq(Signs)
  BY <1>3, <1>4
<1>6. CASE left[n - 1] > 0
  <2>1. left[n] = left[n - 1] - 1
    BY <1>6, LeftStep
  <2>2. n + 1 + left[n] = n + left[n - 1]
    BY <1>1, <2>1
  <2>3. <<>> \o R[n + left[n - 1]] = R[n + left[n - 1]]
    BY <1>5, ConcatEmptySeq
  <2> QED
    BY <1>5, <1>6, <2>2, <2>3, EmptySeq DEF Gives, R
<1>7. CASE left[n - 1] = 0
  <2>1. n + left[n - 1] = n /\ n \in Positions(s) /\ ~ (n > Len(s))
    BY <1>1, <1>3, <1>7
  <2>2. R[n] = RestAt(s, R, n)
    BY <1>4, <2>1
  <2>3. CASE BeginsAt(s, n)
    <3>1. left[n] = NextAt(s, n) - n - 1 /\ NextAt(s, n) \in Nat
      BY <1>7, <2>3, LeftStep
    <3>2. n + 1 + left[n] = NextAt(s, n)
      BY <1>1, <3>1
    <3>3. R[n] = ValueOf(NameAt(s, n)) \o R[NextAt(s, n)]
      BY <2>1, <2>2, <2>3 DEF RestAt
    <3> QED
      BY <1>5, <1>7, <2>1, <2>3, <3>2, <3>3, ValueType DEF Gives, R
  <2>4. CASE ~ BeginsAt(s, n)
    <3>1. left[n] = 0
      BY <1>7, <2>4, LeftStep
    <3>2. n + 1 + left[n] = n + 1
      BY <1>1, <3>1
    <3>3. R[n] = <<s[n]>> \o R[n + 1]
      BY <2>1, <2>2, <2>4 DEF RestAt
    <3>4. <<s[n]>> \in Seq(Signs)
      <4>1. s[n] \in Signs
        BY <1>1 DEF Signs
      <4> QED
        BY <4>1
    <3> QED
      BY <1>5, <1>7, <2>1, <2>4, <3>2, <3>3, <3>4 DEF Gives, R
  <2> QED
    BY <2>3, <2>4
<1> QED
  BY <1>1, <1>6, <1>7, SMTT(30)

\* What the first n symbols give, in the result: the rest is what follows it.
LEMMA GivenText ==
  ASSUME SubTyped, settings.prefix # <<>>, NEW s \in Seq(Symbols), NEW left, LeftOf(s, left),
         NEW n \in 0..Len(s)
  PROVE  LET t == Rests(s)[1]
             r == Rests(s)[n + 1 + left[n]]
             to == Given(s, left)
         IN  /\ t \in Seq(Signs) /\ r \in Seq(Signs) /\ to[n] \in 0..Len(t)
             /\ Len(t) = to[n] + Len(r) /\ \A z \in 1..Len(r) : t[to[n] + z] = r[z]
<1> DEFINE R == Rests(s)
           t == R[1]
           Fits(k) == LET x == R[k + 1 + left[k]]
                          p == Len(t) - Len(x)
                      IN  /\ x \in Seq(Signs) /\ p \in 0..Len(t) /\ Len(t) = p + Len(x)
                          /\ \A z \in 1..Len(x) : t[p + z] = x[z]
           T == {k \in Nat : k <= Len(s) => Fits(k)}
<1>1. Len(s) \in Nat /\ left[0] = 0 /\ t \in Seq(Signs) /\ Len(t) \in Nat
  <2>1. 1 \in Positions(s)
    BY LenProperties DEF Positions
  <2>2. R[1] \in Seq(Signs)
    BY <2>1, RestsDef
  <2> QED
    BY <2>2, LenProperties DEF LeftOf
<1>2. 0 \in T
  <2>1. 0 + 1 + left[0] = 1 /\ Len(t) - Len(t) = 0 /\ \A z \in Nat : 0 + z = z
    BY <1>1
  <2>2. Fits(0)
    <3> HIDE DEF R
    <3> QED
      BY <1>1, <2>1
  <2> HIDE DEF Fits
  <2> QED
    BY <2>2
<1>3. ASSUME NEW k \in T PROVE k + 1 \in T
  <2>1. SUFFICES ASSUME k + 1 <= Len(s) PROVE Fits(k + 1)
    <3> HIDE DEF Fits
    <3> QED
      OBVIOUS
  <2> DEFINE j == k + 1
             x == R[k + 1 + left[k]]
             y == R[j + 1 + left[j]]
             g == Gives(s, left, j)
             p == Len(t) - Len(x)
             q == Len(t) - Len(y)
  <2>2. j \in 1..Len(s) /\ j - 1 = k /\ k \in Nat /\ k <= Len(s)
    BY <1>1, <2>1
  <2>3. x \in Seq(Signs) /\ p \in 0..Len(t) /\ Len(t) = p + Len(x)
        /\ \A z \in 1..Len(x) : t[p + z] = x[z]
    BY <2>2
  <2>4. g \in Seq(Signs) /\ y \in Seq(Signs) /\ R[j + left[j - 1]] = g \o y
    BY <2>2, GivesRest, ZenonT(30)
  <2>5. x = g \o y
    BY <2>2, <2>4
  <2> HIDE DEF j, R, t, x, y, g
  <2>6. /\ Len(x) = Len(g) + Len(y) /\ Len(g) \in Nat /\ Len(y) \in Nat
        /\ \A z \in 1..(Len(g) + Len(y)) : x[z] = IF z <= Len(g) THEN g[z] ELSE y[z - Len(g)]
    BY <2>4, <2>5, ConcatProperties, LenProperties
  <2>7. q = p + Len(g) /\ q \in 0..Len(t) /\ Len(t) = q + Len(y)
    BY <1>1, <2>3, <2>6
  <2>8. ASSUME NEW z \in 1..Len(y) PROVE t[q + z] = y[z]
    <3> DEFINE h == Len(g) + z
    <3> HIDE DEF p, q
    <3>0. p \in Nat
      BY <2>3, <1>1 DEF t
    <3>1. h \in 1..Len(x) /\ ~ (h <= Len(g)) /\ h - Len(g) = z /\ p + h = q + z
          /\ h \in 1..(Len(g) + Len(y))
      <4> DEFINE m == Len(g)
                 o == Len(y)
      <4>1. Len(x) = m + o /\ q = p + m /\ m \in Nat /\ o \in Nat /\ z \in 1..o
        BY <2>6, <2>7
      <4> HIDE DEF m, o
      <4>2. m + z \in 1..(m + o) /\ ~ (m + z <= m) /\ (m + z) - m = z /\ p + (m + z) = q + z
        BY <3>0, <4>1
      <4> QED
        BY <4>1, <4>2 DEF m, o
    <3> HIDE DEF h
    <3>2. t[p + h] = x[h] /\ x[h] = y[h - Len(g)]
      BY <2>3, <2>6, <3>1
    <3> QED
      BY <3>1, <3>2
  <2> HIDE DEF q
  <2>9. Fits(j)
    BY <2>4, <2>7, <2>8 DEF q, y
  <2> QED
    BY <2>9 DEF j
<1>4. T = Nat
  <2>1. T \in SUBSET Nat
    OBVIOUS
  <2> HIDE DEF T
  <2> QED
    BY <1>2, <1>3, <2>1, NatInd
<1>5. n \in T /\ n <= Len(s)
  <2> HIDE DEF T
  <2> QED
    BY <1>1, <1>4
<1>6. Fits(n)
  BY <1>5
<1>7. Given(s, left)[n] = Len(t) - Len(R[n + 1 + left[n]])
  BY DEF Given
<1> QED
  BY <1>1, <1>6, <1>7

\* How much of the result each symbol gives, and that it is there.
GivenThere(s, left, n) ==
  LET t == Rests(s)[1]
      g == Gives(s, left, n)
      to == Given(s, left)
  IN  /\ to[n - 1] \in Nat /\ to[n] = to[n - 1] + Len(g)
      /\ \A z \in 1..Len(g) : t[to[n - 1] + z] = g[z]

LEMMA GivenStep ==
  ASSUME SubTyped, settings.prefix # <<>>, NEW s \in Seq(Symbols), NEW left, LeftOf(s, left),
         NEW n \in 1..Len(s)
  PROVE  GivenThere(s, left, n)
<1> DEFINE t == Rests(s)[1]
           x == Rests(s)[n + left[n - 1]]
           y == Rests(s)[n + 1 + left[n]]
           g == Gives(s, left, n)
           p == Given(s, left)[n - 1]
           q == Given(s, left)[n]
<1>1. n - 1 \in 0..Len(s) /\ n \in 0..Len(s) /\ (n - 1) + 1 + left[n - 1] = n + left[n - 1]
  BY LeftStep, LenProperties
<1>2. /\ p \in 0..Len(t) /\ Len(t) = p + Len(x) /\ \A z \in 1..Len(x) : t[p + z] = x[z]
      /\ q \in 0..Len(t) /\ Len(t) = q + Len(y) /\ t \in Seq(Signs)
  BY <1>1, GivenText, SMTT(30)
<1>3. g \in Seq(Signs) /\ x \in Seq(Signs) /\ y \in Seq(Signs) /\ x = g \o y
  BY GivesRest
<1> HIDE DEF x, y, g, p, q, t
<1>4. /\ Len(x) = Len(g) + Len(y) /\ Len(g) \in Nat /\ Len(y) \in Nat /\ Len(t) \in Nat
      /\ \A z \in 1..(Len(g) + Len(y)) : x[z] = IF z <= Len(g) THEN g[z] ELSE y[z - Len(g)]
  BY <1>2, <1>3, ConcatProperties, LenProperties
<1>5. q = p + Len(g) /\ p \in Nat
  <2> DEFINE l == Len(x)
             m == Len(g)
             o == Len(y)
             u == Len(t)
  <2>1. /\ p \in 0..u /\ u = p + l /\ q \in 0..u /\ u = q + o /\ l = m + o
        /\ m \in Nat /\ o \in Nat /\ u \in Nat
    BY <1>2, <1>4
  <2> HIDE DEF l, m, o, u
  <2>2. q = p + m /\ p \in Nat
    BY <2>1
  <2> QED
    BY <2>2 DEF m
<1>6. ASSUME NEW z \in 1..Len(g) PROVE t[p + z] = g[z]
  <2>1. z \in 1..Len(x) /\ z \in 1..(Len(g) + Len(y)) /\ z <= Len(g)
    BY <1>4
  <2> QED
    BY <1>2, <1>4, <2>1
<1> QED
  BY <1>5, <1>6 DEF p, q, g, t, GivenThere

\* Placeholders that are part of no token, whatever they name: marks around a name of
\* letters, perhaps behind a dollar sign.
MarkedPlaceholders ==
  Substitutes =>
    /\ \/ \A k \in DOMAIN settings.prefix : settings.prefix[k] \in Marks
       \/ /\ Len(settings.prefix) >= 2 /\ settings.prefix[1] = "$"
          /\ \A k \in 2..Len(settings.prefix) : settings.prefix[k] \in Marks
    /\ settings.suffix # <<>> /\ \A k \in DOMAIN settings.suffix : settings.suffix[k] \in Marks
    /\ \A n \in DOMAIN settings.placeholders : n \in Seq(TagSymbols)

\* The symbols of a placeholder.
LEMMA PlaceholderSymbols ==
  ASSUME SubTyped, Substitutes, MarkedPlaceholders, NEW s \in Seq(Symbols), NEW b \in 1..Len(s),
         BeginsAt(s, b), NameAt(s, b) \in DOMAIN settings.placeholders
  PROVE  LET e == NextAt(s, b)
         IN  /\ s[e - 1] \in Marks
             /\ \A n \in b..(e - 1) : s[n] \in Inert /\ (s[n] = "$" => n < e - 1 /\ s[n + 1] \in Marks)
<1> DEFINE p == Len(settings.prefix)
           q == Len(settings.suffix)
           m == Min(Ends(s, b))
           e == m + q
           f == b + p
           u == NameAt(s, b)
<1>1. /\ settings.prefix \in Seq(Symbols) /\ settings.suffix \in Seq(Symbols)
      /\ p \in Nat /\ q \in Nat /\ Len(s) \in Nat /\ b \in Nat /\ b >= 1
      /\ DOMAIN settings.prefix = 1..p /\ DOMAIN settings.suffix = 1..q
  BY LenProperties DEF SubTyped
<1>2. p >= 1 /\ q >= 1
  <2>1. settings.prefix # <<>> /\ settings.suffix # <<>>
    BY DEF Substitutes, MarkedPlaceholders
  <2> QED
    BY <1>1, <2>1, EmptySeq
<1>3. m \in Ends(s, b) /\ m \in Nat /\ m >= f /\ m >= 1
  <2> HIDE DEF p, m, q, f
  <2>1. Ends(s, b) \subseteq f..(Len(s) + 1)
    BY DEF Ends, Occurrences, f, p
  <2>2. Ends(s, b) \in SUBSET Nat /\ Ends(s, b) # {} /\ f \in Nat /\ f >= 1
    BY <1>1, <1>2, <2>1 DEF BeginsAt, f
  <2>3. m \in Ends(s, b)
    BY <2>2, MinOfNats DEF m
  <2> QED
    BY <1>1, <2>1, <2>2, <2>3
<1>4. b + p - 1 <= Len(s) /\ \A j \in 1..p : s[b + j - 1] = settings.prefix[j]
  <2>1. Matches(s, settings.prefix, b) /\ b \in Nat \ {0}
    BY <1>1 DEF BeginsAt
  <2> QED
    BY <1>1, <2>1, MatchesSymbols
<1>5. e - 1 <= Len(s) /\ \A j \in 1..q : s[m + j - 1] = settings.suffix[j]
  <2>1. Matches(s, settings.suffix, m) /\ m \in Nat \ {0}
    BY <1>3 DEF Ends, Occurrences
  <2> HIDE DEF m
  <2> QED
    BY <1>1, <2>1, MatchesSymbols
<1>6. e = NextAt(s, b) /\ u = SubSeq(s, f, m - 1) /\ u \in Seq(TagSymbols)
  <2>1. u \in Seq(TagSymbols)
    BY DEF MarkedPlaceholders
  <2> QED
    BY <2>1 DEF NextAt, NameAt
<1> HIDE DEF m, f, u, p, q
<1>7. f = b + p
  BY DEF f, p
<1>8. \A j \in f..(m - 1) : s[j] \in TagSymbols
  <2>1. CASE m = f
    BY <1>1, <1>7, <2>1
  <2>2. CASE m > f
    <3>1. \A j \in f..(m - 1) : s[j] \in Symbols
      <4>1. \A j \in f..(m - 1) : j \in 1..Len(s)
        BY <1>1, <1>2, <1>3, <1>5, <1>7
      <4> QED
        BY <4>1
    <3>2. f \in Int /\ m - 1 \in Int /\ f <= m - 1
      BY <1>1, <1>3, <1>7, <2>2
    <3>3. Len(u) = (m - 1) - f + 1 /\ \A j \in 1..((m - 1) - f + 1) : u[j] = s[f + j - 1]
      BY <1>6, <3>1, <3>2, SubSeqProperties
    <3> TAKE j \in f..(m - 1)
    <3>4. j - f + 1 \in 1..Len(u) /\ f + (j - f + 1) - 1 = j
      BY <3>2, <3>3
    <3>5. u[j - f + 1] = s[j]
      BY <3>3, <3>4
    <3> QED
      BY <1>6, <3>4, <3>5
  <2> QED
    BY <1>1, <1>3, <1>7, <2>1, <2>2
<1>9. \A j \in m..(e - 1) : s[j] \in Marks
  <2> TAKE j \in m..(e - 1)
  <2>1. j - m + 1 \in 1..q /\ m + (j - m + 1) - 1 = j
    BY <1>1, <1>3
  <2>2. s[j] = settings.suffix[j - m + 1]
    BY <1>5, <2>1
  <2> QED
    BY <1>1, <2>1, <2>2 DEF MarkedPlaceholders
<1>10. \A j \in (b + 1)..(f - 1) : s[j] \in Marks
  <2> TAKE j \in (b + 1)..(f - 1)
  <2>1. j - b + 1 \in 2..p /\ j - b + 1 \in 1..p /\ b + (j - b + 1) - 1 = j
    BY <1>1, <1>7
  <2>2. s[j] = settings.prefix[j - b + 1]
    BY <1>4, <2>1
  <2> QED
    BY <1>1, <2>1, <2>2 DEF MarkedPlaceholders, p
<1>11. s[b] \in Marks \/ (s[b] = "$" /\ p >= 2)
  <2>1. 1 \in 1..p /\ b + 1 - 1 = b
    BY <1>1, <1>2
  <2>2. s[b] = settings.prefix[1]
    BY <1>4, <2>1
  <2> QED
    BY <1>1, <2>1, <2>2 DEF MarkedPlaceholders, p
<1>12. "$" \notin Marks \cup TagSymbols
  BY DEF Marks, TagSymbols
<1>13. /\ e \in Nat /\ m <= e - 1 /\ b < f /\ f <= m /\ f \in Nat
       /\ e - 1 \in m..(e - 1) /\ (p >= 2 => b + 1 \in (b + 1)..(f - 1) /\ b < e - 1)
  BY <1>1, <1>2, <1>3, <1>7
<1>14. ASSUME NEW n \in b..(e - 1)
       PROVE  s[n] \in Inert /\ (s[n] = "$" => n < e - 1 /\ s[n + 1] \in Marks)
  <2>1. n = b \/ n \in (b + 1)..(f - 1) \/ n \in f..(m - 1) \/ n \in m..(e - 1)
    BY <1>1, <1>3, <1>13
  <2>2. CASE n = b
    <3>1. s[b] = "$" => b < e - 1 /\ s[b + 1] \in Marks
      BY <1>10, <1>11, <1>12, <1>13
    <3> QED
      BY <1>11, <2>2, <3>1 DEF Inert
  <2>3. CASE s[n] \in Marks \cup TagSymbols
    BY <1>12, <2>3 DEF Inert
  <2> QED
    BY <1>8, <1>9, <1>10, <2>1, <2>2, <2>3
<1>15. s[e - 1] \in Marks
  BY <1>9, <1>13
<1> QED
  BY <1>6, <1>14, <1>15

\* Placeholders stand apart from words and dollar signs, and from delimiter lines.
Apart(s) ==
  /\ \A k \in DOMAIN s : s[k] # "DELIMITER"
  /\ \A k \in 1..Len(s) : BeginsAt(s, k) =>
       /\ k > 1 => s[k - 1] \notin TagSymbols \cup {"$"}
       /\ NextAt(s, k) <= Len(s) => s[NextAt(s, k)] \notin TagSymbols

LEMMA ApartMeans ==
  ASSUME SubTyped, Substitutes, StandApart
  PROVE  Apart(content)
<1>1. content \in Seq(Symbols) /\ settings.prefix \in Seq(Symbols) /\ Len(content) \in Nat
  BY LenProperties DEF SubTyped
<1>2. ASSUME NEW k \in 1..Len(content), BeginsAt(content, k)
      PROVE  /\ k \in Occurrences(content, settings.prefix, 1) /\ HasPlaceholder(content, k)
             /\ Placeholder(content, k).next = NextAt(content, k)
  <2> DEFINE T == Occurrences(content, settings.prefix, k)
  <2>1. k \in T /\ T \subseteq k..(Len(content) + 1) /\ k \in Occurrences(content, settings.prefix, 1)
    BY <1>1, <1>2 DEF Occurrences, BeginsAt
  <2> HIDE DEF T
  <2>2. T \in SUBSET Nat /\ \A j \in T : k <= j
    BY <1>1, <2>1
  <2>3. Min(T) \in T /\ Min(T) <= k
    BY <2>1, <2>2, MinOfNats
  <2>4. Min(T) = k
    <3> DEFINE m == Min(T)
    <3>1. m \in Nat /\ k <= m /\ m <= k /\ k \in Nat
      BY <2>1, <2>2, <2>3
    <3> HIDE DEF m
    <3>2. m = k
      BY <3>1
    <3> QED
      BY <3>2 DEF m
  <2> QED
    <3> DEFINE ends(j) == Occurrences(content, settings.suffix, j + Len(settings.prefix))
    <3>1. HasPlaceholder(content, k) <=> T # {} /\ ends(Min(T)) # {}
      BY DEF HasPlaceholder, T
    <3>2. Placeholder(content, k).next = Min(ends(Min(T))) + Len(settings.suffix)
      BY DEF Placeholder, T
    <3>3. ends(k) = Ends(content, k) /\ ends(k) # {}
      BY <1>2 DEF BeginsAt, Ends
    <3>4. NextAt(content, k) = Min(ends(k)) + Len(settings.suffix)
      BY <3>3 DEF NextAt
    <3> HIDE DEF ends
    <3> QED
      BY <2>1, <2>4, <3>1, <3>2, <3>3, <3>4
<1>3. \A k \in 1..Len(content) : BeginsAt(content, k) =>
        /\ k > 1 => content[k - 1] \notin TagSymbols \cup {"$"}
        /\ NextAt(content, k) <= Len(content) => content[NextAt(content, k)] \notin TagSymbols
  BY <1>2 DEF StandApart
<1>4. \A k \in DOMAIN content : content[k] # "DELIMITER"
  BY DEF StandApart
<1> QED
  BY <1>3, <1>4 DEF Apart

\* In a text whose placeholders all have values, the values being words, a symbol gives
\* itself when it is copied, a word when a placeholder begins, and nothing else.
LEMMA GivesWord ==
  ASSUME SubTyped, Substitutes, WordsOnly, NEW s \in Seq(Symbols), Rests(s)[1] \in Seq(Symbols),
         NEW left, LeftOf(s, left), NEW n \in 1..Len(s)
  PROVE  LET g == Gives(s, left, n)
             begins == left[n - 1] = 0 /\ BeginsAt(s, n)
         IN  /\ Len(g) \in Nat /\ \A z \in 1..Len(g) : g[z] = IF begins THEN "a" ELSE s[n]
             /\ n \in Copied(s, left) => Len(g) = 1
             /\ begins => Len(g) >= 1 /\ NameAt(s, n) \in DOMAIN settings.placeholders
             /\ n \notin Copied(s, left) /\ ~ begins => Len(g) = 0
<1> DEFINE g == Gives(s, left, n)
           t == Rests(s)[1]
           to == Given(s, left)
<1>1. /\ left[n - 1] \in Nat /\ n \in 0..Len(s) /\ (n \in Copied(s, left) <=> left[n - 1] = 0 /\ ~ BeginsAt(s, n))
  BY LeftStep DEF Substitutes
<1>2. CASE left[n - 1] > 0
  <2>1. g = <<>> /\ Len(g) = 0
    BY <1>2 DEF Gives
  <2> HIDE DEF g
  <2> QED
    BY <1>1, <1>2, <2>1 DEF g
<1>3. CASE left[n - 1] = 0 /\ ~ BeginsAt(s, n)
  <2>1. g = <<s[n]>>
    BY <1>3 DEF Gives
  <2>2. Len(g) = 1 /\ g[1] = s[n]
    BY <2>1
  <2> HIDE DEF g
  <2>3. \A z \in 1..Len(g) : g[z] = s[n]
    BY <2>2
  <2> QED
    BY <1>1, <1>3, <2>2, <2>3 DEF g
<1>4. CASE left[n - 1] = 0 /\ BeginsAt(s, n)
  <2>1. g = ValueOf(NameAt(s, n))
    BY <1>4 DEF Gives
  <2>2. NameAt(s, n) \in DOMAIN settings.placeholders
    <3> SUFFICES ASSUME NameAt(s, n) \notin DOMAIN settings.placeholders PROVE FALSE
      OBVIOUS
    <3>1. g = <<"?">>
      BY <2>1 DEF ValueOf
    <3>2. Len(g) = 1 /\ g[1] = "?" /\ 1 \in 1..Len(g)
      BY <3>1
    <3>3. to[n - 1] \in Nat /\ to[n] = to[n - 1] + Len(g) /\ \A z \in 1..Len(g) : t[to[n - 1] + z] = g[z]
      BY GivenStep DEF Substitutes, GivenThere
    <3>4. to[n] \in 0..Len(t)
      BY <1>1, GivenText DEF Substitutes
    <3> HIDE DEF g, to
    <3>5. to[n - 1] + 1 \in 1..Len(t) /\ t[to[n - 1] + 1] = "?"
      BY <3>2, <3>3, <3>4
    <3>6. "?" \in Symbols
      <4> HIDE DEF t
      <4>1. t \in Seq(Symbols)
        BY DEF t
      <4> QED
        BY <3>5, <4>1
    <3> QED
      BY <3>6 DEF Symbols
  <2>3. g = settings.placeholders[NameAt(s, n)] /\ g \in Seq(Symbols)
    BY <2>1, <2>2 DEF ValueOf, SubTyped
  <2>4. g # <<>> /\ \A k \in DOMAIN g : g[k] = "a"
    BY <2>2, <2>3 DEF WordsOnly
  <2> HIDE DEF g
  <2>5. Len(g) \in Nat /\ Len(g) >= 1 /\ DOMAIN g = 1..Len(g)
    BY <2>3, <2>4, LenProperties, EmptySeq
  <2> QED
    BY <1>1, <1>4, <2>2, <2>4, <2>5 DEF g
<1> QED
  BY <1>1, <1>2, <1>3, <1>4

\* A text and what replacing its placeholders by words makes of it read alike.
LEMMA ReplacedAligned ==
  ASSUME SubTyped, Substitutes, MarkedPlaceholders, WordsOnly, NEW s \in Seq(Symbols), Apart(s),
         Rests(s)[1] \in Seq(Symbols), NEW left, LeftOf(s, left)
  PROVE  Aligned(s, Rests(s)[1], Given(s, left), Copied(s, left))
<1> DEFINE t == Rests(s)[1]
           to == Given(s, left)
           kept == Copied(s, left)
           begins(n) == left[n - 1] = 0 /\ BeginsAt(s, n)
<1>p. settings.prefix # <<>>
  BY DEF Substitutes
<1>1. /\ Len(s) \in Nat /\ Len(t) \in Nat /\ t \in Seq(Symbols) /\ left[0] = 0
      /\ kept \in SUBSET (1..Len(s)) /\ DOMAIN s = 1..Len(s)
  BY LenProperties DEF Copied, LeftOf
<1>2. \A n \in 0..Len(s) : to[n] \in 0..Len(t)
  BY <1>p, GivenText
<1>3. to \in [0..Len(s) -> 0..Len(t)]
  <2>1. to = [n \in 0..Len(s) |-> to[n]]
    BY DEF Given
  <2> QED
    BY <1>2, <2>1
<1>4. to[0] = 0 /\ to[Len(s)] = Len(t)
  <2>1. to[0] = Len(t) - Len(Rests(s)[0 + 1 + left[0]])
    BY <1>1 DEF Given
  <2>2. to[0] = 0
    BY <1>1, <2>1
  <2>3. Len(s) \in 0..Len(s)
    BY <1>1
  <2>4. Len(s) + 1 + left[Len(s)] \in 1..(Len(s) + 1) /\ left[Len(s)] \in Nat
    BY <1>p, <2>3, LeftBound
  <2>5. Len(s) + 1 + left[Len(s)] = Len(s) + 1
    BY <1>1, <2>4
  <2>6. Rests(s)[Len(s) + 1 + left[Len(s)]] = <<>>
    BY <1>p, <2>5, RestAtEnd
  <2>7. Len(t) = to[Len(s)] + Len(Rests(s)[Len(s) + 1 + left[Len(s)]])
    BY <1>p, <2>3, GivenText
  <2>8. to[Len(s)] \in Nat
    BY <1>2, <2>3
  <2> QED
    BY <2>2, <2>6, <2>7, <2>8
<1>5. ASSUME NEW n \in 1..Len(s)
      PROVE  /\ n \in 0..Len(s) /\ n - 1 \in 0..Len(s) /\ left[n - 1] \in Nat /\ to[n - 1] \in Nat
             /\ (n \in kept <=> left[n - 1] = 0 /\ ~ BeginsAt(s, n))
  BY <1>p, <1>2, LeftStep, GivenStep DEF GivenThere
<1>6. ASSUME NEW n \in 1..Len(s)
      PROVE  /\ n \in kept => to[n] = to[n - 1] + 1 /\ t[to[n]] = s[n]
             /\ begins(n) => /\ to[n - 1] < to[n] /\ NameAt(s, n) \in DOMAIN settings.placeholders
                             /\ \A j \in (to[n - 1] + 1)..to[n] : t[j] = "a"
             /\ n \notin kept /\ ~ begins(n) => to[n] = to[n - 1]
  <2> DEFINE g == Gives(s, left, n)
  <2>1. /\ Len(g) \in Nat /\ \A z \in 1..Len(g) : g[z] = IF begins(n) THEN "a" ELSE s[n]
        /\ n \in kept => Len(g) = 1
        /\ begins(n) => Len(g) >= 1 /\ NameAt(s, n) \in DOMAIN settings.placeholders
        /\ n \notin kept /\ ~ begins(n) => Len(g) = 0
    BY GivesWord
  <2>2. to[n - 1] \in Nat /\ to[n] = to[n - 1] + Len(g) /\ \A z \in 1..Len(g) : t[to[n - 1] + z] = g[z]
    <3>1. GivenThere(s, left, n)
      BY <1>p, GivenStep
    <3> QED
      BY <3>1 DEF GivenThere
  <2>3. n \in kept => ~ begins(n)
    BY <1>5, SMTT(20)
  <2> HIDE DEF g, to, t, kept, begins
  <2>4. ASSUME n \in kept PROVE to[n] = to[n - 1] + 1 /\ t[to[n]] = s[n]
    <3>1. Len(g) = 1 /\ ~ begins(n)
      BY <2>1, <2>3, <2>4, Zenon
    <3>2. 1 \in 1..Len(g) /\ to[n] = to[n - 1] + 1
      BY <2>2, <3>1
    <3>3. g[1] = s[n]
      BY <2>1, <3>1, <3>2, Zenon
    <3> QED
      BY <2>2, <3>2, <3>3
  <2>5. ASSUME begins(n), NEW j \in (to[n - 1] + 1)..to[n] PROVE t[j] = "a"
    <3>1. j - to[n - 1] \in 1..Len(g) /\ to[n - 1] + (j - to[n - 1]) = j
      BY <2>1, <2>2, SMTT(30)
    <3>2. t[to[n - 1] + (j - to[n - 1])] = g[j - to[n - 1]] /\ g[j - to[n - 1]] = "a"
      BY <2>1, <2>2, <2>5, <3>1
    <3> QED
      BY <3>1, <3>2
  <2>6. begins(n) => to[n - 1] < to[n]
    BY <2>1, <2>2
  <2> QED
    BY <2>1, <2>2, <2>4, <2>5, <2>6
<1>7. ASSUME NEW n \in 1..Len(s), n \notin kept
      PROVE  /\ s[n] \in Inert /\ (s[n] = "$" => n < Len(s) /\ s[n + 1] \in Marks)
             /\ left[n] = 0 => s[n] \in Marks /\ (n + 1 <= Len(s) => s[n + 1] \notin TagSymbols)
  <2>1. n \in (1..Len(s)) \ Copied(s, left)
    BY <1>7
  <2>2. PICK b \in 1..Len(s) : /\ b <= n /\ left[b - 1] = 0 /\ BeginsAt(s, b) /\ n < NextAt(s, b)
                               /\ left[n] = NextAt(s, b) - 1 - n
    BY <1>p, <2>1, BegunBefore
  <2> DEFINE e == NextAt(s, b)
  <2>3. NameAt(s, b) \in DOMAIN settings.placeholders
    BY <1>6, <2>2
  <2>4. /\ s[e - 1] \in Marks
        /\ \A k \in b..(e - 1) : s[k] \in Inert /\ (s[k] = "$" => k < e - 1 /\ s[k + 1] \in Marks)
    BY <2>2, <2>3, PlaceholderSymbols
  <2>5. e \in (b + 1)..(Len(s) + 1) /\ (e <= Len(s) => s[e] \notin TagSymbols)
    BY <1>p, <2>2, LeftStep DEF Apart
  <2>6. b <= n /\ n < e /\ left[n] = e - 1 - n
    BY <2>2
  <2> HIDE DEF e
  <2>7. n \in b..(e - 1) /\ (left[n] = 0 => n = e - 1 /\ n + 1 = e) /\ e - 1 <= Len(s)
    BY <1>1, <2>5, <2>6
  <2>8. s[n] = "$" => n < Len(s) /\ s[n + 1] \in Marks
    BY <1>1, <2>4, <2>5, <2>7
  <2> QED
    BY <2>4, <2>5, <2>7, <2>8
<1>8. ASSUME NEW n \in 1..Len(s), n \notin kept PROVE 0 < to[n] /\ t[to[n]] = "a"
  <2> DEFINE T == {k \in Nat : k \in (1..Len(s)) \ kept => 0 < to[k] /\ t[to[k]] = "a"}
  <2>1. 0 \in T
    OBVIOUS
  <2>2. ASSUME NEW k \in T PROVE k + 1 \in T
    <3> DEFINE j == k + 1
    <3>1. SUFFICES ASSUME j \in (1..Len(s)) \ kept PROVE 0 < to[j] /\ t[to[j]] = "a"
      OBVIOUS
    <3>2. j - 1 = k /\ j \in 1..Len(s) /\ j \notin kept /\ j \in Nat
      BY <3>1
    <3>3. to[k] \in Nat /\ to[j] \in Nat /\ left[k] \in Nat
      BY <1>2, <1>5, <3>2
    <3>4. CASE begins(j)
      <4>1. to[k] < to[j] /\ \A z \in (to[k] + 1)..to[j] : t[z] = "a"
        BY <1>6, <3>2, <3>4
      <4> HIDE DEF t, to, j
      <4>2. to[j] \in (to[k] + 1)..to[j]
        BY <3>3, <4>1
      <4> QED
        BY <3>3, <4>1, <4>2
    <3>5. CASE ~ begins(j)
      <4>1. to[j] = to[k]
        BY <1>6, <3>2, <3>5
      <4>2. left[k] > 0
        BY <1>5, <3>2, <3>3, <3>5
      <4>3. k # 0
        BY <1>1, <4>2
      <4>4. k \in 1..Len(s)
        BY <1>1, <3>2, <4>3
      <4>5. k \notin kept
        BY <1>p, <4>2, <4>4, LeftStep
      <4> HIDE DEF t, to
      <4> QED
        BY <4>1, <4>4, <4>5
    <3> QED
      BY <3>4, <3>5
  <2>3. T = Nat
    <3>1. T \in SUBSET Nat
      OBVIOUS
    <3> HIDE DEF T
    <3> QED
      BY <2>1, <2>2, <3>1, NatInd
  <2>4. n \in T
    <3> HIDE DEF T
    <3> QED
      BY <1>1, <2>3
  <2> QED
    BY <1>8, <2>4
<1>9. ASSUME NEW n \in (1..Len(s)) \ kept
      PROVE  /\ s[n] \in Inert /\ (s[n] = "$" => n < Len(s) /\ s[n + 1] \in Marks)
             /\ to[n - 1] <= to[n] /\ 0 < to[n] /\ t[to[n]] = "a"
             /\ \A j \in (to[n - 1] + 1)..to[n] : t[j] = "a"
             /\ to[n] = to[n - 1] => n > 1 /\ n - 1 \notin kept
  <2>1. to[n - 1] \in Nat /\ to[n] \in Nat /\ left[n - 1] \in Nat /\ n \in Nat /\ n >= 1
    BY <1>2, <1>5
  <2>2. CASE begins(n)
    <3>1. to[n - 1] < to[n] /\ \A j \in (to[n - 1] + 1)..to[n] : t[j] = "a"
      BY <1>6, <2>2
    <3>2. to[n - 1] <= to[n] /\ to[n] # to[n - 1]
      <4> HIDE DEF to
      <4> QED
        BY <2>1, <3>1
    <3> QED
      BY <1>7, <1>8, <3>1, <3>2
  <2>3. CASE ~ begins(n)
    <3>1. to[n] = to[n - 1]
      BY <1>6, <2>3
    <3>2. left[n - 1] > 0
      BY <1>5, <2>1, <2>3
    <3>3. n - 1 # 0
      BY <1>1, <3>2
    <3>4. n - 1 \in 1..Len(s) /\ n > 1
      BY <1>1, <2>1, <3>3
    <3>5. n - 1 \notin kept
      <4>1. n - 1 \in kept => left[n - 1] = 0
        BY <1>p, <3>4, LeftStep, SMTT(30)
      <4> QED
        BY <3>2, <4>1
    <3>6. to[n - 1] <= to[n] /\ \A j \in (to[n - 1] + 1)..to[n] : t[j] = "a"
      <4> HIDE DEF to, t
      <4> QED
        BY <2>1, <3>1
    <3> QED
      BY <1>7, <1>8, <3>4, <3>5, <3>6
  <2> QED
    BY <2>2, <2>3
<1>10. ASSUME NEW n \in 2..Len(s)
       PROVE  /\ n - 1 \in kept /\ n \notin kept => s[n - 1] \notin TagSymbols \cup {"$"}
              /\ n - 1 \notin kept /\ n \in kept => s[n] \notin TagSymbols /\ s[n - 1] \in Marks
  <2>1. n \in 1..Len(s) /\ n - 1 \in 1..Len(s) /\ n > 1 /\ (n - 1) + 1 = n /\ n <= Len(s)
    BY <1>1
  <2>2. ASSUME n - 1 \in kept, n \notin kept PROVE s[n - 1] \notin TagSymbols \cup {"$"}
    <3>1. left[n - 1] = 0
      BY <1>p, <2>1, <2>2, LeftStep
    <3>2. BeginsAt(s, n)
      BY <1>5, <2>1, <2>2, <3>1
    <3> QED
      BY <2>1, <3>2 DEF Apart
  <2>3. ASSUME n - 1 \notin kept, n \in kept PROVE s[n] \notin TagSymbols /\ s[n - 1] \in Marks
    <3>1. left[n - 1] = 0
      BY <1>5, <2>1, <2>3
    <3> QED
      BY <1>7, <2>1, <2>3, <3>1
  <2> QED
    BY <2>2, <2>3
<1>11. \A n \in 1..Len(s) : s[n] # "DELIMITER"
  BY <1>1 DEF Apart
<1>12. \A n \in kept : to[n] = to[n - 1] + 1 /\ t[to[n]] = s[n]
  BY <1>1, <1>6
<1> HIDE DEF t, to, kept
<1>13. Aligned(s, t, to, kept)
  BY <1>1, <1>3, <1>4, <1>9, <1>10, <1>11, <1>12 DEF Aligned
<1> QED
  BY <1>13 DEF t, to, kept

\* A part of a text, and what it matches.
LEMMA SliceMeans ==
  ASSUME NEW s \in Seq(Symbols), NEW a \in 1..Len(s), NEW b \in a..Len(s)
  PROVE  LET u == SubSeq(s, a, b)
         IN  /\ u \in Seq(Symbols) /\ Len(u) = b - a + 1 /\ \A z \in 1..(b - a + 1) : u[z] = s[a + z - 1]
             /\ \A text \in Seq(Symbols), j \in Nat : a <= j =>
                  (Matches(u, text, j - a + 1) <=> Matches(s, text, j) /\ j + Len(text) - 1 <= b)
<1> DEFINE u == SubSeq(s, a, b)
<1>1. Len(s) \in Nat /\ a \in Nat /\ a >= 1 /\ b \in Nat /\ a <= b /\ b <= Len(s)
  BY LenProperties
<1>2. u \in Seq(Symbols) /\ Len(u) = b - a + 1 /\ \A z \in 1..(b - a + 1) : u[z] = s[a + z - 1]
  <2>1. \A z \in a..b : s[z] \in Symbols
    BY <1>1
  <2> QED
    BY <1>1, <2>1, SubSeqProperties
<1> HIDE DEF u
<1>3. ASSUME NEW text \in Seq(Symbols), NEW j \in Nat, a <= j
      PROVE  Matches(u, text, j - a + 1) <=> Matches(s, text, j) /\ j + Len(text) - 1 <= b
  <2> DEFINE h == j - a + 1
             l == Len(text)
  <2>1. h \in Nat \ {0} /\ j \in Nat \ {0} /\ l \in Nat
    BY <1>1, <1>3, LenProperties
  <2>2. Matches(u, text, h) <=> h + l - 1 <= Len(u) /\ \A z \in 1..l : u[h + z - 1] = text[z]
    BY <1>2, <2>1, MatchesSymbols
  <2>3. Matches(s, text, j) <=> j + l - 1 <= Len(s) /\ \A z \in 1..l : s[j + z - 1] = text[z]
    BY <2>1, MatchesSymbols
  <2>4. h + l - 1 <= Len(u) <=> j + l - 1 <= b
    BY <1>1, <1>2, <1>3, <2>1
  <2>5. j + l - 1 <= b => j + l - 1 <= Len(s) /\ \A z \in 1..l : u[h + z - 1] = s[j + z - 1]
    <3>1. SUFFICES ASSUME j + l - 1 <= b
                   PROVE  j + l - 1 <= Len(s) /\ \A z \in 1..l : u[h + z - 1] = s[j + z - 1]
      OBVIOUS
    <3>2. j + l - 1 <= Len(s)
      BY <1>1, <2>1, <3>1
    <3>3. ASSUME NEW z \in 1..l PROVE u[h + z - 1] = s[j + z - 1]
      <4>1. h + z - 1 \in 1..(b - a + 1) /\ a + (h + z - 1) - 1 = j + z - 1
        BY <1>1, <1>3, <2>1, <3>1, SMTT(30)
      <4> QED
        BY <1>2, <4>1
    <3> QED
      BY <3>2, <3>3
  <2> HIDE DEF h, l
  <2> QED
    BY <2>2, <2>3, <2>4, <2>5 DEF h, l
<1> QED
  BY <1>2, <1>3 DEF u

\* The placeholders of a part that tears none are those of the text.
LEMMA SliceBegins ==
  ASSUME SubTyped, settings.prefix # <<>>, NEW s \in Seq(Symbols), NEW left, LeftOf(s, left),
         NEW a \in 1..Len(s), NEW b \in a..Len(s), left[b] = 0,
         NEW k \in a..b, left[k - 1] = 0
  PROVE  LET u == SubSeq(s, a, b)
             h == k - a + 1
         IN  /\ BeginsAt(u, h) <=> BeginsAt(s, k)
             /\ BeginsAt(s, k) => /\ NextAt(u, h) = NextAt(s, k) - a + 1
                                  /\ NameAt(u, h) = NameAt(s, k)
                                  /\ NextAt(s, k) \in (k + 1)..(b + 1) /\ left[NextAt(s, k) - 1] = 0
<1> DEFINE u == SubSeq(s, a, b)
           h == k - a + 1
           p == Len(settings.prefix)
           q == Len(settings.suffix)
           e == NextAt(s, k)
           m == Min(Ends(s, k))
<1>1. /\ Len(s) \in Nat /\ a \in Nat /\ a >= 1 /\ b \in Nat /\ k \in Nat /\ a <= k /\ k <= b
      /\ b <= Len(s) /\ k \in 1..Len(s)
      /\ settings.prefix \in Seq(Symbols) /\ settings.suffix \in Seq(Symbols) /\ p \in Nat /\ q \in Nat
  BY LenProperties DEF SubTyped
<1>2. /\ u \in Seq(Symbols) /\ Len(u) = b - a + 1 /\ \A z \in 1..(b - a + 1) : u[z] = s[a + z - 1]
      /\ \A text \in Seq(Symbols), j \in Nat : a <= j =>
           (Matches(u, text, j - a + 1) <=> Matches(s, text, j) /\ j + Len(text) - 1 <= b)
  BY SliceMeans
<1>n. a \in Nat /\ a >= 1 /\ b \in Nat /\ k \in Nat /\ a <= k /\ k <= b /\ p \in Nat /\ q \in Nat
  BY <1>1
<1>l. Len(u) = b - a + 1 /\ h = k - a + 1
  BY <1>2
<1> HIDE DEF u, h, p, q
<1>3. Matches(u, settings.prefix, h) => Matches(s, settings.prefix, k)
  BY <1>1, <1>2, <1>l
<1>4. ASSUME NEW j \in Ends(u, h) PROVE j + a - 1 \in Ends(s, k) /\ j \in Nat
  <2>1. j \in (h + p)..(Len(u) + 1) /\ Matches(u, settings.suffix, j)
    BY DEF Ends, Occurrences, p
  <2>2. j \in Nat /\ j + a - 1 \in Nat /\ a <= j + a - 1 /\ (j + a - 1) - a + 1 = j
        /\ j + a - 1 \in (k + p)..(Len(s) + 1)
    <3>1. j \in (k - a + 1 + p)..(b - a + 1 + 1)
      BY <1>l, <2>1
    <3> QED
      BY <1>1, <3>1
  <2>3. Matches(s, settings.suffix, j + a - 1)
    BY <1>1, <1>2, <2>1, <2>2
  <2> QED
    BY <2>2, <2>3 DEF Ends, Occurrences, p
<1>5. BeginsAt(u, h) => BeginsAt(s, k)
  BY <1>3, <1>4 DEF BeginsAt
<1>6. ASSUME BeginsAt(s, k)
      PROVE  /\ BeginsAt(u, h) /\ NextAt(u, h) = e - a + 1 /\ NameAt(u, h) = NameAt(s, k)
             /\ e \in (k + 1)..(b + 1) /\ left[e - 1] = 0
  <2>1. e \in (k + 1)..(Len(s) + 1)
    BY <1>1, <1>6, LeftStep
  <2>2. e = m + q
    BY DEF NextAt, q
  <2>3. m \in Ends(s, k) /\ m \in Nat /\ k + p <= m /\ \A j \in Ends(s, k) : m <= j
    <3>1. Ends(s, k) \in SUBSET Nat /\ Ends(s, k) # {} /\ \A j \in Ends(s, k) : k + p <= j
      BY <1>1, <1>6 DEF Ends, Occurrences, BeginsAt, p
    <3>2. m \in Ends(s, k) /\ \A j \in Ends(s, k) : m <= j
      BY <3>1, MinOfNats
    <3> QED
      BY <3>1, <3>2
  <2>4. left[e - 1] = 0
    <3>1. e - 1 \in k..(e - 1) /\ e - 1 - (e - 1) = 0
      BY <1>1, <2>1
    <3> HIDE DEF e
    <3>2. left[e - 1] = e - 1 - (e - 1)
      BY <1>1, <1>6, <3>1, LeftInside DEF e
    <3> QED
      BY <3>1, <3>2
  <2>5. e <= b + 1
    <3> SUFFICES ASSUME e > b + 1 PROVE FALSE
      BY <1>1, <2>1
    <3>1. b \in k..(e - 1)
      BY <1>1, <2>1
    <3>2. left[b] = e - 1 - b
      BY <1>1, <1>6, <3>1, LeftInside
    <3> HIDE DEF e
    <3> QED
      BY <1>1, <2>1, <3>2
  <2> HIDE DEF e, m
  <2>6. m + q - 1 <= b /\ a <= m /\ k + p - 1 <= b
    BY <1>1, <2>2, <2>3, <2>5
  <2>7. Matches(s, settings.suffix, m) /\ Matches(s, settings.prefix, k)
    BY <1>6, <2>3 DEF Ends, Occurrences, BeginsAt
  <2>8. Matches(u, settings.suffix, m - a + 1) /\ Matches(u, settings.prefix, h)
    <3>1. m + Len(settings.suffix) - 1 <= b /\ k + Len(settings.prefix) - 1 <= b
      BY <2>6 DEF p, q
    <3>2. Matches(u, settings.suffix, m - a + 1)
      BY <1>1, <1>2, <2>3, <2>6, <2>7, <3>1
    <3>3. Matches(u, settings.prefix, k - a + 1)
      BY <1>1, <1>2, <2>7, <3>1
    <3> QED
      BY <1>l, <3>2, <3>3
  <2>9. m - a + 1 \in Ends(u, h)
    <3>1. m - a + 1 \in (h + p)..(Len(u) + 1)
      <4>1. m - a + 1 \in (k - a + 1 + p)..(b - a + 1 + 1)
        BY <1>n, <2>3, <2>6
      <4> QED
        BY <1>l, <4>1
    <3> QED
      BY <2>8, <3>1 DEF Ends, Occurrences, p
  <2>10. Min(Ends(u, h)) = m - a + 1
    <3> DEFINE T == Ends(u, h)
               n == Min(T)
    <3>1. T \in SUBSET Nat /\ m - a + 1 \in T
      BY <1>4, <2>9
    <3> HIDE DEF T
    <3>2. n \in T /\ n <= m - a + 1 /\ n \in Nat
      BY <3>1, MinOfNats
    <3>3. m <= n + a - 1
      BY <1>4, <2>3, <3>2 DEF T
    <3> HIDE DEF n
    <3>4. n = m - a + 1
      BY <1>1, <2>3, <3>2, <3>3
    <3> QED
      BY <3>4 DEF n, T
  <2>11. NextAt(u, h) = e - a + 1
    <3>1. NextAt(u, h) = (m - a + 1) + q
      BY <2>10 DEF NextAt, q
    <3>2. (m - a + 1) + q = (m + q) - a + 1
      BY <1>n, <2>3
    <3> QED
      BY <2>2, <3>1, <3>2
  <2>12. SubSeq(u, h + p, (m - a + 1) - 1) = SubSeq(s, k + p, m - 1)
    <3> DEFINE x == SubSeq(u, h + p, (m - a + 1) - 1)
               y == SubSeq(s, k + p, m - 1)
               f == k + p
               g == m - 1
    <3>1. f \in Nat /\ a <= f /\ g \in Int /\ f <= g + 1 /\ g <= b /\ h + p = f - a + 1
          /\ (m - a + 1) - 1 = g - a + 1
      <4>1. f \in Nat /\ a <= f /\ g \in Int /\ f <= g + 1 /\ g <= b /\ (k - a + 1) + p = f - a + 1
            /\ (m - a + 1) - 1 = g - a + 1
        BY <1>1, <2>3, <2>6
      <4> QED
        BY <1>l, <4>1
    <3> HIDE DEF f, g
    <3>2. \A z \in f..g : s[z] \in Symbols /\ z - a + 1 \in 1..(b - a + 1) /\ a + (z - a + 1) - 1 = z
      BY <1>1, <3>1, SMTT(30)
    <3>3. y \in Seq(Symbols) /\ Len(y) = (IF f <= g THEN g - f + 1 ELSE 0)
          /\ \A z \in 1..(g - f + 1) : y[z] = s[f + z - 1]
      <4>1. y = SubSeq(s, f, g)
        BY DEF f, g
      <4> HIDE DEF y
      <4> QED
        BY <3>1, <3>2, <4>1, SubSeqProperties
    <3>4. x \in Seq(Symbols) /\ Len(x) = (IF f <= g THEN g - f + 1 ELSE 0)
          /\ \A z \in 1..(g - f + 1) : x[z] = u[(f - a + 1) + z - 1]
      <4> DEFINE v == f - a + 1
                 w == g - a + 1
      <4>1. x = SubSeq(u, v, w)
        BY <3>1
      <4>2. v \in Int /\ w \in Int /\ (v <= w <=> f <= g) /\ w - v + 1 = g - f + 1
            /\ \A z \in v..w : z \in 1..(b - a + 1)
        BY <1>1, <3>1
      <4> HIDE DEF v, w, x
      <4>3. \A z \in v..w : u[z] \in Symbols
        BY <1>2, <4>2
      <4>4. x \in Seq(Symbols) /\ Len(x) = (IF v <= w THEN w - v + 1 ELSE 0)
            /\ \A z \in 1..(w - v + 1) : x[z] = u[v + z - 1]
        BY <4>1, <4>2, <4>3, SubSeqProperties, SMTT(30)
      <4>5. \A z \in 1..(g - f + 1) : x[z] = u[v + z - 1]
        BY <4>2, <4>4
      <4> QED
        BY <4>2, <4>4, <4>5 DEF v
    <3>5. ASSUME NEW z \in 1..(g - f + 1) PROVE x[z] = y[z]
      <4> DEFINE n == f + z - 1
      <4>1. n \in f..g /\ (f - a + 1) + z - 1 = n - a + 1
        BY <1>n, <3>1, SMTT(30)
      <4> HIDE DEF n
      <4>2. u[n - a + 1] = s[n]
        BY <1>2, <3>2, <4>1
      <4> QED
        BY <3>3, <3>4, <4>1, <4>2 DEF n
    <3> HIDE DEF x, y
    <3>6. Len(x) = Len(y) /\ \A z \in 1..Len(x) : x[z] = y[z]
      <4>1. CASE f <= g
        BY <3>3, <3>4, <3>5, <4>1
      <4>2. CASE ~ (f <= g)
        BY <3>3, <3>4, <4>2
      <4> QED
        BY <4>1, <4>2
    <3>7. x = y
      BY <3>3, <3>4, <3>6, SeqEqual
    <3> QED
      BY <3>7 DEF x, y
  <2>13. NameAt(u, h) = NameAt(s, k)
    BY <2>10, <2>12 DEF NameAt, m, p
  <2> QED
    BY <2>1, <2>4, <2>5, <2>8, <2>9, <2>11, <2>13, <1>1 DEF BeginsAt
<1> QED
  BY <1>5, <1>6 DEF u, h

\* The rest of the text from a position on is that of the part and what follows the part.
SliceRests(s, a, b, k) ==
  /\ Rests(SubSeq(s, a, b))[k - a + 1] \in Seq(Signs)
  /\ Rests(SubSeq(s, a, b))[k - a + 1] \o Rests(s)[b + 1] = Rests(s)[k]

LEMMA SliceOn ==
  ASSUME SubTyped, settings.prefix # <<>>, NEW s \in Seq(Symbols), NEW left, LeftOf(s, left),
         NEW a \in 1..Len(s), NEW b \in a..Len(s), left[b] = 0,
         NEW k \in a..b, left[k - 1] = 0,
         \A j \in (k + 1)..(b + 1) : left[j - 1] = 0 => SliceRests(s, a, b, j)
  PROVE  SliceRests(s, a, b, k)
<1> DEFINE u == SubSeq(s, a, b)
           h == k - a + 1
           e == NextAt(s, k)
           R == Rests(s)
           U == Rests(u)
<1>1. /\ Len(s) \in Nat /\ a \in Nat /\ a >= 1 /\ b \in Nat /\ k \in Nat /\ a <= k /\ k <= b
      /\ b <= Len(s) /\ k \in 1..Len(s)
  BY LenProperties
<1>2. /\ u \in Seq(Symbols) /\ Len(u) = b - a + 1 /\ u[h] = s[k]
  <2>1. /\ u \in Seq(Symbols) /\ Len(u) = b - a + 1
        /\ \A z \in 1..(b - a + 1) : u[z] = s[a + z - 1]
    BY SliceMeans
  <2> HIDE DEF u
  <2>2. h \in 1..(b - a + 1) /\ a + h - 1 = k
    BY <1>1
  <2> HIDE DEF h
  <2> QED
    BY <2>1, <2>2
<1>3. /\ BeginsAt(u, h) <=> BeginsAt(s, k)
      /\ BeginsAt(s, k) => /\ NextAt(u, h) = e - a + 1 /\ NameAt(u, h) = NameAt(s, k)
                           /\ e \in (k + 1)..(b + 1) /\ left[e - 1] = 0
  BY SliceBegins
<1>4. R[b + 1] \in Seq(Signs) /\ R[k] = RestAt(s, R, k) /\ k \in Positions(s) /\ ~ (k > Len(s))
  <2>1. b + 1 \in Positions(s) /\ k \in Positions(s) /\ ~ (k > Len(s))
    BY <1>1 DEF Positions
  <2> QED
    BY <2>1, RestsDef
<1> HIDE DEF u
<1>5. U[h] = RestAt(u, U, h) /\ ~ (h > Len(u))
  <2>1. h \in Positions(u) /\ ~ (h > Len(u))
    <3>1. h \in 1..(b - a + 1 + 1) /\ ~ (h > b - a + 1)
      BY <1>1
    <3> HIDE DEF h
    <3> QED
      BY <1>2, <3>1 DEF Positions
  <2> HIDE DEF h
  <2> QED
    BY <1>2, <2>1, RestsDef
<1>6. ASSUME NEW j \in (k + 1)..(b + 1), left[j - 1] = 0
      PROVE  U[j - a + 1] \in Seq(Signs) /\ U[j - a + 1] \o R[b + 1] = R[j]
  BY <1>6 DEF SliceRests, u
<1> HIDE DEF U, R, e
<1>7. CASE BeginsAt(s, k)
  <2> DEFINE v == ValueOf(NameAt(s, k))
             w == U[e - a + 1]
  <2>1. v \in Seq(Signs)
    BY ValueType
  <2>2. w \in Seq(Signs) /\ w \o R[b + 1] = R[e]
    BY <1>3, <1>6, <1>7
  <2>3. U[h] = v \o w
    <3> HIDE DEF h
    <3> QED
      BY <1>3, <1>5, <1>7 DEF RestAt
  <2>4. R[k] = v \o R[e]
    BY <1>4, <1>7 DEF RestAt, e
  <2> HIDE DEF v, w, h
  <2>5. U[h] \in Seq(Signs) /\ U[h] \o R[b + 1] = R[k]
    <3>1. v \o w \in Seq(Signs)
      BY <2>1, <2>2, ConcatProperties
    <3>2. v \o (w \o R[b + 1]) = (v \o w) \o R[b + 1]
      BY <1>4, <2>1, <2>2, Reassociated
    <3> QED
      BY <2>2, <2>3, <2>4, <3>1, <3>2
  <2> QED
    BY <2>5 DEF SliceRests, U, R, u, h
<1>8. CASE ~ BeginsAt(s, k)
  <2> DEFINE v == <<s[k]>>
             w == U[(k + 1) - a + 1]
  <2>1. v \in Seq(Signs)
    <3>1. s[k] \in Signs
      BY <1>1 DEF Signs
    <3> QED
      BY <3>1
  <2>2. w \in Seq(Signs) /\ w \o R[b + 1] = R[k + 1]
    <3>1. left[(k + 1) - 1] = 0
      <4>1. left[k] = 0
        BY <1>1, <1>8, LeftStep
      <4>2. (k + 1) - 1 = k
        BY <1>1
      <4> QED
        BY <4>1, <4>2
    <3>2. k + 1 \in (k + 1)..(b + 1)
      BY <1>1
    <3> QED
      BY <1>6, <3>1, <3>2
  <2>3. U[h] = v \o w
    <3>1. h + 1 = (k + 1) - a + 1
      BY <1>1
    <3> HIDE DEF h
    <3> QED
      BY <1>2, <1>3, <1>5, <1>8, <3>1 DEF RestAt
  <2>4. R[k] = v \o R[k + 1]
    BY <1>4, <1>8 DEF RestAt
  <2> HIDE DEF v, w, h
  <2>5. U[h] \in Seq(Signs) /\ U[h] \o R[b + 1] = R[k]
    <3>1. v \o w \in Seq(Signs)
      BY <2>1, <2>2, ConcatProperties
    <3>2. v \o (w \o R[b + 1]) = (v \o w) \o R[b + 1]
      BY <1>4, <2>1, <2>2, Reassociated
    <3> QED
      BY <2>2, <2>3, <2>4, <3>1, <3>2
  <2> QED
    BY <2>5 DEF SliceRests, U, R, u, h
<1> QED
  BY <1>7, <1>8

\* A part that tears no placeholder reads as the part of the result it gives.
LEMMA SliceReplaced ==
  ASSUME SubTyped, settings.prefix # <<>>, NEW s \in Seq(Symbols), NEW left, LeftOf(s, left),
         NEW a \in 1..Len(s), NEW b \in a..Len(s), left[a - 1] = 0, left[b] = 0
  PROVE  Rests(SubSeq(s, a, b))[1] =
           SubSeq(Rests(s)[1], Given(s, left)[a - 1] + 1, Given(s, left)[b])
<1> DEFINE u == SubSeq(s, a, b)
           t == Rests(s)[1]
           U == Rests(u)[1]
           x == Rests(s)[a]
           y == Rests(s)[b + 1]
           p == Given(s, left)[a - 1]
           q == Given(s, left)[b]
           T == {n \in Nat : \A k \in a..(b + 1) :
                   k >= b + 1 - n /\ left[k - 1] = 0 => SliceRests(s, a, b, k)}
<1>1. /\ Len(s) \in Nat /\ a \in Nat /\ a >= 1 /\ b \in Nat /\ a <= b /\ b <= Len(s)
  BY LenProperties
<1>2. u \in Seq(Symbols) /\ Len(u) = b - a + 1
  BY SliceMeans
<1> HIDE DEF u
<1>3. SliceRests(s, a, b, b + 1)
  <2>1. Rests(u)[Len(u) + 1] = <<>>
    BY <1>2, RestAtEnd
  <2>2. Len(u) + 1 = (b + 1) - a + 1
    BY <1>1, <1>2
  <2>3. Rests(s)[b + 1] \in Seq(Signs)
    <3>1. b + 1 \in Positions(s)
      BY <1>1 DEF Positions
    <3> QED
      BY <3>1, RestsDef
  <2>4. <<>> \o Rests(s)[b + 1] = Rests(s)[b + 1] /\ <<>> \in Seq(Signs)
    BY <2>3, ConcatEmptySeq, EmptySeq
  <2> QED
    BY <2>1, <2>2, <2>4 DEF SliceRests, u
<1>4. 0 \in T
  <2> SUFFICES ASSUME NEW k \in a..(b + 1), k >= b + 1 - 0 PROVE SliceRests(s, a, b, k)
    OBVIOUS
  <2>1. k = b + 1
    BY <1>1
  <2> QED
    BY <1>3, <2>1
<1>5. ASSUME NEW n \in T PROVE n + 1 \in T
  <2>0. n \in Nat /\ n + 1 \in Nat
    OBVIOUS
  <2> SUFFICES ASSUME NEW k \in a..(b + 1), k >= b + 1 - (n + 1), left[k - 1] = 0
               PROVE  SliceRests(s, a, b, k)
    BY <2>0
  <2>1. CASE k = b + 1
    BY <1>3, <2>1
  <2>2. CASE k # b + 1
    <3>1. k \in a..b /\ \A j \in (k + 1)..(b + 1) : j \in a..(b + 1) /\ j >= b + 1 - n
      BY <1>1, <2>0, <2>2
    <3>2. \A j \in (k + 1)..(b + 1) : left[j - 1] = 0 => SliceRests(s, a, b, j)
      BY <3>1
    <3> HIDE DEF T
    <3> QED
      BY <3>1, <3>2, SliceOn
  <2> QED
    BY <2>1, <2>2
<1>6. T = Nat
  <2>1. T \in SUBSET Nat
    OBVIOUS
  <2> HIDE DEF T
  <2> QED
    BY <1>4, <1>5, <2>1, NatInd
<1>7. U \in Seq(Signs) /\ U \o y = x
  <2>1. b + 1 - a \in T
    <3> HIDE DEF T
    <3> QED
      BY <1>1, <1>6
  <2>2. a \in a..(b + 1) /\ a >= b + 1 - (b + 1 - a) /\ a - a + 1 = 1
    BY <1>1
  <2>3. SliceRests(s, a, b, a)
    BY <2>1, <2>2
  <2> HIDE DEF T
  <2> QED
    BY <2>2, <2>3 DEF SliceRests, u
<1> HIDE DEF T
<1>8. /\ t \in Seq(Signs) /\ x \in Seq(Signs) /\ y \in Seq(Signs)
      /\ p \in 0..Len(t) /\ Len(t) = p + Len(x) /\ \A z \in 1..Len(x) : t[p + z] = x[z]
      /\ q \in 0..Len(t) /\ Len(t) = q + Len(y)
  <2>1. a - 1 \in 0..Len(s) /\ (a - 1) + 1 + left[a - 1] = a
    BY <1>1
  <2>2. b \in 0..Len(s) /\ b + 1 + left[b] = b + 1
    BY <1>1
  <2> DEFINE Fits(n) == LET r == Rests(s)[n + 1 + left[n]]
                        IN  /\ t \in Seq(Signs) /\ r \in Seq(Signs) /\ Given(s, left)[n] \in 0..Len(t)
                            /\ Len(t) = Given(s, left)[n] + Len(r)
                            /\ \A z \in 1..Len(r) : t[Given(s, left)[n] + z] = r[z]
  <2>3. ASSUME NEW n \in 0..Len(s) PROVE Fits(n)
    <3> HIDE DEF U, T, x, y, p, q
    <3> QED
      BY GivenText
  <2>4. Fits(a - 1) /\ Fits(b)
    <3> HIDE DEF Fits
    <3> QED
      BY <2>1, <2>2, <2>3
  <2>5. Rests(s)[(a - 1) + 1 + left[a - 1]] = x /\ Rests(s)[b + 1 + left[b]] = y
    BY <2>1, <2>2
  <2> HIDE DEF x, y, p, q, t
  <2> QED
    BY <2>4, <2>5 DEF p, q
<1> HIDE DEF t, U, x, y, p, q
<1> DEFINE l == Len(U)
           o == Len(y)
           c == Len(t)
<1>9. /\ Len(x) = l + o /\ l \in Nat /\ o \in Nat /\ c \in Nat
      /\ \A z \in 1..l : x[z] = U[z]
  <2>1. /\ Len(U \o y) = Len(U) + Len(y)
        /\ \A z \in 1..(Len(U) + Len(y)) : (U \o y)[z] = IF z <= Len(U) THEN U[z] ELSE y[z - Len(U)]
    BY <1>7, <1>8, ConcatProperties, ZenonT(30)
  <2>2. l \in Nat /\ o \in Nat /\ c \in Nat
    BY <1>7, <1>8, LenProperties
  <2>3. \A z \in 1..l : z \in 1..(l + o) /\ z <= l
    BY <2>2
  <2> QED
    BY <1>7, <2>1, <2>2, <2>3
<1>10. p \in Nat /\ q = p + l /\ q <= c
  <2>1. c = p + (l + o) /\ c = q + o /\ p \in 0..c /\ q \in 0..c
    BY <1>8, <1>9
  <2> HIDE DEF l, o, c
  <2> QED
    BY <1>9, <2>1
<1>11. \A z \in 1..l : t[p + z] = U[z]
  <2> TAKE z \in 1..l
  <2>1. z \in 1..(l + o)
    <3> HIDE DEF l, o
    <3> QED
      BY <1>9
  <2> QED
    BY <1>8, <1>9, <2>1
<1> DEFINE v == SubSeq(t, p + 1, q)
<1>12. v \in Seq(Signs) /\ Len(v) = l /\ \A z \in 1..l : v[z] = t[p + z]
  <2>1. /\ p + 1 \in Int /\ q \in Int /\ q - (p + 1) + 1 = l /\ (p + 1 <= q <=> l # 0)
        /\ (\A z \in (p + 1)..q : z \in 1..c) /\ (\A z \in 1..l : (p + 1) + z - 1 = p + z)
    <3> HIDE DEF l, c
    <3> QED
      BY <1>9, <1>10
  <2>2. \A z \in (p + 1)..q : t[z] \in Signs
    BY <1>8, <2>1, LenProperties
  <2>3. /\ v \in Seq(Signs) /\ Len(v) = (IF p + 1 <= q THEN q - (p + 1) + 1 ELSE 0)
        /\ \A z \in 1..(q - (p + 1) + 1) : v[z] = t[(p + 1) + z - 1]
    BY <2>1, <2>2, SubSeqProperties, SMTT(30)
  <2> HIDE DEF v, l
  <2>4. Len(v) = l
    BY <1>9, <2>1, <2>3
  <2> QED
    BY <2>1, <2>3, <2>4
<1> HIDE DEF v
<1>13. v = U
  <2>1. Len(v) = Len(U) /\ \A z \in 1..Len(v) : v[z] = U[z]
    BY <1>11, <1>12
  <2> QED
    BY <1>7, <1>12, <2>1, SeqEqual
<1> QED
  BY <1>13 DEF v, U, t, p, q, u

\* The statements of the result are those of the text, each replaced.
LEMMA StatementsReplaced ==
  ASSUME Agrees, SubTyped, Substitutes, MarkedPlaceholders, WordsOnly, NEW s \in Seq(Symbols), Apart(s),
         Rests(s)[1] \in Seq(Symbols), QuotesAgree(Rests(s)[1])
  PROVE  {SubSeq(Rests(s)[1], q[1], q[2]) : q \in StatementsOf(Rests(s)[1])} =
           {Replaced(SubSeq(s, p[1], p[2])) : p \in StatementsOf(s)}
<1>1. settings.prefix # <<>>
  BY DEF Substitutes
<1>2. PICK left : LeftOf(s, left)
  BY <1>1, LeftExists
<1> DEFINE t == Rests(s)[1]
           to == Given(s, left)
           kept == Copied(s, left)
           S == StatementsOf(s)
<1>3. Aligned(s, t, to, kept)
  BY <1>2, ReplacedAligned
<1>4. /\ StatementsOf(t) = {<<to[p[1] - 1] + 1, to[p[2]]>> : p \in S}
      /\ \A p \in S : /\ p[1] \in 1..Len(s) /\ p[2] \in 1..Len(s) /\ p[1] <= p[2]
                      /\ p[1] = 1 \/ p[1] - 1 \in kept
                      /\ p[2] = Len(s) \/ p[2] + 1 \in kept
  <2> HIDE DEF t, to, kept
  <2>1. QuotesAgree(t)
    BY DEF t
  <2> QED
    BY <1>3, <2>1, StatementsSame
<1>5. ASSUME NEW p \in S
      PROVE  Replaced(SubSeq(s, p[1], p[2])) = SubSeq(t, to[p[1] - 1] + 1, to[p[2]])
  <2> DEFINE a == p[1]
             b == p[2]
  <2>1. /\ a \in 1..Len(s) /\ b \in 1..Len(s) /\ a <= b
        /\ a = 1 \/ a - 1 \in kept
        /\ b = Len(s) \/ b + 1 \in kept
    BY <1>4
  <2> HIDE DEF a, b
  <2>2. Len(s) \in Nat /\ b \in a..Len(s) /\ kept \subseteq 1..Len(s) /\ left[0] = 0
    BY <1>2, <2>1, LenProperties DEF Copied, LeftOf
  <2>3. left[a - 1] = 0
    <3>1. CASE a = 1
      <4>1. a - 1 = 0
        BY <3>1
      <4> QED
        BY <2>2, <4>1
    <3>2. CASE a - 1 \in kept
      <4>1. a - 1 \in 1..Len(s)
        BY <2>2, <3>2
      <4> QED
        BY <1>1, <1>2, <3>2, <4>1, LeftStep
    <3> QED
      BY <2>1, <3>1, <3>2
  <2>4. left[b] = 0
    <3>1. CASE b = Len(s)
      <4>1. b \in 0..Len(s)
        BY <2>1, <2>2
      <4>2. left[b] \in Nat /\ b + 1 + left[b] \in 1..(Len(s) + 1)
        BY <1>1, <1>2, <4>1, LeftBound
      <4> QED
        BY <2>2, <3>1, <4>2
    <3>2. CASE b + 1 \in kept
      <4>1. (b + 1) - 1 = b
        BY <2>1, <2>2
      <4>2. left[(b + 1) - 1] = 0
        BY <3>2 DEF Copied
      <4> QED
        BY <4>1, <4>2
    <3> QED
      BY <2>1, <3>1, <3>2
  <2>5. Rests(SubSeq(s, a, b))[1] = SubSeq(t, to[a - 1] + 1, to[b])
    <3> HIDE DEF kept
    <3> QED
      BY <1>1, <1>2, <2>1, <2>2, <2>3, <2>4, SliceReplaced
  <2>6. Replaced(SubSeq(s, a, b)) = Rests(SubSeq(s, a, b))[1]
    BY DEF Replaced, Substitutes
  <2> HIDE DEF t, to
  <2> QED
    BY <2>5, <2>6 DEF a, b
<1> HIDE DEF t, to, kept, S
<1> DEFINE G(p) == <<to[p[1] - 1] + 1, to[p[2]]>>
           V(q) == SubSeq(t, q[1], q[2])
           W(p) == Replaced(SubSeq(s, p[1], p[2]))
<1>6. ASSUME NEW p \in S PROVE V(G(p)) = W(p)
  BY <1>5
<1>7. StatementsOf(t) = {G(p) : p \in S}
  BY <1>4
<1>8. {V(q) : q \in StatementsOf(t)} = {W(p) : p \in S}
  <2> HIDE DEF G, V, W
  <2> QED
    BY <1>6, <1>7, Zenon, SMTT(30)
<1> QED
  BY <1>8 DEF t, S

\* Split reads what Substitute returned, once it has.
CalledWithOut == pc # "waiting" => phase = "done" /\ script = out

LEMMA CalledNext ==
  ASSUME CalledWithOut, [Next]_vars
  PROVE  CalledWithOut'
<1>1. CASE Substitution
  <2>1. /\ phase = "replacing" /\ pc' = pc
    BY <1>1 DEF Substitution, SubNext, Replace, Unknown, CopyRest, Replacing, splitVars
  <2> QED
    BY <2>1 DEF CalledWithOut
<1>2. CASE CallSplit
  BY <1>2 DEF CallSplit, CalledWithOut, subVars
<1>3. CASE Splitting
  <2>1. pc # "waiting" /\ script' = script
    BY <1>3 DEF Splitting, SplitNext, ReadDirective, LineComment, BlockComment, DollarBody, Open,
       Consume, Close, Boundary, Plain, Finish, CopyTo, At, More, InDollar
  <2>2. phase' = phase /\ out' = out
    BY <1>3 DEF Splitting, subVars
  <2> QED
    BY <2>1, <2>2 DEF CalledWithOut
<1>4. CASE UNCHANGED vars
  BY <1>4 DEF vars, subVars, splitVars, CalledWithOut
<1> QED
  BY <1>1, <1>2, <1>3, <1>4 DEF Next

\* What the last step needs: the result is cut where the reader cuts it, and it is the
\* migration with its placeholders replaced.
LEMMA WordsStay ==
  ASSUME Agrees, SubTyped, CutsLikeServer, EachReplacedOnce, CalledWithOut,
         QuotesAgree(script), MarkedPlaceholders
  PROVE  WordsMoveNoBoundary
<1> SUFFICES ASSUME pc = "done", WordsOnly, StandApart
             PROVE  {SubSeq(script, q[1], q[2]) : q \in {stmts[k] : k \in DOMAIN stmts}} =
                      {Replaced(SubSeq(content, p[1], p[2])) : p \in StatementsOf(content)}
  BY DEF WordsMoveNoBoundary
<1>1. phase = "done" /\ script = out /\ out = Replaced(content)
  BY DEF CalledWithOut, EachReplacedOnce
<1>2. {stmts[k] : k \in DOMAIN stmts} = StatementsOf(script)
  BY DEF CutsLikeServer
<1> DEFINE S == {stmts[k] : k \in DOMAIN stmts}
<1>3. CASE Substitutes
  <2>1. Rests(content)[1] = script /\ script \in Seq(Symbols) /\ content \in Seq(Symbols)
    BY <1>1, <1>3 DEF Replaced, Substitutes, SubTyped
  <2>2. Apart(content)
    BY <1>3, ApartMeans
  <2> HIDE DEF S
  <2>3. {SubSeq(script, q[1], q[2]) : q \in StatementsOf(script)} =
          {Replaced(SubSeq(content, p[1], p[2])) : p \in StatementsOf(content)}
    <3>1. /\ Rests(content)[1] \in Seq(Symbols) /\ QuotesAgree(Rests(content)[1])
      BY <2>1
    <3>2. {SubSeq(Rests(content)[1], q[1], q[2]) : q \in StatementsOf(Rests(content)[1])} =
            {Replaced(SubSeq(content, p[1], p[2])) : p \in StatementsOf(content)}
      BY <1>3, <2>1, <2>2, <3>1, StatementsReplaced
    <3> QED
      BY <2>1, <3>2, Zenon
  <2> QED
    BY <1>2, <2>3, Zenon
<1>4. CASE ~ Substitutes
  <2>1. \A x : Replaced(x) = x
    BY <1>4 DEF Replaced, Substitutes
  <2>2. script = content
    BY <1>1, <2>1
  <2> QED
    BY <1>2, <2>1, <2>2, Zenon
<1> QED
  BY <1>3, <1>4

\* For every migration and every reader by PostgreSQL's rules: where placeholders are
\* marked, stand apart and name words, replacing them before the text is cut moves no
\* boundary - the statements are those the author wrote, each replaced (engine.go's
\* prepare).
THEOREM WordsKeepBoundaries ==
  ASSUME Agrees
  PROVE  Spec => [](QuotesAgree(script) /\ MarkedPlaceholders => WordsMoveNoBoundary)
<1>1. Init => FollowInv /\ ReplacedSoFar /\ CalledWithOut
  BY InitInv, FollowInit, ReplacedInit DEF FollowInv, CalledWithOut, Init, SplitInit
<1>2. FollowInv /\ [Next]_vars => FollowInv'
  BY FollowNext
<1>3. CalledWithOut /\ [Next]_vars => CalledWithOut'
  BY CalledNext
<1>4. FollowInv /\ CalledWithOut /\ EachReplacedOnce =>
        (QuotesAgree(script) /\ MarkedPlaceholders => WordsMoveNoBoundary)
  BY WordsStay DEF FollowInv, Follows, Inv
<1>5. Spec => []EachReplacedOnce
  BY ReplacedOnce
<1> QED
  BY <1>1, <1>2, <1>3, <1>4, <1>5, PTL DEF Spec

=============================================================================
