----------------------------- MODULE ScanProofs -----------------------------
(***************************************************************************)
(* What scan.Scan refuses and what it returns, for every tree of files.    *)
(*                                                                         *)
(* The two ways in which rian compares versions agree, for versions of any *)
(* length: Compare is a total preorder, and two versions have one key      *)
(* exactly when they compare equal.  So the duplicates that are found with *)
(* a map of keys are the pairs of versions that compare equal.  Sorting    *)
(* rearranges what was found, because the number of elements that come no  *)
(* later is another one for each position.                                 *)
(***************************************************************************)
EXTENDS Scan, NatSets, SequenceTheorems

Pos == Nat \ {0}

\* What both comparisons come down to: the parts, padded with zeros for ever.
Same(v, w) == \A i \in Pos : Part(v, i) = Part(w, i)

FirstBelow(v, w, i) ==
  Part(v, i) < Part(w, i) /\ \A k \in 1..(i - 1) : Part(v, k) = Part(w, k)

Below(v, w) == \E i \in Pos : FirstBelow(v, w, i)

-----------------------------------------------------------------------------
(* Compare.                                                                *)

\* Parts are numbers, zeros beyond the end.
LEMMA PartIsNat ==
  ASSUME NEW v \in Version, NEW i \in Pos
  PROVE  Part(v, i) \in Nat /\ (i > Len(v) => Part(v, i) = 0)
BY DEF Part, Version, Pos

\* Where two versions differ first.
LEMMA FirstDifference ==
  ASSUME NEW v \in Version, NEW w \in Version
  PROVE  /\ Differences(v, w) = {} => Same(v, w)
         /\ Differences(v, w) # {} =>
              LET i == Min(Differences(v, w))
              IN  /\ i \in Pos /\ Part(v, i) # Part(w, i)
                  /\ \A k \in 1..(i - 1) : Part(v, k) = Part(w, k)
<1> DEFINE n == Max({Len(v), Len(w)})
           D == Differences(v, w)
<1>1. Len(v) \in Nat /\ Len(w) \in Nat
  BY DEF Version
<1>2. n \in Nat /\ Len(v) <= n /\ Len(w) <= n
  <2>1. {Len(v), Len(w)} \in SUBSET Nat /\ {Len(v), Len(w)} # {}
    BY <1>1
  <2>2. IsFiniteSet({Len(v), Len(w)})
    <3>1. {Len(v), Len(w)} \in SUBSET (0..(Len(v) + Len(w)))
      BY <1>1
    <3>2. IsFiniteSet(0..(Len(v) + Len(w)))
      BY <1>1, FS_Interval
    <3> QED
      BY <3>1, <3>2, FS_Subset
  <2> QED
    BY <2>1, <2>2, MaxOfNats
<1> HIDE DEF n
<1>3. \A i \in Pos : i > n => Part(v, i) = Part(w, i)
  BY <1>1, <1>2, PartIsNat DEF Pos
<1>4. \A i \in Pos : i <= n => i \in 1..n
  BY <1>2 DEF Pos
<1>5. \A i : i \in D <=> i \in 1..n /\ Part(v, i) # Part(w, i)
  BY DEF n, Differences
<1>6. \A i \in Pos : i \notin D => Part(v, i) = Part(w, i)
  BY <1>2, <1>3, <1>4, <1>5 DEF Pos
<1>7. D \in SUBSET Nat
  BY <1>2, <1>5
<1>8. CASE D = {}
  BY <1>6, <1>8 DEF Same
<1>9. CASE D # {}
  <2>1. Min(D) \in D /\ \A k \in D : Min(D) <= k
    BY <1>7, <1>9, MinOfNats
  <2>2. Min(D) \in Pos /\ Part(v, Min(D)) # Part(w, Min(D))
    BY <1>2, <1>5, <2>1 DEF Pos
  <2> HIDE DEF D
  <2>3. ASSUME NEW k \in 1..(Min(D) - 1) PROVE Part(v, k) = Part(w, k)
    BY <1>6, <2>1, <2>2 DEF Pos
  <2> QED
    BY <1>9, <2>2, <2>3 DEF D
<1> QED
  BY <1>8, <1>9

\* No version is below another both ways, or below one it is the same as.
LEMMA BelowIsStrict ==
  ASSUME NEW v \in Version, NEW w \in Version, Below(v, w)
  PROVE  ~ Same(v, w) /\ ~ Below(w, v)
<1>1. PICK i \in Pos : FirstBelow(v, w, i)
  BY DEF Below
<1>2. \A k \in Pos : Part(v, k) \in Nat /\ Part(w, k) \in Nat
  BY PartIsNat
<1>3. ASSUME NEW k \in Pos, FirstBelow(w, v, k) PROVE FALSE
  <2>1. CASE i < k
    <3>1. i \in 1..(k - 1)
      BY <2>1 DEF Pos
    <3> QED
      BY <1>1, <1>2, <1>3, <3>1 DEF FirstBelow
  <2>2. CASE k < i
    <3>1. k \in 1..(i - 1)
      BY <2>2 DEF Pos
    <3> QED
      BY <1>1, <1>2, <1>3, <3>1 DEF FirstBelow
  <2>3. CASE i = k
    BY <1>1, <1>2, <1>3, <2>3 DEF FirstBelow
  <2> QED
    BY <2>1, <2>2, <2>3 DEF Pos
<1> QED
  BY <1>1, <1>2, <1>3 DEF Below, FirstBelow, Same

\* What the results of Compare mean.
LEMMA CompareMeans ==
  ASSUME NEW v \in Version, NEW w \in Version
  PROVE  /\ Compare(v, w) \in {-1, 0, 1}
         /\ Compare(v, w) = 0 <=> Same(v, w)
         /\ Compare(v, w) = -1 <=> Below(v, w)
         /\ Compare(v, w) = 1 <=> Below(w, v)
<1> DEFINE i == Min(Differences(v, w))
<1>1. CASE Differences(v, w) = {}
  <2>1. Compare(v, w) = 0 /\ Same(v, w)
    BY <1>1, FirstDifference DEF Compare
  <2>2. Same(w, v)
    BY <2>1 DEF Same
  <2> QED
    BY <2>1, <2>2, BelowIsStrict
<1>2. CASE Differences(v, w) # {}
  <2>1. /\ i \in Pos /\ Part(v, i) # Part(w, i)
        /\ \A k \in 1..(i - 1) : Part(v, k) = Part(w, k)
    BY <1>2, FirstDifference
  <2>2. Part(v, i) \in Nat /\ Part(w, i) \in Nat
    BY <2>1, PartIsNat
  <2>3. Compare(v, w) = IF Part(v, i) < Part(w, i) THEN -1 ELSE 1
    BY <1>2 DEF Compare
  <2> HIDE DEF i
  <2>4. CASE Part(v, i) < Part(w, i)
    <3>1. Below(v, w)
      BY <2>1, <2>4 DEF Below, FirstBelow
    <3> QED
      BY <2>3, <2>4, <3>1, BelowIsStrict
  <2>5. CASE Part(w, i) < Part(v, i)
    <3>1. Below(w, v)
      BY <2>1, <2>5 DEF Below, FirstBelow
    <3>2. ~ Same(w, v) /\ ~ Below(v, w) /\ ~ Same(v, w)
      BY <3>1, BelowIsStrict DEF Same
    <3>3. Compare(v, w) = 1
      BY <2>2, <2>3, <2>5
    <3> QED
      BY <3>1, <3>2, <3>3
  <2> QED
    BY <2>1, <2>2, <2>4, <2>5
<1> QED
  BY <1>1, <1>2

-----------------------------------------------------------------------------
(* Canonical.                                                              *)

\* The positions of the parts other than zero.
LEMMA NonZeroFacts ==
  ASSUME NEW v \in Version
  PROVE  /\ NonZero(v) \in SUBSET (1..Len(v)) /\ NonZero(v) \in SUBSET Pos
         /\ IsFiniteSet(NonZero(v))
         /\ \A i \in Pos : i \in NonZero(v) <=> Part(v, i) # 0
<1>1. Len(v) \in Nat /\ DOMAIN v = 1..Len(v)
  BY DEF Version
<1>2. NonZero(v) \in SUBSET (1..Len(v))
  BY <1>1 DEF NonZero
<1>3. IsFiniteSet(1..Len(v))
  BY <1>1, FS_Interval
<1>4. IsFiniteSet(NonZero(v))
  BY <1>2, <1>3, FS_Subset
<1>5. NonZero(v) \in SUBSET Pos
  BY <1>1, <1>2 DEF Pos
<1>6. \A i \in Pos : i \in NonZero(v) <=> Part(v, i) # 0
  BY <1>1 DEF NonZero, Part, Pos
<1> QED
  BY <1>2, <1>4, <1>5, <1>6

\* A key has the parts of its version, only without trailing zeros.
LEMMA CanonicalParts ==
  ASSUME NEW v \in Version
  PROVE  \A i \in Pos : Part(Canonical(v), i) = Part(v, i)
<1> DEFINE N == NonZero(v)
           m == Max(N)
<1>1. /\ Len(v) \in Nat /\ DOMAIN v = 1..Len(v)
      /\ v \in Seq(Nat)
  BY DEF Version
<1>2. \A i \in Pos : i \notin N => Part(v, i) = 0
  BY <1>1 DEF NonZero, Part, Pos
<1>3. CASE N = {}
  <2>1. Canonical(v) = <<0>>
    BY <1>3 DEF Canonical
  <2>2. \A i \in Pos : Part(<<0>>, i) = 0
    BY DEF Part, Pos
  <2> QED
    BY <1>2, <1>3, <2>1, <2>2
<1>4. CASE N # {}
  <2>1. N \in SUBSET (1..Len(v))
    BY NonZeroFacts
  <2>2. IsFiniteSet(N)
    BY NonZeroFacts
  <2>3. N \in SUBSET Nat
    BY <1>1, <2>1
  <2>4. m \in N /\ \A i \in N : i <= m
    BY <1>4, <2>2, <2>3, MaxOfNats
  <2>5. Canonical(v) = SubSeq(v, 1, m) /\ m \in 1..Len(v)
    BY <1>4, <2>1, <2>4 DEF Canonical
  <2> HIDE DEF m
  <2>6. m \in Nat /\ 1 <= m /\ m <= Len(v)
    BY <1>1, <2>5
  <2>7. \A i \in 1..m : v[i] \in Nat
    BY <1>1, <2>6
  <2>8. /\ Len(SubSeq(v, 1, m)) = m
        /\ \A i \in 1..m : SubSeq(v, 1, m)[i] = v[i]
    BY <2>6, <2>7, SubSeqProperties
  <2>9. ASSUME NEW i \in Pos, i <= m PROVE Part(Canonical(v), i) = Part(v, i)
    BY <2>5, <2>6, <2>8, <2>9 DEF Part, Pos
  <2>10. ASSUME NEW i \in Pos, ~ (i <= m) PROVE Part(Canonical(v), i) = Part(v, i)
    <3>1. Part(v, i) = 0
      BY <1>2, <2>4, <2>10
    <3> QED
      BY <2>5, <2>8, <2>10, <3>1 DEF Part
  <2> QED
    BY <2>9, <2>10
<1> QED
  BY <1>3, <1>4

\* Versions with the same parts have the same key.
LEMMA SameKey ==
  ASSUME NEW v \in Version, NEW w \in Version, Same(v, w)
  PROVE  Canonical(v) = Canonical(w)
<1>1. /\ Len(v) \in Nat /\ DOMAIN v = 1..Len(v) /\ v \in Seq(Nat)
      /\ Len(w) \in Nat /\ DOMAIN w = 1..Len(w) /\ w \in Seq(Nat)
  BY DEF Version
<1>2. /\ NonZero(v) \in SUBSET Pos /\ NonZero(w) \in SUBSET Pos
      /\ \A i \in Pos : /\ i \in NonZero(v) <=> Part(v, i) # 0
                        /\ i \in NonZero(w) <=> Part(w, i) # 0
  BY NonZeroFacts
<1>3. NonZero(v) \in SUBSET (1..Len(v)) /\ NonZero(w) \in SUBSET (1..Len(w))
  BY NonZeroFacts
<1>4. NonZero(v) = NonZero(w)
  <2>1. \A i \in Pos : i \in NonZero(v) <=> i \in NonZero(w)
    BY <1>2 DEF Same
  <2> QED
    BY <1>2, <2>1
<1>5. CASE NonZero(v) = {}
  BY <1>4, <1>5 DEF Canonical
<1>6. CASE NonZero(v) # {}
  <2> DEFINE m == Max(NonZero(v))
  <2>1. IsFiniteSet(NonZero(v))
    BY NonZeroFacts
  <2>2. NonZero(v) \in SUBSET Nat
    BY <1>1, <1>3
  <2>3. m \in NonZero(v)
    BY <1>6, <2>1, <2>2, MaxOfNats
  <2>4. Canonical(v) = SubSeq(v, 1, m) /\ Canonical(w) = SubSeq(w, 1, m)
    BY <1>4, <1>6 DEF Canonical
  <2>5. m \in 1..Len(v) /\ m \in 1..Len(w)
    BY <1>3, <1>4, <2>3
  <2> HIDE DEF m
  <2>6. \A i \in 1..m : v[i] \in Nat /\ w[i] \in Nat /\ v[i] = w[i]
    BY <1>1, <2>5 DEF Same, Part, Pos
  <2>7. /\ SubSeq(v, 1, m) \in Seq(Nat) /\ SubSeq(w, 1, m) \in Seq(Nat)
        /\ Len(SubSeq(v, 1, m)) = m /\ Len(SubSeq(w, 1, m)) = m
        /\ \A i \in 1..m : SubSeq(v, 1, m)[i] = SubSeq(w, 1, m)[i]
    <3>1. m \in Nat /\ 1 <= m
      BY <1>1, <2>5
    <3> QED
      BY <2>6, <3>1, SubSeqProperties
  <2>8. SubSeq(v, 1, m) = SubSeq(w, 1, m)
    BY <2>7, SeqEqual
  <2> QED
    BY <2>4, <2>8
<1> QED
  BY <1>5, <1>6

-----------------------------------------------------------------------------
(* The theorems.                                                           *)

\* Compare orders versions: of two versions each compares opposite to the other,
\* and "not above" is transitive, so that sorting and taking a maximum by it
\* make sense whatever the lengths of the versions.
THEOREM CompareIsTotalPreorder ==
  /\ \A v, w \in Version : Compare(v, w) \in {-1, 0, 1} /\ Compare(w, v) = -Compare(v, w)
  /\ \A u, v, w \in Version :
       Compare(u, v) <= 0 /\ Compare(v, w) <= 0 => Compare(u, w) <= 0
<1>1. ASSUME NEW v \in Version, NEW w \in Version
      PROVE  Compare(v, w) \in {-1, 0, 1} /\ Compare(w, v) = -Compare(v, w)
  <2>1. Same(v, w) <=> Same(w, v)
    BY DEF Same
  <2> QED
    BY <2>1, CompareMeans
<1>2. ASSUME NEW u \in Version, NEW v \in Version, NEW w \in Version,
             Compare(u, v) <= 0, Compare(v, w) <= 0
      PROVE  Compare(u, w) <= 0
  <2>1. Same(u, v) \/ Below(u, v)
    BY <1>2, CompareMeans
  <2>2. Same(v, w) \/ Below(v, w)
    BY <1>2, CompareMeans
  <2>3. \A k \in Pos : Part(u, k) \in Nat /\ Part(v, k) \in Nat /\ Part(w, k) \in Nat
    BY PartIsNat
  <2>4. CASE Same(u, v) /\ Same(v, w)
    BY <2>4, CompareMeans DEF Same
  <2>5. ASSUME Same(u, v), NEW i \in Pos, FirstBelow(v, w, i) PROVE Below(u, w)
    <3>1. 1..(i - 1) \subseteq Pos
      BY DEF Pos
    <3> QED
      BY <2>5, <3>1 DEF Same, Below, FirstBelow
  <2>6. ASSUME Same(v, w), NEW i \in Pos, FirstBelow(u, v, i) PROVE Below(u, w)
    <3>1. 1..(i - 1) \subseteq Pos
      BY DEF Pos
    <3> QED
      BY <2>6, <3>1 DEF Same, Below, FirstBelow
  <2>7. ASSUME NEW i \in Pos, NEW j \in Pos, FirstBelow(u, v, i), FirstBelow(v, w, j)
        PROVE  Below(u, w)
    <3>1. CASE i <= j
      <4>1. 1..(i - 1) \subseteq 1..(j - 1) /\ (i = j \/ i \in 1..(j - 1))
        BY <3>1 DEF Pos
      <4>2. FirstBelow(u, w, i)
        BY <2>3, <2>7, <4>1 DEF FirstBelow
      <4> QED
        BY <4>2 DEF Below
    <3>2. CASE j < i
      <4>1. 1..(j - 1) \subseteq 1..(i - 1) /\ j \in 1..(i - 1)
        BY <3>2 DEF Pos
      <4>2. FirstBelow(u, w, j)
        BY <2>3, <2>7, <4>1 DEF FirstBelow
      <4> QED
        BY <4>2 DEF Below
    <3> QED
      BY <3>1, <3>2 DEF Pos
  <2>8. Same(u, w) \/ Below(u, w)
    BY <2>1, <2>2, <2>4, <2>5, <2>6, <2>7 DEF Below, Same
  <2> QED
    BY <2>8, CompareMeans
<1> QED
  BY <1>1, <1>2

\* Duplicate detection and validation look versions up by key, everything else
\* compares them: both mean the same.
THEOREM KeysAgree ==
  \A v, w \in Version : Canonical(v) = Canonical(w) <=> Compare(v, w) = 0
<1> SUFFICES ASSUME NEW v \in Version, NEW w \in Version
             PROVE  Canonical(v) = Canonical(w) <=> Same(v, w)
  BY CompareMeans
<1>1. Canonical(v) = Canonical(w) => Same(v, w)
  BY CanonicalParts DEF Same
<1> QED
  BY <1>1, SameKey

-----------------------------------------------------------------------------
(* What Scan refuses and returns.                                          *)

\* A file that names a version.
NamesVersion(n) == n # Unreadable /\ ~ Skipped(n) /\ n.prefix = "V"

\* The causes for a refusal.
Cause ==
  \/ \E i \in DOMAIN tree : tree[i] = Unreadable
  \/ \E i \in DOMAIN tree : tree[i] # Unreadable /\ Malformed(tree[i])
  \/ \E i, j \in DOMAIN tree :
       /\ i # j /\ NamesVersion(tree[i]) /\ NamesVersion(tree[j])
       /\ Compare(tree[i].version, tree[j].version) = 0

\* The files visited so far are in order, and `seen` holds their keys.
ScanInv ==
  /\ tree \in Seq(Name \cup {Unreadable})
  /\ visited \in Nat /\ visited <= Len(tree)
  /\ result \in {"walking", "ok", "error"}
  /\ \A i \in 1..visited : tree[i] # Unreadable /\ ~ Malformed(tree[i])
  /\ \A k : k \in seen <=> \E i \in 1..visited :
       NamesVersion(tree[i]) /\ k = Canonical(tree[i].version)
  /\ \A i, j \in 1..visited :
       (i # j /\ NamesVersion(tree[i]) /\ NamesVersion(tree[j]))
         => Canonical(tree[i].version) # Canonical(tree[j].version)
  /\ result = "ok" => visited = Len(tree)
  /\ result = "error" => Cause

\* A name that is not malformed has a proper version.
LEMMA ProperVersion ==
  ASSUME NEW n \in Name, ~ Skipped(n), n.prefix = "V", ~ Malformed(n)
  PROVE  n.version \in Version
<1>1. /\ n.version \in Seq(Nat \cup {BadPart}) /\ n.version # <<>>
      /\ \A i \in DOMAIN n.version : n.version[i] # BadPart
  BY DEF Malformed, ParseVersion, Name
<1>2. \A i \in DOMAIN n.version : n.version[i] \in Nat
  BY <1>1
<1>3. Len(n.version) \in Nat /\ DOMAIN n.version = 1..Len(n.version)
  BY <1>1
<1>4. n.version \in Seq(Nat)
  BY <1>1, <1>2, <1>3, SeqDef
<1> QED
  BY <1>1, <1>4 DEF Version

\* Of files in order, two have one key exactly when their versions compare equal.
LEMMA KeysOfFiles ==
  ASSUME NEW m \in Name \cup {Unreadable}, NEW n \in Name \cup {Unreadable},
         NamesVersion(m), NamesVersion(n), ~ Malformed(m), ~ Malformed(n)
  PROVE  Canonical(m.version) = Canonical(n.version) <=> Compare(m.version, n.version) = 0
<1>1. m \in Name /\ n \in Name
  BY DEF NamesVersion
<1> QED
  BY <1>1, ProperVersion, KeysAgree DEF NamesVersion

\* Nothing is visited at first.
LEMMA InitScan == Init => ScanInv
BY TreesAssumption, LenProperties DEF Init, ScanInv

\* Every step keeps the files visited in order.
LEMMA NextScan == ScanInv /\ [Next]_vars => ScanInv'
<1> SUFFICES ASSUME ScanInv, [Next]_vars PROVE ScanInv'
  OBVIOUS
<1> DEFINE n == visited + 1
<1>0. /\ tree \in Seq(Name \cup {Unreadable}) /\ visited \in Nat
      /\ Len(tree) \in Nat /\ DOMAIN tree = 1..Len(tree)
  BY DEF ScanInv
<1>1. ASSUME Walking
      PROVE  /\ n \in DOMAIN tree /\ n \in Nat /\ n <= Len(tree)
             /\ 1..n = 1..visited \cup {n} /\ n \notin 1..visited
             /\ 1..visited \subseteq DOMAIN tree
             /\ File \in Name \cup {Unreadable} /\ File = tree[n]
  BY <1>0, <1>1 DEF Walking, File, ScanInv
<1>2. CASE Skip
  <2>1. Walking /\ File # Unreadable /\ Skipped(File)
    BY <1>2 DEF Skip
  <2>2. ~ NamesVersion(tree[n]) /\ ~ Malformed(tree[n])
    BY <1>1, <2>1 DEF NamesVersion, Malformed
  <2> HIDE DEF n
  <2>3. /\ visited' = n /\ tree' = tree /\ seen' = seen /\ result' = result
        /\ result = "walking"
    BY <1>2 DEF Skip, Walking, n
  <2> QED
    BY <1>1, <2>1, <2>2, <2>3 DEF ScanInv
<1>3. CASE Refuse
  <2>1. Walking /\ tree' = tree /\ visited' = visited /\ seen' = seen /\ result' = "error"
    BY <1>3 DEF Refuse
  <2>2. Cause
    <3>1. CASE File = Unreadable
      BY <1>1, <2>1, <3>1 DEF Cause
    <3>2. CASE File # Unreadable /\ Malformed(File)
      BY <1>1, <2>1, <3>2 DEF Cause
    <3>3. CASE /\ NamesVersion(File) /\ ~ Malformed(File)
               /\ Canonical(File.version) \in seen
      <4>1. PICK i \in 1..visited : /\ NamesVersion(tree[i])
                                    /\ Canonical(File.version) = Canonical(tree[i].version)
        BY <3>3 DEF ScanInv
      <4>2. /\ i \in DOMAIN tree /\ i # n /\ ~ Malformed(tree[i])
            /\ tree[i] \in Name \cup {Unreadable}
        <5>1. i \in DOMAIN tree /\ i # n
          BY <1>1, <2>1, <4>1
        <5>2. ~ Malformed(tree[i])
          BY <4>1 DEF ScanInv
        <5> QED
          BY <1>0, <5>1, <5>2
      <4>3. Compare(File.version, tree[i].version) = 0
        BY <1>1, <2>1, <3>3, <4>1, <4>2, KeysOfFiles
      <4> QED
        BY <1>1, <2>1, <3>3, <4>1, <4>2, <4>3 DEF Cause
    <3> QED
      BY <1>3, <3>1, <3>2, <3>3 DEF Refuse, NamesVersion
  <2>3. Cause'
    BY <2>1, <2>2 DEF Cause
  <2> QED
    BY <2>1, <2>3 DEF ScanInv
<1>4. CASE Find
  <2>1. /\ Walking /\ File # Unreadable /\ ~ Skipped(File) /\ ~ Malformed(File)
        /\ File.prefix = "V" => Canonical(File.version) \notin seen
        /\ visited' = n /\ tree' = tree /\ result' = result /\ result = "walking"
    BY <1>4 DEF Find, Walking
  <2>2. seen' = IF NamesVersion(File) THEN seen \cup {Canonical(File.version)} ELSE seen
    BY <1>4 DEF Find, NamesVersion
  <2>3. NamesVersion(File) => Canonical(File.version) \notin seen
    BY <2>1 DEF NamesVersion
  <2>4. \A i \in 1..n : i \in 1..visited \/ (i = n /\ tree[i] = File)
    BY <1>1, <2>1
  <2> HIDE DEF n
  <2>5. \A i \in 1..n : tree[i] # Unreadable /\ ~ Malformed(tree[i])
    BY <2>1, <2>4 DEF ScanInv
  <2>6. \A k : k \in seen' <=> \E i \in 1..n :
                 NamesVersion(tree[i]) /\ k = Canonical(tree[i].version)
    BY <1>1, <2>1, <2>2, <2>4 DEF ScanInv
  <2>7. ASSUME NEW i \in 1..n, NEW j \in 1..n, i # j,
               NamesVersion(tree[i]), NamesVersion(tree[j])
        PROVE  Canonical(tree[i].version) # Canonical(tree[j].version)
    BY <2>3, <2>4, <2>7 DEF ScanInv
  <2> QED
    BY <1>1, <2>1, <2>5, <2>6, <2>7 DEF ScanInv
<1>5. CASE SortFound
  <2>1. tree' = tree /\ visited' = visited /\ seen' = seen /\ result' = "ok" /\ visited = Len(tree)
    BY <1>5 DEF SortFound
  <2> QED
    BY <2>1 DEF ScanInv
<1>6. CASE UNCHANGED vars
  BY <1>6 DEF vars, ScanInv, Cause
<1> QED
  BY <1>2, <1>3, <1>4, <1>5, <1>6 DEF Next

\* Scan fails for a cause, and whenever there is one, in whatever order it meets
\* the files.
THEOREM RefusesForCause == Spec => []RefusedForCause
<1>1. ScanInv => RefusedForCause
  <2> SUFFICES ASSUME ScanInv PROVE RefusedForCause
    OBVIOUS
  <2>1. result = "ok" => ~ Cause
    <3> SUFFICES ASSUME result = "ok" PROVE ~ Cause
      OBVIOUS
    <3>1. /\ DOMAIN tree = 1..visited
          /\ \A i \in DOMAIN tree : tree[i] \in Name \cup {Unreadable}
      BY DEF ScanInv
    <3>2. ASSUME NEW i \in DOMAIN tree, NEW j \in DOMAIN tree, i # j,
                 NamesVersion(tree[i]), NamesVersion(tree[j])
          PROVE  Compare(tree[i].version, tree[j].version) # 0
      BY <3>1, <3>2, KeysOfFiles DEF ScanInv
    <3> QED
      BY <3>1, <3>2 DEF Cause, ScanInv
  <2>2. result \in {"walking", "ok", "error"} /\ (result = "error" => Cause)
    BY DEF ScanInv
  <2> QED
    BY <2>1, <2>2 DEF RefusedForCause, Cause, NamesVersion
<1>2. Spec => []ScanInv
  BY InitScan, NextScan, PTL DEF Spec
<1> QED
  BY <1>1, <1>2, PTL

-----------------------------------------------------------------------------
(* Sorting.                                                                *)

\* What Scan collects can be compared.
Comparable(m) ==
  /\ m.type \in {"V", "R"}
  /\ m.type = "V" => m.version \in Version
  /\ m.type = "R" => m.description \in Nat

\* m comes before n or beside it.
NotAfter(m, n) == ~ Less(n, m)

Comes(ms) == [i \in DOMAIN ms |-> {j \in DOMAIN ms : NoLater(ms, j, i)}]
Place(ms) == [i \in DOMAIN ms |-> Cardinality(Comes(ms)[i])]

\* The order of migrations, without regard to their positions, is a total preorder.
LEMMA PreorderOfMigrations ==
  ASSUME NEW a, NEW b, NEW c, Comparable(a), Comparable(b), Comparable(c)
  PROVE  /\ NotAfter(a, b) \/ NotAfter(b, a)
         /\ NotAfter(a, b) /\ NotAfter(b, c) => NotAfter(a, c)
<1>1. ASSUME NEW m, NEW n, Comparable(m), Comparable(n)
      PROVE  NotAfter(m, n) <=>
               \/ m.type = "V" /\ n.type = "R"
               \/ m.type = "V" /\ n.type = "V" /\ Compare(m.version, n.version) <= 0
               \/ m.type = "R" /\ n.type = "R" /\ m.description <= n.description
  <2>1. CASE m.type = "V" /\ n.type = "V"
    <3>1. m.version \in Version /\ n.version \in Version
      BY <1>1, <2>1 DEF Comparable
    <3>2. /\ Compare(m.version, n.version) \in {-1, 0, 1}
          /\ Compare(n.version, m.version) = -Compare(m.version, n.version)
      BY <3>1, CompareIsTotalPreorder
    <3>3. NotAfter(m, n) <=> ~ (Compare(n.version, m.version) < 0)
      BY <2>1 DEF NotAfter, Less
    <3> QED
      BY <2>1, <3>2, <3>3
  <2>2. CASE m.type = "R" /\ n.type = "R"
    BY <1>1, <2>2 DEF Comparable, NotAfter, Less
  <2>3. CASE m.type # n.type
    BY <1>1, <2>3 DEF Comparable, NotAfter, Less
  <2> QED
    BY <1>1, <2>1, <2>2, <2>3 DEF Comparable
<1>2. NotAfter(a, b) \/ NotAfter(b, a)
  <2>1. CASE a.type = "V" /\ b.type = "V"
    <3>1. a.version \in Version /\ b.version \in Version
      BY <2>1 DEF Comparable
    <3>2. /\ Compare(a.version, b.version) \in {-1, 0, 1}
          /\ Compare(b.version, a.version) = -Compare(a.version, b.version)
      BY <3>1, CompareIsTotalPreorder
    <3> QED
      BY <1>1, <2>1, <3>2
  <2>2. CASE a.type = "R" /\ b.type = "R"
    BY <1>1, <2>2 DEF Comparable
  <2> QED
    BY <1>1, <2>1, <2>2 DEF Comparable
<1>3. ASSUME NotAfter(a, b), NotAfter(b, c) PROVE NotAfter(a, c)
  <2>1. CASE a.type = "V" /\ b.type = "V" /\ c.type = "V"
    <3>1. a.version \in Version /\ b.version \in Version /\ c.version \in Version
      BY <2>1 DEF Comparable
    <3>2. Compare(a.version, b.version) <= 0 /\ Compare(b.version, c.version) <= 0
      BY <1>1, <1>3, <2>1
    <3>3. Compare(a.version, c.version) <= 0
      BY <3>1, <3>2, CompareIsTotalPreorder
    <3> QED
      BY <1>1, <2>1, <3>3
  <2>2. CASE a.type = "R" /\ b.type = "R" /\ c.type = "R"
    BY <1>1, <1>3, <2>2 DEF Comparable
  <2>3. CASE a.type = "V" /\ c.type = "R"
    BY <1>1, <2>3
  <2> QED
    BY <1>1, <1>3, <2>1, <2>2, <2>3 DEF Comparable
<1> QED
  BY <1>2, <1>3

\* With the positions to decide, no two elements of a list are beside each other.
LEMMA OrderOfPositions ==
  ASSUME NEW ms, DOMAIN ms \subseteq Nat, \A i \in DOMAIN ms : Comparable(ms[i]),
         NEW i \in DOMAIN ms, NEW j \in DOMAIN ms, NEW k \in DOMAIN ms
  PROVE  /\ NoLater(ms, i, i)
         /\ NoLater(ms, i, j) \/ NoLater(ms, j, i)
         /\ NoLater(ms, i, j) /\ NoLater(ms, j, i) => i = j
         /\ NoLater(ms, i, j) /\ NoLater(ms, j, k) => NoLater(ms, i, k)
<1>1. /\ \A a, b \in {i, j, k} : NotAfter(ms[a], ms[b]) \/ NotAfter(ms[b], ms[a])
      /\ \A a, b, c \in {i, j, k} :
           NotAfter(ms[a], ms[b]) /\ NotAfter(ms[b], ms[c]) => NotAfter(ms[a], ms[c])
  <2> SUFFICES ASSUME NEW a \in {i, j, k}, NEW b \in {i, j, k}, NEW c \in {i, j, k}
               PROVE  /\ NotAfter(ms[a], ms[b]) \/ NotAfter(ms[b], ms[a])
                      /\ NotAfter(ms[a], ms[b]) /\ NotAfter(ms[b], ms[c])
                           => NotAfter(ms[a], ms[c])
    OBVIOUS
  <2> QED
    BY PreorderOfMigrations
<1>2. \A a, b \in {i, j, k} :
        NoLater(ms, a, b) <=> /\ NotAfter(ms[a], ms[b])
                              /\ NotAfter(ms[b], ms[a]) => a <= b
  BY <1>1 DEF NoLater, NotAfter
<1>3. i \in Nat /\ j \in Nat /\ k \in Nat
  OBVIOUS
<1> QED
  BY <1>1, <1>2, <1>3

\* Sorted rearranges a list: f says where each element of the result was, and the
\* result is in order.
LEMMA SortedRearranges ==
  ASSUME NEW ms, NEW n \in Nat, DOMAIN ms = 1..n, \A i \in 1..n : Comparable(ms[i])
  PROVE  \E f \in Bijection(1..n, 1..n) :
           /\ Sorted(ms) = [k \in 1..n |-> ms[f[k]]]
           /\ \A k, l \in 1..n : k < l => NoLater(ms, f[k], f[l])
<1> DEFINE C == Comes(ms)
           P == Place(ms)
           f == [k \in 1..n |-> CHOOSE i \in 1..n : P[i] = k]
<1>0. IsFiniteSet(1..n) /\ Cardinality(1..n) = n
  BY FS_Interval
<1>o. \A i, j, k \in 1..n :
        /\ NoLater(ms, i, i)
        /\ NoLater(ms, i, j) \/ NoLater(ms, j, i)
        /\ NoLater(ms, i, j) /\ NoLater(ms, j, i) => i = j
        /\ NoLater(ms, i, j) /\ NoLater(ms, j, k) => NoLater(ms, i, k)
  <2> TAKE i, j, k \in 1..n
  <2>1. /\ DOMAIN ms \subseteq Nat /\ \A a \in DOMAIN ms : Comparable(ms[a])
        /\ i \in DOMAIN ms /\ j \in DOMAIN ms /\ k \in DOMAIN ms
    OBVIOUS
  <2> QED
    BY <2>1, OrderOfPositions
<1>1. \A i \in 1..n : C[i] = {j \in 1..n : NoLater(ms, j, i)} /\ P[i] = Cardinality(C[i])
  BY DEF Comes, Place
<1>2. \A i \in 1..n : C[i] \in SUBSET (1..n) /\ IsFiniteSet(C[i]) /\ i \in C[i]
  <2> SUFFICES ASSUME NEW i \in 1..n
               PROVE  C[i] \in SUBSET (1..n) /\ IsFiniteSet(C[i]) /\ i \in C[i]
    OBVIOUS
  <2>1. NoLater(ms, i, i)
    BY <1>o
  <2> HIDE DEF C
  <2>2. C[i] \in SUBSET (1..n) /\ i \in C[i]
    BY <1>1, <2>1
  <2> QED
    BY <1>0, <2>2, FS_Subset
<1>3. P \in [1..n -> 1..n]
  <2>1. ASSUME NEW i \in 1..n PROVE P[i] \in 1..n
    <3> HIDE DEF C, P
    <3>1. Cardinality(C[i]) \in Nat /\ Cardinality(C[i]) <= n
      BY <1>0, <1>2, FS_Subset, FS_CardinalityType
    <3>2. Cardinality(C[i]) # 0
      BY <1>2, FS_EmptySet
    <3> QED
      BY <1>1, <3>1, <3>2
  <2> QED
    BY <2>1 DEF Place
<1>4. ASSUME NEW i \in 1..n, NEW j \in 1..n, i # j, NoLater(ms, i, j)
      PROVE  P[i] < P[j]
  <2>1. \A k \in 1..n : NoLater(ms, k, i) => NoLater(ms, k, j)
    BY <1>4, <1>o
  <2>2. ~ NoLater(ms, j, i)
    BY <1>4, <1>o
  <2> HIDE DEF C, P
  <2>3. C[i] \in SUBSET C[j] /\ C[i] # C[j]
    BY <1>1, <1>2, <2>1, <2>2
  <2>4. Cardinality(C[i]) <= Cardinality(C[j]) /\ Cardinality(C[i]) # Cardinality(C[j])
    BY <1>2, <2>3, FS_Subset
  <2>5. P[i] = Cardinality(C[i]) /\ P[j] = Cardinality(C[j]) /\ P[i] \in Nat /\ P[j] \in Nat
    BY <1>1, <1>3
  <2> QED
    BY <2>4, <2>5
<1>5. P \in Bijection(1..n, 1..n)
  <2>1. P \in Injection(1..n, 1..n)
    <3>1. ASSUME NEW i \in 1..n, NEW j \in 1..n, P[i] = P[j] PROVE i = j
      <4>1. NoLater(ms, i, j) \/ NoLater(ms, j, i)
        BY <1>o
      <4>2. P[i] \in Nat /\ P[j] \in Nat
        BY <1>3
      <4> HIDE DEF P
      <4> QED
        BY <1>4, <3>1, <4>1, <4>2
    <3> HIDE DEF P
    <3> QED
      BY <1>3, <3>1 DEF Injection, IsInjective
  <2> HIDE DEF P
  <2> QED
    BY <1>0, <2>1, FS_Injection DEF Bijection
<1> HIDE DEF C, P
<1>6. \A k \in 1..n : f[k] \in 1..n /\ P[f[k]] = k
  BY <1>5 DEF Bijection, Surjection
<1>7. \A i \in 1..n : P[i] \in 1..n /\ f[P[i]] = i
  <2> TAKE i \in 1..n
  <2>1. P[i] \in 1..n /\ \A a, b \in 1..n : P[a] = P[b] => a = b
    BY <1>3, <1>5 DEF Bijection, Injection, IsInjective
  <2>2. f[P[i]] \in 1..n /\ P[f[P[i]]] = P[i]
    BY <1>6, <2>1
  <2> QED
    BY <2>1, <2>2
<1>8. Sorted(ms) = [k \in 1..n |-> ms[f[k]]]
  <2>1. \A i \in 1..n : Cardinality({j \in DOMAIN ms : NoLater(ms, j, i)}) = P[i]
    BY <1>1
  <2>2. \A k \in 1..n :
          (CHOOSE i \in DOMAIN ms : Cardinality({j \in DOMAIN ms : NoLater(ms, j, i)}) = k) = f[k]
    BY <2>1
  <2>3. Sorted(ms) =
          [k \in DOMAIN ms |-> ms[CHOOSE i \in DOMAIN ms :
             Cardinality({j \in DOMAIN ms : NoLater(ms, j, i)}) = k]]
    BY DEF Sorted
  <2> HIDE DEF f
  <2> QED
    BY <2>2, <2>3
<1>9. f \in Bijection(1..n, 1..n)
  <2>1. f \in [1..n -> 1..n]
    BY <1>6
  <2> HIDE DEF f
  <2>2. \A k, l \in 1..n : f[k] = f[l] => k = l
    BY <1>6
  <2>3. \A i \in 1..n : \E k \in 1..n : f[k] = i
    BY <1>7
  <2> QED
    BY <2>1, <2>2, <2>3 DEF Bijection, Injection, Surjection, IsInjective
<1> HIDE DEF f
<1>10. ASSUME NEW k \in 1..n, NEW l \in 1..n, k < l
       PROVE  NoLater(ms, f[k], f[l])
  <2>1. /\ f[k] \in 1..n /\ f[l] \in 1..n /\ P[f[k]] = k /\ P[f[l]] = l
    BY <1>6
  <2>2. NoLater(ms, f[k], f[l]) \/ NoLater(ms, f[l], f[k])
    BY <2>1, <1>o
  <2> QED
    BY <1>4, <1>10, <2>1, <2>2
<1> QED
  BY <1>8, <1>9, <1>10

-----------------------------------------------------------------------------
(* What Scan finds.                                                        *)

\* The positions at which a list has a migration of name n.
Named(ms, n) == {i \in DOMAIN ms : ms[i].name = n}

\* The migrations found so far are those of the files visited.
Found ==
  /\ migrations \in Seq({Parsed(n) : n \in Name})
  /\ \A i \in DOMAIN migrations :
       /\ Comparable(migrations[i])
       /\ migrations[i].type = "V" => Canonical(migrations[i].version) \in seen
  /\ \A i, j \in DOMAIN migrations :
       i # j /\ migrations[i].type = "V" /\ migrations[j].type = "V"
         => Canonical(migrations[i].version) # Canonical(migrations[j].version)
  /\ \A n \in Name : ~ Skipped(n) =>
       Cardinality(Named(migrations, n)) = Cardinality({i \in 1..visited : tree[i] = n})

FoundInv ==
  /\ ScanInv
  /\ result = "walking" => Found
  /\ result = "ok" => InOrder /\ NothingLost

\* Nothing is found at first.
LEMMA InitFound == Init => FoundInv
<1> SUFFICES ASSUME Init PROVE FoundInv
  OBVIOUS
<1>1. ScanInv
  BY InitScan
<1>2. migrations = <<>> /\ visited = 0 /\ result = "walking"
  BY DEF Init
<1>3. DOMAIN migrations = {} /\ migrations \in Seq({Parsed(n) : n \in Name})
  BY <1>2
<1>4. \A n : Named(migrations, n) = {} /\ {i \in 1..visited : tree[i] = n} = {}
  BY <1>2, <1>3 DEF Named
<1>5. Found
  BY <1>3, <1>4 DEF Found
<1> QED
  BY <1>1, <1>2, <1>5 DEF FoundInv

\* A file with a proper name is a migration that can be compared.
LEMMA ParsedIsComparable ==
  ASSUME NEW n \in Name, ~ Skipped(n), ~ Malformed(n)
  PROVE  Comparable(Parsed(n))
<1>1. n.prefix \in {"R", "V"} /\ n.description \in DOMAIN Spaced
  BY DEF Skipped, Name
<1>2. Spaced[n.description] \in Nat
  BY <1>1, SpacedAssumption DEF Malformed
<1>3. n.prefix = "V" => n.version \in Version
  BY ProperVersion
<1> QED
  BY <1>1, <1>2, <1>3 DEF Comparable, Parsed

\* What is skipped is no migration.
LEMMA SkipKeepsFound ==
  ASSUME ScanInv, Found, Skip
  PROVE  Found'
<1>1. /\ Walking /\ File # Unreadable /\ Skipped(tree[visited + 1])
      /\ visited' = visited + 1 /\ tree' = tree /\ seen' = seen /\ migrations' = migrations
  BY DEF Skip, File
<1>2. ASSUME NEW n \in Name, ~ Skipped(n)
      PROVE  {i \in 1..visited : tree[i] = n} = {i \in 1..(visited + 1) : tree[i] = n}
  <2>1. tree[visited + 1] # n /\ visited \in Nat
    BY <1>1, <1>2 DEF ScanInv
  <2> QED
    BY <2>1
<1> QED
  BY <1>1, <1>2 DEF Found, Named

\* A file that is found is added, and nothing else.
LEMMA FindKeepsFound ==
  ASSUME ScanInv, Found, Find
  PROVE  Found'
<1> DEFINE m == Parsed(File)
           l == Len(migrations)
<1>1. /\ Walking /\ File # Unreadable /\ ~ Skipped(File) /\ ~ Malformed(File)
      /\ File.prefix = "V" => Canonical(File.version) \notin seen
      /\ seen' = IF File.prefix = "V" THEN seen \cup {Canonical(File.version)} ELSE seen
      /\ migrations' = Append(migrations, m)
      /\ visited' = visited + 1 /\ tree' = tree
  BY DEF Find
<1>2. /\ visited \in Nat /\ visited + 1 \in DOMAIN tree /\ File = tree[visited + 1]
      /\ File \in Name
  <2>1. tree \in Seq(Name \cup {Unreadable}) /\ visited \in Nat /\ visited < Len(tree)
    BY <1>1 DEF Walking, ScanInv
  <2>2. DOMAIN tree = 1..Len(tree) /\ Len(tree) \in Nat
    BY <2>1
  <2>3. visited + 1 \in DOMAIN tree /\ tree[visited + 1] \in Name \cup {Unreadable}
    BY <2>1, <2>2
  <2> QED
    BY <1>1, <2>1, <2>3 DEF File
<1>3. Comparable(m) /\ m.type = File.prefix /\ m.version = File.version /\ m.name = File
  BY <1>1, <1>2, ParsedIsComparable DEF Parsed
<1>4. migrations \in Seq({Parsed(n) : n \in Name}) /\ m \in {Parsed(n) : n \in Name}
  BY <1>2 DEF Found
<1> HIDE DEF m, l
<1>5. /\ migrations' \in Seq({Parsed(n) : n \in Name})
      /\ l \in Nat /\ DOMAIN migrations = 1..l /\ DOMAIN migrations' = 1..(l + 1)
      /\ \A i \in 1..l : migrations'[i] = migrations[i]
      /\ migrations'[l + 1] = m
  BY <1>1, <1>4, AppendProperties, LenProperties DEF l
<1>6. ASSUME NEW i \in 1..(l + 1)
      PROVE  /\ Comparable(migrations'[i])
             /\ migrations'[i].type = "V" => Canonical(migrations'[i].version) \in seen'
  <2>1. CASE i \in 1..l
    BY <1>1, <1>5, <2>1 DEF Found
  <2>2. CASE i = l + 1
    BY <1>1, <1>3, <1>5, <2>2
  <2> QED
    BY <1>5, <2>1, <2>2
<1>7. ASSUME NEW i \in 1..(l + 1), NEW j \in 1..(l + 1), i # j,
             migrations'[i].type = "V", migrations'[j].type = "V"
      PROVE  Canonical(migrations'[i].version) # Canonical(migrations'[j].version)
  <2>1. CASE i \in 1..l /\ j \in 1..l
    BY <1>5, <1>7, <2>1 DEF Found
  <2>2. CASE i = l + 1 /\ j \in 1..l
    BY <1>1, <1>3, <1>5, <1>7, <2>2 DEF Found
  <2>3. CASE i \in 1..l /\ j = l + 1
    BY <1>1, <1>3, <1>5, <1>7, <2>3 DEF Found
  <2> QED
    BY <1>5, <1>7, <2>1, <2>2, <2>3
<1>8. ASSUME NEW n \in Name, ~ Skipped(n)
      PROVE  Cardinality(Named(migrations', n))
               = Cardinality({i \in 1..(visited + 1) : tree[i] = n})
  <2> DEFINE A == Named(migrations, n)
             B == {i \in 1..visited : tree[i] = n}
  <2>1. /\ A \in SUBSET (1..l) /\ B \in SUBSET (1..visited)
        /\ Cardinality(A) = Cardinality(B)
    BY <1>5, <1>8 DEF Found, Named
  <2>2. IsFiniteSet(A) /\ IsFiniteSet(B)
    <3>1. IsFiniteSet(1..l) /\ IsFiniteSet(1..visited)
      BY <1>2, <1>5, FS_Interval
    <3> HIDE DEF A, B
    <3> QED
      BY <2>1, <3>1, FS_Subset
  <2>a. /\ Named(migrations', n) = {i \in 1..(l + 1) : migrations'[i].name = n}
        /\ A = {i \in 1..l : migrations'[i].name = n}
    BY <1>5 DEF Named
  <2> HIDE DEF A
  <2>3. CASE File = n
    <3>1. Named(migrations', n) = A \cup {l + 1}
      <4>1. \A i \in 1..(l + 1) :
              migrations'[i].name = n <=> (i \in 1..l /\ migrations'[i].name = n) \/ i = l + 1
        BY <1>3, <1>5, <2>3
      <4> QED
        BY <1>5, <2>a, <4>1
    <3>2. {i \in 1..(visited + 1) : tree[i] = n} = B \cup {visited + 1}
      <4>1. \A i \in 1..(visited + 1) :
              tree[i] = n <=> (i \in 1..visited /\ tree[i] = n) \/ i = visited + 1
        <5>1. tree[visited + 1] = n /\ visited \in Nat
          BY <1>2, <2>3
        <5> QED
          BY <5>1
      <4>2. 1..(visited + 1) = 1..visited \cup {visited + 1} /\ visited + 1 \notin 1..visited
        BY <1>2
      <4> QED
        BY <4>1, <4>2
    <3>3. l + 1 \notin A /\ visited + 1 \notin B
      BY <1>2, <1>5, <2>1
    <3> HIDE DEF B
    <3>4. /\ Cardinality(A \cup {l + 1}) = Cardinality(A) + 1
          /\ Cardinality(B \cup {visited + 1}) = Cardinality(B) + 1
      BY <2>2, <3>3, FS_AddElement
    <3> QED
      BY <2>1, <3>1, <3>2, <3>4
  <2>4. CASE File # n
    <3>1. Named(migrations', n) = A
      BY <1>3, <1>5, <2>4, <2>a
    <3>2. {i \in 1..(visited + 1) : tree[i] = n} = B
      BY <1>2, <2>4
    <3> QED
      BY <2>1, <3>1, <3>2
  <2> QED
    BY <2>3, <2>4
<1> QED
  BY <1>1, <1>5, <1>6, <1>7, <1>8 DEF Found

\* Rearranging a list changes no count.
LEMMA CountsStay ==
  ASSUME NEW ms, NEW k \in Nat, DOMAIN ms = 1..k, NEW f \in Bijection(1..k, 1..k), NEW n
  PROVE  Cardinality(Named([i \in 1..k |-> ms[f[i]]], n)) = Cardinality(Named(ms, n))
<1> DEFINE A == Named([i \in 1..k |-> ms[f[i]]], n)
           B == Named(ms, n)
           g == [i \in A |-> f[i]]
<1>1. /\ f \in [1..k -> 1..k]
      /\ \A i, j \in 1..k : f[i] = f[j] => i = j
      /\ \A j \in 1..k : \E i \in 1..k : f[i] = j
  BY DEF Bijection, Injection, Surjection, IsInjective
<1>2. A = {i \in 1..k : ms[f[i]].name = n} /\ B = {i \in 1..k : ms[i].name = n}
  BY DEF Named
<1> HIDE DEF A, B
<1>3. g \in [A -> B]
  BY <1>1, <1>2
<1>4. \A i, j \in A : g[i] = g[j] => i = j
  BY <1>1, <1>2
<1>5. \A j \in B : \E i \in A : g[i] = j
  BY <1>1, <1>2
<1> HIDE DEF g
<1>6. g \in Bijection(A, B)
  BY <1>3, <1>4, <1>5 DEF Bijection, Injection, Surjection, IsInjective
<1>7. IsFiniteSet(A) /\ ExistsBijection(A, B)
  <2>1. IsFiniteSet(1..k) /\ A \in SUBSET (1..k)
    BY <1>2, FS_Interval
  <2> QED
    BY <1>6, <2>1, FS_Subset DEF ExistsBijection
<1> QED
  BY <1>7, FS_Bijection DEF A, B

\* Sorting what was found puts it in order and keeps all of it.
LEMMA SortKeepsFound ==
  ASSUME ScanInv, Found, SortFound
  PROVE  InOrder' /\ NothingLost'
<1> DEFINE l == Len(migrations)
<1>1. /\ migrations' = Sorted(migrations) /\ tree' = tree
      /\ visited = Len(tree) /\ DOMAIN tree = 1..visited
  BY DEF SortFound, ScanInv
<1>2. /\ l \in Nat /\ DOMAIN migrations = 1..l
      /\ \A i \in 1..l : Comparable(migrations[i])
  BY LenProperties DEF Found
<1> HIDE DEF l
<1>3. PICK f \in Bijection(1..l, 1..l) :
        /\ migrations' = [k \in 1..l |-> migrations[f[k]]]
        /\ \A k, j \in 1..l : k < j => NoLater(migrations, f[k], f[j])
  BY <1>1, <1>2, SortedRearranges
<1>4. /\ f \in [1..l -> 1..l]
      /\ \A i, j \in 1..l : f[i] = f[j] => i = j
  BY DEF Bijection, Injection, IsInjective
<1>5. InOrder'
  <2> SUFFICES ASSUME NEW i \in 1..l, NEW j \in 1..l, i < j
               PROVE  LET m == migrations[f[i]]  n == migrations[f[j]] IN
                      /\ n.type = "V" => m.type = "V" /\ Compare(m.version, n.version) < 0
                      /\ (m.type = "R" /\ n.type = "R") => m.description <= n.description
    BY <1>3 DEF InOrder
  <2> DEFINE m == migrations[f[i]]
             n == migrations[f[j]]
  <2>1. f[i] \in 1..l /\ f[j] \in 1..l /\ f[i] # f[j]
    BY <1>4
  <2>2. Comparable(m) /\ Comparable(n)
    BY <1>2, <2>1
  <2>3. ~ Less(n, m)
    <3>1. NoLater(migrations, f[i], f[j])
      BY <1>3
    <3>2. NotAfter(m, n) \/ NotAfter(n, m)
      BY <2>2, PreorderOfMigrations
    <3> QED
      BY <3>1, <3>2 DEF NoLater, NotAfter
  <2>4. m.type = "V" /\ n.type = "V" => Canonical(m.version) # Canonical(n.version)
    BY <1>2, <2>1 DEF Found
  <2> HIDE DEF m, n
  <2>5. n.type = "V" => m.type = "V"
    BY <2>2, <2>3 DEF Less, Comparable
  <2>6. m.type = "V" /\ n.type = "V" => Compare(m.version, n.version) < 0
    <3> SUFFICES ASSUME m.type = "V", n.type = "V"
                 PROVE  Compare(m.version, n.version) < 0
      OBVIOUS
    <3>1. m.version \in Version /\ n.version \in Version
      BY <2>2 DEF Comparable
    <3>2. /\ Compare(m.version, n.version) \in {-1, 0, 1}
          /\ Compare(n.version, m.version) = -Compare(m.version, n.version)
      BY <3>1, CompareIsTotalPreorder
    <3>3. Compare(m.version, n.version) # 0
      BY <2>4, <3>1, KeysAgree
    <3>4. ~ (Compare(n.version, m.version) < 0)
      BY <2>3 DEF Less
    <3> QED
      BY <3>2, <3>3, <3>4
  <2>7. m.type = "R" /\ n.type = "R" => m.description <= n.description
    BY <2>2, <2>3 DEF Less, Comparable
  <2> QED
    BY <2>5, <2>6, <2>7 DEF m, n
<1>6. NothingLost'
  <2>1. ASSUME NEW n \in {tree[i] : i \in DOMAIN tree}, ~ Skipped(n)
        PROVE  Cardinality(Named(migrations', n)) = Cardinality({i \in DOMAIN tree : tree[i] = n})
    <3>1. n \in Name
      BY <1>1 DEF ScanInv
    <3>2. Cardinality(Named(migrations, n)) = Cardinality({i \in 1..visited : tree[i] = n})
      BY <2>1, <3>1 DEF Found
    <3>3. Cardinality(Named(migrations', n)) = Cardinality(Named(migrations, n))
      BY <1>2, <1>3, CountsStay
    <3> QED
      BY <1>1, <3>2, <3>3
  <2> QED
    BY <1>1, <2>1 DEF NothingLost, Named
<1> QED
  BY <1>5, <1>6

\* Every step keeps what was found.
LEMMA NextFound == FoundInv /\ [Next]_vars => FoundInv'
<1> SUFFICES ASSUME FoundInv, [Next]_vars PROVE FoundInv'
  OBVIOUS
<1>1. ScanInv /\ ScanInv'
  BY NextScan DEF FoundInv
<1>2. CASE Skip
  <2>1. result = "walking" /\ result' = "walking"
    BY <1>2 DEF Skip, Walking
  <2> QED
    BY <1>1, <1>2, <2>1, SkipKeepsFound DEF FoundInv
<1>3. CASE Refuse
  BY <1>1, <1>3 DEF Refuse, FoundInv
<1>4. CASE Find
  <2>1. result = "walking" /\ result' = "walking"
    BY <1>4 DEF Find, Walking
  <2> QED
    BY <1>1, <1>4, <2>1, FindKeepsFound DEF FoundInv
<1>5. CASE SortFound
  <2>1. result = "walking" /\ result' = "ok"
    BY <1>5 DEF SortFound
  <2> QED
    BY <1>1, <1>5, <2>1, SortKeepsFound DEF FoundInv
<1>6. CASE UNCHANGED vars
  <2>1. (Found' <=> Found) /\ (InOrder' <=> InOrder) /\ (NothingLost' <=> NothingLost)
        /\ result' = result
    BY <1>6 DEF vars, Found, InOrder, NothingLost, Named
  <2> QED
    BY <1>1, <2>1 DEF FoundInv
<1> QED
  BY <1>2, <1>3, <1>4, <1>5, <1>6 DEF Next

\* The result of Scan is in the order Migrate relies on.
THEOREM ResultInOrder == Spec => []InOrder
<1>1. FoundInv => InOrder
  BY DEF FoundInv, InOrder
<1> QED
  BY <1>1, InitFound, NextFound, PTL DEF Spec

\* Every migration file is in the result of Scan, as often as the walk met it.
THEOREM ResultComplete == Spec => []NothingLost
<1>1. FoundInv => NothingLost
  BY DEF FoundInv, NothingLost
<1> QED
  BY <1>1, InitFound, NextFound, PTL DEF Spec

-----------------------------------------------------------------------------
(* Versions as numbers.                                                    *)

\* Numbers for the versions of a set that keep their order: the engine's modules have
\* such numbers for versions.
Numbering(V) ==
  {number \in [V -> Nat] : \A v, w \in V : number[v] < number[w] <=> Compare(v, w) < 0}

\* The versions of a set that are below v.
Lower(V, v) == {u \in V : Compare(u, v) < 0}

LEMMA LowerGrows ==
  ASSUME NEW V \in SUBSET Version, NEW v \in V, NEW w \in V
  PROVE  /\ Compare(v, w) <= 0 => Lower(V, v) \subseteq Lower(V, w)
         /\ Compare(v, w) < 0 => v \in Lower(V, w) /\ v \notin Lower(V, v)
<1>1. ASSUME Compare(v, w) <= 0, NEW u \in V, Compare(u, v) < 0 PROVE Compare(u, w) < 0
  <2>1. u \in Version /\ v \in Version /\ w \in Version
    OBVIOUS
  <2>2. /\ Compare(u, v) \in {-1, 0, 1} /\ Compare(u, w) \in {-1, 0, 1}
        /\ Compare(v, u) = -Compare(u, v) /\ Compare(w, u) = -Compare(u, w)
    BY <2>1, CompareIsTotalPreorder
  <2>3. Compare(v, w) <= 0 /\ Compare(w, u) <= 0 => Compare(v, u) <= 0
    BY <2>1, CompareIsTotalPreorder
  <2> QED
    BY <1>1, <2>2, <2>3
<1>2. ~ (Compare(v, v) < 0)
  <2>1. v \in Version
    OBVIOUS
  <2>2. Compare(v, v) \in {-1, 0, 1} /\ Compare(v, v) = -Compare(v, v)
    BY <2>1, CompareIsTotalPreorder
  <2> QED
    BY <2>2
<1> QED
  BY <1>1, <1>2 DEF Lower

\* For every finite set of versions there are numbers that keep their order, and two
\* versions have one number exactly when they have one key: with numbers for versions,
\* the engine's modules lose nothing that version.go tells apart.
THEOREM VersionsHaveNumbers ==
  ASSUME NEW V \in SUBSET Version, IsFiniteSet(V)
  PROVE  \E number \in Numbering(V) :
           \A v, w \in V : number[v] = number[w] <=> Canonical(v) = Canonical(w)
<1> DEFINE number == [v \in V |-> Cardinality(Lower(V, v))]
<1>1. ASSUME NEW v \in V PROVE IsFiniteSet(Lower(V, v)) /\ number[v] \in Nat
  <2>1. Lower(V, v) \in SUBSET V
    BY DEF Lower
  <2>2. IsFiniteSet(Lower(V, v))
    BY <2>1, FS_Subset
  <2> QED
    BY <2>2, FS_CardinalityType
<1>2. ASSUME NEW v \in V, NEW w \in V
      PROVE  /\ Compare(v, w) \in {-1, 0, 1} /\ Compare(w, v) = -Compare(v, w)
             /\ Canonical(v) = Canonical(w) <=> Compare(v, w) = 0
  <2>1. v \in Version /\ w \in Version
    OBVIOUS
  <2> QED
    BY <2>1, CompareIsTotalPreorder, KeysAgree
<1>3. ASSUME NEW v \in V, NEW w \in V
      PROVE  /\ Compare(v, w) <= 0 => number[v] <= number[w]
             /\ Compare(v, w) < 0 => number[v] # number[w]
  <2>1. ASSUME Compare(v, w) <= 0 PROVE number[v] <= number[w]
    <3>1. Lower(V, v) \in SUBSET Lower(V, w)
      BY <2>1, LowerGrows
    <3> QED
      BY <1>1, <3>1, FS_Subset
  <2>2. ASSUME Compare(v, w) < 0 PROVE number[v] # number[w]
    <3>1. Compare(v, w) <= 0
      BY <1>2, <2>2
    <3>2. Lower(V, v) \in SUBSET Lower(V, w) /\ Lower(V, v) # Lower(V, w)
      BY <2>2, <3>1, LowerGrows
    <3> QED
      BY <1>1, <3>2, FS_Subset
  <2> QED
    BY <2>1, <2>2
<1> HIDE DEF number
<1>4. ASSUME NEW v \in V, NEW w \in V
      PROVE  /\ number[v] < number[w] <=> Compare(v, w) < 0
             /\ number[v] = number[w] <=> Canonical(v) = Canonical(w)
  <2>1. number[v] \in Nat /\ number[w] \in Nat
    BY <1>1
  <2>2. /\ Compare(w, v) <= 0 => number[w] <= number[v]
        /\ Compare(w, v) < 0 => number[w] # number[v]
    BY <1>3
  <2> QED
    BY <1>2, <1>3, <2>1, <2>2
<1>5. number \in [V -> Nat]
  <2>1. number = [v \in V |-> number[v]]
    BY DEF number
  <2> QED
    BY <1>1, <2>1
<1>6. number \in Numbering(V)
  BY <1>4, <1>5 DEF Numbering
<1> QED
  BY <1>4, <1>6

\* A result whose versions are among those of V; versioned migrations come first, by
\* strictly ascending number.
VersionsIn(V) ==
  \A i \in DOMAIN migrations : migrations[i].type = "V" => migrations[i].version \in V

Ascending(number) ==
  \A i, j \in DOMAIN migrations :
    (i < j /\ migrations[j].type = "V")
      => /\ migrations[i].type = "V"
         /\ number[migrations[i].version] < number[migrations[j].version]

\* What Scan returns is a release as Migrate takes it for granted (DisksAssumption of
\* Rian), whatever numbers stand for its versions.
THEOREM ResultIsRelease ==
  ASSUME NEW V \in SUBSET Version, NEW number \in Numbering(V)
  PROVE  Spec => [](result = "ok" /\ VersionsIn(V) => Ascending(number))
<1>1. InOrder => (result = "ok" /\ VersionsIn(V) => Ascending(number))
  BY DEF InOrder, Numbering, VersionsIn, Ascending
<1> QED
  BY <1>1, ResultInOrder, PTL

=============================================================================
