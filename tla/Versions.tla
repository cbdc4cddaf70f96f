------------------------------ MODULE Versions ------------------------------
(***************************************************************************)
(* Migration versions: internal/scan/version.go.                           *)
(*                                                                         *)
(* A version text is the sequence of its parts, split on '.' and '_'; a    *)
(* part that is a non-negative integer of any size ("7", "07" and "+7" are *)
(* one) is its value, any other part is BadPart.  The empty text is <<>>.  *)
(*                                                                         *)
(* rian compares versions in two ways.  Sorting, the baseline and the      *)
(* out-of-order check use Compare; duplicate detection and validation use  *)
(* the key Canonical.  The two have to agree.                              *)
(***************************************************************************)
EXTENDS Integers, Sequences, FiniteSetsExt

CONSTANT BadPart

ASSUME BadPartAssumption == BadPart \notin Nat

\* A version: the numeric parts, at least one.
Version == Seq(Nat) \ {<<>>}

\* ParseVersion accepts a text when all its parts are numeric.
ParseVersion(text) ==
  [ok |-> text # <<>> /\ \A i \in DOMAIN text : text[i] # BadPart, version |-> text]

\* Missing parts count as zero.
Part(v, i) == IF i <= Len(v) THEN v[i] ELSE 0

\* The positions at which two versions differ.
Differences(v, w) ==
  {i \in 1..Max({Len(v), Len(w)}) : Part(v, i) # Part(w, i)}

\* -1, 0 or 1 as v is less than, equal to or greater than w.
Compare(v, w) ==
  IF Differences(v, w) = {} THEN 0
  ELSE LET i == Min(Differences(v, w))
       IN  IF Part(v, i) < Part(w, i) THEN -1 ELSE 1

NonZero(v) == {i \in DOMAIN v : v[i] # 0}

\* Faulty: keeps trailing zeros, so that "1" and "1.0" have two keys.
CanonicalWithZeros(v) == v

\* The key of a version: its parts without trailing zeros, "0" when all are.
Canonical(v) ==
  IF NonZero(v) = {} THEN <<0>> ELSE SubSeq(v, 1, Max(NonZero(v)))

=============================================================================
