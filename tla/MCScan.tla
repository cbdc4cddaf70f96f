------------------------------- MODULE MCScan -------------------------------
(***************************************************************************)
(* An instance of Scan for TLC: every tree of up to four files.            *)
(***************************************************************************)
EXTENDS Scan, TLC

CONSTANT bad

MCDepth == 4

\* "a_b" and "a b" are one description, "" is none.
MCSpaced == "a_b" :> 1 @@ "a b" :> 1 @@ "c" :> 2 @@ "" :> NoDescription

V(v, d) == [suffix |-> TRUE, prefix |-> "V", version |-> v, separated |-> TRUE,
            description |-> d]
R(d) == [V(<<>>, d) EXCEPT !.prefix = "R"]

\* V1, V1.0, V1.0.2, V1.2 and V1.10, with descriptions in another order than
\* their versions; views, two of them of one description; a name without a
\* separator (README.sql is one), a version that is no number, an empty
\* description; a file of another kind; one that cannot be read.
MCFiles ==
  {V(<<1>>, "c"), V(<<1, 0>>, "a_b"), V(<<1, 0, 2>>, "a_b"), V(<<1, 2>>, "c"),
   V(<<1, 10>>, "a b"), R("a_b"), R("a b"), R("c"), [V(<<1>>, "c") EXCEPT !.separated = FALSE],
   V(<<1, bad>>, "c"), [R("c") EXCEPT !.suffix = FALSE], R(""), Unreadable}

MCTrees == UNION {[1..n -> MCFiles] : n \in 0..MCDepth}

=============================================================================
