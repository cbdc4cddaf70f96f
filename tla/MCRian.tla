------------------------------- MODULE MCRian -------------------------------
(***************************************************************************)
(* Instances of Rian for TLC.                                              *)
(***************************************************************************)
EXTENDS Rian, TLC

CONSTANTS p1, p2, p3,
  v1, v2, v3,  \* the contents of three versioned migrations
  w1, w2, w3   \* three variants of a view

MCProcs2 == {p1, p2}
MCProcs3 == {p1, p2, p3}
MCChecksums == {v1, v2, v3, w1, w2, w3}
MCDescriptions == {"v", "view", "<< Flyway Baseline >>"}
MCScripts == {"V1", "V2", "V3", "R", "R2", "<< Flyway Baseline >>"}

\* V2 has two statements, so that a failure can fall between them.
MCStmts == [f \in MCChecksums |-> IF f = v2 THEN 2 ELSE 1]

V(n, f) == [type |-> "versioned", version |-> n, description |-> "v",
            script |-> <<"V1", "V2", "V3">>[n], checksum |-> f]
R(f) == [type |-> "repeatable", version |-> NoVersion, description |-> "view",
         script |-> "R", checksum |-> f]

Ok(m) == HistoryRow(m, TRUE)
Failed(m) == HistoryRow(m, FALSE)

\* Two releases of an application, deployed one over the other: the later one
\* adds V3 and changes the view.
OldRelease == <<V(1, v1), V(2, v2), R(w1)>>
NewRelease == <<V(1, v1), V(2, v2), V(3, v3), R(w2)>>
\* A hot fix that edits V1, and one whose view cannot be prepared.
EditedRelease == <<V(1, v3), V(2, v2)>>
BrokenRelease == <<V(1, v1), V(3, v3), R(w3)>>

\* Two files of one description, R__a_b.sql and "R__a b.sql" say: Scan lets them
\* pass.
TwinRelease == <<V(1, v1), R(w1), [R(w2) EXCEPT !.script = "R2"]>>

\* Two locations with a file of the same name each.
SameNameRelease == <<V(1, v1), R(w1), R(w2)>>

Twins == {TwinRelease}
SameName == {SameNameRelease}
Rolling == {OldRelease, NewRelease}
AnyRelease == Rolling \cup {EditedRelease, BrokenRelease}

Empty == <<>>
OneRow == <<Ok(V(1, v1))>>
FailedRow == <<Ok(V(1, v1)), Failed(V(2, v2))>>
Baselined == <<BaselineRow>>
\* Flyway's repair left a hole, and the view was applied last.
Gap == (1 :> Ok(V(1, v1))) @@ (3 :> Ok(R(w1)))
Unparsed == <<[Ok(V(1, v1)) EXCEPT !.version = BadVersion]>>

\* The variant of the view that names a placeholder nobody defined.
MCUnresolvable == {w3}

MCHistories == {Empty, OneRow, FailedRow, Baselined, Gap, Unparsed}
FreshHistories == {Empty}

Symmetry == Permutations(Procs)

=============================================================================
