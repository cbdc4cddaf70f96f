--------------------------- MODULE MCDeployments ---------------------------
(***************************************************************************)
(* The instances of Rian to which its theorems apply.                      *)
(***************************************************************************)
EXTENDS MCRian, Deployments

ASSUME ReleasesAreProper == NoTwins

ASSUME HistoriesAreProper == \A h \in Histories : OneBaseline(h)

=============================================================================
