----------------------------- MODULE Deployments -----------------------------
(***************************************************************************)
(* What the theorems about Rian ask of the releases that are deployed and  *)
(* of the history they are first deployed on.  None of it is ensured by    *)
(* rian; MCDeployments has TLC evaluate it on the instances that are run.  *)
(***************************************************************************)
EXTENDS Rian

Releases == {Resolved(files) : files \in Disks}

\* No two repeatable migrations share a description.
Distinct(migs) ==
  \A i, j \in DOMAIN migs :
    (/\ migs[i].type = "repeatable" /\ migs[j].type = "repeatable"
     /\ migs[i].description = migs[j].description)
      => i = j

NoTwins == \A files \in Disks : Distinct(files)

\* A history has at most one baseline.
OneBaseline(rows) ==
  \A r, s \in Successful(rows) :
    rows[r].type = "BASELINE" /\ rows[s].type = "BASELINE" => r = s

-----------------------------------------------------------------------------
(* Orderly deployments: releases that follow each other.                   *)

Versions(migs) == {migs[i].version : i \in DOMAIN migs} \cap Nat

\* The versions recorded below a rank.
VersionsBelow(rows, r) == {rows[s].version : s \in {t \in DOMAIN rows : t < r}} \cap Nat

\* Every row records a migration of a release; a repeatable one when exactly the
\* versions of that release were there.
Traced(rows) ==
  \A r \in DOMAIN rows : \E migs \in Releases : \E i \in DOMAIN migs :
    /\ rows[r] = HistoryRow(migs[i], TRUE)
    /\ migs[i].type = "repeatable" => Versions(migs) = VersionsBelow(rows, r)

UpToDate(rows) ==
  \E migs \in Releases : Problems(migs, rows) = {} /\ Pending(migs, rows) = {}

\* A content belongs to one migration.
OneOwner ==
  \A f, g \in Releases : \A i \in DOMAIN f : \A j \in DOMAIN g :
    f[i].checksum = g[j].checksum
      => /\ f[i].type = g[j].type /\ f[i].version = g[j].version
         /\ f[i].description = g[j].description

\* Going from f over g to h, each with the versions of the one before, no repeatable
\* migration is changed and changed back.
NoReverts ==
  \A f, g, h \in Releases :
    (Versions(f) \subseteq Versions(g) /\ Versions(g) \subseteq Versions(h)) =>
      \A i \in DOMAIN f : \A j \in DOMAIN g : \A k \in DOMAIN h :
        (/\ f[i].type = "repeatable" /\ g[j].type = "repeatable"
         /\ f[i].description = g[j].description
         /\ f[i].checksum = h[k].checksum)
          => g[j].checksum = f[i].checksum

\* Only migrations are run, on PostgreSQL, on a fresh database or one that a release
\* was deployed on; nothing fails but to redo what was done.
Orderly ==
  /\ Transactional /\ Commands = {"migrate"} /\ Faults \subseteq {"rerun"}
  /\ \A h \in Histories : h = <<>> \/ (Traced(h) /\ UpToDate(h))
  /\ \A migs \in Releases : \A i \in DOMAIN migs : migs[i].checksum \notin Unresolvable
  /\ NoTwins /\ OneOwner /\ NoReverts

=============================================================================
