------------------------------ MODULE History ------------------------------
(***************************************************************************)
(* The decisions rian takes from the schema history: the pure functions of *)
(* internal/history/history.go, together with the two questions engine.go  *)
(* asks of them (is a migration out of order, and what `info` prints).     *)
(*                                                                         *)
(* `rows`, a []Row read in installed_rank order, is a function from ranks  *)
(* to rows: installed_rank is the table's PRIMARY KEY, so the order of the *)
(* slice is the order of the ranks.  `migs`, the []scan.Migration that     *)
(* scan.Scan returns, is a sequence in the order of application, and a set *)
(* of its positions stands for a sub-slice that keeps the order.  A        *)
(* version is its equivalence class under Version.Compare, a natural       *)
(* number ("1", "1.0" and "01" are one class).                             *)
(***************************************************************************)
EXTENDS Integers, FiniteSets, FiniteSetsExt

CONSTANTS
  NoVersion,     \* the empty version column: a repeatable row, or Go's nil
  BadVersion,    \* a version column that scan.ParseVersion refuses
  NoChecksum,    \* a NULL checksum column
  Checksums,     \* checksums, one per file content
  Descriptions,  \* descriptions of migrations and rows
  Scripts        \* base names of migration files

ASSUME HistoryAssumption ==
  /\ NoVersion \notin Nat /\ BadVersion \notin Nat /\ NoVersion # BadVersion
  /\ NoChecksum \notin Checksums

\* scan.Migration with the checksum engine.resolve keeps beside it.  Only a
\* versioned migration has a version.
Migration ==
  [type : {"versioned"}, version : Nat, description : Descriptions,
   script : Scripts, checksum : Checksums]
    \cup
  [type : {"repeatable"}, version : {NoVersion}, description : Descriptions,
   script : Scripts, checksum : Checksums]

\* "OTHER" stands for the row types only Flyway writes (SCHEMA, JDBC, ...).
Row ==
  [version : Nat \cup {NoVersion, BadVersion}, description : Descriptions,
   type : {"SQL", "BASELINE", "OTHER"}, script : Scripts,
   checksum : Checksums \cup {NoChecksum}, success : BOOLEAN]

-----------------------------------------------------------------------------
Successful(rows) == {r \in DOMAIN rows : rows[r].success}

\* Successful rows that record a version rian can parse.
Versioned(rows) == {r \in Successful(rows) : rows[r].version \in Nat}

NextRank(rows) == Max(DOMAIN rows \cup {0}) + 1

\* Faulty: compares version texts, so that "1" is not found under "1.0".
VersionAppliedByText(v, rows) == FALSE

\* Whether some successful row records version v.
VersionApplied(v, rows) == \E r \in Successful(rows) : rows[r].version = v

\* The highest version among some rows, or nil.
Highest(rows, ranks) ==
  IF ranks = {} THEN NoVersion ELSE Max({rows[r].version : r \in ranks})

BaselineVersion(rows) ==
  Highest(rows, {r \in Versioned(rows) : rows[r].type = "BASELINE"})

MaxAppliedVersion(rows) == Highest(rows, Versioned(rows))

\* Rows that record a repeatable migration, which is matched by description.
RepeatableRows(description, rows) ==
  {r \in Successful(rows) : /\ rows[r].version = NoVersion
                            /\ rows[r].description = description}

\* Faulty: forgets to compare the checksum.
RepeatableOnce(m, rows) == RepeatableRows(m.description, rows) = {}

RepeatableNeedsApply(m, rows) ==
  LET applied == RepeatableRows(m.description, rows)
  IN  applied = {} \/ rows[Max(applied)].checksum # m.checksum

BelowBaseline(m, rows) ==
  /\ m.type = "versioned"
  /\ BaselineVersion(rows) # NoVersion
  /\ m.version <= BaselineVersion(rows)

NeedsApply(m, rows) ==
  \/ /\ m.type = "versioned"
     /\ ~ BelowBaseline(m, rows)
     /\ ~ VersionApplied(m.version, rows)
  \/ /\ m.type = "repeatable"
     /\ RepeatableNeedsApply(m, rows)

\* The migrations still to be applied, as positions of migs.
Pending(migs, rows) == {i \in DOMAIN migs : NeedsApply(migs[i], rows)}

-----------------------------------------------------------------------------
(* Validate: the set of problems, each a kind and the rank it was met at.  *)

\* A successful row for which no local migration can be found.
Unresolved(migs, row) ==
  /\ row.type # "BASELINE"
  /\ \/ /\ row.version = NoVersion
        /\ \A i \in DOMAIN migs : migs[i].type = "repeatable"
                                    => migs[i].description # row.description
     \/ row.version = BadVersion
     \/ /\ row.version \in Nat
        /\ \A i \in DOMAIN migs : migs[i].version # row.version

\* A row whose versioned migration exists with another content.
Mismatched(migs, row) ==
  /\ row.type # "BASELINE"
  /\ row.version \in Nat
  /\ row.checksum # NoChecksum
  /\ \E i \in DOMAIN migs : /\ migs[i].version = row.version
                            /\ migs[i].checksum # row.checksum

\* Faulty: skips rows without success.
ProblemsOfSuccessful(migs, rows) ==
  {<<"unresolved", r>> : r \in {s \in Successful(rows) :
     Unresolved(migs, rows[s]) \/ Mismatched(migs, rows[s])}}

Problems(migs, rows) ==
  {<<"failed", r>> : r \in DOMAIN rows \ Successful(rows)}
    \cup
  {<<"missing", r>> : r \in {s \in Successful(rows) : Unresolved(migs, rows[s])}}
    \cup
  {<<"mismatch", r>> : r \in {s \in Successful(rows) : Mismatched(migs, rows[s])}}

\* Faulty: outOfOrder=true.
OutOfOrderAllowed(migs, rows) == FALSE

\* Migrate's own refusal: a pending version below the highest applied one.
OutOfOrder(migs, rows) ==
  /\ MaxAppliedVersion(rows) # NoVersion
  /\ \E i \in Pending(migs, rows) :
       /\ migs[i].type = "versioned"
       /\ migs[i].version < MaxAppliedVersion(rows)

-----------------------------------------------------------------------------
(* Info: the status of the migration at position i.  The pending set it    *)
(* looks the migration up in is keyed by script, not by position.          *)

\* Faulty: what is not pending has been applied.
StatusWithoutBaseline(migs, rows, i) ==
  IF \E j \in Pending(migs, rows) : migs[j].script = migs[i].script
  THEN "Pending" ELSE "Applied"

Status(migs, rows, i) ==
  IF \E j \in Pending(migs, rows) : migs[j].script = migs[i].script
  THEN "Pending"
  ELSE IF /\ BelowBaseline(migs[i], rows)
          /\ ~ VersionApplied(migs[i].version, rows)
       THEN "Below Baseline"
       ELSE "Applied"

=============================================================================
