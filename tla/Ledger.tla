------------------------------- MODULE Ledger -------------------------------
(***************************************************************************)
(* What the schema history promises: it grows as if every command ran      *)
(* alone and each migration were decided upon and recorded in one step.    *)
(* docs/architecture.md calls rian "a serial pipeline": this is what the   *)
(* pipeline looks like from the history table, on either database and      *)
(* however many processes run it.                                          *)
(***************************************************************************)
EXTENDS History, Sequences

CONSTANTS
  Transactional,  \* whether a failed migration leaves no row
  Releases,       \* the migrations that may be found on disk
  BaselineRow,    \* the row baseline records
  Histories       \* what the history may hold at first

VARIABLE hist

Init == hist \in Histories \cup {<<>>}

Record(row) ==
  LET next == NextRank(hist)
  IN  hist' = [r \in DOMAIN hist \cup {next} |-> IF r = next THEN row ELSE hist[r]]

\* The next pending migration of a release that validates is recorded.
Apply(migs, ok) ==
  /\ Problems(migs, hist) = {} /\ ~ OutOfOrder(migs, hist)
  /\ Pending(migs, hist) # {}
  /\ LET m == migs[Min(Pending(migs, hist))]
     IN  Record([version |-> m.version, description |-> m.description,
                 type |-> "SQL", script |-> m.script, checksum |-> m.checksum,
                 success |-> ok])

Baseline ==
  /\ DOMAIN hist = {}
  /\ Record(BaselineRow)

Repair == hist' = Restrict(hist, Successful(hist))

\* A row is appended, which follows from either alternative and spares TLC the
\* search when it is not, or the failed rows go.
Next ==
  \/ /\ NextRank(hist) \in DOMAIN hist'
     /\ \/ \E migs \in Releases :
             \/ Apply(migs, TRUE)
             \/ ~ Transactional /\ Apply(migs, FALSE)
        \/ Baseline
  \/ Repair

Spec == Init /\ [][Next]_hist

=============================================================================
