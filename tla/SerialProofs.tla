---------------------------- MODULE SerialProofs ----------------------------
(***************************************************************************)
(* Proofs about processes that run side by side, for any number of them.   *)
(*                                                                         *)
(* The schema and its history agree: the statements of a migration took    *)
(* effect as often as rows record it, and at least as often where          *)
(* statements commit one by one.  On MySQL the invariant has to count the  *)
(* processes that have run a statement and not yet recorded their          *)
(* migration.                                                              *)
(*                                                                         *)
(* Rian implements Ledger: however many processes run, the history grows   *)
(* as if each migration were decided upon and recorded in one step.        *)
(* OrderInv says at which rank a process records.  What it records was     *)
(* decided when it read the history; the invariant here is that what it    *)
(* has still to do is what it would decide upon from the rows below its    *)
(* rank, which are those it has read or recorded itself.                   *)
(***************************************************************************)
EXTENDS OrderProofs, Deployments

-----------------------------------------------------------------------------
(* The schema and its history.                                             *)

\* The processes that ran statement k of content c for a migration they have not
\* recorded.
Running(c, k) ==
  {p \in Procs : /\ pc[p] = "exec" /\ Current(job[p]).checksum = c
                 /\ job[p].stmt > k}

EffectsInv ==
  \A c \in Checksums : \A k \in 1..Stmts[c] :
    IF Transactional
    THEN ran[c][k] = Recorded(hist, c)
    ELSE ran[c][k] >= Recorded(hist, c) + Cardinality(Running(c, k))

-----------------------------------------------------------------------------
(* Counting.                                                               *)

\* The numbers compared are numbers.
LEMMA CountsAreNats ==
  ASSUME TypeInv
  PROVE  /\ \A c : Recorded(hist, c) \in Nat
         /\ \A c, k : IsFiniteSet(Running(c, k)) /\ Cardinality(Running(c, k)) \in Nat
         /\ \A c \in Checksums : \A k \in 1..Stmts[c] : ran[c][k] \in Nat
<1>1. ASSUME NEW c PROVE Recorded(hist, c) \in Nat
  <2>1. {r \in Successful(hist) : hist[r].checksum = c} \in SUBSET DOMAIN hist
    BY DEF Successful
  <2> QED
    BY <2>1, FS_Subset, FS_CardinalityType DEF TypeInv, RowsOK, Recorded
<1>2. ASSUME NEW c, NEW k
      PROVE  IsFiniteSet(Running(c, k)) /\ Cardinality(Running(c, k)) \in Nat
  <2>1. Running(c, k) \in SUBSET Procs
    BY DEF Running
  <2> QED
    BY <2>1, ProcsAssumption, FS_Subset, FS_CardinalityType
<1>3. ASSUME NEW c \in Checksums, NEW k \in 1..Stmts[c] PROVE ran[c][k] \in Nat
  <2> DEFINE K == 1..Stmts[c]
  <2>1. ran[c] \in [K -> Nat] /\ k \in K
    BY DEF TypeInv, RanOK
  <2> HIDE DEF K
  <2> QED
    BY <2>1
<1> QED
  BY <1>1, <1>2, <1>3

\* A row added at a free rank counts once when it is a success, for its content.
LEMMA RecordedAdd ==
  ASSUME TypeInv, NEW r, r \notin DOMAIN hist, NEW row, row.success \in BOOLEAN,
         AddRow(r, row), NEW c
  PROVE  Recorded(hist', c) = IF row.success /\ row.checksum = c
                              THEN Recorded(hist, c) + 1 ELSE Recorded(hist, c)
<1> DEFINE S == {s \in Successful(hist) : hist[s].checksum = c}
           T == {s \in Successful(hist') : hist'[s].checksum = c}
<1>1. IsFiniteSet(S) /\ r \notin S
  <2>1. S \in SUBSET DOMAIN hist
    BY DEF Successful
  <2> QED
    BY <2>1, FS_Subset DEF TypeInv, RowsOK
<1>2. T = IF row.success /\ row.checksum = c THEN S \cup {r} ELSE S
  BY DEF AddRow, Successful
<1>3. Recorded(hist', c) = Cardinality(T) /\ Recorded(hist, c) = Cardinality(S)
  BY DEF Recorded
<1> HIDE DEF S, T
<1> QED
  BY <1>1, <1>2, <1>3, FS_AddElement

\* Removing failed rows changes no count.
LEMMA RecordedRepair ==
  ASSUME hist' = Restrict(hist, Successful(hist)), NEW c
  PROVE  Recorded(hist', c) = Recorded(hist, c)
<1>1. {s \in Successful(hist') : hist'[s].checksum = c}
        = {s \in Successful(hist) : hist[s].checksum = c}
  BY DEF Restrict, Successful
<1> QED
  BY <1>1 DEF Recorded

\* The processes other than p that ran a statement stay the same.
LEMMA RunningOthers ==
  ASSUME NEW p \in Procs, OnlyMoves(p), NEW c, NEW k
  PROVE  Running(c, k)' \ {p} = Running(c, k) \ {p}
BY DEF OnlyMoves, Running

-----------------------------------------------------------------------------
(* Steps.                                                                  *)

\* Where a step of p that has no effect and records nothing leaves p: not in the
\* middle of a migration, or where it was in one.
Harmless(p) ==
  pc'[p] = "exec" =>
    \/ job'[p].stmt = 1
    \/ /\ pc[p] = "exec" /\ job'[p].stmt = job[p].stmt
       /\ Current(job'[p]) = Current(job[p])

\* A step that has no effect and records nothing, or only removes failed rows.
LEMMA QuietEffects ==
  ASSUME TypeInv, EffectsInv, NEW p \in Procs, OnlyMoves(p), ran' = ran,
         \A c : Recorded(hist', c) = Recorded(hist, c),
         Transactional \/ Harmless(p)
  PROVE  EffectsInv'
<1> SUFFICES ASSUME NEW c \in Checksums, NEW k \in 1..Stmts[c]
             PROVE  (IF Transactional
                     THEN ran[c][k] = Recorded(hist, c)
                     ELSE ran[c][k] >= Recorded(hist, c) + Cardinality(Running(c, k)))'
  BY DEF EffectsInv
<1>1. IF Transactional
      THEN ran[c][k] = Recorded(hist, c)
      ELSE ran[c][k] >= Recorded(hist, c) + Cardinality(Running(c, k))
  BY DEF EffectsInv
<1>2. CASE Transactional
  BY <1>1, <1>2
<1>3. CASE Harmless(p)
  <2>1. k \in Nat /\ k >= 1
    BY StmtsAssumption
  <2>2. p \in Running(c, k)' => p \in Running(c, k)
    BY <1>3, <2>1 DEF Harmless, Running
  <2>3. Running(c, k)' \subseteq Running(c, k)
    BY <2>2, RunningOthers
  <2>4. /\ IsFiniteSet(Running(c, k)) /\ Cardinality(Running(c, k)) \in Nat
        /\ Recorded(hist, c) \in Nat /\ ran[c][k] \in Nat
    BY CountsAreNats
  <2>5. /\ Cardinality(Running(c, k)') <= Cardinality(Running(c, k))
        /\ Cardinality(Running(c, k)') \in Nat
    BY <2>3, <2>4, FS_Subset, FS_CardinalityType
  <2> QED
    BY <1>1, <2>4, <2>5
<1> QED
  BY <1>2, <1>3

\* A migration recorded as a success, on either database.
LEMMA SuccessEffects ==
  ASSUME TypeInv, EffectsInv, NEW p \in Procs, OnlyMoves(p), pc'[p] # "exec",
         NEW r, r \notin DOMAIN hist, NEW row, row.success \in BOOLEAN, AddRow(r, row),
         \A c \in Checksums : \A k \in 1..Stmts[c] :
           IF row.success /\ row.checksum = c
           THEN IF Transactional THEN ran'[c][k] = ran[c][k] + 1
                                 ELSE ran'[c][k] = ran[c][k] /\ p \in Running(c, k)
           ELSE ran'[c][k] = ran[c][k]
  PROVE  EffectsInv'
<1> SUFFICES ASSUME NEW c \in Checksums, NEW k \in 1..Stmts[c]
             PROVE  IF Transactional
                    THEN ran'[c][k] = Recorded(hist', c)
                    ELSE ran'[c][k] >= Recorded(hist', c) + Cardinality(Running(c, k)')
  BY DEF EffectsInv
<1>1. IF Transactional
      THEN ran[c][k] = Recorded(hist, c)
      ELSE ran[c][k] >= Recorded(hist, c) + Cardinality(Running(c, k))
  BY DEF EffectsInv
<1>2. /\ IsFiniteSet(Running(c, k)) /\ Cardinality(Running(c, k)) \in Nat
      /\ Recorded(hist, c) \in Nat /\ ran[c][k] \in Nat
  BY CountsAreNats
<1>3. Recorded(hist', c) = IF row.success /\ row.checksum = c
                           THEN Recorded(hist, c) + 1 ELSE Recorded(hist, c)
  BY RecordedAdd
<1>4. Running(c, k)' = Running(c, k) \ {p}
  BY RunningOthers DEF Running
<1>5. Cardinality(Running(c, k)')
        = IF p \in Running(c, k) THEN Cardinality(Running(c, k)) - 1
                                 ELSE Cardinality(Running(c, k))
  BY <1>2, <1>4, FS_RemoveElement
<1>6. CASE row.success /\ row.checksum = c
  BY <1>1, <1>2, <1>3, <1>5, <1>6
<1>7. CASE ~ (row.success /\ row.checksum = c)
  BY <1>1, <1>2, <1>3, <1>5, <1>7
<1> QED
  BY <1>6, <1>7

\* A statement that takes effect on MySQL.
LEMMA StatementEffects ==
  ASSUME TypeInv, EffectsInv, ~ Transactional, NEW p \in Procs, OnlyMoves(p),
         pc[p] = "exec", pc'[p] = "exec", hist' = hist,
         NEW d \in Checksums, d = Current(job[p]).checksum, NEW i \in 1..Stmts[d],
         i = job[p].stmt, Effect(d, i), Current(job'[p]) = Current(job[p]),
         job'[p].stmt \in {i, i + 1}
  PROVE  EffectsInv'
<1> SUFFICES ASSUME NEW c \in Checksums, NEW k \in 1..Stmts[c]
             PROVE  ran'[c][k] >= Recorded(hist', c) + Cardinality(Running(c, k)')
  BY DEF EffectsInv
<1>1. ran[c][k] >= Recorded(hist, c) + Cardinality(Running(c, k))
  BY DEF EffectsInv
<1>2. /\ IsFiniteSet(Running(c, k)) /\ Cardinality(Running(c, k)) \in Nat
      /\ Recorded(hist, c) \in Nat /\ ran[c][k] \in Nat
  BY CountsAreNats
<1>3. i \in Nat /\ k \in Nat
  BY StmtsAssumption
<1>4. ran'[c][k] = IF c = d /\ k = i THEN ran[c][k] + 1 ELSE ran[c][k]
  <2> DEFINE K == 1..Stmts[c]
  <2>1. /\ DOMAIN ran = Checksums /\ ran[c] \in [K -> Nat] /\ k \in K
        /\ ran' = [ran EXCEPT ![d][i] = @ + 1]
    BY DEF TypeInv, RanOK, Effect
  <2> HIDE DEF K
  <2> QED
    BY <2>1
<1>5. Running(c, k)' \subseteq IF c = d /\ k = i THEN Running(c, k) \cup {p}
                                                ELSE Running(c, k)
  <2>1. p \in Running(c, k)' /\ ~ (c = d /\ k = i) => p \in Running(c, k)
    BY <1>3 DEF Running
  <2> QED
    BY <2>1, RunningOthers
<1>6. CASE c = d /\ k = i
  <2>1. /\ IsFiniteSet(Running(c, k) \cup {p})
        /\ Cardinality(Running(c, k) \cup {p}) \in Nat
        /\ Cardinality(Running(c, k) \cup {p}) <= Cardinality(Running(c, k)) + 1
    <3> DEFINE R == Running(c, k)
    <3> HIDE DEF R
    <3>1. IsFiniteSet(R) /\ Cardinality(R) \in Nat
      BY <1>2 DEF R
    <3>2. /\ IsFiniteSet(R \cup {p})
          /\ Cardinality(R \cup {p}) = IF p \in R THEN Cardinality(R) ELSE Cardinality(R) + 1
      BY <3>1, FS_AddElement
    <3>3. /\ IsFiniteSet(R \cup {p}) /\ Cardinality(R \cup {p}) \in Nat
          /\ Cardinality(R \cup {p}) <= Cardinality(R) + 1
      BY <3>1, <3>2
    <3> QED
      BY <3>3 DEF R
  <2>2. /\ Cardinality(Running(c, k)') <= Cardinality(Running(c, k) \cup {p})
        /\ Cardinality(Running(c, k)') \in Nat
    BY <1>5, <1>6, <2>1, FS_Subset, FS_CardinalityType
  <2> QED
    BY <1>1, <1>2, <1>4, <1>6, <2>1, <2>2
<1>7. CASE ~ (c = d /\ k = i)
  <2>1. /\ Cardinality(Running(c, k)') <= Cardinality(Running(c, k))
        /\ Cardinality(Running(c, k)') \in Nat
    BY <1>2, <1>5, <1>7, FS_Subset, FS_CardinalityType
  <2> QED
    BY <1>1, <1>2, <1>4, <1>7, <2>1
<1> QED
  BY <1>6, <1>7

-----------------------------------------------------------------------------
(* The invariant holds.                                                    *)

\* Initially the effects are those the rows record.
LEMMA InitEffects == Init => EffectsInv
<1> SUFFICES ASSUME Init, NEW c \in Checksums, NEW k \in 1..Stmts[c]
             PROVE  IF Transactional
                    THEN ran[c][k] = Recorded(hist, c)
                    ELSE ran[c][k] >= Recorded(hist, c) + Cardinality(Running(c, k))
  BY DEF EffectsInv
<1>1. ran[c][k] = Recorded(hist, c)
  BY DEF Init
<1>2. Running(c, k) = {}
  BY DEF Init, Running
<1>3. Cardinality(Running(c, k)) = 0
  BY <1>2, FS_EmptySet
<1>4. Recorded(hist, c) \in Nat
  BY InitType, CountsAreNats
<1> QED
  BY <1>1, <1>3, <1>4

\* Every step preserves the invariant.
LEMMA NextEffects == OrderInv /\ EffectsInv /\ [Next]_vars => EffectsInv'
<1> SUFFICES ASSUME OrderInv, EffectsInv, [Next]_vars PROVE EffectsInv'
  OBVIOUS
<1> USE DEF Goto
<1>t. TypeInv
  BY DEF OrderInv
<1>d. /\ DOMAIN job = Procs /\ DOMAIN pc = Procs
      /\ \A q \in Procs : GoodProc(pc[q], job[q], outcome[q])
  BY <1>t DEF TypeInv, ProcInv
<1>f. ASSUME NEW p \in Procs, NEW o, Finish(p, o)
      PROVE  OnlyMoves(p) /\ pc'[p] = "idle"
  BY <1>d, <1>f DEF Finish, OnlyMoves
<1>q. ASSUME NEW p \in Procs, NEW o, Finish(p, o), ran' = ran, hist' = hist
      PROVE  EffectsInv'
  BY <1>t, <1>f, <1>q, QuietEffects DEF Harmless
<1>g. ASSUME NEW p \in Procs, NEW l \in PC \ {"exec"}, Goto(p, l), ran' = ran, hist' = hist,
             \A q \in Procs \ {p} : job'[q] = job[q]
      PROVE  EffectsInv'
  <2>1. OnlyMoves(p) /\ pc'[p] = l
    BY <1>d, <1>g DEF OnlyMoves
  <2> QED
    BY <1>t, <1>g, <2>1, QuietEffects DEF Harmless
<1>a. ASSUME NEW p \in Procs, Advance(p) PROVE OnlyMoves(p) /\ pc'[p] = "next"
  BY <1>d, <1>a DEF Advance, OnlyMoves
<1>1. ASSUME NEW p \in Procs, NEW c \in Commands, Start(p, c) PROVE EffectsInv'
  <2>1. ASSUME job' = [job EXCEPT ![p] = [NoJob EXCEPT !.cmd = c]], Goto(p, "ensure"), UNCHANGED <<hist, ran>>
        PROVE  EffectsInv'
    <3>1. \A q \in Procs \ {p} : job'[q] = job[q]
      BY <1>d, <2>1
    <3> QED
      BY <1>g, <2>1, <3>1 DEF PC
  <2> QED
    BY <1>1, <2>1 DEF Start
<1>2. ASSUME NEW p \in Procs, RefuseBaseline(p) PROVE EffectsInv'
  BY <1>2, <1>q DEF RefuseBaseline
<1>3. ASSUME NEW p \in Procs, EnsureHistory(p) PROVE EffectsInv'
  <2>1. ASSUME NEW l \in PC \ {"exec"}, Goto(p, l), UNCHANGED <<job, hist, ran>>
        PROVE  EffectsInv'
    BY <1>g, <2>1
  <2> QED
    BY <1>3, <1>q, <2>1 DEF EnsureHistory, PC
<1>4. ASSUME NEW p \in Procs, Resolve(p) PROVE EffectsInv'
  <2>1. ASSUME NEW migs, job' = [job EXCEPT ![p].migs = migs], Goto(p, "read"), UNCHANGED <<hist, ran>>
        PROVE  EffectsInv'
    <3>1. \A q \in Procs \ {p} : job'[q] = job[q]
      BY <1>d, <2>1
    <3> QED
      BY <1>g, <2>1, <3>1 DEF PC
  <2> QED
    BY <1>4, <1>q, <2>1 DEF Resolve
<1>5. ASSUME NEW p \in Procs, ReadFails(p) PROVE EffectsInv'
  BY <1>5, <1>q DEF ReadFails
<1>6. ASSUME NEW p \in Procs, ReadForMigrate(p) PROVE EffectsInv'
  <2>1. ASSUME NEW todo, NEW r, job' = [job EXCEPT ![p].todo = todo, ![p].rank = r], Goto(p, "next"), UNCHANGED <<hist, ran>>
        PROVE  EffectsInv'
    <3>1. \A q \in Procs \ {p} : job'[q] = job[q]
      BY <1>d, <2>1
    <3> QED
      BY <1>g, <2>1, <3>1 DEF PC
  <2> QED
    BY <1>6, <1>q, <2>1 DEF ReadForMigrate
<1>7. ASSUME NEW p \in Procs, ReadForReport(p) PROVE EffectsInv'
  BY <1>7, <1>q DEF ReadForReport
<1>8. ASSUME NEW p \in Procs, ReadForBaseline(p) PROVE EffectsInv'
  <2>1. ASSUME job' = [job EXCEPT ![p].rank = 1], Goto(p, "insert"), UNCHANGED <<hist, ran>>
        PROVE  EffectsInv'
    <3>1. \A q \in Procs \ {p} : job'[q] = job[q]
      BY <1>d, <2>1
    <3> QED
      BY <1>g, <2>1, <3>1 DEF PC
  <2> QED
    BY <1>8, <1>q, <2>1 DEF ReadForBaseline
<1>9. ASSUME NEW p \in Procs, Prepare(p) PROVE EffectsInv'
  <2>1. ASSUME job' = [job EXCEPT ![p].stmt = 1], Goto(p, "exec"), UNCHANGED <<hist, ran>>
        PROVE  EffectsInv'
    <3>1. OnlyMoves(p) /\ job'[p].stmt = 1
      BY <1>d, <2>1 DEF OnlyMoves, GoodProc, Job
    <3> QED
      BY <1>t, <2>1, <3>1, QuietEffects DEF Harmless
  <2> QED
    BY <1>9, <1>q, <2>1 DEF Prepare
<1>10. ASSUME NEW p \in Procs, ExecInTx(p) PROVE EffectsInv'
  <2>1. ASSUME job' = [job EXCEPT ![p].stmt = @ + 1], UNCHANGED <<pc, hist, ran>>
        PROVE  EffectsInv'
    <3>1. OnlyMoves(p)
      BY <1>d, <2>1 DEF OnlyMoves
    <3> QED
      BY <1>t, <1>10, <2>1, <3>1, QuietEffects DEF ExecInTx
  <2> QED
    BY <1>10, <1>q, <2>1 DEF ExecInTx
<1>11. ASSUME NEW p \in Procs, ExecAutocommit(p) PROVE EffectsInv'
  <2> DEFINE c == Current(job[p]).checksum
             i == job[p].stmt
  <2>1. /\ ~ Transactional /\ pc[p] = "exec" /\ pc' = pc /\ hist' = hist
        /\ ~ AllRun(job[p])
    BY <1>11 DEF ExecAutocommit
  <2>2. \/ job' = [job EXCEPT ![p].stmt = @ + 1]
        \/ job' = [job EXCEPT ![p].failed = TRUE]
    BY <1>11 DEF ExecAutocommit
  <2>3. /\ OnlyMoves(p) /\ pc'[p] = "exec" /\ job'[p].todo = job[p].todo
        /\ job'[p].migs = job[p].migs /\ job'[p].stmt \in {i, i + 1}
    BY <1>d, <2>1, <2>2 DEF OnlyMoves, GoodProc, Job
  <2>4. Current(job'[p]) = Current(job[p])
    BY <2>3 DEF Current
  <2>5. c \in Checksums /\ i \in 1..Stmts[c]
    <3>1. Current(job[p]) \in Migration
      BY <1>t, <1>d, <2>1, CurrentType DEF TypeInv, GoodProc
    <3>2. c \in Checksums
      BY <3>1 DEF Migration
    <3>3. Stmts[c] \in Nat /\ i \in Nat \ {0} /\ ~ (i > Stmts[c])
      BY <1>d, <2>1, <3>2, StmtsAssumption DEF GoodProc, Job, AllRun
    <3> QED
      BY <3>2, <3>3
  <2>6. Effect(c, i) \/ (ran' = ran /\ job' = [job EXCEPT ![p].failed = TRUE])
    BY <1>11 DEF ExecAutocommit
  <2> HIDE DEF c, i
  <2>7. CASE Effect(c, i)
    BY <1>t, <2>1, <2>3, <2>4, <2>5, <2>7, StatementEffects DEF c, i
  <2>8. CASE ran' = ran /\ job' = [job EXCEPT ![p].failed = TRUE]
    <3>1. job'[p].stmt = job[p].stmt
      BY <1>d, <2>8 DEF GoodProc, Job
    <3> QED
      BY <1>t, <2>1, <2>3, <2>4, <2>8, <3>1, QuietEffects DEF Harmless
  <2> QED
    BY <2>6, <2>7, <2>8
<1>12. ASSUME NEW p \in Procs, RecordInTx(p) PROVE EffectsInv'
  <2>1. ASSUME Goto(p, "commit"), UNCHANGED <<job, hist, ran>> PROVE EffectsInv'
    BY <1>g, <2>1 DEF PC
  <2> QED
    BY <1>12, <1>q, <2>1 DEF RecordInTx
<1>13. ASSUME NEW p \in Procs, Commit(p) PROVE EffectsInv'
  <2> DEFINE row == HistoryRow(Current(job[p]), TRUE)
             d == Current(job[p]).checksum
  <2>1. pc[p] = "commit" /\ Transactional /\ job[p].rank \notin DOMAIN hist
    BY <1>13, <1>d DEF Commit, GoodProc, OrderInv, Exclusive
  <2>2. row.success = TRUE /\ row.checksum = d
    BY DEF HistoryRow
  <2>3. d \in Checksums
    <3>1. Current(job[p]) \in Migration
      BY <1>t, <1>d, <2>1, CurrentType DEF TypeInv, GoodProc
    <3> QED
      BY <3>1 DEF Migration
  <2>4. ASSUME CommitEffect(p), OnlyMoves(p), pc'[p] # "exec" PROVE EffectsInv'
    <3>1. AddRow(job[p].rank, row)
      BY <2>4 DEF CommitEffect
    <3>2. ran' = [ran EXCEPT ![d] = [k \in 1..Stmts[d] |-> ran[d][k] + 1]]
      BY <2>4 DEF CommitEffect
    <3> HIDE DEF row, d
    <3>3. ASSUME NEW c \in Checksums, NEW k \in 1..Stmts[c]
          PROVE  ran'[c][k] = IF row.checksum = c THEN ran[c][k] + 1 ELSE ran[c][k]
      BY <1>t, <2>2, <2>3, <3>2 DEF TypeInv, RanOK
    <3>4. \A c \in Checksums : \A k \in 1..Stmts[c] :
            IF row.success /\ row.checksum = c
            THEN IF Transactional THEN ran'[c][k] = ran[c][k] + 1
                                  ELSE ran'[c][k] = ran[c][k] /\ p \in Running(c, k)
            ELSE ran'[c][k] = ran[c][k]
      BY <2>1, <2>2, <3>3
    <3>5. row.success \in BOOLEAN
      BY <2>2
    <3> QED
      BY <1>t, <2>1, <2>4, <3>1, <3>4, <3>5, SuccessEffects
  <2> QED
    BY <1>13, <1>q, <1>f, <1>a, <2>4 DEF Commit
<1>14. ASSUME NEW p \in Procs, RecordAutocommit(p) PROVE EffectsInv'
  <2> DEFINE row == HistoryRow(Current(job[p]), ~ job[p].failed)
  <2>1. /\ ~ Transactional /\ pc[p] = "exec" /\ ran' = ran
        /\ AllRun(job[p]) \/ job[p].failed
    BY <1>14 DEF RecordAutocommit
  <2>2. /\ row.success \in BOOLEAN /\ row.success = ~ job[p].failed
        /\ row.checksum = Current(job[p]).checksum
    BY DEF HistoryRow
  <2>3. ASSUME ~ KeyTaken(p), AddRow(job[p].rank, row), OnlyMoves(p), pc'[p] # "exec"
        PROVE  EffectsInv'
    <3>1. ASSUME NEW c \in Checksums, NEW k \in 1..Stmts[c], row.success, row.checksum = c
          PROVE  p \in Running(c, k)
      <4>1. job[p].stmt \in Nat /\ job[p].stmt > Stmts[c]
        BY <1>d, <2>1, <2>2, <3>1 DEF AllRun, GoodProc, Job
      <4>2. Stmts[c] \in Nat
        BY StmtsAssumption
      <4>3. job[p].stmt > k
        BY <4>1, <4>2
      <4> QED
        BY <2>1, <2>2, <3>1, <4>3 DEF Running
    <3> HIDE DEF row
    <3>2. \A c \in Checksums : \A k \in 1..Stmts[c] :
            IF row.success /\ row.checksum = c
            THEN IF Transactional THEN ran'[c][k] = ran[c][k] + 1
                                  ELSE ran'[c][k] = ran[c][k] /\ p \in Running(c, k)
            ELSE ran'[c][k] = ran[c][k]
      BY <2>1, <3>1
    <3>3. row.success \in BOOLEAN /\ job[p].rank \notin DOMAIN hist
      BY <2>2, <2>3 DEF KeyTaken
    <3> QED
      BY <1>t, <2>3, <3>2, <3>3, SuccessEffects
  <2> QED
    BY <1>14, <1>q, <1>f, <1>a, <2>3 DEF RecordAutocommit
<1>15. ASSUME NEW p \in Procs, InsertBaseline(p) PROVE EffectsInv'
  <2>1. ASSUME ~ KeyTaken(p), AddRow(job[p].rank, BaselineRow), NEW o, Finish(p, o), ran' = ran
        PROVE  EffectsInv'
    <3>1. BaselineRow.success \in BOOLEAN /\ BaselineRow.checksum \notin Checksums
      BY HistoryAssumption DEF BaselineRow
    <3>2. OnlyMoves(p) /\ pc'[p] # "exec"
      BY <1>f, <2>1
    <3> HIDE DEF BaselineRow
    <3> QED
      BY <1>t, <2>1, <3>1, <3>2, SuccessEffects DEF KeyTaken
  <2> QED
    BY <1>15, <1>q, <2>1 DEF InsertBaseline
<1>16. ASSUME NEW p \in Procs, DeleteFailed(p) PROVE EffectsInv'
  <2>1. ASSUME hist' = Restrict(hist, Successful(hist)), NEW o, Finish(p, o), ran' = ran
        PROVE  EffectsInv'
    BY <1>t, <1>f, <2>1, RecordedRepair, QuietEffects DEF Harmless
  <2> QED
    BY <1>16, <1>q, <2>1 DEF DeleteFailed
<1>17. ASSUME NEW p \in Procs, Crash(p) PROVE EffectsInv'
  BY <1>17, <1>q DEF Crash
<1>18. CASE UNCHANGED vars
  BY <1>18 DEF vars, EffectsInv, Running, Recorded, Successful
<1> QED
  BY <1>1, <1>2, <1>3, <1>4, <1>5, <1>6, <1>7, <1>8, <1>9, <1>10, <1>11, <1>12,
     <1>13, <1>14, <1>15, <1>16, <1>17, <1>18 DEF Next, Step

\* The schema never runs ahead of its history on PostgreSQL, nor the history
\* ahead of the schema anywhere, whatever fails and whatever runs at once.
THEOREM EffectsAgree == Spec => []EffectsMatchRows
<1>1. OrderInv /\ EffectsInv => EffectsMatchRows
  <2> SUFFICES ASSUME OrderInv, EffectsInv, NEW c \in Checksums, NEW k \in 1..Stmts[c]
               PROVE  IF Transactional THEN ran[c][k] = Recorded(hist, c)
                                       ELSE ran[c][k] >= Recorded(hist, c)
    BY DEF EffectsMatchRows
  <2>1. /\ Cardinality(Running(c, k)) \in Nat
        /\ Recorded(hist, c) \in Nat /\ ran[c][k] \in Nat
    BY CountsAreNats DEF OrderInv
  <2>2. IF Transactional
        THEN ran[c][k] = Recorded(hist, c)
        ELSE ran[c][k] >= Recorded(hist, c) + Cardinality(Running(c, k))
    BY DEF EffectsInv
  <2> QED
    BY <2>1, <2>2
<1>2. Spec => [](OrderInv /\ EffectsInv)
  BY InitOrder, NextOrder, InitEffects, NextEffects, PTL DEF Spec
<1> QED
  BY <1>1, <1>2, PTL

-----------------------------------------------------------------------------
(* What info shows.                                                        *)

\* The last row of a repeatable migration.
LEMMA LastRepeatable ==
  ASSUME NEW rows, RowsOK(rows), NEW d, RepeatableRows(d, rows) # {}
  PROVE  /\ Max(RepeatableRows(d, rows)) \in RepeatableRows(d, rows)
         /\ Max(RepeatableRows(d, rows)) \in Successful(rows)
         /\ \A r \in RepeatableRows(d, rows) : r <= Max(RepeatableRows(d, rows))
<1>1. RepeatableRows(d, rows) \subseteq Successful(rows) /\ Successful(rows) \subseteq DOMAIN rows
  BY DEF RepeatableRows, Successful
<1>2. RepeatableRows(d, rows) \in SUBSET Nat /\ IsFiniteSet(RepeatableRows(d, rows))
  BY <1>1, FS_Subset DEF RowsOK
<1> QED
  BY <1>1, <1>2, MaxOfNats

\* The highest of some versions is one of them.
LEMMA HighestIsThere ==
  ASSUME NEW rows, RowsOK(rows), NEW ranks \in SUBSET Versioned(rows), ranks # {}
  PROVE  /\ \E r \in ranks : rows[r].version = Highest(rows, ranks)
         /\ \A r \in ranks : rows[r].version <= Highest(rows, ranks)
<1> DEFINE vs == {rows[r].version : r \in ranks}
<1>1. Highest(rows, ranks) = Max(vs)
  BY DEF Highest
<1>2. IsFiniteSet(ranks) /\ vs \in SUBSET Nat
  BY FS_Subset DEF Versioned, Successful, RowsOK
<1>3. IsFiniteSet(vs)
  <2> DEFINE f == [r \in ranks |-> rows[r].version]
  <2>1. f \in Surjection(ranks, vs)
    BY DEF Surjection
  <2> QED
    BY <1>2, <2>1, FS_Surjection
<1>4. Max(vs) \in vs /\ \A v \in vs : v <= Max(vs)
  BY <1>1, <1>2, <1>3, MaxOfNats
<1> QED
  BY <1>1, <1>4

InfoInv == OrderInv /\ OneBaseline(hist)

\* rian records a baseline only in an empty history.
LEMMA NextBaseline ==
  ASSUME InfoInv, [Next]_vars
  PROVE  InfoInv'
<1>o. OrderInv /\ OrderInv' /\ RowsOK(hist) /\ ProcInv
  BY NextOrder DEF InfoInv, OrderInv, TypeInv
<1>1. CASE Added # {}
  <2>1. PICK p \in Procs : \E row : Adds(p, row)
    BY <1>o, <1>1, AddedFacts
  <2>2. PICK row : Adds(p, row)
    BY <2>1
  <2>3. CASE pc[p] = "insert" /\ row = BaselineRow
    <3>1. job[p].rank = 1
      BY <1>o, <2>3 DEF ProcInv, GoodProc
    <3>2. \A s \in DOMAIN hist : s \in Nat \ {0} /\ s < job[p].rank
      BY <1>o, <2>2 DEF Adds, Fresh, RowsOK, Successful
    <3>3. DOMAIN hist = {}
      BY <3>1, <3>2
    <3> QED
      BY <1>o, <2>2, <3>3 DEF Adds, AddRow, InfoInv, OneBaseline, Successful
  <2>4. CASE row.type # "BASELINE"
    BY <1>o, <2>2, <2>4 DEF Adds, AddRow, InfoInv, OneBaseline, Successful
  <2> QED
    BY <2>2, <2>3, <2>4 DEF Adds, HistoryRow
<1>2. CASE Added = {}
  <2>1. hist' = hist \/ hist' = Restrict(hist, Successful(hist))
    BY <1>o, <1>2, HistorySteps DEF Added, AddRow
  <2> QED
    BY <1>o, <2>1 DEF InfoInv, OneBaseline, Restrict, Successful
<1> QED
  BY <1>1, <1>2

\* A successful row of a content means that the content took effect.
LEMMA RecordedHasRun ==
  ASSUME OrderInv, EffectsInv, NEW s \in Successful(hist), hist[s].checksum \in Checksums
  PROVE  \A k \in 1..Stmts[hist[s].checksum] : ran[hist[s].checksum][k] > 0
<1> DEFINE c == hist[s].checksum
           S == {r \in Successful(hist) : hist[r].checksum = c}
<1> TAKE k \in 1..Stmts[c]
<1>1. TypeInv /\ RowsOK(hist)
  BY DEF OrderInv, TypeInv
<1>2. S \in SUBSET DOMAIN hist /\ s \in S
  BY DEF Successful
<1>3. IsFiniteSet(S) /\ S # {}
  BY <1>1, <1>2, FS_Subset DEF RowsOK
<1>4. Cardinality(S) \in Nat /\ Cardinality(S) # 0
  BY <1>3, FS_CardinalityType, FS_EmptySet
<1>5. Recorded(hist, c) = Cardinality(S)
  BY DEF Recorded
<1>6. /\ Cardinality(Running(c, k)) \in Nat /\ ran[c][k] \in Nat
      /\ IF Transactional THEN ran[c][k] = Recorded(hist, c)
         ELSE ran[c][k] >= Recorded(hist, c) + Cardinality(Running(c, k))
  BY <1>1, CountsAreNats DEF EffectsInv
<1> HIDE DEF c, S
<1> QED
  BY <1>4, <1>5, <1>6 DEF c

\* In a history that began with at most one baseline and that the files validate, what
\* info shows as applied has run: a repeatable migration with the content it has now, a
\* versioned one unless it is the version of the baseline (Engine.Info).
THEOREM InfoTellsTheTruth ==
  ASSUME \A h \in Histories : OneBaseline(h)
  PROVE  Spec => []InfoIsTrue
<1>1. ASSUME InfoInv, EffectsInv PROVE InfoIsTrue
  <2> SUFFICES ASSUME NEW files \in Disks, NEW migs, migs = Resolved(files),
                      Problems(migs, hist) = {},
                      \A r \in Versioned(hist) :
                        hist[r].checksum = NoChecksum => hist[r].type = "BASELINE",
                      NEW i \in DOMAIN migs, Status(migs, hist, i) = "Applied"
               PROVE  \/ \A k \in 1..Stmts[migs[i].checksum] : ran[migs[i].checksum][k] > 0
                      \/ migs[i].type = "versioned" /\ migs[i].version = BaselineVersion(hist)
    BY DEF InfoIsTrue
  <2>1. /\ OrderInv /\ RowsOK(hist) /\ OneBaseline(hist)
        /\ migs \in Seq(Migration) /\ migs[i] \in Migration
    BY <1>1, ResolvedFiles DEF InfoInv, OrderInv, TypeInv
  <2>2. ~ NeedsApply(migs[i], hist)
    BY DEF Status, Pending
  <2>3. CASE migs[i].type = "versioned"
    <3>1. migs[i].version \in Nat /\ VersionApplied(migs[i].version, hist)
      <4>1. VersionApplied(migs[i].version, hist)
        BY <2>2, <2>3 DEF Status, NeedsApply
      <4> QED
        BY <2>1, <2>3, <4>1, HistoryAssumption DEF Migration
    <3>2. PICK s \in Successful(hist) : hist[s].version = migs[i].version
      BY <3>1 DEF VersionApplied
    <3>3. CASE hist[s].type = "BASELINE"
      <4> DEFINE B == {r \in Versioned(hist) : hist[r].type = "BASELINE"}
      <4>1. B \in SUBSET Versioned(hist) /\ s \in B
        BY <3>1, <3>2, <3>3 DEF Versioned
      <4>2. PICK r \in B : hist[r].version = Highest(hist, B)
        BY <2>1, <4>1, HighestIsThere
      <4>3. r = s
        BY <2>1, <3>3, <4>2 DEF OneBaseline, Versioned
      <4> QED
        BY <2>3, <3>2, <4>2, <4>3 DEF BaselineVersion
    <3>4. CASE hist[s].type # "BASELINE"
      <4>1. ~ Mismatched(migs, hist[s])
        BY DEF Problems
      <4>2. s \in Versioned(hist)
        BY <3>1, <3>2 DEF Versioned
      <4>3. hist[s].checksum = migs[i].checksum
        BY <3>1, <3>2, <3>4, <4>1, <4>2 DEF Mismatched
      <4>4. migs[i].checksum \in Checksums
        BY <2>1 DEF Migration
      <4> QED
        BY <1>1, <2>1, <4>3, <4>4, RecordedHasRun
    <3> QED
      BY <3>3, <3>4
  <2>4. CASE migs[i].type = "repeatable"
    <3> DEFINE top == Max(RepeatableRows(migs[i].description, hist))
    <3>1. /\ RepeatableRows(migs[i].description, hist) # {}
          /\ hist[top].checksum = migs[i].checksum
      BY <2>2, <2>4 DEF NeedsApply, RepeatableNeedsApply
    <3>2. top \in Successful(hist)
      BY <2>1, <3>1, LastRepeatable
    <3>3. migs[i].checksum \in Checksums
      BY <2>1 DEF Migration
    <3> HIDE DEF top
    <3> QED
      BY <1>1, <2>1, <3>1, <3>2, <3>3, RecordedHasRun
  <2> QED
    BY <2>1, <2>3, <2>4 DEF Migration
<1>2. Init => InfoInv
  BY InitOrder DEF Init, InfoInv, OneBaseline, Successful
<1>3. InfoInv /\ EffectsInv /\ [Next]_vars => InfoInv' /\ EffectsInv'
  BY NextBaseline, NextEffects DEF InfoInv
<1>4. Spec => [](InfoInv /\ EffectsInv)
  BY <1>2, <1>3, InitEffects, PTL DEF Spec
<1> QED
  BY <1>1, <1>4, PTL

-----------------------------------------------------------------------------
(* Decisions.                                                              *)

\* The rows a job has read or recorded.
Seen(rows, j) == Restrict(rows, {r \in DOMAIN rows : r < j.rank})

\* What a job has still to do is what it would decide upon from some rows, and these
\* validate.
Decided(rows, j) ==
  /\ j.todo = Pending(j.migs, rows)
  /\ \A s \in Successful(rows) :
       ~ Unresolved(j.migs, rows[s]) /\ ~ Mismatched(j.migs, rows[s])

\* A process at label l with job j: its decisions stand.
Stands(rows, l, j) ==
  /\ (l = "read" /\ j.cmd = "migrate") \/ l \in Applying => j.migs \in Releases
  /\ l \in Applying => Decided(Seen(rows, j), j)
  /\ l = "insert" => j.cmd = "baseline"
  /\ l = "delete" => j.cmd = "repair"

SerialInv ==
  /\ OrderInv
  /\ \A p \in Procs : Stands(hist, pc[p], job[p])

-----------------------------------------------------------------------------
(* Lemmas about decisions.                                                 *)

\* Ledger decides as Rian does.
LEMMA SerialDecides ==
  ASSUME NEW migs, NEW rows
  PROVE  /\ Serial!Problems(migs, rows) = Problems(migs, rows)
         /\ Serial!Pending(migs, rows) = Pending(migs, rows)
         /\ Serial!OutOfOrder(migs, rows) <=> OutOfOrder(migs, rows)
         /\ Serial!NextRank(rows) = NextRank(rows)
         /\ Serial!Successful(rows) = Successful(rows)
<1>m. \A S : Serial!Max(S) = Max(S)
  BY DEF Serial!Max, Max
<1>h. \A ranks : Serial!Highest(rows, ranks) = Highest(rows, ranks)
  BY <1>m DEF Serial!Highest, Highest
<1>1. Serial!Successful(rows) = Successful(rows)
  BY DEF Serial!Successful, Successful
<1>2. Serial!Versioned(rows) = Versioned(rows)
  BY <1>1 DEF Serial!Versioned, Versioned
<1>3. /\ Serial!MaxAppliedVersion(rows) = MaxAppliedVersion(rows)
      /\ Serial!BaselineVersion(rows) = BaselineVersion(rows)
  BY <1>h, <1>2 DEF Serial!MaxAppliedVersion, MaxAppliedVersion, Serial!BaselineVersion,
                    BaselineVersion
<1>4. \A m : Serial!NeedsApply(m, rows) <=> NeedsApply(m, rows)
  <2> TAKE m
  <2>1. Serial!BelowBaseline(m, rows) <=> BelowBaseline(m, rows)
    BY <1>3 DEF Serial!BelowBaseline, BelowBaseline
  <2>2. Serial!VersionApplied(m.version, rows) <=> VersionApplied(m.version, rows)
    BY <1>1 DEF Serial!VersionApplied, VersionApplied
  <2>3. Serial!RepeatableRows(m.description, rows) = RepeatableRows(m.description, rows)
    BY <1>1 DEF Serial!RepeatableRows, RepeatableRows
  <2>4. Serial!RepeatableNeedsApply(m, rows) <=> RepeatableNeedsApply(m, rows)
    BY <1>m, <2>3 DEF Serial!RepeatableNeedsApply, RepeatableNeedsApply
  <2> QED
    BY <2>1, <2>2, <2>4 DEF Serial!NeedsApply, NeedsApply
<1>5. Serial!Pending(migs, rows) = Pending(migs, rows)
  BY <1>4 DEF Serial!Pending, Pending
<1>6. Serial!OutOfOrder(migs, rows) <=> OutOfOrder(migs, rows)
  BY <1>3, <1>5 DEF Serial!OutOfOrder, OutOfOrder
<1>7. Serial!Problems(migs, rows) = Problems(migs, rows)
  BY <1>1 DEF Serial!Problems, Problems, Serial!Unresolved, Unresolved, Serial!Mismatched,
              Mismatched
<1>8. Serial!NextRank(rows) = NextRank(rows)
  BY <1>m DEF Serial!NextRank, NextRank
<1> QED
  BY <1>1, <1>5, <1>6, <1>7, <1>8

\* Decisions depend on the successful rows and on no others.
LEMMA SameDecisions ==
  ASSUME NEW a, NEW b, RowsOK(a), Successful(a) = Successful(b),
         \A s \in Successful(a) : a[s] = b[s], NEW migs
  PROVE  Pending(migs, a) = Pending(migs, b)
<1>1. Versioned(a) = Versioned(b) /\ \A s \in Versioned(a) : a[s] = b[s]
  BY DEF Versioned
<1>2. BaselineVersion(a) = BaselineVersion(b)
  <2>1. {r \in Versioned(a) : a[r].type = "BASELINE"}
          = {r \in Versioned(b) : b[r].type = "BASELINE"}
    BY <1>1
  <2>2. {a[r].version : r \in {s \in Versioned(a) : a[s].type = "BASELINE"}}
          = {b[r].version : r \in {s \in Versioned(b) : b[s].type = "BASELINE"}}
    BY <1>1, <2>1
  <2> QED
    BY <2>1, <2>2 DEF BaselineVersion, Highest
<1>3. ASSUME NEW m PROVE NeedsApply(m, a) <=> NeedsApply(m, b)
  <2>1. RepeatableRows(m.description, a) = RepeatableRows(m.description, b)
    BY DEF RepeatableRows
  <2>2. RepeatableNeedsApply(m, a) <=> RepeatableNeedsApply(m, b)
    <3>1. ASSUME RepeatableRows(m.description, a) # {}
          PROVE  Max(RepeatableRows(m.description, a)) \in Successful(a)
      BY <3>1, LastRepeatable
    <3> QED
      BY <2>1, <3>1 DEF RepeatableNeedsApply
  <2>3. VersionApplied(m.version, a) <=> VersionApplied(m.version, b)
    BY DEF VersionApplied
  <2> QED
    BY <1>2, <2>2, <2>3 DEF NeedsApply, BelowBaseline
<1> QED
  BY <1>3 DEF Pending

\* Once a pending migration is recorded on top of rows that have no failure, it is
\* the only one that is not pending any more, and its row validates.
LEMMA RecordedView ==
  ASSUME NEW rows, RowsOK(rows), NEW migs \in Seq(Migration), Ordered(migs), Distinct(migs),
         NEW m \in Pending(migs, rows), NEW r \in Nat \ {0}, \A s \in DOMAIN rows : s < r,
         NEW new, RowsOK(new), DOMAIN new = DOMAIN rows \cup {r},
         new[r] = HistoryRow(migs[m], TRUE), \A s \in DOMAIN rows : new[s] = rows[s]
  PROVE  /\ Pending(migs, new) = Pending(migs, rows) \ {m}
         /\ ~ Unresolved(migs, new[r]) /\ ~ Mismatched(migs, new[r])
<1>1. /\ m \in DOMAIN migs /\ migs[m] \in Migration
      /\ \A i \in DOMAIN migs : i \in Nat /\ migs[i] \in Migration
  BY DEF Pending
<1>2. Successful(new) = Successful(rows) \cup {r} /\ r \notin DOMAIN rows
  BY DEF Successful, HistoryRow
<1>3. \A i \in DOMAIN migs : migs[i].version = migs[m].version /\ migs[i].version \in Nat => i = m
  BY <1>1 DEF Ordered
<1>4. /\ new[r].version = migs[m].version /\ new[r].description = migs[m].description
      /\ new[r].checksum = migs[m].checksum /\ new[r].type = "SQL"
  BY DEF HistoryRow
<1>5. ~ Unresolved(migs, new[r]) /\ ~ Mismatched(migs, new[r])
  <2>1. ~ Unresolved(migs, new[r])
    <3>1. CASE migs[m].version \in Nat
      BY <1>1, <1>4, <3>1, HistoryAssumption DEF Unresolved
    <3>2. CASE migs[m].type = "repeatable" /\ migs[m].version = NoVersion
      BY <1>1, <1>4, <3>2, HistoryAssumption DEF Unresolved
    <3> QED
      BY <1>1, <3>1, <3>2 DEF Migration
  <2>2. ~ Mismatched(migs, new[r])
    BY <1>3, <1>4 DEF Mismatched
  <2> QED
    BY <2>1, <2>2
<1>6. BaselineVersion(new) = BaselineVersion(rows)
  <2> DEFINE B(x) == {s \in Versioned(x) : x[s].type = "BASELINE"}
  <2>1. B(new) = B(rows) /\ \A s \in B(rows) : new[s] = rows[s]
    BY <1>2, <1>4 DEF Versioned, Successful
  <2>2. {new[s].version : s \in B(new)} = {rows[s].version : s \in B(rows)}
    BY <2>1
  <2> QED
    BY <2>1, <2>2 DEF BaselineVersion, Highest
<1>7. ASSUME NEW i \in DOMAIN migs, migs[i].type = "versioned"
      PROVE  NeedsApply(migs[i], new) <=> NeedsApply(migs[i], rows) /\ i # m
  <2>1. migs[i].version \in Nat
    BY <1>1, <1>7 DEF Migration
  <2>2. VersionApplied(migs[i].version, new) <=> VersionApplied(migs[i].version, rows) \/ i = m
    BY <1>2, <1>3, <1>4, <2>1 DEF VersionApplied, Successful
  <2> QED
    BY <1>6, <1>7, <2>2 DEF NeedsApply, BelowBaseline
<1>8. ASSUME NEW i \in DOMAIN migs, migs[i].type = "repeatable"
      PROVE  NeedsApply(migs[i], new) <=> NeedsApply(migs[i], rows) /\ i # m
  <2> DEFINE R(x) == RepeatableRows(migs[i].description, x)
  <2>1. CASE i = m
    <3>1. r \in R(new)
      BY <1>1, <1>2, <1>4, <1>8, <2>1 DEF RepeatableRows, Migration
    <3>2. Max(R(new)) = r
      <4>1. Max(R(new)) \in R(new) /\ r <= Max(R(new))
        BY <3>1, LastRepeatable
      <4>2. \A s \in R(new) : s \in Nat /\ s <= r
        BY <1>2 DEF RepeatableRows, Successful, RowsOK
      <4> QED
        BY <4>1, <4>2
    <3> QED
      BY <1>4, <1>8, <2>1, <3>1, <3>2 DEF NeedsApply, RepeatableNeedsApply
  <2>2. CASE i # m
    <3>1. R(new) = R(rows)
      <4>1. r \notin R(new)
        <5>1. CASE migs[m].type = "repeatable"
          BY <1>4, <1>1, <1>8, <2>2, <5>1 DEF RepeatableRows, Distinct
        <5>2. CASE migs[m].type = "versioned"
          <6>1. new[r].version \in Nat /\ NoVersion \notin Nat
            BY <1>1, <1>4, <5>2, HistoryAssumption DEF Migration
          <6> QED
            BY <6>1 DEF RepeatableRows
        <5> QED
          BY <1>1, <5>1, <5>2 DEF Migration
      <4>2. \A s \in Successful(rows) : s \in R(new) <=> s \in R(rows)
        BY <1>2 DEF RepeatableRows, Successful
      <4>3. R(new) \subseteq Successful(new) /\ R(rows) \subseteq Successful(rows)
        BY DEF RepeatableRows
      <4> HIDE DEF R
      <4> QED
        BY <1>2, <4>1, <4>2, <4>3
    <3>2. ASSUME R(rows) # {} PROVE new[Max(R(rows))] = rows[Max(R(rows))]
      BY <3>2, LastRepeatable DEF Successful
    <3> QED
      BY <1>8, <2>2, <3>1, <3>2 DEF NeedsApply, RepeatableNeedsApply
  <2> QED
    BY <2>1, <2>2
<1>9. \A i \in DOMAIN migs : NeedsApply(migs[i], new) <=> NeedsApply(migs[i], rows) /\ i # m
  BY <1>1, <1>7, <1>8 DEF Migration
<1> QED
  BY <1>5, <1>9 DEF Pending

-----------------------------------------------------------------------------
(* Lemmas about what a job has seen.                                       *)

\* What resolve returns, and that it keeps descriptions.
LEMMA ReleaseFacts ==
  ASSUME NoTwins, NEW migs \in Releases
  PROVE  migs \in Seq(Migration) /\ Ordered(migs) /\ Distinct(migs)
<1>1. PICK files \in Disks : migs = Resolved(files)
  BY DEF Releases
<1>2. migs \in Seq(Migration) /\ Ordered(migs)
  BY <1>1, ResolvedFiles
<1>3. /\ files \in Seq(Migration) /\ Distinct(files) /\ DOMAIN migs = DOMAIN files
  BY <1>1, DisksAssumption DEF NoTwins, Resolved
<1>4. \A i \in DOMAIN files : files[i] \in Migration
  BY <1>3
<1>5. \A i \in DOMAIN files : /\ migs[i].type = files[i].type
                              /\ migs[i].description = files[i].description
  BY <1>1, <1>4 DEF Resolved, Migration
<1>6. Distinct(migs)
  BY <1>3, <1>5 DEF Distinct
<1> QED
  BY <1>2, <1>6

\* The rows a job has seen are a history, below its rank.
LEMMA SeenFacts ==
  ASSUME NEW rows, RowsOK(rows), NEW j
  PROVE  /\ RowsOK(Seen(rows, j))
         /\ DOMAIN Seen(rows, j) = {r \in DOMAIN rows : r < j.rank}
         /\ \A r \in DOMAIN Seen(rows, j) : Seen(rows, j)[r] = rows[r]
         /\ Successful(Seen(rows, j)) = {r \in Successful(rows) : r < j.rank}
<1>1. /\ DOMAIN Seen(rows, j) = {r \in DOMAIN rows : r < j.rank}
      /\ \A r \in DOMAIN Seen(rows, j) : Seen(rows, j)[r] = rows[r]
      /\ Seen(rows, j) = [r \in DOMAIN Seen(rows, j) |-> rows[r]]
  BY DEF Seen, Restrict
<1>2. RowsOK(Seen(rows, j))
  BY <1>1, FS_Subset DEF RowsOK
<1>3. Successful(Seen(rows, j)) = {r \in Successful(rows) : r < j.rank}
  BY <1>1 DEF Successful
<1> QED
  BY <1>1, <1>2, <1>3

\* From a fresh view nothing in the table is hidden, as long as its rank is free.
LEMMA FreshSees ==
  ASSUME NEW rows, RowsOK(rows), NEW j, Fresh(rows, j), j.rank \notin DOMAIN rows
  PROVE  Seen(rows, j) = rows /\ DOMAIN rows = Successful(rows)
<1>1. DOMAIN rows = Successful(rows)
  BY DEF Fresh, Successful
<1>2. {r \in DOMAIN rows : r < j.rank} = DOMAIN rows
  BY <1>1 DEF Fresh
<1>3. rows = [r \in DOMAIN rows |-> rows[r]]
  BY DEF RowsOK
<1> QED
  BY <1>1, <1>2, <1>3 DEF Seen, Restrict

\* A decision stands as long as the successful rows it was taken from.
LEMMA StillDecided ==
  ASSUME NEW a, NEW b, RowsOK(a), Successful(a) = Successful(b),
         \A s \in Successful(a) : a[s] = b[s], NEW j, Decided(a, j)
  PROVE  Decided(b, j)
BY SameDecisions DEF Decided

\* A row is recorded above everything the others have seen.
LEMMA OthersSee ==
  ASSUME OrderInv, NEW p \in Procs, NEW row, Adds(p, row), NEW q \in Procs, pc[q] \in Relying
  PROVE  Seen(hist', job[q]) = Seen(hist, job[q])
<1>1. /\ job[p].rank \in Nat \ {0} /\ job[q].rank \in Nat \ {0} /\ pc[p] \in Relying
      /\ DOMAIN hist \subseteq Nat \ {0}
  BY RelyingFacts DEF Adds, OrderInv, TypeInv, RowsOK
<1>2. job[q].rank <= job[p].rank
  <2>1. CASE job[q].rank \in Successful(hist)
    BY <1>1, <2>1 DEF Adds, Fresh
  <2>2. CASE Fresh(hist, job[q])
    BY <1>1, <2>2, SameRank DEF Adds
  <2> QED
    BY <2>1, <2>2, RelyingFacts DEF Optimistic
<1>3. {r \in DOMAIN hist' : r < job[q].rank} = {r \in DOMAIN hist : r < job[q].rank}
  BY <1>1, <1>2 DEF Adds, AddRow
<1>4. \A r \in DOMAIN hist : r < job[q].rank => hist'[r] = hist[r]
  BY <1>1, <1>2 DEF Adds, AddRow
<1> QED
  BY <1>3, <1>4 DEF Seen, Restrict

\* Removing failed rows changes no decision.
LEMMA RepairKeepsDecisions ==
  ASSUME RowsOK(hist), hist' = Restrict(hist, Successful(hist)), RowsOK(hist'),
         NEW j, Decided(Seen(hist, j), j)
  PROVE  Decided(Seen(hist', j), j)
<1>1. /\ Successful(hist') = Successful(hist)
      /\ \A s \in Successful(hist) : hist'[s] = hist[s]
  BY DEF Restrict, Successful
<1>2. /\ Successful(Seen(hist', j)) = Successful(Seen(hist, j))
      /\ \A s \in Successful(Seen(hist, j)) : Seen(hist', j)[s] = Seen(hist, j)[s]
  <2>1. /\ Successful(Seen(hist, j)) = {r \in Successful(hist) : r < j.rank}
        /\ \A s \in DOMAIN Seen(hist, j) : Seen(hist, j)[s] = hist[s]
        /\ \A s \in Successful(Seen(hist, j)) : s \in DOMAIN Seen(hist, j)
    <3>1. \A s \in Successful(Seen(hist, j)) : s \in DOMAIN Seen(hist, j)
      BY DEF Successful
    <3> QED
      BY <3>1, SeenFacts
  <2>2. /\ Successful(Seen(hist', j)) = {r \in Successful(hist') : r < j.rank}
        /\ \A s \in DOMAIN Seen(hist', j) : Seen(hist', j)[s] = hist'[s]
        /\ \A s \in Successful(Seen(hist', j)) : s \in DOMAIN Seen(hist', j)
    <3>1. \A s \in Successful(Seen(hist', j)) : s \in DOMAIN Seen(hist', j)
      BY DEF Successful
    <3> QED
      BY <3>1, SeenFacts
  <2> QED
    BY <1>1, <2>1, <2>2
<1>3. RowsOK(Seen(hist, j))
  BY SeenFacts
<1> QED
  BY <1>2, <1>3, StillDecided

\* A process that records its migration has seen it, and has decided upon the rest.
LEMMA OwnDecisions ==
  ASSUME NoTwins, SerialInv, NEW p \in Procs, pc[p] \in {"exec", "commit"}, job[p].todo # {},
         Adds(p, HistoryRow(Current(job[p]), TRUE)), RowsOK(hist'),
         NEW j, j.migs = job[p].migs, j.rank = job[p].rank + 1,
         j.todo = job[p].todo \ {Min(job[p].todo)}
  PROVE  Decided(Seen(hist', j), j)
<1> DEFINE m == Min(job[p].todo)
           r == job[p].rank
           migs == job[p].migs
<1>1. TypeInv /\ ProcInv /\ RowsOK(hist) /\ r \in Nat \ {0} /\ r \notin DOMAIN hist
  BY RelyingFacts DEF SerialInv, OrderInv, TypeInv, Adds
<1>2. /\ migs \in Releases /\ Decided(Seen(hist, job[p]), job[p])
  BY DEF SerialInv, Stands, Applying
<1>3. Seen(hist, job[p]) = hist /\ DOMAIN hist = Successful(hist)
  BY <1>1, FreshSees DEF Adds
<1>4. /\ job[p].todo = Pending(migs, hist) /\ m \in job[p].todo
      /\ Current(job[p]) = migs[m]
  BY <1>1, <1>2, <1>3, CurrentType DEF Decided, Current
<1>5. \A s \in DOMAIN hist : s < r /\ s \in Nat
  BY <1>1, <1>3 DEF Adds, Fresh, RowsOK
<1>6. /\ DOMAIN hist' = DOMAIN hist \cup {r}
      /\ hist'[r] = HistoryRow(migs[m], TRUE)
      /\ \A s \in DOMAIN hist : hist'[s] = hist[s]
  BY <1>1, <1>4 DEF Adds, AddRow
<1>7. migs \in Seq(Migration) /\ Ordered(migs) /\ Distinct(migs)
  BY <1>2, ReleaseFacts
<1>8. Seen(hist', j) = hist'
  <2>1. {s \in DOMAIN hist' : s < j.rank} = DOMAIN hist'
    BY <1>1, <1>5, <1>6
  <2>2. hist' = [s \in DOMAIN hist' |-> hist'[s]]
    BY DEF RowsOK
  <2> QED
    BY <2>1, <2>2 DEF Seen, Restrict
<1> HIDE DEF m, r, migs
<1>9. /\ Pending(migs, hist') = Pending(migs, hist) \ {m}
      /\ ~ Unresolved(migs, hist'[r]) /\ ~ Mismatched(migs, hist'[r])
  <2>1. /\ m \in Pending(migs, hist) /\ r \in Nat \ {0} /\ RowsOK(hist)
        /\ \A s \in DOMAIN hist : s < r
    BY <1>1, <1>4, <1>5
  <2> QED
    BY <1>6, <1>7, <2>1, RecordedView
<1>10. \A s \in Successful(hist) : ~ Unresolved(migs, hist[s]) /\ ~ Mismatched(migs, hist[s])
  BY <1>2, <1>3 DEF Decided, migs
<1>11. Successful(hist') \subseteq Successful(hist) \cup {r}
  BY <1>3, <1>6 DEF Successful
<1> QED
  <2>1. \A s \in Successful(hist') : ~ Unresolved(migs, hist'[s]) /\ ~ Mismatched(migs, hist'[s])
    BY <1>3, <1>6, <1>9, <1>10, <1>11
  <2>2. j.todo = Pending(migs, hist')
    BY <1>4, <1>9 DEF m
  <2>3. Decided(hist', j)
    BY <2>1, <2>2 DEF Decided, migs
  <2> QED
    BY <1>8, <2>3

-----------------------------------------------------------------------------
(* The invariant holds.                                                    *)

\* A step that leaves the history alone moves only one process.
LEMMA QuietDecisions ==
  ASSUME SerialInv, OrderInv', NEW p \in Procs, hist' = hist, OnlyMoves(p),
         Stands(hist, pc'[p], job'[p])
  PROVE  SerialInv'
BY DEF SerialInv, OnlyMoves

\* A row is added by p: the decisions of the others stand.
LEMMA AddDecisions ==
  ASSUME SerialInv, OrderInv', NEW p \in Procs, NEW row, Adds(p, row), OnlyMoves(p),
         Stands(hist', pc'[p], job'[p])
  PROVE  SerialInv'
<1>1. ASSUME NEW q \in Procs \ {p} PROVE Stands(hist', pc'[q], job'[q])
  <2>1. /\ pc'[q] = pc[q] /\ job'[q] = job[q] /\ Stands(hist, pc[q], job[q]) /\ OrderInv
    BY DEF OnlyMoves, SerialInv
  <2>2. pc[q] \in Applying => Seen(hist', job[q]) = Seen(hist, job[q])
    BY <2>1, OthersSee DEF Applying, Relying
  <2> QED
    BY <2>1, <2>2 DEF Stands
<1> QED
  BY <1>1 DEF SerialInv

\* Initially there are no decisions.
LEMMA InitSerial == Init => SerialInv
<1> SUFFICES ASSUME Init PROVE SerialInv
  OBVIOUS
<1>1. \A p \in Procs : pc[p] = "idle"
  BY DEF Init
<1> QED
  BY <1>1, InitOrder DEF SerialInv, Stands, Applying

\* Every step preserves the invariant.
LEMMA NextSerial ==
  ASSUME NoTwins, SerialInv, [Next]_vars
  PROVE  SerialInv'
<1> USE DEF Goto
<1>o. OrderInv /\ OrderInv'
  BY NextOrder DEF SerialInv
<1>t. TypeInv /\ RowsOK(hist) /\ RowsOK(hist')
  BY <1>o DEF OrderInv, TypeInv
<1>d. /\ DOMAIN job = Procs /\ DOMAIN pc = Procs
      /\ \A q \in Procs : GoodProc(pc[q], job[q], outcome[q])
      /\ \A q \in Procs : Stands(hist, pc[q], job[q])
  BY <1>t DEF TypeInv, ProcInv, SerialInv
<1>f. ASSUME NEW p \in Procs, NEW o, Finish(p, o)
      PROVE  OnlyMoves(p) /\ pc'[p] = "idle" /\ \A rows, j : Stands(rows, pc'[p], j)
  <2>1. OnlyMoves(p) /\ pc'[p] = "idle"
    BY <1>d, <1>f DEF Finish, OnlyMoves
  <2> QED
    BY <2>1 DEF Stands, Applying
<1>q. ASSUME NEW p \in Procs, NEW o, Finish(p, o), hist' = hist
      PROVE  SerialInv'
  BY <1>o, <1>f, <1>q, QuietDecisions
\* p stays in its loop with what it has to do.
<1>l. ASSUME NEW p \in Procs, pc[p] \in Applying, pc'[p] \in Applying, OnlyMoves(p), hist' = hist,
             job'[p].migs = job[p].migs, job'[p].todo = job[p].todo, job'[p].rank = job[p].rank
      PROVE  SerialInv'
  <2>1. Stands(hist, pc'[p], job'[p])
    BY <1>d, <1>l DEF Stands, Seen, Decided, Applying
  <2> QED
    BY <1>o, <1>l, <2>1, QuietDecisions
<1>a. ASSUME NEW p \in Procs, pc[p] \in {"exec", "commit"},
             Adds(p, HistoryRow(Current(job[p]), TRUE)), Advance(p)
      PROVE  SerialInv'
  <2>1. /\ job'[p] = [job[p] EXCEPT !.todo = @ \ {Min(@)}, !.rank = @ + 1]
        /\ OnlyMoves(p) /\ pc'[p] = "next"
    BY <1>d, <1>a DEF Advance, OnlyMoves
  <2>2. job[p] \in Job /\ job[p].todo # {}
    BY <1>d, <1>a DEF GoodProc
  <2>3. /\ job'[p].migs = job[p].migs /\ job'[p].rank = job[p].rank + 1
        /\ job'[p].todo = job[p].todo \ {Min(job[p].todo)}
    BY <2>1, <2>2 DEF Job
  <2>4. Decided(Seen(hist', job'[p]), job'[p])
    BY <1>t, <1>a, <2>2, <2>3, OwnDecisions
  <2>5. job'[p].migs \in Releases
    BY <1>d, <1>a, <2>3 DEF Stands, Applying
  <2>6. Stands(hist', pc'[p], job'[p])
    BY <2>1, <2>4, <2>5 DEF Stands, Applying
  <2> QED
    BY <1>o, <1>a, <2>1, <2>6, AddDecisions
<1>b. ASSUME NEW p \in Procs, NEW row, Adds(p, row), NEW o, Finish(p, o)
      PROVE  SerialInv'
  BY <1>o, <1>f, <1>b, AddDecisions
<1>1. ASSUME NEW p \in Procs, NEW c \in Commands, Start(p, c) PROVE SerialInv'
  <2>1. OnlyMoves(p) /\ pc'[p] = "ensure" /\ hist' = hist
    BY <1>d, <1>1 DEF Start, OnlyMoves
  <2>2. Stands(hist, pc'[p], job'[p])
    BY <2>1 DEF Stands, Applying
  <2> QED
    BY <1>o, <2>1, <2>2, QuietDecisions
<1>2. ASSUME NEW p \in Procs, RefuseBaseline(p) PROVE SerialInv'
  BY <1>2, <1>q DEF RefuseBaseline
<1>3. ASSUME NEW p \in Procs, EnsureHistory(p) PROVE SerialInv'
  <2>1. ASSUME UNCHANGED <<job, hist>>,
               Goto(p, CASE job[p].cmd = "baseline" -> "read"
                         [] job[p].cmd = "repair" -> "delete"
                         [] OTHER -> "resolve")
        PROVE  SerialInv'
    <3>1. /\ OnlyMoves(p) /\ job'[p] = job[p]
          /\ \/ job[p].cmd = "baseline" /\ pc'[p] = "read"
             \/ job[p].cmd = "repair" /\ pc'[p] = "delete"
             \/ pc'[p] = "resolve"
      BY <1>d, <2>1 DEF OnlyMoves
    <3>2. Stands(hist, pc'[p], job'[p])
      BY <3>1 DEF Stands, Applying
    <3> QED
      BY <1>o, <2>1, <3>1, <3>2, QuietDecisions
  <2> QED
    BY <1>3, <1>q, <2>1 DEF EnsureHistory
<1>4. ASSUME NEW p \in Procs, Resolve(p) PROVE SerialInv'
  <2>1. ASSUME NEW files \in Disks, job' = [job EXCEPT ![p].migs = Resolved(files)],
               Goto(p, "read"), UNCHANGED hist
        PROVE  SerialInv'
    <3>1. OnlyMoves(p) /\ pc'[p] = "read" /\ job'[p].migs \in Releases
      BY <1>d, <2>1 DEF OnlyMoves, Releases, GoodProc, Job
    <3>2. Stands(hist, pc'[p], job'[p])
      BY <3>1 DEF Stands, Applying
    <3> QED
      BY <1>o, <2>1, <3>1, <3>2, QuietDecisions
  <2> QED
    BY <1>4, <1>q, <2>1 DEF Resolve
<1>5. ASSUME NEW p \in Procs, ReadFails(p) PROVE SerialInv'
  BY <1>5, <1>q DEF ReadFails
<1>6. ASSUME NEW p \in Procs, ReadForMigrate(p) PROVE SerialInv'
  <2> DEFINE migs == job[p].migs
             t == Pending(migs, hist)
             r == NextRank(hist)
  <2>1. ASSUME Problems(migs, hist) = {}, ~ OutOfOrder(migs, hist),
               job' = [job EXCEPT ![p].todo = t, ![p].rank = r], Goto(p, "next"),
               UNCHANGED hist
        PROVE  SerialInv'
    <3> HIDE DEF t, r
    <3>1. /\ job'[p].migs = migs /\ job'[p].todo = t /\ job'[p].rank = r
          /\ OnlyMoves(p) /\ pc'[p] = "next"
      BY <1>d, <2>1 DEF OnlyMoves, GoodProc, Job
    <3>2. Fresh(hist, job'[p])
      BY <1>t, <2>1, <3>1, ReadViewFresh DEF t, r
    <3>3. job'[p].rank \notin DOMAIN hist
      <4>1. DOMAIN hist = Successful(hist)
        BY <2>1 DEF Problems, Successful
      <4>2. \A s \in Successful(hist) : s < job'[p].rank /\ s \in Nat
        BY <1>t, <3>2, <4>1 DEF Fresh, RowsOK
      <4> QED
        BY <4>1, <4>2
    <3>4. Seen(hist, job'[p]) = hist
      BY <1>t, <3>2, <3>3, FreshSees
    <3>5. Decided(hist, job'[p])
      BY <2>1, <3>1 DEF Decided, Problems, t
    <3>6. migs \in Releases
      BY <1>d, <1>6 DEF Stands, ReadForMigrate
    <3>7. Stands(hist, pc'[p], job'[p])
      BY <3>1, <3>4, <3>5, <3>6 DEF Stands, Applying
    <3> QED
      BY <1>o, <2>1, <3>1, <3>7, QuietDecisions
  <2> QED
    BY <1>6, <1>q, <2>1 DEF ReadForMigrate
<1>7. ASSUME NEW p \in Procs, ReadForReport(p) PROVE SerialInv'
  BY <1>7, <1>q DEF ReadForReport
<1>8. ASSUME NEW p \in Procs, ReadForBaseline(p) PROVE SerialInv'
  <2>1. ASSUME job' = [job EXCEPT ![p].rank = 1], Goto(p, "insert"), UNCHANGED hist
        PROVE  SerialInv'
    <3>1. OnlyMoves(p) /\ pc'[p] = "insert" /\ job'[p].cmd = "baseline"
      BY <1>d, <1>8, <2>1 DEF ReadForBaseline, OnlyMoves, GoodProc, Job
    <3>2. Stands(hist, pc'[p], job'[p])
      BY <3>1 DEF Stands, Applying
    <3> QED
      BY <1>o, <2>1, <3>1, <3>2, QuietDecisions
  <2> QED
    BY <1>8, <1>q, <2>1 DEF ReadForBaseline
<1>9. ASSUME NEW p \in Procs, Prepare(p) PROVE SerialInv'
  <2>1. ASSUME job' = [job EXCEPT ![p].stmt = 1], Goto(p, "exec"), UNCHANGED hist
        PROVE  SerialInv'
    BY <1>d, <1>9, <1>l, <2>1 DEF Prepare, OnlyMoves, GoodProc, Job, Applying
  <2> QED
    BY <1>9, <1>q, <2>1 DEF Prepare
<1>10. ASSUME NEW p \in Procs, ExecInTx(p) PROVE SerialInv'
  <2>1. ASSUME job' = [job EXCEPT ![p].stmt = @ + 1], UNCHANGED <<pc, hist>>
        PROVE  SerialInv'
    BY <1>d, <1>10, <1>l, <2>1 DEF ExecInTx, OnlyMoves, GoodProc, Job, Applying
  <2> QED
    BY <1>10, <1>q, <2>1 DEF ExecInTx
<1>11. ASSUME NEW p \in Procs, ExecAutocommit(p) PROVE SerialInv'
  <2>1. pc' = pc /\ pc[p] = "exec" /\ hist' = hist
    BY <1>11 DEF ExecAutocommit
  <2>2. \/ job' = [job EXCEPT ![p].stmt = @ + 1]
        \/ job' = [job EXCEPT ![p].failed = TRUE]
    BY <1>11 DEF ExecAutocommit
  <2>3. /\ OnlyMoves(p) /\ job'[p].rank = job[p].rank
        /\ job'[p].todo = job[p].todo /\ job'[p].migs = job[p].migs
    BY <1>d, <2>1, <2>2 DEF OnlyMoves, GoodProc, Job
  <2> QED
    BY <1>l, <2>1, <2>3 DEF Applying
<1>12. ASSUME NEW p \in Procs, RecordInTx(p) PROVE SerialInv'
  <2>1. ASSUME Goto(p, "commit"), UNCHANGED <<job, hist>>
        PROVE  SerialInv'
    BY <1>d, <1>12, <1>l, <2>1 DEF RecordInTx, OnlyMoves, Applying
  <2> QED
    BY <1>12, <1>q, <2>1 DEF RecordInTx
<1>13. ASSUME NEW p \in Procs, Commit(p) PROVE SerialInv'
  <2>1. ASSUME CommitEffect(p) PROVE Adds(p, HistoryRow(Current(job[p]), TRUE))
    BY <1>o, <1>d, <1>13, <2>1, RelyingFacts
    DEF Commit, CommitEffect, Adds, OrderInv, Exclusive, Relying, GoodProc
  <2>2. ASSUME CommitEffect(p), Advance(p) PROVE SerialInv'
    BY <1>a, <1>13, <2>1, <2>2 DEF Commit
  <2>3. ASSUME CommitEffect(p), Finish(p, "failed") PROVE SerialInv'
    BY <1>b, <2>1, <2>3
  <2> QED
    BY <1>13, <1>q, <2>2, <2>3 DEF Commit
<1>14. ASSUME NEW p \in Procs, RecordAutocommit(p) PROVE SerialInv'
  <2> DEFINE row == HistoryRow(Current(job[p]), ~ job[p].failed)
  <2>1. ASSUME ~ KeyTaken(p), AddRow(job[p].rank, row) PROVE Adds(p, row)
    <3>1. /\ pc[p] = "exec" /\ pc[p] \in Relying /\ job[p].todo # {} /\ ~ Transactional
          /\ job[p].rank \notin DOMAIN hist
      BY <1>d, <1>14, <2>1 DEF RecordAutocommit, Relying, GoodProc, KeyTaken
    <3>2. (~ job[p].failed) \in BOOLEAN /\ Fresh(hist, job[p])
      BY <1>o, <3>1, RelyingFacts
    <3> QED
      BY <2>1, <3>1, <3>2 DEF Adds
  <2>2. ASSUME ~ KeyTaken(p), AddRow(job[p].rank, row), NEW o, Finish(p, o) PROVE SerialInv'
    BY <1>b, <2>1, <2>2
  <2>3. ASSUME ~ KeyTaken(p), AddRow(job[p].rank, row), ~ job[p].failed, Advance(p)
        PROVE  SerialInv'
    BY <1>a, <1>14, <2>1, <2>3 DEF RecordAutocommit
  <2> QED
    BY <1>14, <1>q, <2>2, <2>3 DEF RecordAutocommit
<1>15. ASSUME NEW p \in Procs, InsertBaseline(p) PROVE SerialInv'
  <2>1. ASSUME ~ KeyTaken(p), AddRow(job[p].rank, BaselineRow) PROVE Adds(p, BaselineRow)
    BY <1>o, <1>15, <2>1, RelyingFacts DEF InsertBaseline, Adds, Relying, KeyTaken
  <2> QED
    BY <1>15, <1>q, <1>b, <2>1 DEF InsertBaseline
<1>16. ASSUME NEW p \in Procs, DeleteFailed(p) PROVE SerialInv'
  <2>1. ASSUME hist' = Restrict(hist, Successful(hist)), NEW o, Finish(p, o)
        PROVE  SerialInv'
    <3>1. ASSUME NEW q \in Procs \ {p} PROVE Stands(hist', pc'[q], job'[q])
      <4>1. pc'[q] = pc[q] /\ job'[q] = job[q]
        BY <1>f, <2>1 DEF OnlyMoves
      <4> QED
        BY <1>t, <1>d, <2>1, <4>1, RepairKeepsDecisions DEF Stands
    <3> QED
      BY <1>o, <1>f, <2>1, <3>1 DEF SerialInv
  <2> QED
    BY <1>16, <1>q, <2>1 DEF DeleteFailed
<1>17. ASSUME NEW p \in Procs, Crash(p) PROVE SerialInv'
  BY <1>17, <1>q DEF Crash
<1>18. CASE UNCHANGED vars
  BY <1>o, <1>18 DEF vars, SerialInv
<1> QED
  BY <1>1, <1>2, <1>3, <1>4, <1>5, <1>6, <1>7, <1>8, <1>9, <1>10, <1>11, <1>12,
     <1>13, <1>14, <1>15, <1>16, <1>17, <1>18 DEF Next, Step

-----------------------------------------------------------------------------
(* Steps of Rian are steps of Ledger.                                      *)

\* A fresh view knows the rank the next row belongs to.
LEMMA NextRankIsMine ==
  ASSUME NEW rows, RowsOK(rows), NEW j, j.rank \in Nat \ {0},
         Fresh(rows, j), j.rank \notin DOMAIN rows
  PROVE  NextRank(rows) = j.rank
<1> DEFINE ranks == DOMAIN rows \cup {0}
<1>1. \A r \in ranks : r \in Nat /\ r < j.rank
  BY FreshSees DEF RowsOK, Fresh
<1>2. j.rank - 1 \in ranks
  BY DEF Fresh, Successful
<1>3. ranks \in SUBSET Nat /\ ranks # {} /\ IsFiniteSet(ranks)
  BY <1>1, FS_AddElement DEF RowsOK
<1>4. Max(ranks) \in ranks /\ j.rank - 1 <= Max(ranks)
  BY <1>2, <1>3, MaxOfNats
<1>5. NextRank(rows) = Max(ranks) + 1
  BY DEF NextRank
<1> HIDE DEF ranks
<1> QED
  BY <1>1, <1>4, <1>5

\* What a migrate records is what Ledger applies.
LEMMA RecordsAsLedger ==
  ASSUME SerialInv, NEW p \in Procs, pc[p] \in {"exec", "commit"}, job[p].todo # {},
         NEW ok \in BOOLEAN, Transactional => ok, Adds(p, HistoryRow(Current(job[p]), ok))
  PROVE  Serial!Next
<1> DEFINE migs == job[p].migs
           r == job[p].rank
<1>1. TypeInv /\ ProcInv /\ RowsOK(hist) /\ r \in Nat \ {0} /\ r \notin DOMAIN hist
  BY RelyingFacts DEF SerialInv, OrderInv, TypeInv, Adds
<1>2. migs \in Releases /\ Decided(Seen(hist, job[p]), job[p])
  BY DEF SerialInv, Stands, Applying
<1>3. Seen(hist, job[p]) = hist /\ DOMAIN hist = Successful(hist)
  BY <1>1, FreshSees DEF Adds
<1>4. /\ Pending(migs, hist) = job[p].todo
      /\ \A s \in Successful(hist) : ~ Unresolved(migs, hist[s]) /\ ~ Mismatched(migs, hist[s])
  BY <1>2, <1>3 DEF Decided
<1>5. Problems(migs, hist) = {}
  BY <1>3, <1>4 DEF Problems
<1>6. ~ OutOfOrder(migs, hist)
  <2> SUFFICES ASSUME MaxAppliedVersion(hist) # NoVersion, NEW i \in Pending(migs, hist),
                      migs[i].type = "versioned", migs[i].version < MaxAppliedVersion(hist)
               PROVE  FALSE
    BY DEF OutOfOrder
  <2>1. PICK s \in Versioned(hist) : hist[s].version = MaxAppliedVersion(hist)
    BY <1>1, HighestIsThere DEF MaxAppliedVersion, Highest
  <2>2. /\ i \in job[p].todo /\ migs[i].version \in Nat
        /\ s \in Successful(hist) /\ hist[s].version \in Nat
    <3>1. i \in DOMAIN migs /\ migs \in Seq(Migration) /\ i \in job[p].todo
      BY <1>1, <1>4 DEF Pending, ProcInv, Job
    <3>2. migs[i] \in Migration
      BY <3>1
    <3> QED
      BY <2>1, <3>1, <3>2 DEF Migration, Versioned
  <2> QED
    BY <2>1, <2>2 DEF Adds, Fresh
<1>7. NextRank(hist) = r
  BY <1>1, NextRankIsMine DEF Adds
<1>8. Current(job[p]) = migs[Min(Pending(migs, hist))]
  BY <1>4 DEF Current
<1>9. Serial!Record(HistoryRow(Current(job[p]), ok)) /\ r \in DOMAIN hist'
  BY <1>7, SerialDecides DEF Adds, AddRow, Serial!Record
<1>10. Serial!Apply(migs, ok)
  <2>1. Serial!Min(Pending(migs, hist)) = Min(Pending(migs, hist))
    BY DEF Serial!Min, Min
  <2>2. Serial!Pending(migs, hist) # {}
    BY <1>4, SerialDecides
  <2>3. Serial!Record(HistoryRow(migs[Serial!Min(Serial!Pending(migs, hist))], ok))
    BY <1>8, <1>9, <2>1, SerialDecides
  <2> QED
    BY <1>5, <1>6, <2>2, <2>3, SerialDecides DEF Serial!Apply, HistoryRow
<1>11. Serial!NextRank(hist) \in DOMAIN hist'
  BY <1>7, <1>9, SerialDecides
<1> QED
  BY <1>2, <1>10, <1>11 DEF Serial!Next, Releases

\* Every step of Rian is one of Ledger, or leaves the history alone.
LEMMA StepsAsLedger ==
  ASSUME SerialInv, [Next]_vars
  PROVE  [Serial!Next]_hist
<1>o. OrderInv /\ RowsOK(hist) /\ ProcInv
  BY DEF SerialInv, OrderInv, TypeInv
<1>1. CASE Added # {}
  <2>1. PICK p \in Procs : \E row : Adds(p, row)
    BY <1>o, <1>1, AddedFacts
  <2>2. PICK row : Adds(p, row)
    BY <2>1
  <2>3. CASE pc[p] = "insert" /\ row = BaselineRow
    <3>1. job[p].rank = 1 /\ DOMAIN hist = {}
      <4>1. job[p].rank = 1
        BY <1>o, <2>3 DEF ProcInv, GoodProc
      <4>2. \A s \in DOMAIN hist : s \in Nat \ {0} /\ s < job[p].rank
        BY <1>o, <2>2, FreshSees DEF Adds, Fresh, RowsOK
      <4> QED
        BY <4>1, <4>2
    <3>2. NextRank(hist) = 1
      BY <1>o, <2>2, <3>1, NextRankIsMine DEF Adds
    <3>3. Serial!Baseline /\ Serial!NextRank(hist) \in DOMAIN hist'
      BY <2>2, <2>3, <3>1, <3>2, SerialDecides DEF Adds, AddRow, Serial!Baseline, Serial!Record
    <3> QED
      BY <3>3 DEF Serial!Next
  <2>4. ASSUME job[p].todo # {}, pc[p] \in {"exec", "commit"}, NEW ok \in BOOLEAN,
               row = HistoryRow(Current(job[p]), ok), Transactional => ok
        PROVE  Serial!Next
    BY <2>2, <2>4, RecordsAsLedger
  <2> QED
    BY <2>2, <2>3, <2>4 DEF Adds
<1>2. CASE Added = {}
  <2>1. hist' = hist \/ hist' = Restrict(hist, Successful(hist))
    BY <1>o, <1>2, HistorySteps DEF Added, AddRow
  <2>2. Restrict(hist, Successful(hist)) = Serial!Restrict(hist, Serial!Successful(hist))
    BY SerialDecides DEF Restrict, Serial!Restrict
  <2> QED
    BY <2>1, <2>2 DEF Serial!Next, Serial!Repair
<1> QED
  BY <1>1, <1>2

-----------------------------------------------------------------------------
(* The theorems.                                                           *)

\* The decisions of every process stand until it has carried them out.
THEOREM DecisionsStand == ASSUME NoTwins PROVE Spec => []SerialInv
BY InitSerial, NextSerial, PTL DEF Spec

\* Rian implements Ledger: the history grows as if every command ran alone.
THEOREM ImplementsLedger == ASSUME NoTwins PROVE Spec => ActsSerially
<1>1. Init => Serial!Init
  BY DEF Init, Serial!Init
<1>2. SerialInv /\ [Next]_vars => [Serial!Next]_hist
  BY StepsAsLedger
<1>3. Spec => Serial!Spec
  BY <1>1, <1>2, DecisionsStand, PTL DEF Spec, Serial!Spec
<1> QED
  BY <1>3 DEF ActsSerially

\* A migrate that ends well has nothing left to do, whatever was recorded since it
\* read the history.
THEOREM OkMeansDone == ASSUME NoTwins PROVE Spec => OkMeansUpToDate
<1> DEFINE Step1 == \A p \in Procs :
                      (job[p].cmd = "migrate" /\ pc[p] # "idle" /\ outcome'[p] = "ok")
                        => Pending(job[p].migs, HistoryUpTo(p)) = {}
<1>1. ASSUME SerialInv, [Next]_vars PROVE Step1
  <2> SUFFICES ASSUME NEW p \in Procs, job[p].cmd = "migrate", pc[p] # "idle", outcome'[p] = "ok"
               PROVE  Pending(job[p].migs, HistoryUpTo(p)) = {}
    OBVIOUS
  <2>1. /\ Stands(hist, pc[p], job[p]) /\ outcome[p] = "running"
        /\ DOMAIN outcome = Procs
    BY <1>1 DEF SerialInv, OrderInv, TypeInv, ProcInv, GoodProc
  <2>2. PICK q \in Procs : \/ \E c \in Commands : Start(q, c)
                          \/ RefuseBaseline(q) \/ Step(q) \/ Crash(q)
    BY <1>1, <2>1 DEF Next, vars
  <2>3. q = p
    BY <2>1, <2>2 DEF Start, RefuseBaseline, Step, EnsureHistory, Resolve, ReadFails,
       ReadForMigrate, ReadForReport, ReadForBaseline, Prepare, ExecInTx, ExecAutocommit,
       RecordInTx, Commit, RecordAutocommit, InsertBaseline, DeleteFailed, Crash, Advance, Finish
  <2>4. pc[p] = "next" /\ job[p].todo = {}
    BY <2>1, <2>2, <2>3 DEF Stands, Start, RefuseBaseline, Step, EnsureHistory, Resolve, ReadFails,
       ReadForMigrate, ReadForReport, ReadForBaseline, Prepare, ExecInTx, ExecAutocommit,
       RecordInTx, Commit, RecordAutocommit, InsertBaseline, DeleteFailed, Crash, Advance, Finish
  <2>5. HistoryUpTo(p) = Seen(hist, job[p])
    BY DEF HistoryUpTo, Seen
  <2> QED
    BY <2>1, <2>4, <2>5 DEF Stands, Applying, Decided
<1>2. Spec => [][Step1]_vars
  BY <1>1, DecisionsStand, PTL DEF Spec
<1> QED
  BY <1>2 DEF OkMeansUpToDate

-----------------------------------------------------------------------------
(* Someone finishes.  As long as the history is not up to date with a      *)
(* release, a process is ahead of all others: nothing was recorded yet and *)
(* it has not read the history, or it has recorded the last migration or   *)
(* may still be the next to.  It cannot fail, since no statement of its    *)
(* migrations has run: that of a versioned one would be recorded, and that *)
(* of a repeatable one too, below a row of another release, which came     *)
(* after its own.                                                          *)

\* Nothing that was recorded keeps p from going on.
Winner(p) ==
  \/ pc[p] \in {"ensure", "resolve", "read"} /\ DOMAIN hist = {}
  \/ pc[p] \in Applying /\ job[p].rank \notin DOMAIN hist

Untouched == DOMAIN hist = {} /\ runs = 0 /\ \A p \in Procs : pc[p] = "idle"

ProgressInv ==
  /\ SerialInv /\ EffectsInv
  /\ Traced(hist)
  /\ UpToDate(hist) \/ Untouched \/ \E p \in Procs : Winner(p)

\* Nothing is wrong with an empty history.
LEMMA EmptyHistory ==
  ASSUME NEW rows, DOMAIN rows = {}, NEW migs
  PROVE  Problems(migs, rows) = {} /\ ~ OutOfOrder(migs, rows)
<1>1. Successful(rows) = {} /\ Versioned(rows) = {}
  BY DEF Successful, Versioned
<1>2. Problems(migs, rows) = {}
  BY <1>1 DEF Problems
<1>3. MaxAppliedVersion(rows) = NoVersion
  BY <1>1 DEF MaxAppliedVersion, Highest
<1> QED
  BY <1>2, <1>3 DEF OutOfOrder

\* Orderly deployments leave successful rows of migrations and no others.
LEMMA TracedRows ==
  ASSUME NEW rows, Traced(rows)
  PROVE  /\ Successful(rows) = DOMAIN rows
         /\ \A r \in DOMAIN rows : rows[r].type = "SQL"
         /\ BaselineVersion(rows) = NoVersion
<1>1. \A r \in DOMAIN rows : rows[r].type = "SQL" /\ rows[r].success = TRUE
  BY DEF Traced, HistoryRow
<1>2. Successful(rows) = DOMAIN rows
  BY <1>1 DEF Successful
<1>3. {r \in Versioned(rows) : rows[r].type = "BASELINE"} = {}
  BY <1>1 DEF Versioned, Successful
<1> QED
  BY <1>1, <1>2, <1>3 DEF BaselineVersion, Highest

\* A process that is ahead has seen all of the history, and has still to do what the
\* history says.
LEMMA AheadFacts ==
  ASSUME SerialInv, Traced(hist), NEW p \in Procs, pc[p] \in Applying,
         job[p].rank \notin DOMAIN hist
  PROVE  /\ job[p].migs \in Releases /\ job[p].migs \in Seq(Migration) /\ Ordered(job[p].migs)
         /\ job[p].todo = Pending(job[p].migs, hist)
         /\ \A r \in DOMAIN hist : r \in Nat /\ r < job[p].rank
         /\ \A r \in DOMAIN hist :
              ~ Unresolved(job[p].migs, hist[r]) /\ ~ Mismatched(job[p].migs, hist[r])
<1>1. /\ OrderInv /\ RowsOK(hist) /\ pc[p] \in Relying
      /\ job[p].migs \in Seq(Migration) /\ Ordered(job[p].migs)
  BY DEF SerialInv, OrderInv, TypeInv, ProcInv, GoodProc, Job, Applying, Relying
<1>2. Fresh(hist, job[p])
  BY <1>1, RelyingFacts
<1>3. Seen(hist, job[p]) = hist /\ DOMAIN hist = Successful(hist)
  BY <1>1, <1>2, FreshSees
<1>4. job[p].migs \in Releases /\ Decided(hist, job[p])
  BY <1>3 DEF SerialInv, Stands
<1> QED
  BY <1>1, <1>2, <1>3, <1>4 DEF Decided, Fresh, RowsOK

\* The versions in the history are versions of a release that validates.
LEMMA VersionsResolve ==
  ASSUME Traced(hist), NEW migs, NEW r,
         \A s \in DOMAIN hist : ~ Unresolved(migs, hist[s])
  PROVE  VersionsBelow(hist, r) \subseteq Versions(migs)
<1> SUFFICES ASSUME NEW s \in DOMAIN hist, hist[s].version \in Nat
             PROVE  hist[s].version \in Versions(migs)
  BY DEF VersionsBelow
<1>1. hist[s].type = "SQL"
  BY TracedRows
<1>2. \E i \in DOMAIN migs : migs[i].version = hist[s].version
  BY <1>1 DEF Unresolved
<1> QED
  BY <1>2 DEF Versions

\* The next migration of a process that is ahead, when it is repeatable, comes after
\* all versions of the release, and these are all there is.
LEMMA RepeatablesComeLast ==
  ASSUME SerialInv, Traced(hist), NEW p \in Procs, pc[p] \in Applying,
         job[p].rank \notin DOMAIN hist, job[p].todo # {}, Current(job[p]).type = "repeatable"
  PROVE  Versions(job[p].migs) = VersionsBelow(hist, job[p].rank)
<1> DEFINE migs == job[p].migs
           m == Min(job[p].todo)
<1>1. /\ migs \in Seq(Migration) /\ Ordered(migs) /\ job[p].todo = Pending(migs, hist)
      /\ \A r \in DOMAIN hist : r \in Nat /\ r < job[p].rank
      /\ \A r \in DOMAIN hist : ~ Unresolved(migs, hist[r])
  BY AheadFacts
<1>2. /\ m \in DOMAIN migs /\ Current(job[p]) = migs[m] /\ \A i \in job[p].todo : m <= i
      /\ m \in job[p].todo
  BY CurrentType DEF SerialInv, OrderInv, TypeInv, Current
<1>3. migs[m].version \notin Nat
  BY <1>1, <1>2, HistoryAssumption DEF Migration
<1>4. ASSUME NEW i \in DOMAIN migs, migs[i].version \in Nat
      PROVE  migs[i].version \in VersionsBelow(hist, job[p].rank)
  <2>1. i \in Nat /\ m \in Nat /\ migs[i] \in Migration /\ ~ (m < i)
    BY <1>1, <1>2, <1>3, <1>4 DEF Ordered
  <2>2. i # m
    BY <1>3, <1>4
  <2>3. i \notin job[p].todo
    BY <1>2, <2>1, <2>2
  <2>4. migs[i].type = "versioned"
    BY <1>4, <2>1, HistoryAssumption DEF Migration
  <2>5. VersionApplied(migs[i].version, hist)
    BY <1>1, <1>4, <2>3, <2>4, TracedRows DEF Pending, NeedsApply, BelowBaseline
  <2>6. PICK s \in DOMAIN hist : hist[s].version = migs[i].version
    BY <2>5 DEF VersionApplied, Successful
  <2> QED
    BY <1>1, <1>4, <2>6 DEF VersionsBelow
<1>5. VersionsBelow(hist, job[p].rank) \subseteq Versions(migs)
  BY <1>1, VersionsResolve
<1> HIDE DEF m, migs
<1>6. Versions(migs) \subseteq VersionsBelow(hist, job[p].rank)
  BY <1>4 DEF Versions
<1> QED
  BY <1>5, <1>6 DEF migs

\* What such a process records keeps the rows traceable.
LEMMA RecordedTraced ==
  ASSUME SerialInv, Traced(hist), NEW p \in Procs, pc[p] \in Applying, job[p].todo # {},
         job[p].rank \notin DOMAIN hist, AddRow(job[p].rank, HistoryRow(Current(job[p]), TRUE))
  PROVE  Traced(hist')
<1> DEFINE r == job[p].rank
<1>1. /\ job[p].migs \in Releases
      /\ \A s \in DOMAIN hist : s \in Nat /\ s < r
  BY AheadFacts
<1>2. Min(job[p].todo) \in DOMAIN job[p].migs
  BY CurrentType DEF SerialInv, OrderInv, TypeInv
<1>3. r \in Nat
  BY DEF SerialInv, OrderInv, TypeInv, ProcInv, Job
<1>4. /\ DOMAIN hist' = DOMAIN hist \cup {r}
      /\ hist'[r] = HistoryRow(Current(job[p]), TRUE)
      /\ \A s \in DOMAIN hist : hist'[s] = hist[s]
  BY DEF AddRow
<1> HIDE DEF r
<1>5. ASSUME NEW s \in DOMAIN hist' PROVE VersionsBelow(hist', s) = VersionsBelow(hist, s)
  <2>1. s \in Nat /\ s <= r
    BY <1>1, <1>3, <1>4
  <2>2. {t \in DOMAIN hist' : t < s} = {t \in DOMAIN hist : t < s}
    BY <1>1, <1>3, <1>4, <2>1
  <2> QED
    BY <1>4, <2>2 DEF VersionsBelow
<1>6. ASSUME NEW s \in DOMAIN hist'
      PROVE  \E migs \in Releases : \E i \in DOMAIN migs :
               /\ hist'[s] = HistoryRow(migs[i], TRUE)
               /\ migs[i].type = "repeatable" => Versions(migs) = VersionsBelow(hist', s)
  <2>1. CASE s = r
    <3>1. Current(job[p]).type = "repeatable"
            => Versions(job[p].migs) = VersionsBelow(hist', r)
      BY <1>4, <1>5, RepeatablesComeLast DEF r
    <3> QED
      BY <1>1, <1>2, <1>4, <2>1, <3>1 DEF Current
  <2>2. CASE s \in DOMAIN hist
    <3>1. hist'[s] = hist[s] /\ VersionsBelow(hist', s) = VersionsBelow(hist, s)
      BY <1>4, <1>5, <2>2
    <3> QED
      BY <2>2, <3>1 DEF Traced
  <2> QED
    BY <1>4, <2>1, <2>2
<1> QED
  BY <1>6 DEF Traced

\* No row records the content that a process which is ahead is about to apply.
LEMMA ContentIsNew ==
  ASSUME OneOwner, NoReverts, SerialInv, Traced(hist), NEW p \in Procs, pc[p] \in Applying,
         job[p].rank \notin DOMAIN hist, job[p].todo # {}, NEW r \in DOMAIN hist
  PROVE  hist[r].checksum # Current(job[p]).checksum
<1> DEFINE migs == job[p].migs
           m == Min(job[p].todo)
<1> SUFFICES ASSUME hist[r].checksum = Current(job[p]).checksum PROVE FALSE
  OBVIOUS
<1>1. /\ migs \in Releases /\ migs \in Seq(Migration) /\ RowsOK(hist)
      /\ job[p].todo = Pending(migs, hist)
      /\ \A s \in DOMAIN hist : ~ Unresolved(migs, hist[s])
  BY AheadFacts DEF SerialInv, OrderInv, TypeInv
<1>2. /\ m \in DOMAIN migs /\ Current(job[p]) = migs[m] /\ migs[m] \in Migration
      /\ NeedsApply(migs[m], hist)
  BY <1>1, CurrentType DEF SerialInv, OrderInv, TypeInv, Current, Pending
<1> HIDE DEF migs, m
<1>3. PICK f \in Releases : \E i \in DOMAIN f :
        /\ hist[r] = HistoryRow(f[i], TRUE)
        /\ f[i].type = "repeatable" => Versions(f) = VersionsBelow(hist, r)
  BY DEF Traced
<1>r. PICK i \in DOMAIN f :
        /\ hist[r] = HistoryRow(f[i], TRUE)
        /\ f[i].type = "repeatable" => Versions(f) = VersionsBelow(hist, r)
  BY <1>3
<1>4. /\ f[i].checksum = migs[m].checksum /\ f[i].type = migs[m].type
      /\ f[i].version = migs[m].version /\ f[i].description = migs[m].description
  <2>1. f[i].checksum = migs[m].checksum
    BY <1>2, <1>r DEF HistoryRow
  <2> QED
    BY <1>1, <1>2, <2>1 DEF OneOwner
<1>5. hist[r].version = migs[m].version /\ hist[r].description = migs[m].description
  BY <1>r, <1>4 DEF HistoryRow
<1>6. Successful(hist) = DOMAIN hist
  BY TracedRows
<1>7. CASE migs[m].type = "versioned"
  BY <1>2, <1>5, <1>6, <1>7 DEF NeedsApply, VersionApplied
<1>8. CASE migs[m].type = "repeatable"
  <2> DEFINE top == Max(RepeatableRows(migs[m].description, hist))
  <2>1. migs[m].version = NoVersion
    BY <1>2, <1>8 DEF Migration
  <2>2. r \in RepeatableRows(migs[m].description, hist)
    BY <1>5, <1>6, <2>1 DEF RepeatableRows
  <2>3. /\ top \in DOMAIN hist /\ r <= top
        /\ hist[top].version = NoVersion /\ hist[top].description = migs[m].description
    <3>1. top \in RepeatableRows(migs[m].description, hist) /\ r <= top
      BY <1>1, <2>2, LastRepeatable
    <3> HIDE DEF top
    <3> QED
      BY <1>6, <3>1 DEF RepeatableRows
  <2>4. hist[top].checksum # migs[m].checksum
    BY <1>2, <1>8, <2>2 DEF NeedsApply, RepeatableNeedsApply
  <2> HIDE DEF top
  <2>5. PICK g \in Releases : \E j \in DOMAIN g :
          /\ hist[top] = HistoryRow(g[j], TRUE)
          /\ g[j].type = "repeatable" => Versions(g) = VersionsBelow(hist, top)
    BY <2>3 DEF Traced
  <2>t. PICK j \in DOMAIN g :
          /\ hist[top] = HistoryRow(g[j], TRUE)
          /\ g[j].type = "repeatable" => Versions(g) = VersionsBelow(hist, top)
    BY <2>5
  <2>6. /\ g[j].description = migs[m].description /\ g[j].checksum = hist[top].checksum
        /\ g[j].version = NoVersion
    BY <2>3, <2>t DEF HistoryRow
  <2>7. g[j].type = "repeatable"
    <3>1. PICK files \in Disks : g = Resolved(files)
      BY DEF Releases
    <3>2. g \in Seq(Migration)
      BY <3>1, ResolvedFiles
    <3>3. g[j] \in Migration
      BY <3>2
    <3> QED
      BY <2>6, <3>3, HistoryAssumption DEF Migration
  <2>8. VersionsBelow(hist, r) \subseteq VersionsBelow(hist, top)
    <3>1. \A s \in DOMAIN hist : s \in Nat
      BY <1>1 DEF RowsOK
    <3> QED
      BY <2>3, <3>1 DEF VersionsBelow
  <2>9. VersionsBelow(hist, top) \subseteq Versions(migs)
    BY <1>1, VersionsResolve
  <2>10. Versions(f) \subseteq Versions(g) /\ Versions(g) \subseteq Versions(migs)
    BY <1>r, <1>4, <1>8, <2>t, <2>7, <2>8, <2>9
  <2>11. g[j].checksum = f[i].checksum
    BY <1>1, <1>2, <1>4, <1>8, <2>6, <2>7, <2>10 DEF NoReverts
  <2> QED
    BY <1>4, <2>4, <2>6, <2>11
<1> QED
  BY <1>2, <1>7, <1>8 DEF Migration

\* So none of its statements has taken effect.
LEMMA NothingToRedo ==
  ASSUME Transactional, OneOwner, NoReverts, SerialInv, EffectsInv, Traced(hist),
         NEW p \in Procs, pc[p] \in Applying, job[p].rank \notin DOMAIN hist, job[p].todo # {},
         NEW k \in 1..Stmts[Current(job[p]).checksum]
  PROVE  ran[Current(job[p]).checksum][k] = 0
<1> DEFINE c == Current(job[p]).checksum
<1>1. c \in Checksums
  BY CurrentType DEF SerialInv, OrderInv, TypeInv, Migration
<1>2. {r \in Successful(hist) : hist[r].checksum = c} = {}
  BY ContentIsNew DEF Successful
<1>3. Recorded(hist, c) = 0
  BY <1>2, FS_EmptySet DEF Recorded
<1> QED
  BY <1>1, <1>3 DEF EffectsInv

USE DEF Goto

\* A step moves one process.
LEMMA MovesOne ==
  ASSUME TypeInv, NEW p \in Procs,
         \/ \E c \in Commands : Start(p, c)
         \/ RefuseBaseline(p) \/ Step(p) \/ Crash(p)
  PROVE  OnlyMoves(p)
<1>1. DOMAIN job = Procs /\ DOMAIN pc = Procs
  BY DEF TypeInv, ProcInv
<1>2. CASE RefuseBaseline(p) \/ Crash(p) \/ \E c \in Commands : Start(p, c)
  BY <1>1, <1>2 DEF OnlyMoves, RefuseBaseline, Crash, Start, Finish
<1>3. CASE EnsureHistory(p) \/ Resolve(p) \/ ReadFails(p) \/ ReadForMigrate(p)
             \/ ReadForReport(p) \/ ReadForBaseline(p) \/ Prepare(p)
  BY <1>1, <1>3 DEF OnlyMoves, EnsureHistory, Resolve, ReadFails, ReadForMigrate,
                    ReadForReport, ReadForBaseline, Prepare, Finish
<1>4. CASE ExecInTx(p) \/ ExecAutocommit(p) \/ RecordInTx(p) \/ Commit(p)
             \/ RecordAutocommit(p) \/ InsertBaseline(p) \/ DeleteFailed(p)
  BY <1>1, <1>4 DEF OnlyMoves, ExecInTx, ExecAutocommit, RecordInTx, Commit, RecordAutocommit,
                    InsertBaseline, DeleteFailed, Finish, Advance
<1> QED
  BY <1>2, <1>3, <1>4 DEF Step

\* When the process that is ahead takes a step which records nothing, it stays ahead,
\* or it is done.
LEMMA WinnerGoesOn ==
  ASSUME Orderly, SerialInv, EffectsInv, Traced(hist), NEW p \in Procs, Winner(p),
         Step(p) \/ Crash(p), hist' = hist
  PROVE  Winner(p)' \/ UpToDate(hist)
<1>1. /\ TypeInv /\ DOMAIN job = Procs /\ DOMAIN pc = Procs
      /\ job[p] \in Job /\ pc[p] \in PC /\ GoodProc(pc[p], job[p], outcome[p])
  BY DEF SerialInv, OrderInv, TypeInv, ProcInv
<1>2. /\ \A fault : Fails(fault) => fault = "rerun"
      /\ Transactional /\ Commands = {"migrate"} /\ job[p].cmd \in {"migrate", "none"}
  BY <1>1 DEF Orderly, Fails, Job
<1>3. ASSUME pc'[p] \in Applying, job'[p].rank = job[p].rank, pc[p] \in Applying
      PROVE  Winner(p)'
  BY <1>3 DEF Winner, Applying
<1>4. CASE pc[p] = "ensure"
  <2>1. EnsureHistory(p)
    BY <1>2, <1>4 DEF Step, Resolve, ReadFails, ReadForMigrate, ReadForReport, ReadForBaseline, Prepare,
       ExecInTx, ExecAutocommit, RecordInTx, Commit, RecordAutocommit, InsertBaseline, DeleteFailed, Crash
  <2>2. pc'[p] = "resolve"
    BY <1>1, <1>2, <2>1 DEF EnsureHistory
  <2> QED
    BY <1>4, <2>2 DEF Winner, Applying
<1>5. CASE pc[p] = "resolve"
  <2>1. Resolve(p)
    BY <1>2, <1>5 DEF Step, EnsureHistory, ReadFails, ReadForMigrate, ReadForReport, ReadForBaseline, Prepare,
       ExecInTx, ExecAutocommit, RecordInTx, Commit, RecordAutocommit, InsertBaseline, DeleteFailed, Crash
  <2>2. pc'[p] = "read"
    BY <1>1, <1>2, <2>1 DEF Resolve
  <2> QED
    BY <1>5, <2>2 DEF Winner, Applying
<1>6. CASE pc[p] = "read"
  <2>1. ReadForMigrate(p) /\ DOMAIN hist = {}
    BY <1>2, <1>6 DEF Step, EnsureHistory, Resolve, ReadFails, ReadForReport, ReadForBaseline, Prepare,
       ExecInTx, ExecAutocommit, RecordInTx, Commit, RecordAutocommit, InsertBaseline, DeleteFailed, Crash,
       Winner, Applying
  <2>2. pc'[p] = "next"
    BY <1>1, <2>1, EmptyHistory DEF ReadForMigrate
  <2> QED
    BY <2>1, <2>2 DEF Winner, Applying
<1>7. CASE pc[p] = "next"
  <2>1. Prepare(p)
    BY <1>2, <1>7 DEF Step, EnsureHistory, Resolve, ReadFails, ReadForMigrate, ReadForReport, ReadForBaseline,
       ExecInTx, ExecAutocommit, RecordInTx, Commit, RecordAutocommit, InsertBaseline, DeleteFailed, Crash
  <2>2. CASE job[p].todo = {}
    <3>1. /\ job[p].migs \in Releases /\ Pending(job[p].migs, hist) = {}
          /\ \A r \in DOMAIN hist :
               ~ Unresolved(job[p].migs, hist[r]) /\ ~ Mismatched(job[p].migs, hist[r])
      BY <1>7, <2>2, AheadFacts DEF Winner, Applying
    <3>2. Problems(job[p].migs, hist) = {}
      BY <3>1, TracedRows DEF Problems
    <3> QED
      BY <3>1, <3>2 DEF UpToDate
  <2>3. CASE job[p].todo # {}
    <3>1. /\ Min(job[p].todo) \in DOMAIN job[p].migs
          /\ job[p].migs \in Releases
      BY <1>1, <1>7, <2>3, CurrentType, AheadFacts DEF Winner, Applying, TypeInv
    <3>2. Current(job[p]).checksum \notin Unresolvable
      BY <3>1 DEF Orderly, Current
    <3>3. pc'[p] = "exec" /\ job'[p].rank = job[p].rank
      BY <1>1, <2>1, <2>3, <3>2 DEF Prepare, Job
    <3> QED
      BY <1>3, <1>7, <3>3 DEF Applying
  <2> QED
    BY <2>2, <2>3
<1>8. CASE pc[p] = "exec"
  <2>1. ExecInTx(p) \/ RecordInTx(p)
    BY <1>2, <1>8 DEF Step, EnsureHistory, Resolve, ReadFails, ReadForMigrate, ReadForReport, ReadForBaseline,
       Prepare, ExecAutocommit, Commit, RecordAutocommit, InsertBaseline, DeleteFailed, Crash
  <2>2. job[p].todo # {} /\ job[p].rank \notin DOMAIN hist
    BY <1>1, <1>8 DEF GoodProc, Winner, Applying
  <2>3. CASE ExecInTx(p)
    <3>1. ~ StmtMayFail(job[p])
      <4> DEFINE c == Current(job[p]).checksum
      <4>1. c \in Checksums
        BY <1>1, <2>2, CurrentType DEF TypeInv, Migration
      <4>2. job[p].stmt \in 1..Stmts[c]
        BY <1>1, <2>3, <4>1, StmtsAssumption DEF ExecInTx, AllRun, Job
      <4>3. ran[c][job[p].stmt] = 0
        BY <1>2, <1>8, <2>2, <4>2, NothingToRedo DEF Orderly, Applying
      <4> QED
        BY <1>2, <4>3 DEF StmtMayFail
    <3>2. pc'[p] = "exec" /\ job'[p].rank = job[p].rank
      BY <1>1, <1>8, <2>3, <3>1 DEF ExecInTx, Job
    <3> QED
      BY <1>3, <1>8, <3>2 DEF Applying
  <2>4. CASE RecordInTx(p)
    BY <1>1, <1>2, <1>3, <1>8, <2>2, <2>4 DEF RecordInTx, KeyTaken, Applying
  <2> QED
    BY <2>1, <2>3, <2>4
<1>9. CASE pc[p] = "commit"
  <2>1. Commit(p)
    BY <1>2, <1>9 DEF Step, EnsureHistory, Resolve, ReadFails, ReadForMigrate, ReadForReport, ReadForBaseline,
       Prepare, ExecInTx, ExecAutocommit, RecordInTx, RecordAutocommit, InsertBaseline, DeleteFailed, Crash
  <2>2. job[p].rank \notin DOMAIN hist /\ job[p].rank \in DOMAIN hist'
    BY <1>2, <1>9, <2>1 DEF Winner, Applying, Commit, CommitEffect, AddRow
  <2> QED
    BY <2>2
<1> QED
  BY <1>4, <1>5, <1>6, <1>7, <1>8, <1>9 DEF Winner, Applying

\* In orderly deployments the history changes only when a process records a migration,
\* and that process is then ahead.
LEMMA RecordingAhead ==
  ASSUME Orderly, SerialInv, Traced(hist), [Next]_vars, hist' # hist
  PROVE  Traced(hist') /\ \E p \in Procs : Winner(p)'
<1>1. /\ OrderInv /\ TypeInv /\ DOMAIN job = Procs /\ DOMAIN pc = Procs
      /\ \A p \in Procs : /\ job[p] \in Job /\ GoodProc(pc[p], job[p], outcome[p])
                          /\ Stands(hist, pc[p], job[p])
  BY DEF SerialInv, OrderInv, TypeInv, ProcInv
<1>2. /\ \A fault : Fails(fault) => fault = "rerun"
      /\ Transactional /\ Commands = {"migrate"}
      /\ \A p \in Procs : job[p].cmd \in {"migrate", "none"}
  BY <1>1 DEF Orderly, Fails, Job
<1>3. PICK p \in Procs : Commit(p) \/ InsertBaseline(p) \/ DeleteFailed(p)
  BY <1>2, ZenonT(30) DEF Next, Step, Start, RefuseBaseline, EnsureHistory, Resolve, ReadFails, ReadForMigrate,
     ReadForReport, ReadForBaseline, Prepare, ExecInTx, ExecAutocommit, RecordInTx,
     RecordAutocommit, Crash, vars
<1>4. Commit(p)
  BY <1>1, <1>2, <1>3 DEF InsertBaseline, DeleteFailed, Stands
<1>5. /\ pc[p] \in Applying /\ job[p].todo # {} /\ job[p].rank \notin DOMAIN hist
      /\ AddRow(job[p].rank, HistoryRow(Current(job[p]), TRUE)) /\ Advance(p)
  BY <1>1, <1>2, <1>4 DEF Commit, CommitEffect, OrderInv, Exclusive, GoodProc, Applying
<1>6. Traced(hist')
  BY <1>5, RecordedTraced
<1>7. pc'[p] = "next" /\ job'[p].rank = job[p].rank + 1
  <2>1. job'[p] = [job[p] EXCEPT !.todo = @ \ {Min(@)}, !.rank = @ + 1] /\ pc'[p] = "next"
    BY <1>1, <1>5 DEF Advance
  <2> QED
    BY <1>1, <2>1 DEF Job
<1>8. job'[p].rank \notin DOMAIN hist'
  <2>1. \A r \in DOMAIN hist : r \in Nat /\ r < job[p].rank
    BY <1>5, AheadFacts
  <2>2. DOMAIN hist' = DOMAIN hist \cup {job[p].rank} /\ job[p].rank \in Nat
    BY <1>1, <1>5 DEF AddRow, Job
  <2> QED
    BY <1>7, <2>1, <2>2
<1> QED
  BY <1>6, <1>7, <1>8 DEF Winner, Applying

\* Initially nothing is recorded, or a release is deployed.
LEMMA InitProgress == ASSUME Orderly PROVE Init => ProgressInv
<1> SUFFICES ASSUME Init PROVE ProgressInv
  OBVIOUS
<1>1. SerialInv /\ EffectsInv
  BY InitSerial, InitEffects
<1>2. hist = <<>> \/ (Traced(hist) /\ UpToDate(hist))
  BY DEF Init, Orderly
<1>3. CASE hist = <<>>
  <2>1. DOMAIN hist = {}
    BY <1>3
  <2> QED
    BY <1>1, <2>1 DEF ProgressInv, Traced, Untouched, Init
<1> QED
  BY <1>1, <1>2, <1>3 DEF ProgressInv

\* Every step preserves the invariant.
LEMMA NextProgress == ASSUME Orderly, ProgressInv, [Next]_vars PROVE ProgressInv'
<1>1. SerialInv' /\ EffectsInv' /\ TypeInv
  BY NextSerial, NextEffects DEF Orderly, ProgressInv, SerialInv, OrderInv
<1>2. CASE hist' # hist
  BY <1>1, <1>2, RecordingAhead DEF ProgressInv
<1>3. CASE hist' = hist
  <2>1. Traced(hist')
    BY <1>3 DEF ProgressInv
  <2>2. UpToDate(hist) => UpToDate(hist')
    BY <1>3
  <2>3. ASSUME Untouched PROVE Untouched' \/ \E p \in Procs : Winner(p)'
    <3>1. CASE UNCHANGED vars
      BY <2>3, <3>1 DEF Untouched, vars
    <3>2. CASE Next
      <4>1. PICK p \in Procs : \E c \in Commands : Start(p, c)
        BY <2>3, <3>2, ZenonT(30) DEF Untouched, Next, Orderly, RefuseBaseline, Crash, Step, EnsureHistory, Resolve,
           ReadFails, ReadForMigrate, ReadForReport, ReadForBaseline, Prepare, ExecInTx, ExecAutocommit,
           RecordInTx, Commit, RecordAutocommit, InsertBaseline, DeleteFailed
      <4>2. pc'[p] = "ensure"
        BY <1>1, <4>1 DEF Start, TypeInv, ProcInv
      <4> QED
        BY <1>3, <2>3, <4>2 DEF Untouched, Winner
    <3> QED
      BY <3>1, <3>2
  <2>4. ASSUME NEW p \in Procs, Winner(p) PROVE UpToDate(hist') \/ \E q \in Procs : Winner(q)'
    <3>1. CASE UNCHANGED vars
      BY <2>4, <3>1 DEF Winner, vars
    <3>2. CASE Next
      <4>1. PICK q \in Procs : \/ \E c \in Commands : Start(q, c)
                              \/ RefuseBaseline(q) \/ Step(q) \/ Crash(q)
        BY <3>2 DEF Next
      <4>2. CASE q # p
        <5>1. pc'[p] = pc[p] /\ job'[p] = job[p]
          BY <1>1, <4>1, <4>2, MovesOne DEF OnlyMoves
        <5> QED
          BY <1>3, <2>4, <5>1 DEF Winner
      <4>3. CASE q = p
        <5>1. Step(p) \/ Crash(p)
          BY <2>4, <4>1, <4>3 DEF Winner, Applying, Start, RefuseBaseline
        <5> QED
          BY <1>3, <2>4, <5>1, WinnerGoesOn DEF ProgressInv
      <4> QED
        BY <4>2, <4>3
    <3> QED
      BY <3>1, <3>2
  <2> QED
    BY <1>1, <2>1, <2>2, <2>3, <2>4 DEF ProgressInv
<1> QED
  BY <1>2, <1>3

\* In orderly deployments not all migrates that run at once lose: when all have
\* ended, the schema is up to date with one of the releases.
THEOREM OneFinishes == ASSUME Orderly PROVE Spec => []SomeoneFinishes
<1>1. ProgressInv => SomeoneFinishes
  <2> SUFFICES ASSUME ProgressInv, runs > 0, \A p \in Procs : pc[p] = "idle"
               PROVE  \E files \in Disks : /\ Problems(Resolved(files), hist) = {}
                                           /\ Pending(Resolved(files), hist) = {}
    BY DEF SomeoneFinishes
  <2>1. ~ Untouched /\ \A p \in Procs : ~ Winner(p)
    BY DEF Untouched, Winner, Applying
  <2> QED
    BY <2>1 DEF ProgressInv, UpToDate, Releases
<1> QED
  BY <1>1, InitProgress, NextProgress, PTL DEF Spec

=============================================================================
