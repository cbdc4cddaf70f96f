----------------------------- MODULE OrderProofs -----------------------------
(***************************************************************************)
(* Theorems about Rian, for every value of its constants: any number of    *)
(* processes, any releases, histories and faults, PostgreSQL and MySQL.    *)
(* Here: type correctness, and why rian's optimistic scheme is safe, that  *)
(* is, the order of the history under every interleaving.                  *)
(*                                                                         *)
(* A process reads the history once and then records migration after       *)
(* migration at ranks it counts by itself.  The invariant: as long as it   *)
(* goes on, either the rank it will use next has been taken by a           *)
(* successful row, which is never removed, so that its next INSERT fails;  *)
(* or its view is still fresh, that is, nothing successful was recorded    *)
(* since it read.  All fresh processes aim at the same rank, so whoever    *)
(* records first makes all others stale.                                   *)
(***************************************************************************)
EXTENDS Rian, NatSets, SequenceTheorems

USE DEF Goto

-----------------------------------------------------------------------------
(* What resolve returns.                                                   *)

\* The order of scan.Scan, stated of versions: a repeatable has none.
Ordered(migs) ==
  \A i, j \in DOMAIN migs :
    (i < j /\ migs[j].version \in Nat)
      => migs[i].version \in Nat /\ migs[i].version < migs[j].version

\* Keying checksums by script keeps the migrations and their order.
LEMMA ResolvedFiles ==
  ASSUME NEW files \in Disks
  PROVE  Resolved(files) \in Seq(Migration) /\ Ordered(Resolved(files))
<1> DEFINE same(i) == {j \in DOMAIN files : files[j].script = files[i].script}
           res == Resolved(files)
<1>1. /\ files \in Seq(Migration)
      /\ DOMAIN files = 1..Len(files) /\ Len(files) \in Nat
      /\ \A i \in DOMAIN files : files[i] \in Migration
  BY DisksAssumption
<1>2. ASSUME NEW i \in DOMAIN files PROVE Max(same(i)) \in DOMAIN files
  <2>1. same(i) \in SUBSET Nat /\ same(i) # {}
    BY <1>1, <1>2
  <2>2. IsFiniteSet(same(i))
    <3>1. IsFiniteSet(1..Len(files)) /\ same(i) \in SUBSET (1..Len(files))
      BY <1>1, FS_Interval
    <3> QED
      BY <3>1, FS_Subset
  <2> QED
    BY <2>1, <2>2, MaxOfNats
<1>3. /\ DOMAIN res = 1..Len(files)
      /\ \A i \in DOMAIN files :
           res[i] = [files[i] EXCEPT !.checksum = files[Max(same(i))].checksum]
  BY <1>1 DEF Resolved
<1>4. ASSUME NEW i \in DOMAIN files
      PROVE  /\ res[i] \in Migration
             /\ res[i].version = files[i].version
             /\ res[i].version \in Nat <=> files[i].type = "versioned"
  <2>1. files[i] \in Migration /\ files[Max(same(i))].checksum \in Checksums
    BY <1>1, <1>2, <1>4 DEF Migration
  <2> QED
    BY <2>1, <1>3, <1>4, HistoryAssumption DEF Migration
<1>5. res \in [1..Len(files) -> Migration]
  BY <1>1, <1>3, <1>4 DEF Resolved
<1>6. res \in Seq(Migration)
  BY <1>1, <1>5
<1>7. Ordered(res)
  BY <1>1, <1>3, <1>4, DisksAssumption DEF Ordered
<1> QED
  BY <1>6, <1>7

-----------------------------------------------------------------------------
(* Type correctness.  TypeOK by itself is not inductive: the row a process *)
(* records is well formed because its job is, so the shape of the jobs     *)
(* goes into the invariant.                                                *)

Applying == {"next", "exec", "commit"}

\* A process at label l with job j whose command ended or goes on as o.
GoodProc(l, j, o) ==
  /\ l \in PC /\ j \in Job
  /\ o \in {"none", "running", "ok", "failed", "crashed"}
  /\ l = "idle" <=> o # "running"
  /\ l = "idle" => j = NoJob
  /\ j.todo \subseteq DOMAIN j.migs
  /\ Ordered(j.migs)
  /\ j.todo # {} => l \in Applying
  /\ l \in {"exec", "commit"} => j.todo # {}
  /\ l \in Applying => j.rank # 0
  /\ l = "insert" => j.rank = 1
  /\ l = "commit" => Transactional

ProcInv ==
  /\ pc \in [Procs -> PC]
  /\ job \in [Procs -> Job]
  /\ outcome \in [Procs -> {"none", "running", "ok", "failed", "crashed"}]
  /\ \A p \in Procs : GoodProc(pc[p], job[p], outcome[p])

RowsOK(rows) ==
  /\ IsFiniteSet(DOMAIN rows)
  /\ DOMAIN rows \subseteq Nat \ {0}
  /\ rows \in [DOMAIN rows -> Row]

RanOK == DOMAIN ran = Checksums /\ \A c \in Checksums : ran[c] \in [1..Stmts[c] -> Nat]

TypeInv ==
  /\ table \in BOOLEAN /\ RowsOK(hist) /\ RanOK
  /\ ProcInv
  /\ runs \in 0..MaxRuns

\* An idle process is well formed.
LEMMA NoJobGood ==
  ASSUME NEW o \in {"none", "ok", "failed", "crashed"}
  PROVE  GoodProc("idle", NoJob, o)
<1>1. NoJob \in Job
  BY DEF NoJob, Job
<1>2. Ordered(<<>>)
  BY DEF Ordered
<1> QED
  BY <1>1, <1>2 DEF GoodProc, NoJob, PC, Applying

\* One process goes on, the others stay.
LEMMA OneProcMoves ==
  ASSUME ProcInv, NEW p \in Procs, NEW l, NEW j, NEW o, GoodProc(l, j, o),
         pc' = [pc EXCEPT ![p] = l], job' = [job EXCEPT ![p] = j],
         outcome' = [outcome EXCEPT ![p] = o]
  PROVE  ProcInv'
<1>1. l \in PC /\ j \in Job /\ o \in {"none", "running", "ok", "failed", "crashed"}
  BY DEF GoodProc
<1>2. \A q \in Procs : GoodProc(pc[q], job[q], outcome[q])
  BY DEF ProcInv
<1>3. \A q \in Procs : GoodProc(pc'[q], job'[q], outcome'[q])
  BY <1>2 DEF ProcInv
<1> QED
  BY <1>1, <1>3 DEF ProcInv

\* A command may end at any time.
LEMMA FinishType ==
  ASSUME ProcInv, NEW p \in Procs, NEW o \in {"ok", "failed", "crashed"}, Finish(p, o)
  PROVE  ProcInv'
BY NoJobGood, OneProcMoves DEF Finish

\* Initial states are well formed.
LEMMA InitType == Init => TypeInv
<1> SUFFICES ASSUME Init PROVE TypeInv
  OBVIOUS
<1>1. RowsOK(hist)
  <2>1. CASE hist \in Histories
    BY <2>1, HistoriesAssumption DEF RowsOK
  <2>2. CASE hist = <<>>
    BY <2>2, FS_EmptySet DEF RowsOK
  <2> QED
    BY <2>1, <2>2 DEF Init
<1>2. RanOK
  <2>1. \A c \in Checksums : Recorded(hist, c) \in Nat
    <3> TAKE c \in Checksums
    <3>1. {r \in Successful(hist) : hist[r].checksum = c} \in SUBSET DOMAIN hist
      BY DEF Successful
    <3> QED
      BY <3>1, <1>1, FS_Subset, FS_CardinalityType DEF RowsOK, Recorded
  <2> QED
    BY <2>1 DEF Init, RanOK
<1>3. ProcInv
  <2>1. \A p \in Procs : GoodProc(pc[p], job[p], outcome[p])
    BY NoJobGood DEF Init
  <2> QED
    BY <2>1 DEF Init, ProcInv, GoodProc
<1> QED
  BY <1>1, <1>2, <1>3, MaxRunsAssumption DEF Init, TypeInv

\* An INSERT of a well-formed row keeps the history well formed.
LEMMA AddRowType ==
  ASSUME RowsOK(hist), NEW r \in Nat \ {0}, NEW row \in Row, AddRow(r, row)
  PROVE  RowsOK(hist')
<1>1. DOMAIN hist' = DOMAIN hist \cup {r}
  BY DEF AddRow
<1>2. IsFiniteSet(DOMAIN hist')
  BY <1>1, FS_AddElement DEF RowsOK
<1> QED
  BY <1>1, <1>2 DEF AddRow, RowsOK

\* The migration a process is at is one of its release, the first that is left.
LEMMA CurrentType ==
  ASSUME ProcInv, NEW p \in Procs, job[p].todo # {}
  PROVE  /\ Min(job[p].todo) \in job[p].todo
         /\ \A i \in job[p].todo : Min(job[p].todo) <= i
         /\ Min(job[p].todo) \in DOMAIN job[p].migs
         /\ Current(job[p]) \in Migration
         /\ \A ok \in BOOLEAN : HistoryRow(Current(job[p]), ok) \in Row
<1>1. /\ job[p].todo \in SUBSET Nat /\ job[p].migs \in Seq(Migration)
      /\ job[p].todo \subseteq DOMAIN job[p].migs
  BY DEF ProcInv, GoodProc, Job
<1>2. Min(job[p].todo) \in job[p].todo /\ \A i \in job[p].todo : Min(job[p].todo) <= i
  BY <1>1, MinOfNats
<1>3. Current(job[p]) \in Migration
  BY <1>1, <1>2 DEF Current
<1>4. \A ok \in BOOLEAN : HistoryRow(Current(job[p]), ok) \in Row
  BY <1>3 DEF HistoryRow, Row, Migration
<1> QED
  BY <1>1, <1>2, <1>3, <1>4

\* Going round the loop of Migrate keeps the job well formed.
LEMMA AdvanceType ==
  ASSUME ProcInv, NEW p \in Procs, pc[p] \in {"exec", "commit"}, Advance(p)
  PROVE  ProcInv'
<1> DEFINE j == [job[p] EXCEPT !.todo = @ \ {Min(@)}, !.rank = @ + 1]
<1>1. GoodProc(pc[p], job[p], outcome[p])
  BY DEF ProcInv
<1>2. outcome[p] = "running"
  BY <1>1 DEF GoodProc
<1>3. j \in Job /\ j.migs = job[p].migs /\ j.todo \subseteq job[p].todo /\ j.rank # 0
  <2> DEFINE todo == job[p].todo \ {Min(job[p].todo)}
  <2>1. /\ job[p] \in Job /\ todo \in SUBSET Nat /\ todo \subseteq job[p].todo
        /\ job[p].rank + 1 \in Nat /\ job[p].rank + 1 # 0
    BY <1>1 DEF GoodProc, Job
  <2>2. j = [job[p] EXCEPT !.todo = todo, !.rank = job[p].rank + 1]
    OBVIOUS
  <2> HIDE DEF todo, j
  <2> QED
    BY <2>1, <2>2 DEF Job
<1>4. GoodProc("next", j, "running")
  BY <1>1, <1>3 DEF GoodProc, PC, Applying
<1>5. /\ pc' = [pc EXCEPT ![p] = "next"]
      /\ job' = [job EXCEPT ![p] = j]
      /\ outcome' = [outcome EXCEPT ![p] = "running"]
  BY <1>2 DEF Advance, ProcInv
<1> QED
  BY <1>4, <1>5, OneProcMoves

\* An effect is counted.
LEMMA EffectType ==
  ASSUME RanOK, NEW c \in Checksums, NEW k \in 1..Stmts[c], Effect(c, k)
  PROVE  RanOK'
<1>1. ran[c] \in [1..Stmts[c] -> Nat] /\ ran[c][k] + 1 \in Nat
  <2> DEFINE K == 1..Stmts[c]
  <2>1. ran[c] \in [K -> Nat] /\ k \in K
    BY DEF RanOK
  <2> HIDE DEF K
  <2>2. ran[c][k] \in Nat
    BY <2>1
  <2> QED
    BY <2>1, <2>2 DEF K
<1>2. [ran[c] EXCEPT ![k] = ran[c][k] + 1] \in [1..Stmts[c] -> Nat]
  BY <1>1
<1>3. /\ DOMAIN ran' = Checksums
      /\ ran'[c] = [ran[c] EXCEPT ![k] = ran[c][k] + 1]
      /\ \A d \in Checksums \ {c} : ran'[d] = ran[d]
  BY DEF RanOK, Effect
<1> QED
  BY <1>2, <1>3 DEF RanOK

\* A command goes on at label l with job j.
LEMMA GoOnType ==
  ASSUME ProcInv, NEW p \in Procs, pc[p] # "idle",
         NEW l \in PC \ {"idle"}, NEW j, GoodProc(l, j, "running"),
         pc' = [pc EXCEPT ![p] = l], job' = [job EXCEPT ![p] = j], outcome' = outcome
  PROVE  ProcInv'
<1>1. outcome[p] = "running" /\ outcome = [outcome EXCEPT ![p] = "running"]
  BY DEF ProcInv, GoodProc
<1> QED
  BY <1>1, OneProcMoves

\* Every step keeps the state well formed.
LEMMA NextType == TypeInv /\ [Next]_vars => TypeInv'
<1> SUFFICES ASSUME TypeInv, [Next]_vars PROVE TypeInv'
  OBVIOUS
<1>0. \A q \in Procs : GoodProc(pc[q], job[q], outcome[q])
  BY DEF TypeInv, ProcInv
<1>f. ASSUME NEW q \in Procs, NEW o \in {"ok", "failed", "crashed"}, Finish(q, o)
      PROVE  ProcInv'
  BY <1>f, FinishType DEF TypeInv
<1>1. ASSUME NEW p \in Procs, NEW c \in Commands, Start(p, c) PROVE TypeInv'
  <2> DEFINE j == [NoJob EXCEPT !.cmd = c]
  <2>1. GoodProc("ensure", j, "running")
    <3>1. NoJob \in Job /\ Ordered(<<>>)
      BY DEF NoJob, Job, Ordered
    <3>2. j \in Job /\ j.migs = <<>> /\ j.todo = {}
      BY <3>1 DEF NoJob, Job
    <3> HIDE DEF j
    <3> QED
      BY <3>1, <3>2 DEF GoodProc, PC, Applying
  <2>2. ProcInv'
    BY <1>1, <2>1, OneProcMoves DEF Start, TypeInv
  <2>3. runs' \in 0..MaxRuns
    BY <1>1, MaxRunsAssumption DEF Start, TypeInv
  <2> QED
    BY <1>1, <2>2, <2>3 DEF Start, TypeInv, RanOK
<1>2. ASSUME NEW p \in Procs, RefuseBaseline(p) PROVE TypeInv'
  <2>1. runs' \in 0..MaxRuns
    BY <1>2, MaxRunsAssumption DEF RefuseBaseline, TypeInv
  <2> QED
    BY <1>2, <1>f, <2>1 DEF RefuseBaseline, TypeInv, RanOK
<1>3. ASSUME NEW p \in Procs, EnsureHistory(p) PROVE TypeInv'
  <2>1. ASSUME NEW l \in {"read", "delete", "resolve"}, Goto(p, l), UNCHANGED <<job, outcome>>
        PROVE  ProcInv'
    <3>1. GoodProc(l, job[p], "running") /\ job = [job EXCEPT ![p] = job[p]]
      BY <1>0, <1>3 DEF EnsureHistory, GoodProc, PC, Applying, TypeInv, ProcInv
    <3> QED
      BY <1>3, <2>1, <3>1, GoOnType DEF EnsureHistory, TypeInv, PC
  <2>2. ProcInv'
    BY <1>3, <2>1, <1>f DEF EnsureHistory
  <2> QED
    BY <1>3, <2>2 DEF EnsureHistory, TypeInv, RanOK
<1>4. ASSUME NEW p \in Procs, Resolve(p) PROVE TypeInv'
  <2>1. ASSUME NEW files \in Disks, job' = [job EXCEPT ![p].migs = Resolved(files)],
               Goto(p, "read"), UNCHANGED outcome
        PROVE  ProcInv'
    <3> DEFINE j == [job[p] EXCEPT !.migs = Resolved(files)]
    <3>1. j.todo = {} /\ j \in Job /\ Ordered(j.migs)
      BY <1>0, <1>4, ResolvedFiles DEF Resolve, GoodProc, Job, Applying
    <3>2. GoodProc("read", j, "running")
      BY <3>1 DEF GoodProc, PC, Applying
    <3>3. job' = [job EXCEPT ![p] = j]
      BY <2>1
    <3> QED
      BY <1>4, <2>1, <3>2, <3>3, GoOnType DEF Resolve, TypeInv, PC
  <2>2. ProcInv'
    BY <1>4, <2>1, <1>f DEF Resolve
  <2> QED
    BY <1>4, <2>2 DEF Resolve, TypeInv, RanOK
<1>5. ASSUME NEW p \in Procs, ReadFails(p) PROVE TypeInv'
  BY <1>5, <1>f DEF ReadFails, TypeInv, RanOK
<1>6. ASSUME NEW p \in Procs, ReadForMigrate(p) PROVE TypeInv'
  <2> DEFINE t == Pending(job[p].migs, hist)
             r == NextRank(hist)
             j == [job[p] EXCEPT !.todo = t, !.rank = r]
  <2>1. ASSUME job' = [job EXCEPT ![p].todo = t, ![p].rank = r],
               Goto(p, "next"), UNCHANGED outcome
        PROVE  ProcInv'
    <3>1. t \subseteq DOMAIN job[p].migs /\ t \in SUBSET Nat
      BY <1>0 DEF Pending, GoodProc, Job
    <3>2. r \in Nat /\ r # 0
      <4>1. DOMAIN hist \cup {0} \in SUBSET Nat /\ IsFiniteSet(DOMAIN hist \cup {0})
        BY FS_AddElement DEF TypeInv, RowsOK
      <4> QED
        BY <4>1, MaxOfNats DEF NextRank
    <3>3. job' = [job EXCEPT ![p] = j]
      BY <2>1
    <3> HIDE DEF t, r
    <3>4. j \in Job /\ j.migs = job[p].migs /\ j.todo = t /\ j.rank = r
      <4>1. job[p] \in Job
        BY <1>0 DEF GoodProc
      <4> QED
        BY <3>1, <3>2, <4>1 DEF Job
    <3> HIDE DEF j
    <3>5. GoodProc("next", j, "running")
      BY <1>0, <3>1, <3>2, <3>4 DEF GoodProc, PC, Applying
    <3> QED
      BY <1>6, <2>1, <3>3, <3>5, GoOnType DEF ReadForMigrate, TypeInv, PC
  <2>2. ProcInv'
    BY <1>6, <2>1, <1>f DEF ReadForMigrate
  <2> QED
    BY <1>6, <2>2 DEF ReadForMigrate, TypeInv, RanOK
<1>7. ASSUME NEW p \in Procs, ReadForReport(p) PROVE TypeInv'
  BY <1>7, <1>f DEF ReadForReport, TypeInv, RanOK
<1>8. ASSUME NEW p \in Procs, ReadForBaseline(p) PROVE TypeInv'
  <2>1. ASSUME job' = [job EXCEPT ![p].rank = 1], Goto(p, "insert"), UNCHANGED outcome
        PROVE  ProcInv'
    <3> DEFINE j == [job[p] EXCEPT !.rank = 1]
    <3>1. GoodProc("insert", j, "running")
      BY <1>0, <1>8 DEF ReadForBaseline, GoodProc, Job, PC, Applying
    <3>2. job' = [job EXCEPT ![p] = j]
      BY <2>1
    <3> QED
      BY <1>8, <2>1, <3>1, <3>2, GoOnType DEF ReadForBaseline, TypeInv, PC
  <2>2. ProcInv'
    BY <1>8, <2>1, <1>f DEF ReadForBaseline
  <2> QED
    BY <1>8, <2>2 DEF ReadForBaseline, TypeInv, RanOK
<1>9. ASSUME NEW p \in Procs, Prepare(p) PROVE TypeInv'
  <2>1. ASSUME job[p].todo # {}, job' = [job EXCEPT ![p].stmt = 1],
               Goto(p, "exec"), UNCHANGED outcome
        PROVE  ProcInv'
    <3> DEFINE j == [job[p] EXCEPT !.stmt = 1]
    <3>1. /\ j \in Job /\ j.migs = job[p].migs /\ j.todo = job[p].todo
          /\ j.rank = job[p].rank
      BY <1>0 DEF GoodProc, Job
    <3>2. job' = [job EXCEPT ![p] = j]
      BY <2>1
    <3> HIDE DEF j
    <3>3. GoodProc("exec", j, "running")
      BY <1>0, <1>9, <2>1, <3>1 DEF Prepare, GoodProc, PC, Applying
    <3> QED
      BY <1>9, <2>1, <3>2, <3>3, GoOnType DEF Prepare, TypeInv, PC
  <2>2. ProcInv'
    BY <1>9, <2>1, <1>f DEF Prepare
  <2> QED
    BY <1>9, <2>2 DEF Prepare, TypeInv, RanOK
<1>c. ASSUME NEW p \in Procs, pc[p] \in {"exec", "commit"}
      PROVE  /\ job[p].rank \in Nat \ {0} /\ job[p].todo # {} /\ outcome[p] = "running"
             /\ Current(job[p]) \in Migration /\ Current(job[p]).checksum \in Checksums
             /\ \A ok \in BOOLEAN : HistoryRow(Current(job[p]), ok) \in Row
  <2>1. job[p].rank \in Nat \ {0} /\ job[p].todo # {} /\ outcome[p] = "running"
    BY <1>0, <1>c DEF GoodProc, Applying, Job
  <2>2. Current(job[p]) \in Migration /\ \A ok \in BOOLEAN : HistoryRow(Current(job[p]), ok) \in Row
    BY <2>1, CurrentType DEF TypeInv
  <2> QED
    BY <2>1, <2>2 DEF Migration
<1>s. ASSUME NEW p \in Procs, pc[p] = "exec", ~ AllRun(job[p])
      PROVE  job[p].stmt \in 1..Stmts[Current(job[p]).checksum]
  BY <1>0, <1>c, <1>s, StmtsAssumption DEF AllRun, GoodProc, Job
<1>10. ASSUME NEW p \in Procs, ExecInTx(p) PROVE TypeInv'
  <2>1. ASSUME job' = [job EXCEPT ![p].stmt = @ + 1], UNCHANGED <<pc, outcome>>
        PROVE  ProcInv'
    <3> DEFINE j == [job[p] EXCEPT !.stmt = @ + 1]
    <3>1. /\ j \in Job /\ j.migs = job[p].migs /\ j.todo = job[p].todo
          /\ j.rank = job[p].rank
      BY <1>0 DEF GoodProc, Job
    <3>2. job' = [job EXCEPT ![p] = j] /\ pc' = [pc EXCEPT ![p] = "exec"]
      BY <1>10, <2>1 DEF ExecInTx, TypeInv, ProcInv
    <3> HIDE DEF j
    <3>3. GoodProc("exec", j, "running")
      BY <1>0, <1>c, <1>10, <2>1, <3>1 DEF ExecInTx, GoodProc, PC, Applying
    <3> QED
      BY <1>10, <2>1, <3>2, <3>3, GoOnType DEF ExecInTx, TypeInv, PC
  <2>2. ProcInv'
    BY <1>10, <2>1, <1>f DEF ExecInTx
  <2> QED
    BY <1>10, <2>2 DEF ExecInTx, TypeInv, RanOK
<1>11. ASSUME NEW p \in Procs, ExecAutocommit(p) PROVE TypeInv'
  <2> DEFINE c == Current(job[p]).checksum
             k == [job[p] EXCEPT !.stmt = @ + 1]
             f == [job[p] EXCEPT !.failed = TRUE]
  <2>1. RanOK'
    <3>1. CASE Effect(c, job[p].stmt)
      BY <1>11, <1>c, <1>s, <3>1, EffectType DEF ExecAutocommit, TypeInv
    <3>2. CASE UNCHANGED ran
      BY <3>2 DEF TypeInv, RanOK
    <3> QED
      BY <1>11, <3>1, <3>2 DEF ExecAutocommit
  <2>2. ASSUME NEW j \in {k, f}, job' = [job EXCEPT ![p] = j]
        PROVE  ProcInv'
    <3>1. /\ j \in Job /\ j.migs = job[p].migs /\ j.todo = job[p].todo
          /\ j.rank = job[p].rank
      <4>0. job[p] \in Job
        BY <1>0 DEF GoodProc
      <4>1. k \in Job /\ k.migs = job[p].migs /\ k.todo = job[p].todo /\ k.rank = job[p].rank
        BY <4>0 DEF Job
      <4>2. f \in Job /\ f.migs = job[p].migs /\ f.todo = job[p].todo /\ f.rank = job[p].rank
        BY <4>0 DEF Job
      <4> HIDE DEF k, f
      <4> QED
        BY <2>2, <4>1, <4>2
    <3>2. pc' = [pc EXCEPT ![p] = "exec"] /\ outcome' = outcome /\ pc[p] = "exec"
      BY <1>11 DEF ExecAutocommit, TypeInv, ProcInv
    <3> HIDE DEF k, f
    <3>3. GoodProc("exec", j, "running")
      BY <1>0, <1>c, <3>1, <3>2 DEF GoodProc, PC, Applying
    <3> QED
      BY <2>2, <3>2, <3>3, GoOnType DEF TypeInv, PC
  <2>3. ProcInv'
    <3>1. job' = [job EXCEPT ![p] = k] \/ job' = [job EXCEPT ![p] = f]
      BY <1>11 DEF ExecAutocommit
    <3> QED
      BY <2>2, <3>1
  <2> QED
    BY <1>11, <2>1, <2>3 DEF ExecAutocommit, TypeInv
<1>12. ASSUME NEW p \in Procs, RecordInTx(p) PROVE TypeInv'
  <2>1. ASSUME Goto(p, "commit"), UNCHANGED <<job, outcome>>
        PROVE  ProcInv'
    <3>1. GoodProc("commit", job[p], "running") /\ job = [job EXCEPT ![p] = job[p]]
      BY <1>0, <1>c, <1>12 DEF RecordInTx, GoodProc, PC, Applying, TypeInv, ProcInv
    <3> QED
      BY <1>12, <2>1, <3>1, GoOnType DEF RecordInTx, TypeInv, PC
  <2>2. ProcInv'
    BY <1>12, <2>1, <1>f DEF RecordInTx
  <2> QED
    BY <1>12, <2>2 DEF RecordInTx, TypeInv, RanOK
<1>13. ASSUME NEW p \in Procs, Commit(p) PROVE TypeInv'
  <2>1. ProcInv'
    BY <1>13, <1>f, AdvanceType DEF Commit, TypeInv
  <2>2. ASSUME CommitEffect(p) PROVE RowsOK(hist') /\ RanOK'
    <3> DEFINE c == Current(job[p]).checksum
    <3>1. RowsOK(hist')
      BY <1>13, <1>c, <2>2, AddRowType DEF Commit, CommitEffect, TypeInv
    <3>2. c \in Checksums /\ ran[c] \in [1..Stmts[c] -> Nat]
      BY <1>13, <1>c DEF Commit, TypeInv, RanOK
    <3>3. ran' = [ran EXCEPT ![c] = [i \in 1..Stmts[c] |-> ran[c][i] + 1]]
      BY <2>2 DEF CommitEffect
    <3> HIDE DEF c
    <3>4. [i \in 1..Stmts[c] |-> ran[c][i] + 1] \in [1..Stmts[c] -> Nat]
      <4> DEFINE K == 1..Stmts[c]
      <4>1. ran[c] \in [K -> Nat]
        BY <3>2
      <4> HIDE DEF K
      <4>2. [i \in K |-> ran[c][i] + 1] \in [K -> Nat]
        BY <4>1
      <4> QED
        BY <4>2 DEF K
    <3>5. RanOK'
      BY <3>2, <3>3, <3>4 DEF TypeInv, RanOK
    <3> QED
      BY <3>1, <3>5
  <2>3. RowsOK(hist') /\ RanOK'
    BY <1>13, <2>2 DEF Commit, TypeInv, RanOK
  <2> QED
    BY <1>13, <2>1, <2>3 DEF Commit, TypeInv
<1>14. ASSUME NEW p \in Procs, RecordAutocommit(p) PROVE TypeInv'
  <2> DEFINE row == HistoryRow(Current(job[p]), ~ job[p].failed)
  <2>1. ProcInv'
    BY <1>14, <1>f, AdvanceType DEF RecordAutocommit, TypeInv
  <2>2. row \in Row
    BY <1>0, <1>14, <1>c DEF RecordAutocommit, GoodProc, Job
  <2>3. RowsOK(hist')
    <3>1. ASSUME AddRow(job[p].rank, row) PROVE RowsOK(hist')
      BY <1>14, <1>c, <2>2, <3>1, AddRowType DEF RecordAutocommit, TypeInv
    <3> QED
      BY <1>14, <3>1 DEF RecordAutocommit, TypeInv
  <2> QED
    BY <1>14, <2>1, <2>3 DEF RecordAutocommit, TypeInv, RanOK
<1>15. ASSUME NEW p \in Procs, InsertBaseline(p) PROVE TypeInv'
  <2>1. ProcInv'
    BY <1>15, <1>f DEF InsertBaseline
  <2>2. job[p].rank \in Nat \ {0} /\ BaselineRow \in Row
    <3>1. job[p].rank = 1
      BY <1>0, <1>15 DEF InsertBaseline, GoodProc
    <3>2. BaselineRow \in Row
      BY BaselineAssumption DEF BaselineRow, Row
    <3> QED
      BY <3>1, <3>2
  <2>3. RowsOK(hist')
    BY <1>15, <2>2, AddRowType DEF InsertBaseline, TypeInv
  <2> QED
    BY <1>15, <2>1, <2>3 DEF InsertBaseline, TypeInv, RanOK
<1>16. ASSUME NEW p \in Procs, DeleteFailed(p) PROVE TypeInv'
  <2>1. ProcInv'
    BY <1>16, <1>f DEF DeleteFailed
  <2>2. RowsOK(Restrict(hist, Successful(hist)))
    BY FS_Subset DEF TypeInv, RowsOK, Restrict, Successful
  <2> QED
    BY <1>16, <2>1, <2>2 DEF DeleteFailed, TypeInv, RanOK
<1>17. ASSUME NEW p \in Procs, Crash(p) PROVE TypeInv'
  BY <1>17, <1>f DEF Crash, TypeInv, RanOK
<1>18. CASE UNCHANGED vars
  BY <1>18 DEF vars, TypeInv, RanOK, ProcInv
<1> QED
  BY <1>1, <1>2, <1>3, <1>4, <1>5, <1>6, <1>7, <1>8, <1>9, <1>10, <1>11, <1>12,
     <1>13, <1>14, <1>15, <1>16, <1>17, <1>18 DEF Next, Step

\* The state is well formed in every reachable state.
THEOREM TypeCorrect == Spec => []TypeOK
<1>1. TypeInv => TypeOK
  BY DEF TypeInv, TypeOK, RowsOK, RanOK, ProcInv, GoodProc
<1>2. Spec => []TypeInv
  BY InitType, NextType, PTL DEF Spec
<1> QED
  BY <1>1, <1>2, PTL

-----------------------------------------------------------------------------
(* The optimistic scheme.                                                  *)

\* The labels at which a process relies on what it read.
Relying == {"next", "exec", "commit", "insert"}

\* A job's view of the history is up to date.
Fresh(rows, j) ==
  /\ \A s \in Successful(rows) : s < j.rank
  /\ j.rank = 1 \/ j.rank - 1 \in Successful(rows)
  /\ \A f \in DOMAIN rows \ Successful(rows) : f = j.rank
  /\ \A s \in Successful(rows) : rows[s].version = BadVersion => rows[s].type = "BASELINE"
  /\ \A s \in Successful(rows) : \A i \in j.todo :
       (rows[s].version \in Nat /\ j.migs[i].version \in Nat)
         => rows[s].version < j.migs[i].version

Optimistic(rows, j) == j.rank \in Successful(rows) \/ Fresh(rows, j)

\* At most one transaction holds a rank, and it is not in the table yet.
Exclusive ==
  \A p \in Procs : pc[p] = "commit" =>
    /\ job[p].rank \notin DOMAIN hist
    /\ \A q \in Procs \ {p} : ~ (pc[q] = "commit" /\ job[q].rank = job[p].rank)

OrderInv ==
  /\ TypeInv
  /\ \A p \in Procs : pc[p] \in Relying => Optimistic(hist, job[p])
  /\ Exclusive

-----------------------------------------------------------------------------
(* Lemmas about views.                                                     *)

\* Two fresh views aim at the same rank.
LEMMA SameRank ==
  ASSUME NEW rows, DOMAIN rows \subseteq Nat \ {0}, NEW j, NEW k,
         j.rank \in Nat \ {0}, k.rank \in Nat \ {0}, Fresh(rows, j), Fresh(rows, k)
  PROVE  j.rank = k.rank
BY DEF Fresh, Successful

\* A successful row recorded from a fresh view makes every other view stale.
LEMMA OthersStale ==
  ASSUME DOMAIN hist \subseteq Nat \ {0}, NEW j, NEW k,
         j.rank \in Nat \ {0}, k.rank \in Nat \ {0},
         j.rank \notin DOMAIN hist, Fresh(hist, j), Optimistic(hist, k),
         NEW row, row.success, AddRow(j.rank, row)
  PROVE  k.rank \in Successful(hist')
<1>1. Successful(hist') = Successful(hist) \cup {j.rank}
  BY DEF AddRow, Successful
<1> QED
  BY <1>1, SameRank DEF Optimistic

\* A failed row recorded from a fresh view leaves the others as they are.
LEMMA FailedRowKeepsViews ==
  ASSUME DOMAIN hist \subseteq Nat \ {0}, NEW j, NEW k,
         j.rank \in Nat \ {0}, k.rank \in Nat \ {0},
         j.rank \notin DOMAIN hist, Fresh(hist, j), Optimistic(hist, k),
         NEW row, ~ row.success, AddRow(j.rank, row)
  PROVE  Optimistic(hist', k)
<1>1. /\ Successful(hist') = Successful(hist)
      /\ \A s \in Successful(hist) : hist'[s] = hist[s]
      /\ DOMAIN hist' = DOMAIN hist \cup {j.rank}
  BY DEF AddRow, Successful
<1>2. CASE k.rank \in Successful(hist)
  BY <1>1, <1>2 DEF Optimistic
<1>3. CASE Fresh(hist, k)
  <2>1. j.rank = k.rank
    BY <1>3, SameRank
  <2>2. Fresh(hist', k)
    BY <1>1, <1>3, <2>1 DEF Fresh
  <2> QED
    BY <2>2 DEF Optimistic
<1> QED
  BY <1>2, <1>3 DEF Optimistic

\* Removing failed rows leaves every view as it is.
LEMMA RepairKeepsViews ==
  ASSUME NEW k, Optimistic(hist, k), hist' = Restrict(hist, Successful(hist))
  PROVE  Optimistic(hist', k)
<1>1. /\ Successful(hist') = Successful(hist) /\ DOMAIN hist' = Successful(hist)
      /\ \A s \in Successful(hist) : hist'[s] = hist[s]
  BY DEF Restrict, Successful
<1> QED
  BY <1>1 DEF Optimistic, Fresh

\* A process that records its migration keeps a fresh view.
LEMMA OwnViewFresh ==
  ASSUME TypeInv, NEW p \in Procs, job[p].todo # {}, job[p].rank \in Nat \ {0},
         job[p].rank \notin DOMAIN hist, Fresh(hist, job[p]),
         AddRow(job[p].rank, HistoryRow(Current(job[p]), TRUE)),
         NEW j, j.migs = job[p].migs, j.rank = job[p].rank + 1,
         j.todo = job[p].todo \ {Min(job[p].todo)}
  PROVE  Fresh(hist', j)
<1> DEFINE r == job[p].rank
           m == Min(job[p].todo)
           migs == job[p].migs
<1>1. /\ m \in job[p].todo /\ m \in DOMAIN migs
      /\ \A i \in job[p].todo : m <= i
      /\ Current(job[p]) = migs[m]
  BY CurrentType DEF TypeInv, Current
<1>2. /\ job[p].todo \subseteq DOMAIN migs /\ DOMAIN migs \subseteq Nat
      /\ migs \in Seq(Migration) /\ Ordered(migs)
  BY DEF TypeInv, ProcInv, GoodProc, Job
<1>3. DOMAIN hist \subseteq Nat \ {0}
  BY DEF TypeInv, RowsOK
<1>4. /\ Successful(hist') = Successful(hist) \cup {r}
      /\ DOMAIN hist' = DOMAIN hist \cup {r}
      /\ \A s \in Successful(hist) : hist'[s] = hist[s]
      /\ hist'[r].version = migs[m].version
  BY <1>1 DEF AddRow, Successful, HistoryRow
<1>5. migs[m].version # BadVersion
  BY <1>1, <1>2, HistoryAssumption DEF Migration
<1>6. \A i \in j.todo : migs[i].version \in Nat /\ migs[m].version \in Nat
                          => migs[m].version < migs[i].version
  <2>1. migs \in Seq(Migration) /\ j.todo \subseteq DOMAIN migs /\ DOMAIN migs \subseteq Nat
    BY <1>1, <1>2
  <2>2. m \in DOMAIN migs /\ \A i \in j.todo : m < i
    BY <1>1, <1>2
  <2> QED
    BY <1>2, <2>1, <2>2 DEF Ordered
<1>7. \A s \in Successful(hist) : s < r /\ s \in Nat
  BY <1>3 DEF Fresh, Successful
<1>8. DOMAIN hist = Successful(hist)
  BY DEF Fresh, Successful
<1> HIDE DEF m, r, migs
<1>9. \A s \in Successful(hist') : s < j.rank
  BY <1>4, <1>7 DEF r
<1>10. j.rank - 1 \in Successful(hist')
  BY <1>4 DEF r
<1>11. DOMAIN hist' \ Successful(hist') = {}
  BY <1>4, <1>8
<1>12. \A s \in Successful(hist') : hist'[s].version = BadVersion => hist'[s].type = "BASELINE"
  BY <1>4, <1>5 DEF Fresh
<1>13. ASSUME NEW s \in Successful(hist'), NEW i \in j.todo,
              hist'[s].version \in Nat, j.migs[i].version \in Nat
       PROVE  hist'[s].version < j.migs[i].version
  <2>1. CASE s = r
    BY <1>4, <1>6, <1>13, <2>1 DEF migs
  <2>2. CASE s \in Successful(hist)
    BY <1>4, <1>13, <2>2 DEF Fresh, migs
  <2> QED
    BY <1>4, <2>1, <2>2
<1> QED
  BY <1>9, <1>10, <1>11, <1>12, <1>13 DEF Fresh

\* The view of a migrate that has just read the history and found nothing wrong.
LEMMA ReadViewFresh ==
  ASSUME TypeInv, NEW p \in Procs, NEW j, j.migs = job[p].migs,
         Problems(j.migs, hist) = {}, ~ OutOfOrder(j.migs, hist),
         j.todo = Pending(j.migs, hist), j.rank = NextRank(hist)
  PROVE  Fresh(hist, j)
<1> DEFINE vs == {hist[r].version : r \in Versioned(hist)}
           ranks == DOMAIN hist \cup {0}
<1>1. IsFiniteSet(DOMAIN hist) /\ DOMAIN hist \subseteq Nat \ {0}
  BY DEF TypeInv, RowsOK
<1>2. \A r \in DOMAIN hist : hist[r] \in Row
  BY DEF TypeInv, RowsOK
<1>3. DOMAIN hist = Successful(hist)
  BY DEF Problems, Successful
<1>4. /\ j.rank \in Nat \ {0} /\ \A r \in DOMAIN hist : r < j.rank
      /\ j.rank = 1 \/ j.rank - 1 \in DOMAIN hist
  <2>1. ranks \in SUBSET Nat /\ IsFiniteSet(ranks) /\ ranks # {}
    BY <1>1, FS_AddElement
  <2>2. Max(ranks) \in ranks /\ \A r \in ranks : r <= Max(ranks)
    BY <2>1, MaxOfNats
  <2>3. j.rank = Max(ranks) + 1
    BY DEF NextRank
  <2>4. /\ Max(ranks) \in Nat
        /\ Max(ranks) = 0 \/ Max(ranks) \in DOMAIN hist
        /\ \A r \in DOMAIN hist : r \in Nat /\ r <= Max(ranks)
    BY <2>1, <2>2
  <2> HIDE DEF ranks
  <2> QED
    BY <2>3, <2>4
<1>5. \A s \in Successful(hist) : hist[s].version = BadVersion => hist[s].type = "BASELINE"
  BY DEF Problems, Unresolved
<1>6. ASSUME NEW s \in Successful(hist), NEW i \in j.todo,
             hist[s].version \in Nat, j.migs[i].version \in Nat
      PROVE  hist[s].version < j.migs[i].version
  <2>1. s \in Versioned(hist) /\ hist[s].version \in vs /\ Versioned(hist) # {}
    BY <1>6 DEF Versioned
  <2>2. IsFiniteSet(Versioned(hist))
    BY <1>1, FS_Subset DEF Versioned, Successful
  <2>3. IsFiniteSet(vs)
    <3> DEFINE f == [r \in Versioned(hist) |-> hist[r].version]
    <3>1. f \in Surjection(Versioned(hist), vs)
      BY DEF Surjection
    <3> QED
      BY <2>2, <3>1, FS_Surjection
  <2>4. vs \in SUBSET Nat
    BY DEF Versioned
  <2>5. Max(vs) \in vs /\ \A v \in vs : v <= Max(vs)
    BY <2>1, <2>3, <2>4, MaxOfNats
  <2>6. MaxAppliedVersion(hist) = Max(vs)
    BY <2>1 DEF MaxAppliedVersion, Highest
  <2> HIDE DEF vs
  <2>7. MaxAppliedVersion(hist) \in Nat /\ hist[s].version <= MaxAppliedVersion(hist)
    BY <2>1, <2>4, <2>5, <2>6
  <2>8. /\ i \in DOMAIN j.migs /\ NeedsApply(j.migs[i], hist)
        /\ j.migs[i] \in Migration
    BY <1>6 DEF Pending, TypeInv, ProcInv, Job
  <2>9. j.migs[i].type = "versioned"
    BY <1>6, <2>8, HistoryAssumption DEF Migration
  <2>10. ~ (j.migs[i].version < MaxAppliedVersion(hist))
    BY <1>6, <2>7, <2>9, HistoryAssumption DEF OutOfOrder
  <2>11. j.migs[i].version # hist[s].version
    BY <1>6, <2>8, <2>9 DEF NeedsApply, VersionApplied
  <2> QED
    BY <1>6, <2>7, <2>10, <2>11
<1> QED
  BY <1>3, <1>4, <1>5, <1>6 DEF Fresh

-----------------------------------------------------------------------------
(* The invariant holds.                                                    *)

\* What every action has in common: it moves one process.
OnlyMoves(p) ==
  \A q \in Procs \ {p} : pc'[q] = pc[q] /\ job'[q] = job[q]

\* A process that relies on its view has a proper rank, and a fresh view as long
\* as its rank is not in the table.
LEMMA RelyingFacts ==
  ASSUME OrderInv, NEW p \in Procs, pc[p] \in Relying
  PROVE  /\ job[p].rank \in Nat \ {0}
         /\ Optimistic(hist, job[p])
         /\ job[p].rank \notin DOMAIN hist => Fresh(hist, job[p])
<1>1. job[p].rank \in Nat \ {0}
  BY DEF OrderInv, TypeInv, ProcInv, GoodProc, Relying, Applying, Job
<1> QED
  BY <1>1 DEF OrderInv, Optimistic, Successful

\* A step that leaves the history alone, and takes p no further in its reliance
\* on the same view.
LEMMA QuietStep ==
  ASSUME OrderInv, TypeInv', NEW p \in Procs, hist' = hist, OnlyMoves(p),
         pc'[p] # "commit",
         pc'[p] \in Relying => Optimistic(hist, job'[p])
  PROVE  OrderInv'
<1>1. \A q \in Procs : pc'[q] \in Relying => Optimistic(hist', job'[q])
  BY DEF OrderInv, OnlyMoves
<1>2. Exclusive'
  BY DEF OrderInv, OnlyMoves, Exclusive
<1> QED
  BY <1>1, <1>2 DEF OrderInv

\* The view of a job depends on its rank and on what it has to do.
LEMMA SameView ==
  ASSUME NEW j, NEW k, k.rank = j.rank, k.todo = j.todo, k.migs = j.migs,
         NEW rows, Optimistic(rows, j)
  PROVE  Optimistic(rows, k)
BY DEF Optimistic, Fresh

\* A row is added at the rank of p, and p does not stay at "commit".
LEMMA AddStep ==
  ASSUME OrderInv, TypeInv', NEW p \in Procs, pc[p] \in Relying, OnlyMoves(p),
         job[p].rank \notin DOMAIN hist, NEW row, row.success \in BOOLEAN,
         AddRow(job[p].rank, row),
         \A q \in Procs \ {p} : pc[q] = "commit" => job[q].rank # job[p].rank,
         pc'[p] # "commit",
         pc'[p] \in Relying => Optimistic(hist', job'[p])
  PROVE  OrderInv'
<1>1. DOMAIN hist \subseteq Nat \ {0}
  BY DEF OrderInv, TypeInv, RowsOK
<1>2. ASSUME NEW q \in Procs \ {p}, pc'[q] \in Relying
      PROVE  Optimistic(hist', job'[q])
  <2>1. pc[q] \in Relying /\ job'[q] = job[q]
    BY <1>2 DEF OnlyMoves
  <2>2. CASE row.success
    BY <1>1, <2>1, <2>2, RelyingFacts, OthersStale DEF Optimistic
  <2>3. CASE ~ row.success
    BY <1>1, <2>1, <2>3, RelyingFacts, FailedRowKeepsViews
  <2> QED
    BY <2>2, <2>3
<1>3. Exclusive'
  BY DEF OrderInv, OnlyMoves, Exclusive, AddRow
<1> QED
  BY <1>2, <1>3 DEF OrderInv

\* Initially no process relies on anything.
LEMMA InitOrder == Init => OrderInv
<1> SUFFICES ASSUME Init PROVE OrderInv
  OBVIOUS
<1>1. \A p \in Procs : pc[p] = "idle"
  BY DEF Init
<1> QED
  BY <1>1, InitType DEF OrderInv, Exclusive, Relying

\* Every step preserves the invariant.
LEMMA NextOrder == OrderInv /\ [Next]_vars => OrderInv'
<1> SUFFICES ASSUME OrderInv, [Next]_vars PROVE OrderInv'
  OBVIOUS
<1> USE DEF Goto
<1>t. TypeInv /\ TypeInv'
  BY NextType DEF OrderInv
<1>d. /\ DOMAIN job = Procs /\ DOMAIN pc = Procs
      /\ \A q \in Procs : GoodProc(pc[q], job[q], outcome[q])
  BY <1>t DEF TypeInv, ProcInv
<1>f. ASSUME NEW p \in Procs, NEW o, Finish(p, o)
      PROVE  OnlyMoves(p) /\ pc'[p] = "idle" /\ pc'[p] \notin Relying
  BY <1>d, <1>f DEF Finish, OnlyMoves, Relying
<1>q. ASSUME NEW p \in Procs, NEW o, Finish(p, o), hist' = hist
      PROVE  OrderInv'
  BY <1>t, <1>f, <1>q, QuietStep
<1>a. ASSUME NEW p \in Procs, Advance(p)
      PROVE  /\ OnlyMoves(p) /\ pc'[p] = "next"
             /\ job'[p].migs = job[p].migs /\ job'[p].rank = job[p].rank + 1
             /\ job'[p].todo = job[p].todo \ {Min(job[p].todo)}
  <2>1. /\ job'[p] = [job[p] EXCEPT !.todo = @ \ {Min(@)}, !.rank = @ + 1]
        /\ OnlyMoves(p) /\ pc'[p] = "next"
    BY <1>d, <1>a DEF Advance, OnlyMoves
  <2>2. job[p] \in Job
    BY <1>d DEF GoodProc
  <2> QED
    BY <2>1, <2>2 DEF Job
<1>r. ASSUME NEW p \in Procs, pc[p] \in {"exec", "commit"}, job[p].rank \notin DOMAIN hist,
             AddRow(job[p].rank, HistoryRow(Current(job[p]), TRUE)), Advance(p)
      PROVE  Optimistic(hist', job'[p])
  <2>1. job[p].todo # {} /\ job[p].rank \in Nat \ {0} /\ Fresh(hist, job[p])
    BY <1>d, <1>r, RelyingFacts DEF GoodProc, Relying
  <2>2. Fresh(hist', job'[p])
    BY <1>t, <1>r, <1>a, <2>1, OwnViewFresh
  <2> QED
    BY <2>2 DEF Optimistic
<1>1. ASSUME NEW p \in Procs, NEW c \in Commands, Start(p, c) PROVE OrderInv'
  BY <1>t, <1>d, <1>1, QuietStep DEF Start, OnlyMoves, Relying
<1>2. ASSUME NEW p \in Procs, RefuseBaseline(p) PROVE OrderInv'
  BY <1>2, <1>q DEF RefuseBaseline
<1>3. ASSUME NEW p \in Procs, EnsureHistory(p) PROVE OrderInv'
  <2>1. ASSUME NEW l \in {"read", "delete", "resolve"}, Goto(p, l), UNCHANGED <<job, hist>>
        PROVE  OrderInv'
    BY <1>t, <1>d, <2>1, QuietStep DEF OnlyMoves, Relying
  <2> QED
    BY <1>3, <1>q, <2>1 DEF EnsureHistory
<1>4. ASSUME NEW p \in Procs, Resolve(p) PROVE OrderInv'
  <2>1. ASSUME NEW files \in Disks, job' = [job EXCEPT ![p].migs = Resolved(files)],
               Goto(p, "read"), UNCHANGED hist
        PROVE  OrderInv'
    BY <1>t, <1>d, <2>1, QuietStep DEF OnlyMoves, Relying
  <2> QED
    BY <1>4, <1>q, <2>1 DEF Resolve
<1>5. ASSUME NEW p \in Procs, ReadFails(p) PROVE OrderInv'
  BY <1>5, <1>q DEF ReadFails
<1>6. ASSUME NEW p \in Procs, ReadForMigrate(p) PROVE OrderInv'
  <2> DEFINE migs == job[p].migs
             t == Pending(migs, hist)
             r == NextRank(hist)
  <2>1. ASSUME Problems(migs, hist) = {}, ~ OutOfOrder(migs, hist),
               job' = [job EXCEPT ![p].todo = t, ![p].rank = r], Goto(p, "next"),
               UNCHANGED hist
        PROVE  OrderInv'
    <3> HIDE DEF t, r
    <3>1. /\ job'[p].migs = migs /\ job'[p].todo = t /\ job'[p].rank = r
          /\ OnlyMoves(p) /\ pc'[p] = "next"
      BY <1>d, <2>1 DEF OnlyMoves, GoodProc, Job
    <3>2. Optimistic(hist, job'[p])
      BY <1>t, <2>1, <3>1, ReadViewFresh DEF Optimistic, t, r
    <3> QED
      BY <1>t, <2>1, <3>1, <3>2, QuietStep
  <2> QED
    BY <1>6, <1>q, <2>1 DEF ReadForMigrate
<1>7. ASSUME NEW p \in Procs, ReadForReport(p) PROVE OrderInv'
  BY <1>7, <1>q DEF ReadForReport
<1>8. ASSUME NEW p \in Procs, ReadForBaseline(p) PROVE OrderInv'
  <2>1. ASSUME DOMAIN hist = {}, job' = [job EXCEPT ![p].rank = 1], Goto(p, "insert"),
               UNCHANGED hist
        PROVE  OrderInv'
    <3>1. OnlyMoves(p) /\ pc'[p] = "insert" /\ job'[p].rank = 1
      BY <1>d, <2>1 DEF OnlyMoves, GoodProc, Job
    <3>2. Optimistic(hist, job'[p])
      BY <2>1, <3>1 DEF Optimistic, Fresh, Successful
    <3> QED
      BY <1>t, <2>1, <3>1, <3>2, QuietStep
  <2> QED
    BY <1>8, <1>q, <2>1 DEF ReadForBaseline
<1>9. ASSUME NEW p \in Procs, Prepare(p) PROVE OrderInv'
  <2>1. ASSUME job' = [job EXCEPT ![p].stmt = 1], Goto(p, "exec"), UNCHANGED hist
        PROVE  OrderInv'
    <3>1. /\ OnlyMoves(p) /\ pc'[p] = "exec" /\ job'[p].rank = job[p].rank
          /\ job'[p].todo = job[p].todo /\ job'[p].migs = job[p].migs
      BY <1>d, <2>1 DEF OnlyMoves, GoodProc, Job
    <3>2. Optimistic(hist, job'[p])
      BY <1>9, <3>1, SameView, RelyingFacts DEF Prepare, Relying
    <3> QED
      BY <1>t, <2>1, <3>1, <3>2, QuietStep
  <2> QED
    BY <1>9, <1>q, <2>1 DEF Prepare
<1>10. ASSUME NEW p \in Procs, ExecInTx(p) PROVE OrderInv'
  <2>1. ASSUME job' = [job EXCEPT ![p].stmt = @ + 1], UNCHANGED <<pc, hist>>
        PROVE  OrderInv'
    <3>1. /\ OnlyMoves(p) /\ pc'[p] = "exec" /\ job'[p].rank = job[p].rank
          /\ job'[p].todo = job[p].todo /\ job'[p].migs = job[p].migs
      BY <1>d, <1>10, <2>1 DEF ExecInTx, OnlyMoves, GoodProc, Job
    <3>2. Optimistic(hist, job'[p])
      BY <1>10, <3>1, SameView, RelyingFacts DEF ExecInTx, Relying
    <3> QED
      BY <1>t, <2>1, <3>1, <3>2, QuietStep
  <2> QED
    BY <1>10, <1>q, <2>1 DEF ExecInTx
<1>11. ASSUME NEW p \in Procs, ExecAutocommit(p) PROVE OrderInv'
  <2>1. /\ OnlyMoves(p) /\ pc'[p] = "exec" /\ job'[p].rank = job[p].rank
        /\ job'[p].todo = job[p].todo /\ job'[p].migs = job[p].migs
    <3>1. \/ job' = [job EXCEPT ![p].stmt = @ + 1]
          \/ job' = [job EXCEPT ![p].failed = TRUE]
      BY <1>11 DEF ExecAutocommit
    <3>2. pc' = pc /\ pc[p] = "exec"
      BY <1>11 DEF ExecAutocommit
    <3> QED
      BY <1>d, <3>1, <3>2 DEF OnlyMoves, GoodProc, Job
  <2>2. Optimistic(hist, job'[p])
    BY <1>11, <2>1, SameView, RelyingFacts DEF ExecAutocommit, Relying
  <2> QED
    BY <1>t, <1>11, <2>1, <2>2, QuietStep DEF ExecAutocommit
<1>12. ASSUME NEW p \in Procs, RecordInTx(p) PROVE OrderInv'
  <2>1. ASSUME ~ KeyTaken(p), Goto(p, "commit"), UNCHANGED <<job, hist>>
        PROVE  OrderInv'
    <3>1. OnlyMoves(p) /\ pc'[p] = "commit" /\ pc[p] = "exec"
      BY <1>d, <1>12, <2>1 DEF RecordInTx, OnlyMoves
    <3>2. Exclusive'
      BY <1>12, <2>1, <3>1 DEF RecordInTx, KeyTaken, KeyHeld, OrderInv, Exclusive, OnlyMoves
    <3>3. \A q \in Procs : pc'[q] \in Relying => Optimistic(hist', job'[q])
      BY <2>1, <3>1 DEF OrderInv, OnlyMoves, Relying
    <3> QED
      BY <1>t, <3>2, <3>3 DEF OrderInv
  <2> QED
    BY <1>12, <1>q, <2>1 DEF RecordInTx
<1>13. ASSUME NEW p \in Procs, Commit(p) PROVE OrderInv'
  <2> DEFINE row == HistoryRow(Current(job[p]), TRUE)
  <2>1. /\ pc[p] \in Relying /\ pc[p] = "commit" /\ job[p].rank \notin DOMAIN hist
        /\ \A q \in Procs \ {p} : pc[q] = "commit" => job[q].rank # job[p].rank
    BY <1>13 DEF Commit, Relying, OrderInv, Exclusive
  <2>2. row.success \in BOOLEAN
    BY DEF HistoryRow
  <2>3. ASSUME CommitEffect(p), Advance(p) PROVE OrderInv'
    <3>1. AddRow(job[p].rank, row)
      BY <2>3 DEF CommitEffect
    <3>2. Optimistic(hist', job'[p]) /\ OnlyMoves(p) /\ pc'[p] = "next"
      BY <1>a, <1>r, <2>1, <2>3, <3>1
    <3> HIDE DEF row
    <3> QED
      BY <1>t, <2>1, <2>2, <3>1, <3>2, AddStep
  <2>4. ASSUME CommitEffect(p), Finish(p, "failed") PROVE OrderInv'
    <3>1. AddRow(job[p].rank, row)
      BY <2>4 DEF CommitEffect
    <3>2. OnlyMoves(p) /\ pc'[p] = "idle" /\ pc'[p] \notin Relying
      BY <1>f, <2>4
    <3> HIDE DEF row
    <3> QED
      BY <1>t, <2>1, <2>2, <3>1, <3>2, AddStep
  <2> QED
    BY <1>13, <1>q, <2>3, <2>4 DEF Commit
<1>14. ASSUME NEW p \in Procs, RecordAutocommit(p) PROVE OrderInv'
  <2> DEFINE row == HistoryRow(Current(job[p]), ~ job[p].failed)
  <2>1. /\ pc[p] = "exec" /\ pc[p] \in Relying
        /\ \A q \in Procs : pc[q] # "commit"
    BY <1>d, <1>14 DEF RecordAutocommit, Relying, GoodProc
  <2>2. row.success \in BOOLEAN
    BY DEF HistoryRow
  <2>3. ASSUME ~ KeyTaken(p), AddRow(job[p].rank, row), NEW o, Finish(p, o) PROVE OrderInv'
    BY <1>t, <1>f, <2>1, <2>2, <2>3, AddStep DEF KeyTaken
  <2>4. ASSUME ~ KeyTaken(p), AddRow(job[p].rank, row), ~ job[p].failed, Advance(p)
        PROVE  OrderInv'
    <3>1. row = HistoryRow(Current(job[p]), TRUE)
      BY <2>4
    <3>2. Optimistic(hist', job'[p])
      BY <1>r, <2>1, <2>4, <3>1 DEF KeyTaken
    <3> QED
      BY <1>t, <1>a, <2>1, <2>2, <2>4, <3>2, AddStep DEF KeyTaken
  <2> QED
    BY <1>14, <1>q, <2>3, <2>4 DEF RecordAutocommit
<1>15. ASSUME NEW p \in Procs, InsertBaseline(p) PROVE OrderInv'
  <2>1. ASSUME ~ KeyTaken(p), AddRow(job[p].rank, BaselineRow), NEW o, Finish(p, o)
        PROVE  OrderInv'
    <3>1. /\ pc[p] \in Relying /\ BaselineRow.success \in BOOLEAN
          /\ \A q \in Procs \ {p} : pc[q] = "commit" => job[q].rank # job[p].rank
      BY <1>15 DEF InsertBaseline, Relying, BaselineRow, KeyHeld
    <3> QED
      BY <1>t, <1>f, <2>1, <3>1, AddStep DEF KeyTaken
  <2> QED
    BY <1>15, <1>q, <2>1 DEF InsertBaseline
<1>16. ASSUME NEW p \in Procs, DeleteFailed(p) PROVE OrderInv'
  <2>1. ASSUME hist' = Restrict(hist, Successful(hist)), NEW o, Finish(p, o)
        PROVE  OrderInv'
    <3>1. \A q \in Procs : pc'[q] \in Relying => Optimistic(hist', job'[q])
      BY <1>f, <2>1, RepairKeepsViews DEF OrderInv, OnlyMoves
    <3>2. DOMAIN hist' \subseteq DOMAIN hist
      BY <2>1 DEF Restrict, Successful
    <3>3. Exclusive'
      BY <1>f, <2>1, <3>2 DEF OrderInv, OnlyMoves, Exclusive
    <3> QED
      BY <1>t, <3>1, <3>3 DEF OrderInv
  <2> QED
    BY <1>16, <1>q, <2>1 DEF DeleteFailed
<1>17. ASSUME NEW p \in Procs, Crash(p) PROVE OrderInv'
  BY <1>17, <1>q DEF Crash
<1>18. CASE UNCHANGED vars
  BY <1>t, <1>18 DEF vars, OrderInv, Exclusive
<1> QED
  BY <1>1, <1>2, <1>3, <1>4, <1>5, <1>6, <1>7, <1>8, <1>9, <1>10, <1>11, <1>12,
     <1>13, <1>14, <1>15, <1>16, <1>17, <1>18 DEF Next, Step

-----------------------------------------------------------------------------
(* What the invariant says about steps.                                    *)

\* Process p adds a row at its rank from a fresh view: its next migration, a failed
\* one only where the row has a transaction of its own, or a baseline.
Adds(p, row) ==
  /\ pc[p] \in Relying /\ job[p].rank \notin DOMAIN hist /\ Fresh(hist, job[p])
  /\ AddRow(job[p].rank, row)
  /\ \/ /\ job[p].todo # {} /\ pc[p] \in {"exec", "commit"}
        /\ \E ok \in BOOLEAN : row = HistoryRow(Current(job[p]), ok) /\ (Transactional => ok)
     \/ pc[p] = "insert" /\ row = BaselineRow

\* The only steps that add a row.
LEMMA AddedFacts ==
  ASSUME OrderInv, [Next]_vars, Added # {}
  PROVE  \E p \in Procs : \E row : Adds(p, row)
<1>1. hist' # hist /\ ~ UNCHANGED vars
  BY DEF Added, vars
<1>2. PICK p \in Procs : Commit(p) \/ RecordAutocommit(p) \/ InsertBaseline(p) \/ DeleteFailed(p)
  BY <1>1 DEF Next, Step, Start, RefuseBaseline, EnsureHistory, Resolve, ReadFails,
     ReadForMigrate, ReadForReport, ReadForBaseline, Prepare, ExecInTx, ExecAutocommit,
     RecordInTx, Crash
<1>3. ~ DeleteFailed(p)
  BY <1>1 DEF DeleteFailed, Added, Restrict, Successful
<1>d. GoodProc(pc[p], job[p], outcome[p])
  BY DEF OrderInv, TypeInv, ProcInv
<1>4. CASE Commit(p)
  <2>1. AddRow(job[p].rank, HistoryRow(Current(job[p]), TRUE)) /\ pc[p] = "commit"
    BY <1>1, <1>4 DEF Commit, CommitEffect
  <2>2. job[p].rank \notin DOMAIN hist /\ job[p].todo # {} /\ pc[p] \in Relying
    BY <1>d, <2>1 DEF OrderInv, Exclusive, Relying, GoodProc
  <2> QED
    BY <1>4, <2>1, <2>2, RelyingFacts DEF Adds, Commit
<1>5. CASE RecordAutocommit(p)
  <2>1. /\ AddRow(job[p].rank, HistoryRow(Current(job[p]), ~ job[p].failed))
        /\ pc[p] = "exec" /\ job[p].rank \notin DOMAIN hist
    BY <1>1, <1>5 DEF RecordAutocommit, KeyTaken
  <2>2. job[p].todo # {} /\ pc[p] \in Relying
    BY <1>d, <2>1 DEF Relying, GoodProc
  <2>3. (~ job[p].failed) \in BOOLEAN
    OBVIOUS
  <2> QED
    BY <1>5, <2>1, <2>2, <2>3, RelyingFacts DEF Adds, RecordAutocommit
<1>6. CASE InsertBaseline(p)
  <2>1. /\ AddRow(job[p].rank, BaselineRow)
        /\ pc[p] = "insert" /\ job[p].rank \notin DOMAIN hist
    BY <1>1, <1>6 DEF InsertBaseline, KeyTaken
  <2> QED
    BY <2>1, RelyingFacts DEF Adds, Relying
<1> QED
  BY <1>2, <1>3, <1>4, <1>5, <1>6

\* A step rewrites the history in one of three ways.
LEMMA HistorySteps ==
  ASSUME OrderInv, [Next]_vars
  PROVE  \/ hist' = hist
         \/ hist' = Restrict(hist, Successful(hist))
         \/ \E r : r \notin DOMAIN hist /\ \E row : AddRow(r, row)
<1>1. CASE UNCHANGED vars
  BY <1>1 DEF vars
<1>2. CASE Next
  <2>1. PICK p \in Procs : \/ \E c \in Commands : Start(p, c)
                          \/ RefuseBaseline(p) \/ Step(p) \/ Crash(p)
    BY <1>2 DEF Next
  <2>2. CASE Commit(p)
    BY <2>2 DEF Commit, CommitEffect, OrderInv, Exclusive
  <2>3. CASE RecordAutocommit(p)
    BY <2>3 DEF RecordAutocommit, KeyTaken
  <2>4. CASE InsertBaseline(p)
    BY <2>4 DEF InsertBaseline, KeyTaken
  <2>5. CASE DeleteFailed(p)
    BY <2>5 DEF DeleteFailed
  <2> QED
    BY <2>1, <2>2, <2>3, <2>4, <2>5 DEF Step, Start, RefuseBaseline, EnsureHistory, Resolve,
       ReadFails, ReadForMigrate, ReadForReport, ReadForBaseline, Prepare, ExecInTx,
       ExecAutocommit, RecordInTx, Crash
<1> QED
  BY <1>1, <1>2

-----------------------------------------------------------------------------
(* The theorems.                                                           *)

\* The invariant that makes the optimistic scheme work.
THEOREM ViewsAreFreshOrStale == Spec => []OrderInv
BY InitOrder, NextOrder, PTL DEF Spec

\* Whatever runs at the same time, migrations are recorded in the order of their
\* versions, each version once.
THEOREM RecordedInOrder == Spec => AppendInOrder
<1> DEFINE Step1 == \A r \in Added : hist'[r].success =>
                     \A s \in Successful(hist) :
                       /\ s < r
                       /\ hist[s].version = BadVersion => hist[s].type = "BASELINE"
                       /\ (hist[s].version \in Nat /\ hist'[r].version \in Nat)
                            => hist[s].version < hist'[r].version
<1>1. ASSUME OrderInv, [Next]_vars PROVE Step1
  <2> SUFFICES ASSUME NEW r \in Added, NEW s \in Successful(hist)
               PROVE  /\ s < r
                      /\ hist[s].version = BadVersion => hist[s].type = "BASELINE"
                      /\ (hist[s].version \in Nat /\ hist'[r].version \in Nat)
                            => hist[s].version < hist'[r].version
    OBVIOUS
  <2>1. PICK p \in Procs : \E row : Adds(p, row)
    BY <1>1, AddedFacts
  <2>2. PICK row : Adds(p, row)
    BY <2>1
  <2>3. r = job[p].rank /\ hist'[r] = row
    BY <2>2 DEF Adds, Added, AddRow
  <2>4. s < r /\ (hist[s].version = BadVersion => hist[s].type = "BASELINE")
    BY <2>2, <2>3 DEF Adds, Fresh
  <2>5. CASE job[p].todo # {} /\ \E ok \in BOOLEAN : row = HistoryRow(Current(job[p]), ok)
    <3>1. row.version = job[p].migs[Min(job[p].todo)].version
      BY <2>5 DEF HistoryRow, Current
    <3>2. Min(job[p].todo) \in job[p].todo
      BY <1>1, <2>5, CurrentType DEF OrderInv, TypeInv
    <3> QED
      BY <2>2, <2>3, <2>4, <3>1, <3>2 DEF Adds, Fresh
  <2>6. CASE pc[p] = "insert"
    <3>1. job[p].rank = 1 /\ s \in Nat \ {0}
      BY <1>1, <2>6 DEF OrderInv, TypeInv, RowsOK, ProcInv, GoodProc, Successful
    <3> QED
      BY <2>3, <2>4, <3>1
  <2> QED
    BY <2>2, <2>5, <2>6 DEF Adds
<1>2. Spec => [][Step1]_vars
  BY <1>1, ViewsAreFreshOrStale, PTL DEF Spec
<1> QED
  BY <1>2 DEF AppendInOrder

\* Successful rows stay as they are for ever.
THEOREM SuccessKept == Spec => SuccessIsKept
<1> DEFINE Step1 == \A r \in Successful(hist) : r \in DOMAIN hist' /\ hist'[r] = hist[r]
<1>1. ASSUME OrderInv, [Next]_vars PROVE Step1
  BY <1>1, HistorySteps DEF AddRow, Restrict, Successful
<1>2. Spec => [][Step1]_vars
  BY <1>1, ViewsAreFreshOrStale, PTL DEF Spec
<1> QED
  BY <1>2 DEF SuccessIsKept

\* While a failed row is there nothing is recorded, not even by a migrate that
\* read the history before the failure.
THEOREM FailureBlocks == Spec => RepairBeforeMore
<1> DEFINE Step1 == Added # {} => Successful(hist) = DOMAIN hist
<1>1. ASSUME OrderInv, [Next]_vars PROVE Step1
  BY <1>1, AddedFacts DEF Adds, Fresh, Successful
<1>2. Spec => [][Step1]_vars
  BY <1>1, ViewsAreFreshOrStale, PTL DEF Spec
<1> QED
  BY <1>2 DEF RepairBeforeMore

=============================================================================
