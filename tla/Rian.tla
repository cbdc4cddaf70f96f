-------------------------------- MODULE Rian --------------------------------
(***************************************************************************)
(* rian commands running against one database: the engine                  *)
(* (internal/engine/engine.go) over a db.Conn, which is PostgreSQL         *)
(* (internal/db/postgres) when Transactional and MySQL (internal/db/mysql) *)
(* otherwise.                                                              *)
(*                                                                         *)
(* Several processes may run commands at the same time: two deploy jobs, or*)
(* two replicas of an application that migrate on start.  rian takes no    *)
(* lock; all that stands between them is the PRIMARY KEY on installed_rank.*)
(* A step of a process is one round trip to the database with the Go code  *)
(* up to the next one.                                                     *)
(***************************************************************************)
EXTENDS History, Sequences

CONSTANTS
  Procs,          \* processes that run rian, one command at a time
  Transactional,  \* Dialect.SupportsTransactionalDDL
  Commands,       \* the subcommands that are run
  Disks,          \* what the locations may hold: sequences Scan may return
  Stmts,          \* the number of statements a file content splits into
  Unresolvable,   \* contents that name a placeholder nobody defined
  BaselineAt,     \* Cfg.BaselineVersion
  Histories,      \* what the history may hold at first, all a conforming tool wrote
  Faults,         \* the failures that may strike, a bad argument among them
  MaxRuns         \* bound: the number of commands that are started

ASSUME ProcsAssumption == IsFiniteSet(Procs)

ASSUME TransactionalAssumption == Transactional \in BOOLEAN

ASSUME CommandsAssumption ==
  Commands \subseteq {"migrate", "validate", "info", "baseline", "repair"}

\* The order Scan returns: versioned migrations first, by strictly ascending
\* version (a duplicate is an error), then the repeatable ones.
ASSUME DisksAssumption ==
  \A files \in Disks :
    /\ files \in Seq(Migration)
    /\ \A i, j \in DOMAIN files :
         (i < j /\ files[j].type = "versioned")
           => files[i].type = "versioned" /\ files[i].version < files[j].version

ASSUME StmtsAssumption == Stmts \in [Checksums -> Nat]

ASSUME BaselineAssumption ==
  /\ BaselineAt \in Nat
  /\ "<< Flyway Baseline >>" \in Descriptions \cap Scripts

\* installed_rank counts from 1, and a tool that stops at the first failure
\* leaves a failed row only on top.
ASSUME HistoriesAssumption ==
  \A h \in Histories :
    /\ IsFiniteSet(DOMAIN h)
    /\ DOMAIN h \subseteq Nat \ {0}
    /\ h \in [DOMAIN h -> Row]
    /\ \A f \in DOMAIN h \ Successful(h) : \A r \in DOMAIN h : r <= f

ASSUME MaxRunsAssumption == MaxRuns \in Nat

VARIABLES
  table,    \* whether the history table exists
  hist,     \* its committed rows: a function from installed_rank to Row
  ran,      \* ran[c][k]: how often statement k of content c took effect
  pc,       \* what each process does next
  job,      \* the local state of the command each process runs
  outcome,  \* how the last command of each process ended
  runs      \* the number of commands started so far

vars == <<table, hist, ran, pc, job, outcome, runs>>

\* cmd: the subcommand; migs: resolve's result; todo: the positions of `pending`
\* that the loop of Migrate has not applied; rank: its variable of that name;
\* stmt: the statement ApplyMigration runs next; failed: execErr # nil.
NoJob == [cmd |-> "none", migs |-> <<>>, todo |-> {}, rank |-> 0,
          stmt |-> 1, failed |-> FALSE]

Job == [cmd : Commands \cup {"none"}, migs : Seq(Migration), todo : SUBSET Nat,
        rank : Nat, stmt : Nat \ {0}, failed : BOOLEAN]

PC == {"idle", "ensure", "resolve", "read", "next", "exec", "commit",
       "insert", "delete"}

\* How often the rows of a history say content c was applied.
Recorded(rows, c) == Cardinality({r \in Successful(rows) : rows[r].checksum = c})

Init ==
  /\ table \in BOOLEAN
  /\ hist \in IF table THEN Histories ELSE {<<>>}
  /\ ran = [c \in Checksums |-> [k \in 1..Stmts[c] |-> Recorded(hist, c)]]
  /\ pc = [p \in Procs |-> "idle"]
  /\ job = [p \in Procs |-> NoJob]
  /\ outcome = [p \in Procs |-> "none"]
  /\ runs = 0

-----------------------------------------------------------------------------
(* The steps of a process.                                                 *)

Goto(p, l) == pc' = [pc EXCEPT ![p] = l]

\* Faulty: what the command worked on survives it.
FinishKeepingJob(p, o) ==
  /\ Goto(p, "idle")
  /\ outcome' = [outcome EXCEPT ![p] = o]
  /\ UNCHANGED job

\* The command returns: its locals are gone, and an open transaction with them.
Finish(p, o) ==
  /\ Goto(p, "idle")
  /\ outcome' = [outcome EXCEPT ![p] = o]
  /\ job' = [job EXCEPT ![p] = NoJob]

\* INSERT of a row that is committed.
AddRow(r, row) ==
  hist' = [x \in DOMAIN hist \cup {r} |-> IF x = r THEN row ELSE hist[x]]

\* Statement k of content c takes effect.
Effect(c, k) == ran' = [ran EXCEPT ![c][k] = @ + 1]

\* Faulty: no wait for an uncommitted row; a wait from the first statement on.
KeyNeverHeld(p) == FALSE
KeyHeldEarly(p) == \E q \in Procs \ {p} : /\ pc[q] \in {"exec", "commit"}
                                         /\ job[q].rank = job[p].rank

\* PostgreSQL makes an INSERT wait while another transaction holds the same
\* primary key uncommitted.
KeyHeld(p) == \E q \in Procs \ {p} : pc[q] = "commit" /\ job[q].rank = job[p].rank

\* Faulty: the row replaces the one that is there (INSERT .. ON CONFLICT UPDATE).
KeyNeverTaken(p) == FALSE

\* The PRIMARY KEY on installed_rank refuses a second row of a rank.
KeyTaken(p) == job[p].rank \in DOMAIN hist

\* engine.resolve keys checksums and contents by Script: of two files with one
\* base name the last one read supplies both.
Resolved(files) ==
  LET last(i) == Max({j \in DOMAIN files : files[j].script = files[i].script})
  IN  [i \in DOMAIN files |-> [files[i] EXCEPT !.checksum = files[last(i)].checksum]]

\* The migration the loop of Migrate is at.
Current(j) == j.migs[Min(j.todo)]

\* Faulty: a row without the outcome, the checksum, or the version.
RowAlwaysOk(m, ok) ==
  [version |-> m.version, description |-> m.description, type |-> "SQL",
   script |-> m.script, checksum |-> m.checksum, success |-> TRUE]
RowWithoutChecksum(m, ok) ==
  [version |-> m.version, description |-> m.description, type |-> "SQL",
   script |-> m.script, checksum |-> NoChecksum, success |-> ok]
RowWithoutVersion(m, ok) ==
  [version |-> NoVersion, description |-> m.description, type |-> "SQL",
   script |-> m.script, checksum |-> m.checksum, success |-> ok]

\* engine.historyRow, with the Success ApplyMigration gives it.
HistoryRow(m, ok) ==
  [version |-> m.version, description |-> m.description, type |-> "SQL",
   script |-> m.script, checksum |-> m.checksum, success |-> ok]

BaselineRow ==
  [version |-> BaselineAt, description |-> "<< Flyway Baseline >>",
   type |-> "BASELINE", script |-> "<< Flyway Baseline >>",
   checksum |-> NoChecksum, success |-> TRUE]

\* What an operation whose round trip fails leaves behind: nothing, or all of
\* its effect when only the answer was lost.
Fails(fault) == fault \in Faults
AnswerLost == "answer" \in Faults

-----------------------------------------------------------------------------
Start(p, c) ==
  /\ pc[p] = "idle"
  /\ runs < MaxRuns
  /\ runs' = runs + 1
  /\ Goto(p, "ensure")
  /\ job' = [job EXCEPT ![p] = [NoJob EXCEPT !.cmd = c]]
  /\ outcome' = [outcome EXCEPT ![p] = "running"]
  /\ UNCHANGED <<table, hist, ran>>

\* Baseline is given a version that does not parse: it returns before it touches
\* the database.
RefuseBaseline(p) ==
  /\ pc[p] = "idle"
  /\ runs < MaxRuns
  /\ runs' = runs + 1
  /\ "baseline" \in Commands /\ Fails("version")
  /\ Finish(p, "failed")
  /\ UNCHANGED <<table, hist, ran>>

EnsureHistory(p) ==
  /\ pc[p] = "ensure"
  /\ \/ /\ table' = TRUE
        /\ Goto(p, CASE job[p].cmd = "baseline" -> "read"
                     [] job[p].cmd = "repair" -> "delete"
                     [] OTHER -> "resolve")
        /\ UNCHANGED <<job, outcome>>
     \/ /\ Fails("ensure")
        /\ table' \in {table} \cup (IF AnswerLost THEN {TRUE} ELSE {})
        /\ Finish(p, "failed")
  /\ UNCHANGED <<hist, ran, runs>>

Resolve(p) ==
  /\ pc[p] = "resolve"
  /\ \/ /\ \E files \in Disks : job' = [job EXCEPT ![p].migs = Resolved(files)]
        /\ Goto(p, "read")
        /\ UNCHANGED outcome
     \/ /\ Fails("scan")
        /\ Finish(p, "failed")
  /\ UNCHANGED <<table, hist, ran, runs>>

ReadFails(p) ==
  /\ pc[p] = "read"
  /\ Fails("read")
  /\ Finish(p, "failed")
  /\ UNCHANGED <<table, hist, ran, runs>>

\* Migrate, from ReadHistory to the loop over `pending`.
ReadForMigrate(p) ==
  LET migs == job[p].migs IN
  /\ pc[p] = "read" /\ job[p].cmd = "migrate"
  /\ \/ /\ Problems(migs, hist) # {} \/ OutOfOrder(migs, hist)
        /\ Finish(p, "failed")
     \/ /\ Problems(migs, hist) = {} /\ ~ OutOfOrder(migs, hist)
        /\ job' = [job EXCEPT ![p].todo = Pending(migs, hist),
                              ![p].rank = NextRank(hist)]
        /\ Goto(p, "next")
        /\ UNCHANGED outcome
  /\ UNCHANGED <<table, hist, ran, runs>>

\* validate exits with an error when there are problems, info never does.
ReadForReport(p) ==
  /\ pc[p] = "read" /\ job[p].cmd \in {"validate", "info"}
  /\ Finish(p, IF job[p].cmd = "validate" /\ Problems(job[p].migs, hist) # {}
               THEN "failed" ELSE "ok")
  /\ UNCHANGED <<table, hist, ran, runs>>

ReadForBaseline(p) ==
  /\ pc[p] = "read" /\ job[p].cmd = "baseline"
  /\ \/ /\ DOMAIN hist # {}
        /\ Finish(p, "failed")
     \/ /\ DOMAIN hist = {}
        /\ job' = [job EXCEPT ![p].rank = 1]
        /\ Goto(p, "insert")
        /\ UNCHANGED outcome
  /\ UNCHANGED <<table, hist, ran, runs>>

\* The loop of Migrate: its end, or prepare for the next pending migration.
Prepare(p) ==
  /\ pc[p] = "next"
  /\ \/ /\ job[p].todo = {}
        /\ Finish(p, "ok")
     \/ /\ job[p].todo # {}
        /\ Current(job[p]).checksum \in Unresolvable
        /\ Finish(p, "failed")
     \/ /\ job[p].todo # {}
        /\ Current(job[p]).checksum \notin Unresolvable
        /\ job' = [job EXCEPT ![p].stmt = 1]
        /\ Goto(p, "exec")
        /\ UNCHANGED outcome
  /\ UNCHANGED <<table, hist, ran, runs>>

-----------------------------------------------------------------------------
(* ApplyMigration.                                                         *)

AllRun(j) == j.stmt > Stmts[Current(j).checksum]

\* Faulty: rank is not incremented.
AdvanceSameRank(p) ==
  /\ job' = [job EXCEPT ![p].todo = @ \ {Min(@)}]
  /\ Goto(p, "next")
  /\ UNCHANGED outcome

\* The migration is recorded: append it to Applied and go round the loop.
Advance(p) ==
  /\ job' = [job EXCEPT ![p].todo = @ \ {Min(@)}, ![p].rank = @ + 1]
  /\ Goto(p, "next")
  /\ UNCHANGED outcome

\* Whether the next statement may fail: for a reason of its own, or because what
\* it makes is there already (CREATE TABLE without IF NOT EXISTS).
StmtMayFail(j) ==
  \/ Fails("stmt")
  \/ Fails("rerun") /\ ran[Current(j).checksum][j.stmt] > 0

\* Faulty: statements run on the connection, not in the transaction.
ExecOutsideTx(p) ==
  /\ Transactional
  /\ pc[p] = "exec" /\ ~ AllRun(job[p])
  /\ Effect(Current(job[p]).checksum, job[p].stmt)
  /\ job' = [job EXCEPT ![p].stmt = @ + 1]
  /\ UNCHANGED <<table, hist, pc, outcome, runs>>

\* PostgreSQL: statements run in a transaction, invisible until it commits.
ExecInTx(p) ==
  /\ Transactional
  /\ pc[p] = "exec" /\ ~ AllRun(job[p])
  /\ \/ /\ job' = [job EXCEPT ![p].stmt = @ + 1]
        /\ UNCHANGED <<pc, outcome>>
     \/ /\ StmtMayFail(job[p])
        /\ Finish(p, "failed")
  /\ UNCHANGED <<table, hist, ran, runs>>

\* MySQL: every statement commits by itself; the first error ends the loop.
ExecAutocommit(p) ==
  LET c == Current(job[p]).checksum IN
  /\ ~ Transactional
  /\ pc[p] = "exec" /\ ~ AllRun(job[p]) /\ ~ job[p].failed
  /\ \/ /\ Effect(c, job[p].stmt)
        /\ job' = [job EXCEPT ![p].stmt = @ + 1]
     \/ /\ StmtMayFail(job[p])
        /\ UNCHANGED ran
        /\ job' = [job EXCEPT ![p].failed = TRUE]
     \/ /\ Fails("stmt") /\ AnswerLost
        /\ Effect(c, job[p].stmt)
        /\ job' = [job EXCEPT ![p].failed = TRUE]
  /\ UNCHANGED <<table, hist, pc, outcome, runs>>

\* PostgreSQL: the history row is inserted in the same transaction.
RecordInTx(p) ==
  /\ Transactional
  /\ pc[p] = "exec" /\ AllRun(job[p])
  /\ ~ KeyHeld(p)
  /\ \/ /\ ~ KeyTaken(p)
        /\ Goto(p, "commit")
        /\ UNCHANGED <<job, outcome>>
     \/ /\ KeyTaken(p) \/ Fails("insert")
        /\ Finish(p, "failed")
  /\ UNCHANGED <<table, hist, ran, runs>>

CommitEffect(p) ==
  LET m == Current(job[p]) IN
  /\ AddRow(job[p].rank, HistoryRow(m, TRUE))
  /\ ran' = [ran EXCEPT ![m.checksum] = [k \in 1..Stmts[m.checksum] |-> @[k] + 1]]

Commit(p) ==
  /\ pc[p] = "commit"
  /\ \/ CommitEffect(p) /\ Advance(p)
     \/ /\ Fails("commit")
        /\ UNCHANGED <<hist, ran>>
        /\ Finish(p, "failed")
     \/ /\ Fails("commit") /\ AnswerLost
        /\ CommitEffect(p)
        /\ Finish(p, "failed")
  /\ UNCHANGED <<table, runs>>

\* MySQL: the row records how the statements ended, in a transaction of its own.
RecordAutocommit(p) ==
  LET row == HistoryRow(Current(job[p]), ~ job[p].failed) IN
  /\ ~ Transactional
  /\ pc[p] = "exec" /\ (AllRun(job[p]) \/ job[p].failed)
  /\ \/ /\ ~ KeyTaken(p)
        /\ AddRow(job[p].rank, row)
        /\ IF job[p].failed THEN Finish(p, "failed") ELSE Advance(p)
     \/ /\ KeyTaken(p) \/ Fails("insert")
        /\ UNCHANGED hist
        /\ Finish(p, "failed")
     \/ /\ ~ KeyTaken(p) /\ Fails("insert") /\ AnswerLost
        /\ AddRow(job[p].rank, row)
        /\ Finish(p, "failed")
  /\ UNCHANGED <<table, ran, runs>>

-----------------------------------------------------------------------------
\* InsertHistory of the baseline row, in a transaction of its own.
InsertBaseline(p) ==
  /\ pc[p] = "insert"
  /\ ~ KeyHeld(p)
  /\ \/ /\ ~ KeyTaken(p)
        /\ AddRow(job[p].rank, BaselineRow)
        /\ \/ Finish(p, "ok")
           \/ Fails("insert") /\ AnswerLost /\ Finish(p, "failed")
     \/ /\ KeyTaken(p) \/ Fails("insert")
        /\ UNCHANGED hist
        /\ Finish(p, "failed")
  /\ UNCHANGED <<table, ran, runs>>

\* Faulty: the DELETE has no condition.
DeleteAll(p) ==
  /\ pc[p] = "delete"
  /\ hist' = <<>>
  /\ Finish(p, "ok")
  /\ UNCHANGED <<table, ran, runs>>

DeleteFailed(p) ==
  /\ pc[p] = "delete"
  /\ \/ /\ hist' = Restrict(hist, Successful(hist))
        /\ \/ Finish(p, "ok")
           \/ Fails("delete") /\ AnswerLost /\ Finish(p, "failed")
     \/ /\ Fails("delete")
        /\ UNCHANGED hist
        /\ Finish(p, "failed")
  /\ UNCHANGED <<table, ran, runs>>

\* The process is killed; the server rolls an open transaction back.
Crash(p) ==
  /\ Fails("crash")
  /\ pc[p] # "idle"
  /\ Finish(p, "crashed")
  /\ UNCHANGED <<table, hist, ran, runs>>

\* What a command does once it is started, short of being killed.
Step(p) ==
  \/ EnsureHistory(p)
  \/ Resolve(p)
  \/ ReadFails(p)
  \/ ReadForMigrate(p)
  \/ ReadForReport(p)
  \/ ReadForBaseline(p)
  \/ Prepare(p)
  \/ ExecInTx(p)
  \/ ExecAutocommit(p)
  \/ RecordInTx(p)
  \/ Commit(p)
  \/ RecordAutocommit(p)
  \/ InsertBaseline(p)
  \/ DeleteFailed(p)

Next ==
  \E p \in Procs :
    \/ \E c \in Commands : Start(p, c)
    \/ RefuseBaseline(p)
    \/ Step(p)
    \/ Crash(p)

Spec == Init /\ [][Next]_vars

\* A started command goes on: the driver and the server answer every call.
Fairness == \A p \in Procs : WF_vars(Step(p))

FairSpec == Spec /\ Fairness

-----------------------------------------------------------------------------
(* What must hold.                                                         *)

\* The state is well formed: the history has finitely many rows, ranked from 1,
\* and each process holds a job only while its command runs.
TypeOK ==
  /\ table \in BOOLEAN
  /\ IsFiniteSet(DOMAIN hist)
  /\ DOMAIN hist \subseteq Nat \ {0}
  /\ hist \in [DOMAIN hist -> Row]
  /\ DOMAIN ran = Checksums
  /\ \A c \in Checksums : ran[c] \in [1..Stmts[c] -> Nat]
  /\ pc \in [Procs -> PC]
  /\ job \in [Procs -> Job]
  /\ outcome \in [Procs -> {"none", "running", "ok", "failed", "crashed"}]
  /\ runs \in 0..MaxRuns
  /\ \A p \in Procs : /\ pc[p] = "idle" <=> outcome[p] # "running"
                      /\ pc[p] = "idle" => job[p] = NoJob

\* Rows that a step adds to the history.
Added == DOMAIN hist' \ DOMAIN hist

\* Migrations are recorded in order whatever runs at the same time: a successful
\* row comes after every successful row in rank and, when versioned, in version,
\* and never joins a migration whose version cannot be parsed.  So no version is ever
\* recorded twice.  The check is made when the history is read, the row is
\* inserted much later (engine.go:90-120); the primary key is all that holds it.
AppendInOrder ==
  [][\A r \in Added : hist'[r].success =>
       \A s \in Successful(hist) :
         /\ s < r
         /\ hist[s].version = BadVersion => hist[s].type = "BASELINE"
         /\ (hist[s].version \in Nat /\ hist'[r].version \in Nat)
              => hist[s].version < hist'[r].version]_vars

\* A successful row is never removed or changed, by repair or by anything else
\* that runs beside it.
SuccessIsKept ==
  [][\A r \in Successful(hist) : r \in DOMAIN hist' /\ hist'[r] = hist[r]]_vars

\* A failed migration blocks: nothing is recorded while a failed row is there,
\* not even by a migrate that read the history before it failed.  "The migration
\* then requires repair" (db/conn.go:18-19).
RepairBeforeMore == [][Added # {} => Successful(hist) = DOMAIN hist]_vars

\* The statements of a content took effect as often as rows say it was applied;
\* on MySQL, where they commit one by one, at least as often.
EffectsMatchRows ==
  \A c \in Checksums : \A k \in 1..Stmts[c] :
    IF Transactional THEN ran[c][k] = Recorded(hist, c)
                     ELSE ran[c][k] >= Recorded(hist, c)

\* The history as migrate p left it: without what others recorded later.
HistoryUpTo(p) == Restrict(hist, {r \in DOMAIN hist : r < job[p].rank})

\* A migrate that ends well has nothing left to apply: running it again on the
\* same files is a no-op.
OkMeansUpToDate ==
  [][\A p \in Procs :
       (job[p].cmd = "migrate" /\ pc[p] # "idle" /\ outcome'[p] = "ok")
         => Pending(job[p].migs, HistoryUpTo(p)) = {}]_vars

\* "Migrate applies all pending migrations" (engine.go:77): when it ends well, every
\* repeatable file that was found has run.
EveryFileRuns ==
  [][\A p \in Procs :
       (job[p].cmd = "migrate" /\ pc[p] # "idle" /\ outcome'[p] = "ok")
         => \E files \in Disks :
              /\ job[p].migs = Resolved(files)
              /\ \A i \in DOMAIN files : files[i].type = "repeatable"
                   => \A k \in 1..Stmts[files[i].checksum] : ran'[files[i].checksum][k] > 0]_vars

\* What info shows is true of the schema as well as of the history: when the files
\* validate, a repeatable migration shown as applied has run from end to end with the
\* content it has now, and so has a versioned one, unless it is the version the schema
\* was baselined at.  (A row of a version without a checksum says too little.)
InfoIsTrue ==
  \A migs \in {Resolved(files) : files \in Disks} :
    (/\ Problems(migs, hist) = {}
     /\ \A r \in Versioned(hist) : hist[r].checksum = NoChecksum => hist[r].type = "BASELINE")
      => \A i \in DOMAIN migs :
           Status(migs, hist, i) = "Applied" =>
             \/ \A k \in 1..Stmts[migs[i].checksum] : ran[migs[i].checksum][k] > 0
             \/ migs[i].type = "versioned" /\ migs[i].version = BaselineVersion(hist)

\* Migrates that run at once cannot all lose: when all have ended, and nothing
\* failed but to redo what another did or to take a key another took, the schema
\* is up to date with one of the releases.
SomeoneFinishes ==
  (runs > 0 /\ \A p \in Procs : pc[p] = "idle")
    => \E files \in Disks : /\ Problems(Resolved(files), hist) = {}
                            /\ Pending(Resolved(files), hist) = {}

\* The history changes as if the commands ran one at a time, each migration
\* decided upon and recorded in one step (docs/architecture.md:15-17).
Serial == INSTANCE Ledger WITH Releases <- {Resolved(files) : files \in Disks}

ActsSerially == Serial!Spec

\* On a failed statement MySQL's ApplyMigration "records the row with
\* success=false and returns the error" (db/conn.go:18-19).
FailureIsRecorded ==
  [][\A p \in Procs :
       (pc[p] = "exec" /\ job[p].failed /\ outcome'[p] = "failed")
         => /\ job[p].rank \in DOMAIN hist'
            /\ ~ hist'[job[p].rank].success]_vars

\* A command that was started ends: no process waits for ever for a primary key
\* that another one holds.
CommandEnds == \A p \in Procs : (pc[p] # "idle") ~> (pc[p] = "idle")

=============================================================================
